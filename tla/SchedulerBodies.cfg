\* The bodies of the GEMM loop, and all bodies of up to three instructions of a
\* menu whose graph has no cycle.
SPECIFICATION FairSpec
CONSTANTS
  Reg <- Registers
  Bodies <- MixedBodies
  Interleaves = {1, 4}
  Targets = {0, 8}
  MaxII = 12
INVARIANT TypeOK
INVARIANT DependencesHold
INVARIANT UnitsExclusive
INVARIANT WindowsOpen
INVARIANT IssuedEvenly
PROPERTY SchedulingEnds
