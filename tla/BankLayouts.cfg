\* Layouts and direct allocations in any order, with and without a reset,
\* the tiles the planner finds and the alternatives it suggests.
\* Times in units of 50 ps: II = 6 at 1.6 GHz, 10 GB/s, 20 us.
SPECIFICATION PlanSpec
CONSTANTS
  NumBanks = 4
  BankBytes = 16384
  L1Bytes = 65536
  Tiles <- FullTiles
  InBytes = 2
  OutBytes = 4
  StackBytes = 256
  Alignment = 64
  Direct <- AnyBuffer
  MaxCalls = 2
  Problems <- SomeProblems
  Asked <- SomeAsked
  MaxCores = 32
  UKernelTime = 75
  ByteTime = 2
  StartupTime = 400000
  TopCount = 10
INVARIANT NoOverlap
INVARIANT WithinBank
INVARIANT ReturnedFits
INVARIANT DualLoadSafe
INVARIANT OperandsPlaced
INVARIANT OffsetsAligned
INVARIANT RefusedOnlyWhenFull
INVARIANT AllocatorsAgree
INVARIANT BestPlaced
INVARIANT AlternativesRight
