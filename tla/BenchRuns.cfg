\* Two processes, every outcome of the command, crashes at any step.
SPECIFICATION Spec
CONSTANTS
  p1 = p1  p2 = p2
  r1 = r1  r2 = r2
  Summary = Summary
  Proc = {p1, p2}
  Path = {Summary, r1, r2}
  NoPath = NoPath
  Inode = {i1, i2, i3, i4, i5, i6, i7, i8}
  NoInode = NoInode
  Entry <- Entries
  RunFile <- RunFiles
  Warmups <- AnyWarmup
  Iters <- AnyIters
  MaxRuns = 2
  MaxKills = 1
INVARIANT SuccessTimedThroughout
INVARIANT ListedRunsHaveRecords
INVARIANT SummaryKeepsRuns
SYMMETRY Symmetry
CHECK_DEADLOCK FALSE
