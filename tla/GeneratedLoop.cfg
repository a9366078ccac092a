\* The K loop of the generated kernel, in a tile of 16 x 64 x 16.
SPECIFICATION Spec
CONSTANTS
  MTile = 16
  KTile = 64
  NTile = 16
  InterleaveFactor = 4
  KStepCounts <- FewSteps
CHECK_DEADLOCK FALSE
INVARIANT EachPairOnce
