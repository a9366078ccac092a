\* Every kernel of experiments 9a and 10, of blocks of 2 x 2.
SPECIFICATION Spec
CONSTANTS
  Edge = 2
  Shapes <- SmallShapes
INVARIANT TypeOK
INVARIANT OperandsArrived
INVARIANT TileRight
INVARIANT SumOrder
