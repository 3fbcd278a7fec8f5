SPECIFICATION Spec
CONSTANTS
  n1 = n1
  n2 = n2
  position = position
  x = x
  y = y
  NoValue = NoValue
  Garbage = Garbage
  Names <- MCNames
  BuiltIn <- MCBuiltIn
  Scalars <- MCScalars
  Vectors <- MCVectors
  Sizes = {0, 1, 2}
  MaxTime = 2
INVARIANTS
  TypeOK
  RanksAgree
  HandedRanksHold
PROPERTIES
  InputTable
  OutputTable
CHECK_DEADLOCK FALSE
