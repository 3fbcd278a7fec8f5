SPECIFICATION ProtocolSpec
CONSTANTS
  n1 = n1
  n2 = n2
  position = position
  x = x
  y = y
  NoValue = NoValue
  Garbage = Garbage
  Names <- MCNames
  BuiltIn <- MCBuiltIn
  Scalars <- MCScalars
  Vectors <- MCMoreVectors
  Sizes = {0, 1, 2, 3}
  MaxTime = 5
INVARIANTS
  BuffersFit
  NeverAborts
  ReadsReturnWindow
PROPERTY
  WindowSpec
