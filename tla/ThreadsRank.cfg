SPECIFICATION Spec
CONSTANTS
  t1 = t1
  t2 = t2
  n1 = n1
  n2 = n2
  position = position
  Upcalls <- MCUpcalls
  Names <- MCNames
  BuiltIn <- MCBuiltIn
  Sizes = {1, 2}
INVARIANT
  ReturnsOwnRank
CHECK_DEADLOCK FALSE
