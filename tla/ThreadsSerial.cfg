SPECIFICATION SerialSpec
CONSTANTS
  t1 = t1
  t2 = t2
  n1 = n1
  n2 = n2
  position = position
  Upcalls <- MCUpcalls
  Names <- MCNames
  BuiltIn <- MCBuiltIn
  Sizes = {1, 2}
INVARIANTS
  TypeOK
  BuffersFollowSignals
  AbortsOnlyDangling
PROPERTY
  TableSpec
CHECK_DEADLOCK FALSE
