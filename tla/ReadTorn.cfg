SPECIFICATION Spec
CONSTANTS
  Garbage = Garbage
  Size = 2
  MaxTime = 4
INVARIANT
  NoTornRow
