SPECIFICATION Spec
CONSTANTS
  Garbage = Garbage
  Size = 3
  MaxTime = 8
INVARIANTS
  TypeOK
  OnlyWrittenCells
  ValueNotOlder
PROPERTY
  EmptyOnlyAtTurn
