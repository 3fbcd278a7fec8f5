SPECIFICATION Spec
CONSTANTS
  f = f
  NoFile = NoFile
  Files <- MCOneFile
  Raises <- MCRaises
  MaxLines = 2
  MaxLoops = 2
  MaxExecuted = 1
INVARIANTS
  TypeOK
  InOrderOnce
  NoUseAfterDestroy
  DiesOnlyOfRaise
PROPERTIES
  LoopEnds
  LinesExecuted
CHECK_DEADLOCK FALSE
