SPECIFICATION SystemSpec
CONSTANTS
  c1 = c1
  c2 = c2
  Contexts = {"sot", "other"}
  DEFAULT_CONTEXT_NAME = "sot"
  MaxEpochs = 2
  Clients <- MCOneClient
  MaxLines = 2
  MaxLosses = 2
INVARIANTS
  ShellTypeOK
  StartServes
  NoneSkipped
  AtMostTwice
  PromptAfterExecution
  CallbackOfLiving
PROPERTIES
  CallsEnd
CHECK_DEADLOCK FALSE
