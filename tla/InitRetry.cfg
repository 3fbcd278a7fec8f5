SPECIFICATION Spec
CONSTANTS
  Contexts = {"sot", "other"}
  DEFAULT_CONTEXT_NAME = "sot"
  MaxEpochs = 2
INVARIANT
  InitCorbaRegisters
CHECK_DEADLOCK FALSE
