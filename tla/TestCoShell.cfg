SPECIFICATION SessionSpec
CONSTANTS
  comstate = comstate
  other = other
  x = x
  y = y
  NoValue = NoValue
  Garbage = Garbage
  Names <- MCNames
  BuiltIn <- MCBuiltIn
  Scalars <- MCScalars
  Vectors <- MCVectors
  Sizes <- MCSizes
  Comstate = comstate
  SizeAsked = 2
  MaxTime = 3
  MaxEpochs = 2
  MaxLosses = 2
INVARIANTS
  SessionTypeOK
  SetUpHolds
  AbortsOnlyWarned
PROPERTIES
  ReadsLastSamples
  SessionEnds
CHECK_DEADLOCK FALSE
