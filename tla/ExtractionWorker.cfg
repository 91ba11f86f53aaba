SPECIFICATION FairExtractionSpec
CONSTANTS
  Limit = 2
INVARIANTS
  NothingLeftRunning
PROPERTIES
  AdmittedIsFinal
  CallReturns
CHECK_DEADLOCK FALSE
