SPECIFICATION Spec
CONSTANTS
  Faults <- CollectingFaults
  WorkerLines = {"hello", "response"}
  MaxLines = 2
  MaxStderr = 2
  RetainedStderr = 1
  PipeCapacity = 1
  RequestChunks = 1
INVARIANTS
  ScratchOutlivesWorker
  NothingLeftBehind
  DiagnosticsAreComplete
PROPERTIES
  ImplementsEvaluationCall
  FirstFailureKept
