SPECIFICATION FairWorkerSpec
CONSTANTS
  Faults = {}
  WorkerLines = {"hello", "response", "failure"}
  MaxLines = 2
  MaxStderr = 4
  RetainedStderr = 1
  PipeCapacity = 2
  RequestChunks = 3
INVARIANTS
  AnswerIsReported
PROPERTIES
  NoPipeDeadlock
