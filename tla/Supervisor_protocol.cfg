SPECIFICATION FairSpec
CONSTANTS
  Faults = {"thread", "panic", "wait"}
  WorkerLines = {"hello", "response", "stale", "long"}
  MaxLines = 3
  MaxStderr = 0
  RetainedStderr = 1
  PipeCapacity = 1
  RequestChunks = 2
INVARIANTS
  SnapshotIsEarned
PROPERTIES
  EveryCallReturns
