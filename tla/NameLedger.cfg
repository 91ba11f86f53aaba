SPECIFICATION Spec
CONSTANTS
  OwnerKinds = {"gem"}
  PlainKinds = {"stat"}
  SlotKinds = {"parameter"}
  Reasons = {"cut"}
  Names = {1, 2}
  Files <- Registries
  Requests <- Asked
  Schemas <- Described
  MaxEntries = 3
  MaxBytes = 12
  MaxInteger = 5
  MetaBytes = 1
  EntryBytes = 2
  ReasonBytes <- Weights
  MaxNames = 3
  MaxRequests = 2
  MaxBuilt = 3
INVARIANTS
  NamesAreKept
  RequestsAreMet
  RetryFindsTheSame
