SPECIFICATION Spec
CONSTANTS
  Tools = {t1}
  OwnerKinds = {"gem"}
  PlainKinds = {}
  SlotKinds = {"parameter"}
  Reasons = {"cut", "merged"}
  Inputs <- Files
  MaxEntries = 3
  MaxBytes = 11
  MaxInteger = 5
  MetaBytes = 1
  EntryBytes = 2
  ReasonBytes <- Weights
  MaxPublished = 3
INVARIANTS
  HistoryIsSound
  SizesAreExact
  DependentsAreExact
  LineageIsKept
CHECK_DEADLOCK FALSE
