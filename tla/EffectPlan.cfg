SPECIFICATION Spec
CONSTANTS
  Plans <- MCPlans
  Preparation = 1
  MaxInteger = 3
  ApplicationKeys <- MCApplicationKeys
  Reusing <- MCReusing
INVARIANTS
  ReportIsMeaning
  PrefixNeverChanges
  ReadsAreScheduled
  CyclesAreRefused
