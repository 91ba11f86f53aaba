SPECIFICATION FairSpec
CONSTANTS
  Candidates = {1, 2, 3, 4}
  Assessments <- Mixed
  Plans <- Domains
  Evaluations = 5
  Proposals = 4
  Rounds = 3
  Jobs = 2
  Beam = 1
  ArchiveSize = 2
  Verifications = 2
  Batches <- Samples
  Faults = {"key", "thread", "propose"}
INVARIANTS
  BudgetsHold
  ReserveIsKept
  EvaluationsAccounted
  FiniteMeansAll
  IndependentOfJobs
  ArchivesHoldTheBest
  ReasonIsTrue
  ChecksFollowRanking
PROPERTIES
  EverySearchEnds
