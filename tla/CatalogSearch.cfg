SPECIFICATION Spec
CONSTANTS
  Alternatives = {1, 2, 3}
  Backends = {"old", "new"}
  Values = {1, 2, 3}
  Feasible = {1, 2}
  Jobs = 2
  Evaluations = 4
  Paths = {"report", "xml"}
  Calls <- Invocations
INVARIANT ReportIsTrue
CHECK_DEADLOCK FALSE
