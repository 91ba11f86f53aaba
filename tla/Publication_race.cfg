SPECIFICATION Spec
CONSTANTS
  p1 = p1
  p2 = p2
  p3 = p3
  p4 = p4
  out = out
  other = other
  a = a
  A = A
  b = b
  u = u
  d = d
  sep = sep
  Publishers = {p1, p2, p3}
  Paths = {out, other}
  Names = {a, A, b, u, d, sep}
  Unportable = {u, sep}
  NotBasename = {sep}
  Fold <- Lower
  HostFold <- AsIs
  Requests <- Race
  MaxEntries = 3
  MaxBytes = 3
  Faults = {"parent", "metadata", "stage", "entry", "write", "sync", "rename"}
INVARIANTS VisibleIsWhole NoLeftovers
PROPERTIES NothingReplaced PublishesOnce
CHECK_DEADLOCK FALSE
