SPECIFICATION FairSpec
CONSTANTS
  p1 = p1
  p2 = p2
  p3 = p3
  p4 = p4
  out = out
  other = other
  a = a
  A = A
  b = b
  u = u
  d = d
  sep = sep
  Publishers = {p1, p2, p3, p4}
  Paths = {out, other}
  Names = {a, A, b, u, d, sep}
  Unportable = {u, sep}
  NotBasename = {sep}
  Fold <- Lower
  HostFold <- HostLower
  Requests <- Edges
  MaxEntries = 3
  MaxBytes = 3
  Faults = {}
INVARIANT AcceptedNeverCollides
PROPERTY Publishes
CHECK_DEADLOCK FALSE
