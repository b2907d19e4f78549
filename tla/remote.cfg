CONSTANTS
  entry = entry
  part = part
  pin = pin
  e1 = e1
  e2 = e2
  p1 = p1
  p2 = p2
  c1 = c1
  Damaged = Damaged
  Absent = Absent
  Walks = {w1, w2}
  Reloading = {w2}
  Files <- MCFiles
  Entry = entry
  Immutable = {pin}
  Versions <- MCVersions
  References <- MCReferences
  Heads <- MCHeads
  Broken = {}
  Size <- MCSize
  MaxDepth = 2
  MaxFiles = 3
  MaxBytes = 3
  MaxConcurrency = 1
  MaxAttempts = 2
  MaxMoves = 1
  MaxFaults = 1
SPECIFICATION Spec
CHECK_DEADLOCK FALSE
INVARIANTS
  CacheHeals
PROPERTIES
  PromiseKept
