CONSTANTS
  a = a
  b = b
  Keys = {a, b}
  Generators = {a, b}
  MaxRuns = 2
  p = p
  r = r
  Waiters = {p, r}
  Hasty = {r}
  Mortal = {r}
  MaxStores = 2
SPECIFICATION FairSpec
CHECK_DEADLOCK FALSE
INVARIANTS
  PlanSound
  RefusedForCause
  ClosesBeforeParts
  NothingLeftOpen
  TokenKept
PROPERTIES
  BootEnds
  AllWake
