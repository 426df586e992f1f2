CONSTANTS
  r = r
  s = s
  m = m
  u = u
  v = v
  a = a
  b = b
  Requests = {r, s}
  Lifespan = m
  Managers = 1
  Units = {u, v}
  Jobs = {a, b}
  Offloaded = {b}
  MaxFaults = 1
  NoUnit = NoUnit
  NoJob = NoJob
SPECIFICATION FairSpec
CHECK_DEADLOCK FALSE
INVARIANTS
  NothingUncommitted
  PublishedOnce
  OldestFirst
  ReferenceResolves
  NoneForgotten
  QueueIsThere
PROPERTIES
  UnwindEnds
