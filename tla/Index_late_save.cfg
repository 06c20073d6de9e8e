SPECIFICATION Spec
CONSTANTS
  i1 = i1
  i2 = i2
  c1 = c1
  c2 = c2
  m1 = m1
  d1 = d1
  d2 = d2
  Items = {i1}
  Folders = {i1}
  Categories = {c1, c2}
  ShownIn <- MCShownIn
  Sched = sched
  Manual = {}
  Deleters = {d1}
  Free = free
  UpdateCommand = FALSE
  Disconnects = TRUE
  Stalls = FALSE
  PartialDeletes = FALSE
  MaxStamp = 1
  MaxGen = 3
  MaxFaults = 0
INVARIANT PersistedNotOlder
