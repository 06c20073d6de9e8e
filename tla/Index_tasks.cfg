SPECIFICATION FairSpec
CONSTANTS
  i1 = i1
  i2 = i2
  c1 = c1
  c2 = c2
  m1 = m1
  d1 = d1
  d2 = d2
  Items = {i1}
  Folders = {i1}
  Categories = {c1, c2}
  ShownIn <- MCShownIn
  Sched = sched
  Manual = {m1}
  Deleters = {d1, d2}
  Free = free
  UpdateCommand = TRUE
  Disconnects = TRUE
  Stalls = TRUE
  PartialDeletes = FALSE
  MaxStamp = 2
  MaxGen = 3
  MaxFaults = 1
INVARIANTS
  TypeOK
  LockDiscipline
  PersistedIsServed
  StoredAtMostOneAhead
PROPERTIES
  Converges
  DeleteAnswered
  ImplementsCatalogue
  ServedAdvances
