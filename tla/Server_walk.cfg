SPECIFICATION Spec
CONSTANTS
  none = none
  i1 = i1
  i2 = i2
  k1 = k1
  k2 = k2
  Ids = {i1, i2}
  None = none
  NoItem = noItem
  Clients = {k1, k2}
  Second = "other"
  Snapshots <- MCSnapshots
  Raws <- MCRaws
  MaxDepth = 4
INVARIANTS
  ServerTypeOK
  WalkFindsAll
 
