SPECIFICATION Spec
CONSTANTS
  Procs = {p1, p2}
  Configs <- MCConfigs
  MinSeconds = 5
  Absent = absent
  MaxGen = 2
INVARIANTS
  OneRefresher
  AuthAsConfigured
