SPECIFICATION Spec
CONSTANTS
  Places <- MCDeep
  Unescaped <- MCPlain
  BaseEncoded = FALSE
  Concurrency = 2
  MaxChanges = 2
  MaxFaults = 2
INVARIANTS TypeOK ItemsConnected
PROPERTIES ScanFaithful ScanEnds
