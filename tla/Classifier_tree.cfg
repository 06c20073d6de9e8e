SPECIFICATION Spec
CONSTANTS
  none = none
  None = none
  Ids <- MCIds
  Library <- MCLibrary
  Directories <- MCDirectories
  Accepts <- MCAccepts
  Clean <- MCClean
  Alphabet <- MCAlphabet
INVARIANTS
  SortedByExample
  TreeWellFormed
  ShownWhereItBelongs
  ShowsSelectedFiles
  DeleteMatchesRebuild
  ArrivalOrderIrrelevant
PROPERTY ToldOfChanges
