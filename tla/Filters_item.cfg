SPECIFICATION FiltersSpec
CONSTANTS
  Hits <- MCHits
  Occurs <- MCOccurs
  Lower <- MCLower
  Videos <- MCVideos
  Episodes <- MCEpisodes
  Conditions <- MCConditions
  Depth <- MCDepth
  Extras <- MCExtras
  Items <- MCItems
  MaxFiles = 4
  Width = 8
INVARIANT AnyFileMeansSome
PROPERTY MoreIsNeverLess
