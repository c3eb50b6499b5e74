SPECIFICATION RefsSpec
CONSTANTS
  NoId <- MCNoId
  Schema <- MCSchema
  Sorted <- MCSorted
  Columns <- MCColumns
  Ids <- MCIds
  QueryTrees <- MCQueryTrees
  Depth <- MCDepth
  Texts <- MCTexts
INVARIANTS
  PlainIsExact
  QualifiedIsCounted
