SPECIFICATION Spec
CONSTANTS
  Relations <- MCRelations
  SearchPath <- MCSearchPath
  Public <- P
  NameChars <- MCNameChars
  Lower <- MCLower
  PlanNodes <- MCPlanNodes
  Wide <- MCWide
  Accented <- MCAccented
  MaxCell = 5
  TermWidth = 6
  TermRows = 3
  PipeSize = 2
  Results <- MCResults
  Plans <- MCPlans
  Exports <- MCExports
  TypedNames <- MCTypedNames
  Faults = {"spawn", "pager", "query", "disk"}
INVARIANTS
  ExpandedIsWhole
  LostOnlyInPipe
  DescriptionIsTrue
  ExportIsWhole
PROPERTIES
  PromptReturns
