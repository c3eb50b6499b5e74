SPECIFICATION Spec
CONSTANT Keys <- MCKeys
INVARIANTS
  CompleteIsTerminated
  NeverTrapped
PROPERTIES
  QuotedArgumentSurvives
  OnlyWholeStatementsRun
