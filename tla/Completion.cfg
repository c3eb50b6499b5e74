SPECIFICATION CompletionSpec
CONSTANTS
  Alphabet <- MCAlphabet
  Keywords <- MCKeywords
  Schema <- MCSchema
  Sorted <- MCSorted
  TableFreq <- MCTableFreq
  ColumnFreq <- MCColumnFreq
  MaxCompletions = 3
  Lines <- MCLines
  Typed <- MCTyped
  MaxTyped = 1
INVARIANTS
  StableAndDistinct
  ScopeIsExact
  ChoiceKeepsTyped
PROPERTIES
  TabKeepsChoices
