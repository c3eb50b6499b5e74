SPECIFICATION Spec
CHECK_DEADLOCK FALSE
CONSTANTS
  Alphabet <- Chars
  NumberOf <- Numbers
  Escapes <- Codes
  DefaultPort = 5432
  Args <- Lines
  Parts <- UrlParts
  MaxConns = 2
  MaxOptions = 2
ACTION_CONSTRAINT Narrow
INVARIANTS
  ReachedAsAsked
PROPERTIES
  AddedAsAsked
  ChangesAsTold
