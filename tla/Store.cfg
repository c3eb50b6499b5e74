SPECIFICATION Spec
CHECK_DEADLOCK FALSE
CONSTANTS
  two = two
  zed = zed
  noname = noname
  s1 = s1
  c1 = c1
  c2 = c2
  q1 = q1
  t1 = t1
  Shells = {s1}
  Clis = {c1, c2}
  Names = {two, zed}
  NoName = noname
  NumberOf <- Numbers
  Rank <- Order
  host = host
  database = database
  Fields = {host, database}
  Edits <- OneField
  Queries = {q1}
  RefsOf <- OneTable
  Faults = {"crash", "write"}
  MaxConns = 2
  MaxQueries = 1
SYMMETRY Symmetry
INVARIANTS
  AccessMatchesQuery
  SavedWasRun
PROPERTIES
  TouchesWhatItFound
  EditKeepsRest
