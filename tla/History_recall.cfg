SPECIFICATION Spec
CHECK_DEADLOCK FALSE
CONSTANTS
  s1 = s1
  s2 = s2
  c1 = c1
  c2 = c2
  q1 = q1
  q2 = q2
  lineFile = lineFile
  t1 = t1
  t2 = t2
  col = col
  Shells = {s1, s2}
  Conns = {c1, c2}
  FileOf <- OneFile
  Queries = {q1, q2}
  Ddl = {q2}
  TablesOf <- QueryTables
  ColumnsOf <- QueryColumns
  Names = {"a"}
  Command = "command"
  Capacity = 2
  Limit = 1
  Counts = {2}
  FreqLimit = 1
  Past <- Earlier
  Faults = {"write", "kill"}
  MaxLines = 3
  MaxTime = 1
SYMMETRY Symmetric
PROPERTY
  RecallSurvivesRebuild
