SPECIFICATION Spec
CONSTANTS
  a = a
  b = b
  c = c
  s1 = s1
  s2 = s2
  d1 = d1
  d2 = d2
  none = none
  Shells = {s1, s2}
  Databases = {d1, d2}
  SchemasOf <- TwoDatabases
  NoDatabase = none
  Faults = {"write", "read", "query", "crash", "admin", "rollback"}
SYMMETRY ShellSymmetry
INVARIANTS
  SettledCacheIsWhole
  ViewIsWhole
PROPERTIES
  RefreshIsFresh
