SPECIFICATION Spec
CONSTANTS
  p1 = p1
  p2 = p2
  Procs = {p1, p2}
  Faults = {"crash"}
SYMMETRY ProcSymmetry
INVARIANTS
  OpenedIsCurrent
  StuckOnlyAtV3
PROPERTIES
  HistoryKept
