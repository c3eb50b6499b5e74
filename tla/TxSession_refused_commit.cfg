SPECIFICATION Spec
CONSTANTS
  r1 = r1
  Rows = {r1}
  Texts <- PlainTexts
  Explains <- Queries
  Exports <- Queries
  Faults = {"commit"}
  MaxSaves = 1
INVARIANTS
  FailedDmlRejected
