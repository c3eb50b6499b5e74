SPECIFICATION FairSpec
CONSTANTS
  r1 = r1
  r2 = r2
  Rows = {r1, r2}
  Texts <- ReadableTexts
  Explains <- SingleTexts
  Exports <- Queries
  Faults = {"commit", "meta", "loss"}
  MaxSaves = 2
INVARIANTS
  TypeOK
  IdleMeansNoBlock
  FailedMeansNoLiveBlock
  PromptShowsFailure
PROPERTIES
  WritesOnlyInBlock
  CommitKeepsWork
  SubmissionReturns
  KeepsPromise
