SPECIFICATION Spec
CONSTANTS
  r1 = r1
  r2 = r2
  r3 = r3
  c1 = c1
  e2 = e2
  e1 = e1
  NoOne = NoOne
  Requests = {r1, r2}
  Edits = {e1, e2}
  Conversations = {c1}
  Target <- SameTarget
  VerifyOn = TRUE
  RagOn = TRUE
  LogFails = TRUE
  ScanFails = TRUE
  MaxCrashes = 1
SYMMETRY SameSymmetry
CHECK_DEADLOCK FALSE
INVARIANTS
  AnswerAfterQuestion
  OnlyVettedTextLeaves
  StallsOnlyBehindSuspendedSend
  ArchivedSeenNothingSaved
