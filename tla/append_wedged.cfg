SPECIFICATION Spec
CONSTANTS
  r1 = r1
  r2 = r2
  r3 = r3
  c1 = c1
  e2 = e2
  e1 = e1
  NoOne = NoOne
  Requests = {r1, r2}
  Edits = {}
  Conversations = {c1}
  Target <- SameTarget
  VerifyOn = FALSE
  RagOn = TRUE
  LogFails = FALSE
  ScanFails = FALSE
  MaxCrashes = 0
CHECK_DEADLOCK FALSE
INVARIANT NextNumberIsFree
