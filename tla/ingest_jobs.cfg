SPECIFICATION Spec
CONSTANTS
  j1 = j1
  j2 = j2
  j3 = j3
  k1 = k1
  k2 = k2
  a = a
  b = b
  w1 = w1
  w2 = w2
  e1 = e1
  Jobs = {j1, j2}
  Keys = {k1, k2}
  Contents = {a, b}
  Payloads <- Enabled
  Workers = {w1, w2}
  Edits = {e1}
  MaxCrashes = 1
  Nothing = Nothing
SYMMETRY Symmetric
INVARIANTS
  TypeOK
  ChunksMatchContent
  OneLiveDocument
  VerdictMatchesItems
  NoJobForgotten
PROPERTIES
  DeletedStaysDeleted
  KeepsLifeCycle
