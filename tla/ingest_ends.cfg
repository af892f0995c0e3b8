SPECIFICATION FairSpec
CONSTANTS
  j1 = j1
  j2 = j2
  j3 = j3
  k1 = k1
  k2 = k2
  a = a
  b = b
  w1 = w1
  w2 = w2
  e1 = e1
  Jobs = {j1, j2}
  Keys = {k1}
  Contents = {a, b}
  Payloads <- Enabled
  Workers = {w1, w2}
  Edits = {}
  MaxCrashes = 1
  Nothing = Nothing
PROPERTY
  EveryJobEnds
