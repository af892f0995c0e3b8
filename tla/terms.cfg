SPECIFICATION FairSpec
CONSTANTS
  w1 = w1
  w2 = w2
  w3 = w3
  l1 = l1
  l2 = l2
  r1 = r1
  r2 = r2
  e1 = e1
  p1 = p1
  p2 = p2
  key = key
  part = part
  whole = whole
  long = long
  Writers = {w1, w2}
  Loaders = {l1}
  Embedders = {e1}
  Processes = {p1, p2}
  RunsIn <- Apart
  Rules = {r1, r2}
  Words = {key, part, whole, long}
  Ranking <- Ranks
  Parts = {part}
  Whole = whole
  Limit = 1
  Jobs <- SomeJobs
  Nothing = Nothing
INVARIANTS
  TypeOK
  KeywordsSpotted
  UnracedRuleIsWhole
  CachesStaleOnlyByRace
PROPERTY
  CachesConverge
