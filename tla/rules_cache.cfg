SPECIFICATION Spec
CONSTANTS
  w1 = w1
  w2 = w2
  l1 = l1
  k1 = k1
  k2 = k2
  i1 = i1
  p1 = p1
  p2 = p2
  Writers = {w1, w2}
  Loaders = {l1}
  Globals = {k1}
  Customs = {k2}
  Processes = {p1, p2}
  RunsIn <- Apart
  Initially = {i1}
  Nothing = Nothing
  Jobs <- AllJobs
INVARIANTS
  TypeOK
  OneSource
  LoadsAnswerCurrent
  StaleOnlyByRace
PROPERTY
  RequestsTakeEffect
