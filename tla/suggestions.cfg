SPECIFICATION Spec
CONSTANTS
  w1 = w1
  w2 = w2
  d1 = d1
  d2 = d2
  d3 = d3
  k1 = k1
  p1 = p1
  p2 = p2
  Workers = {w1, w2}
  Drafts = {d1, d2, d3}
  Key <- Keys
  Body <- BodyOf
  Canonical <- Forms
  Offered = {d1, d2}
  Prompts = {p1, p2}
  MaxRules = 2
  MaxSuggestions = 2
  MaxVersion = 2
  Aging = {1}
  GlobalKeys = {}
  Nothing = Nothing
SYMMETRY Symmetric
INVARIANTS
  TypeOK
  AppliedHasRule
  RulesWereConfirmed
PROPERTY
  Reviewed
CHECK_DEADLOCK FALSE
