SPECIFICATION Spec
INVARIANTS
  FallbacksInOrder
  LocalWinnersAreMasked
  NearestNameWins
  RefusalIsFounded
  GuardsSurvive
CHECK_DEADLOCK FALSE
