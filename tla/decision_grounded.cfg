SPECIFICATION Spec
CONSTANTS
  Rules = {1, 2, 3, 4}
  Tables <- SmallTables
  MaxChanges = 1
  Nobody = Nobody
INVARIANTS TypeOK Grounded OnlyAskedTogglesAct SteadyTopDecides
