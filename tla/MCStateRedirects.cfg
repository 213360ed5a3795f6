SPECIFICATION Spec
CONSTANTS
  States = {a}
  Values = {0, 1, 2}
  Slots = {s1, s2}
  Count = 1
INVARIANTS TypeOK OnlyGranted SurvivorsStay
SYMMETRY Alike
CHECK_DEADLOCK FALSE
