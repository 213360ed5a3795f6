SPECIFICATION Spec
CONSTANTS
  Slots = {s1, s2, s3}
  NoSlot = none
  Early = 2
  Late = 3
  MaxBoot = 4
  MaxStarts = 3
INVARIANTS TypeOK
PROPERTIES NoFalseTimeout StaleDropped Reconnects
CHECK_DEADLOCK FALSE
