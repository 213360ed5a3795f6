SPECIFICATION Spec
CONSTANTS
  Messages <- MCMessages
  CutMessages <- MCCutMessages
  MaxSaid = 4
  MaxCut = 3
INVARIANTS TypeOK
PROPERTIES IsFifo ReadsWholePackages
CHECK_DEADLOCK FALSE
