SPECIFICATION FairSpec
CONSTANTS
    Keys = {"a"}
    MaxChanges = 2
    MaxDrops = 1
    MaxConnects = 1
INVARIANTS TypeOK
PROPERTIES SendsInOrder StaysConnected ServerLearns
CHECK_DEADLOCK FALSE
