SPECIFICATION Spec
CONSTANTS
    Keys = {"craft", "diamond", "ku", "b"}
    Synced = {"craft", "ku"}
    Orbs = {"diamond", "b"}
    Max = 3
    Pickups <- QuestSeed
    Craft = "craft"
    Diamond = "diamond"
    Quest = "ku"
    QuestMin = 2
    MaxGame = 3
    MaxServer = 2
    MaxDepth = 9
INVARIANTS TypeOK RewardsExact CacheAgrees ToldAgrees Bounded
CHECK_DEADLOCK FALSE
