\* two players of a team and one who founds another, a card of four, trackers and spectators
CONSTANTS
  p1 = p1  p2 = p2  p3 = p3  t1 = t1  t2 = t2  v1 = v1  v2 = v2  k1 = k1  k2 = k2
  None = None  All = All
  NoValue = NoValue
  Players = {p1, p2, p3}
  Teams = {t1, t2}
  TeamOf <- TwoTeams
  FirstTeams = {t1}
  Viewers = {v1, v2}
  Keys = {k1, k2}
  Values = {1}
  Size = 2
  Goals <- Card
  Discovery <- Corner
  Isolated = TRUE
  Settings <- Scenes
SPECIFICATION Spec
INVARIANTS TypeOK SquaresEarned NothingShownEarly BoardsCurrent RankOrders
PROPERTIES OwnersSettle DiscoveryIsLeast
SYMMETRY Alike
CHECK_DEADLOCK FALSE
