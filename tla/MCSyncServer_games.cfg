\* two games: a player plays in one and enters the other, whose team is founded and joined while handlers run
CONSTANTS
  p1 = p1  p2 = p2  g1 = g1  g2 = g2  t1 = t1  t2 = t2
  s1 = s1  s2 = s2  h1 = h1  k1 = k1  k2 = k2
  None = None
  NoValue = NoValue
  Players = {p1, p2}
  Games = {g1, g2}
  Teams = {t1, t2}
  GameOf <- Games2
  Sockets = {s1, s2}
  Posts = {}
  Keys = {k1}
  CoopStrategy <- Coop1
  Announced = {k1}
  Values = {0}
  InitialMembers <- Elsewhere
  JoinRequests <- Enter
  Isolated = TRUE
  MaxUpdates = 2
SPECIFICATION Spec
INVARIANTS CoopRulesNeedTeam RouteNeverLost
CHECK_DEADLOCK FALSE
