\* echoes end, even when the database lets writes of a row overlap
CONSTANTS
  p1 = p1  p2 = p2  g1 = g1  t1 = t1  s1 = s1  s2 = s2  s3 = s3  k1 = k1
  None = None
  NoValue = NoValue
  Players = {p1, p2}
  Games = {g1}
  Teams = {t1}
  GameOf <- Game1
  Sockets = {s1, s2}
  Posts = {}
  Keys = {k1}
  CoopStrategy <- Coop1
  Announced = {k1}
  Values = {0, 1}
  InitialMembers <- Pair
  JoinRequests <- NoJoins
  Isolated = FALSE
  MaxUpdates = 2
  MaxLoads = 0
  Budgets <- OneValue
SPECIFICATION FairSession
PROPERTIES EchoesDieOut
CHECK_DEADLOCK FALSE
