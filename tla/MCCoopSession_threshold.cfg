\* a coop state with a threshold
CONSTANTS
  p1 = p1  p2 = p2  g1 = g1  t1 = t1  s1 = s1  s2 = s2  s3 = s3  k1 = k1
  None = None
  NoValue = NoValue
  Players = {p1, p2}
  Games = {g1}
  Teams = {t1}
  GameOf <- Game1
  Sockets = {s1, s2}
  Posts = {}
  Keys = {k1}
  CoopStrategy <- CoopOn2
  Announced = {k1}
  Values = {0, 1, 2}
  InitialMembers <- Pair
  JoinRequests <- NoJoins
  Isolated = TRUE
  MaxUpdates = 2
  MaxLoads = 0
  Budgets <- TwoValues
SPECIFICATION SessionSpec
INVARIANTS Convergence
SYMMETRY Alike
CHECK_DEADLOCK FALSE
