\* one team of two in one game, two coop states (one with a threshold), two sockets, one HTTP request
CONSTANTS
  p1 = p1  p2 = p2  g1 = g1  g2 = g2  t1 = t1  t2 = t2
  s1 = s1  s2 = s2  h1 = h1  k1 = k1  k2 = k2
  None = None
  NoValue = NoValue
  Players = {p1, p2}
  Games = {g1}
  Teams = {t1}
  GameOf <- Game1
  Sockets = {s1, s2}
  Posts = {h1}
  Keys = {k1, k2}
  CoopStrategy <- Coop2
  Announced = {k1, k2}
  Values = {0, 1}
  InitialMembers <- Pair
  JoinRequests <- NoJoins
  Isolated = TRUE
  MaxUpdates = 2
SPECIFICATION Spec
INVARIANTS TypeOK ToldWasReached
PROPERTIES TeamStateGrows RouteTakenByConnecting KeepsPromise
SYMMETRY Alike
CHECK_DEADLOCK FALSE
