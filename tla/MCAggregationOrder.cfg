\* two copies, four values
CONSTANTS
  c1 = c1  c2 = c2  p1 = p1  p2 = p2
  NoValue = NoValue
  Copies = {c1, c2}
  Registered <- GameStrategies
  Sent = {0, 1, 2, 3}
  Team = {p1, p2}
  Sender = p1
SPECIFICATION Spec
INVARIANTS OrderDoesNotMatter BatchTellsTheSame
