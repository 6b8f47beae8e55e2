SPECIFICATION FairSpec
CONSTANTS
  Players = {p1, p2}
  Gids = {g1, g2}
  Clients = {c1}
  Run = Run
  NoPlayer = NoPlayer
  NoGid = NoGid
  QueueMax = 2
  Steals = FALSE
  Failures = FALSE
  Overflow = FALSE
INVARIANTS TypeOK IndexExact NoDoubleBinding NoDeadBinding
PROPERTIES LostResolves DeadBindingReleased BoardSpec
