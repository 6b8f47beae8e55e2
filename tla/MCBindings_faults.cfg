SPECIFICATION Spec
CONSTANTS
  Players = {p1, p2}
  Gids = {g1, g2}
  Clients = {c1}
  Run = Run
  NoPlayer = NoPlayer
  NoGid = NoGid
  QueueMax = 1
  Steals = TRUE
  Failures = TRUE
  Overflow = TRUE
SYMMETRY Symmetry
INVARIANTS LostIsTimed
