SPECIFICATION Spec
CONSTANTS
  Players = {p1, p2}
  Gids = {g1, g2}
  Clients = {c1, c2}
  Run = Run
  NoPlayer = NoPlayer
  NoGid = NoGid
  QueueMax = 2
  Steals = TRUE
  Failures = FALSE
  Overflow = FALSE
SYMMETRY Symmetry
INVARIANTS NoDoubleBinding
