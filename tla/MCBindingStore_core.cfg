SPECIFICATION StoreSpec
CONSTANTS
  Players = {p1, p2}
  Gids = {g1}
  Clients = {c1}
  Run = Run
  NoPlayer = NoPlayer
  NoGid = NoGid
  QueueMax = 1
  Steals = FALSE
  Failures = TRUE
  Overflow = FALSE
  MaxLate = 1
SYMMETRY Symmetry
INVARIANTS SerialWritesMirror
PROPERTIES RestartIsExact
