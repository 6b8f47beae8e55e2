SPECIFICATION PagesSpec
CONSTANTS
  Questions = {qa, qb}
  NoQuestion = NoQuestion
  MaxSessions = 2
  MaxRounds = 2
  MaxMoves = 3
  MaxWrites = 4
  MaxDrops = 1
  MaxCounts = 1
  Interrupted = {"player"}
  Lagging = FALSE
SYMMETRY Symmetry
INVARIANTS BoundHears StartedOnce ShowsTheShow EachScoreOnce
CHECK_DEADLOCK FALSE
