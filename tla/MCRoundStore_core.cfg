SPECIFICATION StoreSpec
CONSTANTS
  Players = {p1}
  Zones = {za, zb}
  Correct = {za}
  NoZone = NoZone
  NumRounds = 2
  Narration = {2}
  Timed = {1}
  Ops = {o1}
  Timers = {t1, t2}
  MaxRows = 2
  Jumps = FALSE
  Failures = TRUE
  NoTask = NoTask
  NoOne = NoOne
  LostReplies = TRUE
  MaxCrashes = 1
  MaxLate = 1
SYMMETRY Symmetry
INVARIANTS RevealedIsStored PointsAreDue
PROPERTIES RestartResumes RowsAdvance
CHECK_DEADLOCK FALSE
