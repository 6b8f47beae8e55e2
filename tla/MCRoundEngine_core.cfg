SPECIFICATION FairSpec
CONSTANTS
  Players = {p1}
  Zones = {za, zb}
  Correct = {za}
  NoZone = NoZone
  NumRounds = 3
  Narration = {2}
  Timed = {1, 3}
  Ops = {o1}
  Timers = {t1, t2}
  MaxRows = 3
  Jumps = TRUE
  Failures = TRUE
INVARIANTS OneRoundInProgress PaidWhatIsDue InOrder
PROPERTIES PhasesAdvance AnswersLocked TimedRoundsFinish RoundBoardSpec
CHECK_DEADLOCK FALSE
