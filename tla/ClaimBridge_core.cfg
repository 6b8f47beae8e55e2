SPECIFICATION FairSpec
CONSTANTS
  Players = {p1}
  Phones = {p1}
  Gids = {g1}
  NoPlayer = NoPlayer
  MaxCalls = 2
  MaxTicks = 1
  NoCall = NoCall
INVARIANTS OutcomeIsTrue FormFree
PROPERTIES CallsEnd RequestsAnswered
