SPECIFICATION FairSpec
CONSTANTS
  Urls = {u1, u2}
  NoUrl = NoUrl
  Silence = Silence
INVARIANTS OneVoice PendingAsks
 
