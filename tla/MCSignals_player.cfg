SPECIFICATION Spec
CONSTANTS
  Sources <- PlayerSources
  Deriveds <- PageDeriveds
  Effects <- PageEffects
  Blocks <- PageBlocks
  Outside <- ReadByHandlers
  Order <- PageOrder
  Start <- PageState
  Chain <- PlayerReads
  Writes <- PageWrites
  Home <- PageTree
  Root = "root"
  MaxSets = 3
  MaxLinks = 2
INVARIANTS EffectsCurrent NoGlitch CleanIsCurrent
CHECK_DEADLOCK FALSE
