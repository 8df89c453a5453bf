SPECIFICATION MicroSpec
CONSTANTS
  ShardCount = 3
  Unchecked = TRUE
  MayOverlap = TRUE
  MayRefuse = TRUE
  MaxTroubles = 1
  MayRestart = TRUE
  Repairable = {1}
INVARIANTS
  
  
  TraceTellsOutcome
  BlameIsMinimal
CHECK_DEADLOCK FALSE
