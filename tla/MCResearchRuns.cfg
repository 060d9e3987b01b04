CONSTANTS
  r1 = r1
  r2 = r2
  lm = lm
  lm2 = lm2
  None = None
  Earlier = r1
  Later = r2
  Pair = pair
  Usable <- MCUsable
  EmbeddingModel <- MCEmbeddingModel
  Files <- MCFiles
  Deployable = {"extraction"}
  MaxDeploys = 1
  SlowStages = {"alignment", "features"}
  Starts <- MCStarts
  MaxChanges = 3
  MaxFailures = 1
SPECIFICATION Spec
INVARIANTS LineageConsistent PassSettles CalmSnapshotCoherent
CHECK_DEADLOCK FALSE
