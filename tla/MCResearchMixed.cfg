CONSTANTS
  r1 = r1
  r2 = r2
  lm = lm
  lm2 = lm2
  None = None
  Earlier = r1
  Later = r2
  Pair = pair
  Usable <- MCUsable
  EmbeddingModel <- MCEmbeddingModel
  Files <- MCFiles
  Deployable = {}
  MaxDeploys = 0
  SlowStages = {"alignment", "features"}
  Starts <- MCStarts
  MaxChanges = 3
  MaxFailures = 0
SPECIFICATION Spec
INVARIANTS LanguageNeverMixed
CHECK_DEADLOCK FALSE
