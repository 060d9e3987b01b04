SPECIFICATION Spec
CONSTANTS
  None = None
  Sessions = {s1, s2}
  Versions = {1, 2}
  Passages = {1}
  Rank <- Reversed
  Commands = {"build", "promote", "cleanup", "gc-corpus", "gc-artifacts"}
  Keeps = {0}
SYMMETRY Symmetry
INVARIANTS PointerIsServed SerialPromotionsKeepOne ArtifactsResolve OnlyOverlapLosesCorpus
