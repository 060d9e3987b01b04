SPECIFICATION Spec
CONSTANTS
  None = None
  Sessions = {s1, s2}
  Versions = {1, 2}
  Passages = {1}
  Rank <- Reversed
  Commands = {"build", "cleanup", "gc-corpus"}
  Keeps = {0}
SYMMETRY Symmetry
INVARIANT CorpusResolves
