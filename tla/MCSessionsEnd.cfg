SPECIFICATION FairSpec
CONSTANTS
  None = None
  Sessions = {s1, s2}
  Versions = {1}
  Passages = {1, 2}
  Rank <- Reversed
  Commands = {"build", "promote", "cleanup", "gc-artifacts"}
  Keeps = {0}
PROPERTY CommandsEnd
