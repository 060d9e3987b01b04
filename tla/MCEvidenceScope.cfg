CONSTANTS
  None = None
  PrintedReports <- MCReports
  Config <- MCConfig
  BlockLists <- MCBlockLists
  Encoders <- MCEncoders
  Sizes <- MCSizes
  AlignmentInputs <- MCAlignmentInputs
  AlignmentConfig <- MCAlignmentConfig
  textA = textA
  textB = textB
  textC = textC
  textD = textD
  textE = textE
  Comparisons <- MCComparisons
  Vocabulary <- MCVocabulary
  PageNumbers <- MCPageNumbers
  Enders <- MCEnders
  Small <- MCSmall
  Anchors <- MCAnchors
  Families <- MCFamilies
  PagesOf <- MCPagesOf
  Canonical <- MCCanonical
  board = board
  audit = audit
  chairman = chairman
  chairperson = chairperson
  member = member
  alice = alice
  bob = bob
  total = total
  fee = fee
  increase = increase
  basic = basic
  sti = sti
  MeasuredPairs <- MCPairs
  Limits <- MCLimits
  DictionarySpecs <- MCDictionarySpecs
  Negators <- MCNegators
  Conjunctions <- MCConjunctions
  Topics <- MCTopics
  going = going
  concern = concern
  doubt = doubt
  realize = realize
  plain = plain
  boardroom = boardroom
  Absent = None
  kuwa = kuwa
  zeda = zeda
  Corpora <- MCCorpora
  TopK <- MCTopK
  Reviews <- MCReviewed
  ReviewConfig <- MCReviewConfig
  Presets <- MCPresets
SPECIFICATION Spec
INVARIANT ScopeIdentityKept
CHECK_DEADLOCK FALSE
