CONSTANTS
  p1 = p1
  p2 = p2
  p3 = p3
  copy = copy
  A = A
  X = X
  h1 = h1
  h2 = h2
  h3 = h3
  late = late
  Notes = {late}
  MaxNotes = 2
  None = None
  Paths <- MCPaths
  Pdf <- MCPdf
  Tickers <- MCTickers
  Configured = {A}
  Hashes = {h1, h2, h3}
  Manifests <- MCManifests
  Corrections <- MCCorrections
  MaxBatch = 2
  Dates <- MCDates
  DaysPerMonth = 2
  MaxInt = 6
SPECIFICATION Spec
INVARIANTS UniqueReports PairsStaySound ReviewImportIdempotent
PROPERTIES SettledMetadataStays EachPairedWithPredecessor
