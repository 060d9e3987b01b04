SPECIFICATION Spec
CONSTANTS
  p1 = p1  p2 = p2  p3 = p3
  r1 = r1  r2 = r2
  a1 = a1  a2 = a2
  c1 = c1  c2 = c2
  m1 = m1  m2 = m2
  None = None
  Versions = {v1, v2}
  Passages = {p1, p2, p3}
  Reports = {r1, r2}
  ReportOf <- MCReportOf
  Alignments = {a1, a2}
  Categories = {c1, c2}
  Models = {m1, m2}
  Generations = {1, 2}
  Snapshots <- AllSnapshots
  Keeps = {0, 1}
SYMMETRY Symmetry
INVARIANTS TypeOK OneServed ContentAsBuilt RetainedResolves OnlyOtherModelsInvalidate
PROPERTIES ImplementsRegister RetentionHonoured
