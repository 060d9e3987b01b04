CONSTANTS
  r1 = r1
  r2 = r2
  Earlier = r1
  Later = r2
  Pair = pair
  u1 = u1
  u2 = u2
  u3 = u3
  Units = {u1, u2, u3}
  Configured <- MCConfigured
  Mode <- MCMode
  Scope = {u1, u2, u3}
  Usable = {r1, r2}
  Located <- MCLocated
  Extracted <- MCExtracted
  Tabulated = {r1, r2}
  MaxCommands = 7
  MaxFailures = 1
  None = None
SPECIFICATION Spec
INVARIANTS AbsenceOnlyAcrossConfigurations MetricsRestOnResolvedUnits PassSettles
PROPERTIES FailureChangesNothingServed
CHECK_DEADLOCK FALSE
