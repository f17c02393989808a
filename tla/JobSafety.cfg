SPECIFICATION Spec
CONSTANTS
  Jobs = {j1, j2}
  Executors = {w1, w2}
  Requests = {r1, r2, r3}
  Contents = {a, b}
  a = a
  b = b
  NoJob = NoJob
  JobForms <- OverlappingForms
  AdminTargets = {"running", "succeeded", "failed", "cancelled"}
  MaxCrashes = 1
  MaxRedeliveries = 1
SYMMETRY Alike
INVARIANTS
  UniqueContent
  IngestAllOrNothing
  TextIngestedOnce
  RetryOfUnsuccessful
PROPERTIES
  SettledStaysIdle
