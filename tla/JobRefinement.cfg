\* Once-only delivery and no transition by hand: the conditions of the promise.
SPECIFICATION Spec
CONSTANTS
  Jobs = {j1, j2}
  Executors = {w1, w2}
  Requests = {r1, r2}
  Contents = {a, b}
  a = a
  b = b
  NoJob = NoJob
  JobForms <- AllForms
  AdminTargets = {}
  MaxCrashes = 0
  MaxRedeliveries = 0
PROPERTIES
  KeepsPromise
