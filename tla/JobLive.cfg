SPECIFICATION FairSpec
CONSTANTS
  Jobs = {j1, j2}
  Executors = {w1, w2}
  Requests = {r1, r2}
  Contents = {a, b}
  a = a
  b = b
  NoJob = NoJob
  JobForms <- CrossingForms
  AdminTargets = {"cancelled"}
  MaxCrashes = 1
  MaxRedeliveries = 0
PROPERTIES
  DispatchedJobsEnd
