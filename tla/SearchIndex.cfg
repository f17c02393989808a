SPECIFICATION FairSpec
CONSTANTS
  Processes = {p1, p2}
  NoProcess = NoProcess
  MaxBuilds = 4
  MaxEdits = 1
  MaxFaults = 1
\* The bounds on rebuilds and edits end a behaviour.
CHECK_DEADLOCK FALSE
INVARIANTS
  ServedIsOneBuild
  ServedIsNewest
  UnusableHasCause
PROPERTIES
  NextRebuildHeals
  KeepsIndexPromise
