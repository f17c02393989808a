SPECIFICATION Spec
CONSTANTS
  MaxRuns = 2
  Handlers = {h1, h2}
  Movers = {m1}
  Suites <- MCSuites
  Options <- MCOptions
  Values <- MCValues
  Trimmed <- MCTrimmed
  Plans <- MCPlans
  Drafts <- MCDrafts
  ReportFile <- MCReportFile
  MaxLosses = 1
  NoRun = NoRun
  NoPlan = NoPlan
INVARIANTS
  PlanKept
  VerdictTellsReport
  ReportIsWhole
PROPERTIES
  RunEnds
\* The bound on runs ends a behaviour.
CHECK_DEADLOCK FALSE
