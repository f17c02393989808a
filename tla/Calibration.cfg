SPECIFICATION Spec
CONSTANTS
  Scale = 2
  MostHits = 2
  Profiles <- MCProfiles
  Profile <- MCProfile
  Suite <- MCSuite
  Stem <- MCStem
  Streamed = {"nq-adapter"}
  Offered <- MCOffered
  Commands <- MCCommands
  Tolerances = {1}
  NoFile = NoFile
  Torn = Torn
  MaxRuns = 3
  MaxAccidents = 1
\* An operator may stop calibrating.
CHECK_DEADLOCK FALSE
INVARIANTS
  ClaimsHold
  ReportsMatch
  NeverWorseThanFirst
  PassedIsFlawless
PROPERTIES
  RefusedOnlyIfShort
