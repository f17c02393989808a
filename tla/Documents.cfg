SPECIFICATION EitherSpec
CONSTANTS
  Domains = {d1, d2}
  Sources = {s1, s2}
  Documents = {x1}
  Parts = {p1}
  Keys = {k1, k2}
  Texts = {t1, t2}
  FirstText = t1
  Requests = {r1, r2}
  None = None
  MaxWrites = 4
  DefaultSize = 3
  Unset = Unset
  MaxWords = 12
  MinSize <- Least
  MaxSize = 13
SYMMETRY Alike
\* The bound on writes ends a behaviour, and so does the end of an ingestion.
CHECK_DEADLOCK FALSE
INVARIANTS
  UniqueKeys
  LinkedInDomain
  HistoryTellsRow
  EachWordOnce
  NeighborsTouch
PROPERTIES
  ChangesAreTold
