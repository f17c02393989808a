SPECIFICATION Spec
CONSTANTS
  Requests = {q1}
  Workers = {w1}
  Api = Api
  Domains = {d1, d2}
  Limit = 1
  Window = 2
  Recent = 1
  MaxRows = 3
SYMMETRY Alike
INVARIANTS
  SkippedOnlyIfOvertaken
  LiveWithoutGap
