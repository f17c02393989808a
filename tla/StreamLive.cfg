SPECIFICATION FairSpec
CONSTANTS
  Requests = {q1}
  Workers = {}
  Api = Api
  Domains = {d1, d2}
  Limit = 1
  Window = 1
  Recent = 1
  MaxRows = 3
PROPERTIES
  CatchesUp
  ConnectedHears
