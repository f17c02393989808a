SPECIFICATION Spec
CONSTANTS
  Admins = {u1, u2, u3}
  Requests = {r1, r2}
  NoAdmin = NoAdmin
SYMMETRY Alike
\* With no active administrator left, no request is authorised.
CHECK_DEADLOCK FALSE
INVARIANTS
  LostOnlyByRace
