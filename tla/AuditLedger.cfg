SPECIFICATION Spec
CONSTANTS
  Writers = {w1, w2}
  Domains = {d1, d2}
  MaxEvents = 4
SYMMETRY Alike
\* Every add of the bound has been made and its transaction is over.
CHECK_DEADLOCK FALSE
INVARIANTS
  LinkedToCommitted
  AloneIsChained
  GapFreeIsComplete
