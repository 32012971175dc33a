CONSTANTS
  Records = {r1}
  Calls = {c1, c2, c3}
  NoCall = NoCall
  MaxInFlight = 2
SYMMETRY Symmetry
SPECIFICATION Spec
INVARIANTS
  RejectedNotCommitted
CHECK_DEADLOCK FALSE
