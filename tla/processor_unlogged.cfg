CONSTANTS
  Messages = {m1}
  Processors = {open, closed}
  Accepting = {open}
  Calls = {c1, c2}
  NoCall = NoCall
  Faults = {"body"}
SYMMETRY Symmetry
SPECIFICATION Spec
INVARIANTS
  FailedInvocationIsLogged
CHECK_DEADLOCK FALSE
