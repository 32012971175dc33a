CONSTANTS
  Messages = {m1, m2}
  Processors = {open, closed}
  Accepting = {open}
  Calls = {c1, c2, c3}
  NoCall = NoCall
  Faults <- FaultKind
SYMMETRY Symmetry
SPECIFICATION Spec
PROPERTY
  ImplementsEvidenceLog
INVARIANTS
  LineageReachesRaw
  EvidenceAgrees
  DeliveredWasProcessed
  ProcessedIsLogged
CHECK_DEADLOCK FALSE
