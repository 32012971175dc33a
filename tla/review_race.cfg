CONSTANTS
  Records = {r1, r2}
  Consumers = {k1}
  Retries = {y1}
  Intake = Intake
  Faults = {"unusable"}
  MaxDeliveries = 1
  Calls = {c1, c2, c3}
  Asks = {a1, a2}
  Earlier = {a0}
  NoAsk = NoAsk
  NoCall = NoCall
  MaxInFlight = 3
SYMMETRY Symmetry
SPECIFICATION AdvisorySpec
INVARIANTS
  CommittedIdResolves
  LedgerExplainsStatus
  FirstVerdictStands
  AdvisoriesOnlyAge
PROPERTIES
  ImplementsLedger
CHECK_DEADLOCK FALSE
