CONSTANTS
  Records = {r1, r2}
  Consumers = {k1, k2}
  Retries = {y1, y2}
  Intake = Intake
  Faults = {"crash", "source", "unusable"}
  MaxDeliveries = 2
  Calls = {c1, c2}
  NoCall = NoCall
  MaxInFlight = 1
SYMMETRY Symmetry
SPECIFICATION PipelineSpec
INVARIANTS
  OneOwner
  ReviewStatusIsDerived
  CommittedJobIsSettled
  RejectedNotCommitted
  ApprovedIsCommittable
PROPERTIES
  PipelineImplementsLifecycle
CHECK_DEADLOCK FALSE
