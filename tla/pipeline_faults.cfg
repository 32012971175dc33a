CONSTANTS
  Records = {r1}
  Consumers = {k1}
  Retries = {y1}
  Intake = Intake
  Faults = {"database", "send_unknown"}
  MaxDeliveries = 1
  Calls = {c1, c2, c3}
  NoCall = NoCall
  MaxInFlight = 2
SYMMETRY Symmetry
SPECIFICATION PipelineSpec
PROPERTIES
  DecisionsSurviveReprocessing
  PipelineImplementsLedger
CHECK_DEADLOCK FALSE
