CONSTANTS
  Records = {r1}
  Consumers = {k1}
  Retries = {y1}
  Intake = Intake
  Faults = {"crash"}
  MaxDeliveries = 2
SPECIFICATION FairSpec
PROPERTIES
  ProcessingEnds
CHECK_DEADLOCK FALSE
