CONSTANTS
  Records = {r1}
  Consumers = {k1, k2}
  Retries = {y1}
  Intake = Intake
  Faults = {"send", "source", "adapter", "unusable"}
  MaxDeliveries = 2
SPECIFICATION FairSpec
PROPERTIES
  QueuedIsPickedUp
  ProcessingEnds
CHECK_DEADLOCK FALSE
