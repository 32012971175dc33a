CONSTANTS
  Records = {r1}
  Consumers = {k1, k2}
  Retries = {y1}
  Intake = Intake
  Faults <- AllFaults
  MaxDeliveries = 2
SYMMETRY Symmetry
SPECIFICATION Spec
INVARIANTS
  OneAttemptPerDispatch
  FailureIsClassified
  QueuedJobIsDispatched
CHECK_DEADLOCK FALSE
