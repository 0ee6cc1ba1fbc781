SPECIFICATION Spec
CONSTANTS
  Requests = {q1, q2}
  Loop = loop
  Pool = {t1, t2}
  Steps <- BridgeSteps
  CheckSameThread = TRUE
INVARIANT
  ProperlyManaged
CHECK_DEADLOCK FALSE
