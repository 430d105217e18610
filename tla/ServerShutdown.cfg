SPECIFICATION Spec
CONSTANTS
  q1 = q1
  q2 = q2
  q3 = q3
  Requests <- TwoRequests
  NumServices = 2
  Protected = TRUE
INVARIANTS GracefulExit
CHECK_DEADLOCK FALSE
