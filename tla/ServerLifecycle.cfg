SPECIFICATION FairSpec
CONSTANTS
  q1 = q1
  q2 = q2
  q3 = q3
  Requests <- ThreeRequests
  NumServices = 2
  Protected = TRUE
INVARIANTS TypeOK StoreOutlivesRequests
PROPERTIES SignalEndsProcess
CHECK_DEADLOCK FALSE
