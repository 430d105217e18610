SPECIFICATION WSpec
CONSTANTS
  a = a
  b = b
  x = x
  s1 = s1
  Calls <- OneCall
  Services <- OneService
  Keys <- OneService
  Others <- OtherTool
  Callers <- SharedCallers
  Notifying = TRUE
  MayFail = TRUE
  TTL = 1
  MaxLag = 1
  MaxTime = 2
  MaxPublish = 2
  MaxCalls = 3
INVARIANTS NewsIsNew
CHECK_DEADLOCK FALSE
