SPECIFICATION OverlapsSpec
CONSTANTS
  r1 = r1
  r2 = r2
  r3 = r3
  n1 = n1
  n2 = n2
  n3 = n3
  Blank = Blank
  Requests <- ThreeRequests
  Names <- ThreeNames
  Worlds <- OneMutex
  Configured <- OneConfigured
  a = a
  b = b
  x = x
  s1 = s1
  Calls <- TwoCalls
  Services <- OneService
  Keys <- OneService
  Others <- OtherTool
  Callers <- OverlapCallers
  Notifying = TRUE
  MayFail = TRUE
  TTL = 1
  MaxLag = 1
  MaxTime = 3
  MaxPublish = 2
  MaxCalls = 3
  p1 = p1
  p2 = p2
  t1 = t1
  t2 = t2
  Procs <- TwoProcs
  TenantNames <- TwoTenantNames
  MaxIds = 4
INVARIANTS TypeOK UniqueNames ListingsAreCurrent EachChangePostedOnce AnswersFresh PrintedKeysOpenTheirTenant NoOrphans TenancyInv
PROPERTIES AcknowledgedInFull WatchAnnounces
CHECK_DEADLOCK FALSE
