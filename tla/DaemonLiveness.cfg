SPECIFICATION KindSpec
CONSTANTS
  s1 = s1
  s2 = s2
  v1 = v1
  v2 = v2
  c1 = c1
  c2 = c2
  None = None
  Services <- OneService
  Supported <- OneService
  Tags <- TwoTags
  HasStore = TRUE
  NumChannels = 2
  FlakyChannels <- FirstChannel
  Stoppers <- TwoStoppers
  Faults <- AllFaults
  Reader = 2
  MaxPublish = 2
  MaxLaunches = 2
PROPERTIES InMemoryAnnouncements Converges StopReturns AnnouncementsSettle
CHECK_DEADLOCK FALSE
