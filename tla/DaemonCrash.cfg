SPECIFICATION Spec
CONSTANTS
  s1 = s1
  s2 = s2
  v1 = v1
  v2 = v2
  c1 = c1
  c2 = c2
  None = None
  Services <- TwoServices
  Supported <- TwoServices
  Tags <- TwoTags
  HasStore = TRUE
  NumChannels = 1
  FlakyChannels <- NoChannels
  Stoppers <- OneStopper
  Faults <- LoadAndCrash
  Reader = 1
  MaxPublish = 2
  MaxLaunches = 3
INVARIANTS DurableBaseline HistoryHoldsAnnounced IndInv
PROPERTIES NoEffectsAfterStop DurableAnnouncements
CHECK_DEADLOCK FALSE
