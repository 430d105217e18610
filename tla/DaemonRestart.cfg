SPECIFICATION Spec
CONSTANTS
  s1 = s1
  s2 = s2
  v1 = v1
  v2 = v2
  c1 = c1
  c2 = c2
  None = None
  Services <- TwoServices
  Supported <- TwoServices
  Tags <- TwoTags
  HasStore = TRUE
  NumChannels = 3
  FlakyChannels <- SecondChannel
  Stoppers <- OneStopper
  Faults <- NoFaults
  Reader = 3
  MaxPublish = 2
  MaxLaunches = 2
INVARIANTS SoundChannelsAgree BaselineRemembered Replayable
CHECK_DEADLOCK FALSE
