SPECIFICATION CommandsSpec
CONSTANTS
  None = None
  c1 = c1
  c2 = c2
  secret = secret
  s1 = s1
  s2 = s2
  v1 = v1
  v2 = v2
  github = github
  gitlab = gitlab
  NoTag = NoTag
  Processes <- TwoProcesses
  Clusters <- SomeClusters
  Configs <- SomeConfigs
  MCPConfigs <- SomeMCP
  MaxCommands = 3
  EnvToken = secret
  Services <- TwoServices
  Tags <- TwoTags
  Platforms <- TwoPlatforms
  Rate = 1
  Burst = 1
  Deadline = 1
  Window = 3
  MaxPublish = 2
INVARIANTS NamesAndTokenKept StillLoads DiscoveredIsRight DeployedIsRunning RateRespected RefusedIsOverload
PROPERTIES ChangesPrinted SignalStops
CHECK_DEADLOCK FALSE
