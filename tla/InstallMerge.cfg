SPECIFICATION CommandsSpec
CONSTANTS
  None = None
  c1 = c1
  c2 = c2
  secret = secret
  s1 = s1
  s2 = s2
  v1 = v1
  v2 = v2
  github = github
  gitlab = gitlab
  NoTag = NoTag
  Processes <- OneProcess
  Clusters <- NoClusters
  Configs <- NoConfig
  MCPConfigs <- OnlyFullMCP
  MaxCommands = 1
  EnvToken = secret
  Services <- TwoServices
  Tags <- TwoTags
  Platforms <- TwoPlatforms
  Rate = 1
  Burst = 1
  Deadline = 1
  Window = 3
  MaxPublish = 2
INVARIANTS InstallMerges
CHECK_DEADLOCK FALSE
