SPECIFICATION CallSpec
CONSTANTS
  None = None
  Names <- ThreeNames
  Cases <- TimelineCalls
  Now = 8
  Cutoff = 4
  Week = 2
  Grain = 2
  HistoryLimit = 2
  MaxReleases = 3
INVARIANTS TimelineNewestFirst
CHECK_DEADLOCK FALSE
