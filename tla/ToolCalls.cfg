SPECIFICATION FairCallSpec
CONSTANTS
  None = None
  Names <- ThreeNames
  Cases <- EveryCall
  Now = 8
  Cutoff = 4
  Week = 2
  Grain = 2
  HistoryLimit = 2
  MaxReleases = 3
INVARIANTS EveryServiceAnswered NothingLostOrDoubled InOrder GraphExact ChangelogSpansTheGap UpToDateIsTrue
PROPERTIES CallReturns
CHECK_DEADLOCK FALSE
