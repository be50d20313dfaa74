SPECIFICATION Spec
CONSTANTS
  Times <- MCTimes
  Rows <- MCRows
  NoMs <- MCNoMs
  Ranges <- MCRanges
  TicksPerHour = 2
  HoursPerDay = 2
  DaysPerWeek = 2
  SeriesRows = 2
  SlowestRows = 2
  LowRows = 2
  Limit = 2
  ClusterRows = 5
  MinRows = 4
  MinLow = 4
  PerCluster = 1
  MaxClusters = 3
  Silhouettes <- MCSilhouettes
  MaxWrites = 1
INVARIANTS
  TypeOK
  SectionsTellOneLog
  PagesMissOnlyLateRows
  NoEmptyCluster
CHECK_DEADLOCK FALSE
