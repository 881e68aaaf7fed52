CONSTANTS
  Root = Root
  d1 = d1
  d2 = d2
  f1 = f1
  f2 = f2
  f3 = f3
  Dirs = {d1, d2}
  Files = {f1, f2, f3}
  Parent <- MCParent
  RecurseDepth = 1
  IncludeExisting = TRUE
  IncludeNew = TRUE
  MaxSize = 1
  MaxEvents = 2
  None = None
  End = End
SPECIFICATION Spec
INVARIANTS
  ScannerTypeOK
  QueueCountsMatch
  TimerArmedIffQueued
  MonitoredMatchesTree
PROPERTIES
  ListedPathSent
CHECK_DEADLOCK FALSE
