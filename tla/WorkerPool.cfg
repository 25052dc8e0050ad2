SPECIFICATION FairSpec
CONSTANTS
  ProcessCount = 2
  Tasks = {t1, t2}
  Side = {k1}
  Slots = 1
  MaxFaults = 2
  StartupMayHang = FALSE
INVARIANTS BooksFollowRuns
PROPERTIES RunEnds UnresponsiveReplaced CloseEnds
CHECK_DEADLOCK FALSE
