SPECIFICATION FairSpec
CONSTANTS
 Workers = {w1}
 Closers = {k1, k2}
 MaxOpens = 2
 Profiles = {p1}
 Proxies = {x1}
 ProfileTasks = {t1}
 Tasks = {t1}
 MaxEdits = 1
 None = None
 MaxServices = 3
 MaxAsks = 2
 MaxChanges = 3
INVARIANTS ManualBrowserKeepsLock LockHasHolder UsedRecordsExist AckedCardSurvives MainServiceIsNamed
PROPERTIES ShownSettles
CHECK_DEADLOCK FALSE
