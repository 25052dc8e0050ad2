SPECIFICATION FairSpec
CONSTANTS
  Tasks = {t1}
  GateMonitors = {}
  GateChildren = {}
  Setting = Setting
  MaxRetries = 1
  MaxTries = 2
  MaxLooks = 1
  MaxOrders = 1
  MaxInbox = 2
  WorkerMayDie = TRUE
  ClicksReliable = FALSE
  CarefulUser = FALSE
INVARIANTS PermissionReachesRuns
PROPERTIES OrderNeedsPermission PermissionReachesCheckout AbortedRunEnds
