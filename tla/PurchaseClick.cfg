SPECIFICATION Spec
CONSTANTS
  Tasks = {t1}
  GateMonitors = {}
  GateChildren = {}
  Setting = Setting
  MaxRetries = 1
  MaxTries = 2
  MaxLooks = 2
  MaxOrders = 2
  MaxInbox = 2
  WorkerMayDie = FALSE
  ClicksReliable = TRUE
  CarefulUser = TRUE
PROPERTIES ClickNeedsPermission
