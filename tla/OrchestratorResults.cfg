SPECIFICATION FairSpec
CONSTANTS
  Tasks = {t1,t2}
  Workers = {w1}
  NoWorker = NoWorker
  GateChildren = {t1}
  Monitors = {t2}
  MaxRetries = 1
  MaxSaves = 1
  OrderedProgress = TRUE
  ReliableSaves = TRUE
INVARIANTS ShownRunningIsExecuting
PROPERTIES ImplementsLifecycle QueuedEventuallyLeaves
