SPECIFICATION Spec
CONSTANTS
  Tasks = {t1,t2}
  Workers = {w1,w2}
  NoWorker = NoWorker
  GateChildren = {t1}
  Monitors = {}
  MaxRetries = 1
  MaxSaves = 1
  OrderedProgress = FALSE
  ReliableSaves = FALSE
SYMMETRY Symmetry
INVARIANTS TypeOK OneRunPerTask PoolConsistent NoIdleWorkerWhileStartable BlockedNeverRetried
