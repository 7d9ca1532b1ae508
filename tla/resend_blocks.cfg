\* A batch of records, but more than the pool and the channel queue hold.
CONSTANTS
  p1 = p1
  p2 = p2
  Batch = 1
  PoolCap = 2
  QueueCap = 1
  DispatchCap = 2
  UrbErrors = FALSE
  NrCpus = 1
  MaxRecords = 5
  MaxNrQueued = 2
  Pids = {p1}
SPECIFICATION Spec
CHECK_DEADLOCK FALSE
PROPERTY QueuedIsProcessed
