\* Channels, pool and counters, every one of them full at some time; the goroutine
\* may block for good on a full channel, and a write to @dispatched may fail.
CONSTANTS
  p1 = p1
  p2 = p2
  Batch = 2
  PoolCap = 3
  QueueCap = 2
  DispatchCap = 1
  UrbErrors = TRUE
  NrCpus = 2
  MaxRecords = 3
  MaxNrQueued = 2
  Pids = {p1, p2}
SPECIFICATION Spec
CHECK_DEADLOCK FALSE
INVARIANT TypeOK
INVARIANT NrQueuedNeverWraps
PROPERTY IsUserRelay
PROPERTY BatchIsDispatched
PROPERTY ProcessedUnderLoad
