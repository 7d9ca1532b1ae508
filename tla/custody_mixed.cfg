\* Two ordinary tasks, a kernel task and a thread of the scheduler process on
\* one CPU: congestion of @queued.
CONSTANTS
  t1 = t1
  t2 = t2
  t3 = t3
  t4 = t4
  usersched = usersched
  UserSched = usersched
  MAX_CPUS = 4
  RL_CPU_ANY = 9
  Tasks = {t1, t2, t3, t4}
  KTasks = {t3}
  GoThreads = {t4}
  NrCpus = 1
  Masks = {{0}}
  BuiltinIdle = TRUE
  Vtimes = {1}
  RingCap = 1
  HeldCap = 2
  DispatchedCap = 2
  MaxBatch = 3
SYMMETRY Symmetry
SPECIFICATION Spec
INVARIANT NoLostTask
INVARIANT NoScxError
PROPERTY UsesUserRelay
