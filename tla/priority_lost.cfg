\* User space also returns vtime 0: priority tasks.
CONSTANTS
  t1 = t1
  t2 = t2
  t3 = t3
  t4 = t4
  usersched = usersched
  UserSched = usersched
  MAX_CPUS = 4
  RL_CPU_ANY = 9
  Tasks = {t1}
  KTasks = {}
  GoThreads = {}
  NrCpus = 2
  Masks = {{0}, {1}, {0, 1}}
  BuiltinIdle = TRUE
  Vtimes = {0, 1}
  RingCap = 2
  HeldCap = 1
  DispatchedCap = 1
  MaxBatch = 3
SYMMETRY Symmetry
SPECIFICATION Spec
CHECK_DEADLOCK FALSE
INVARIANT NoLostTask
