\* The congested path of @dispatched: two records wait.
CONSTANTS
  t1 = t1
  t2 = t2
  t3 = t3
  t4 = t4
  usersched = usersched
  UserSched = usersched
  MAX_CPUS = 4
  RL_CPU_ANY = 9
  Tasks = {t1, t2}
  KTasks = {}
  GoThreads = {}
  NrCpus = 2
  Masks = {{0, 1}}
  BuiltinIdle = TRUE
  Vtimes = {1}
  RingCap = 2
  HeldCap = 2
  DispatchedCap = 2
  MaxBatch = 3
SPECIFICATION Spec
PROPERTY DrainsAll
