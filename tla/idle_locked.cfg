\* The user-space scheduler alone, on two CPUs: a claim of rs_select_cpu that nobody kicks.
CONSTANTS
  t1 = t1
  w1 = w1
  u1 = u1
  none = none
  CPUs = {0, 1}
  Cores = {{0}, {1}}
  L2Lists = {{0, 1}}
  L3Lists = {{0, 1}}
  Tasks = {t1}
  Masks = {{0}, {0, 1}}
  PrevCPUs = {0, 1}
  UserPrevCPUs = {0, 1}
  Wakers = {w1}
  UserCalls = {u1}
  smt_enabled = FALSE
  NoCpu = none
SPECIFICATION Spec
INVARIANT NoIdleLocked
