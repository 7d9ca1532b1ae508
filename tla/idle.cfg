\* A kernel-side caller and the user-space scheduler search from different CPUs for one
\* task; the CPU user space starts from is in no list of an L2 cache.
CONSTANTS
  t1 = t1
  w1 = w1
  u1 = u1
  none = none
  CPUs = {0, 1, 2}
  Cores = {{0, 1}, {2}}
  L2Lists = {{0, 1}}
  L3Lists = {{0, 1, 2}}
  Tasks = {t1}
  Masks = {{1, 2}, {0, 1, 2}}
  PrevCPUs = {0}
  UserPrevCPUs = {2}
  Wakers = {w1}
  UserCalls = {u1}
  smt_enabled = TRUE
  NoCpu = none
SPECIFICATION Spec
INVARIANT TypeOK
INVARIANT KernelClaimsKicked
INVARIANT ClosestIdle
