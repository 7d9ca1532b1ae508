\* Two tasks, one of them a priority task, on two CPUs whose clocks disagree.
CONSTANTS
  t1 = t1
  t2 = t2
  c1 = c1
  c2 = c2
  usersched = usersched
  nobody = nobody
  Tasks = {t1, t2}
  UserSched = usersched
  CPUs = {c1, c2}
  Nobody = nobody
  Weights = {50, 100}
  Favoured = {t1}
  SLICE_NS_DEFAULT = 1
  TwoTo64 = 1000
  MaxTime = 1
  MaxVtime = 3
  MaxRecords = 1
SYMMETRY Symmetry
SPECIFICATION Spec
INVARIANT TypeOK
INVARIANT RunsForward
INVARIANT ExecRuntimeExact
INVARIANT NrRunningExact
INVARIANT NoAccidentalPriority
