\* A ring of four slots, eight kinds of tasks with equal and different deadlines.
CONSTANTS
  taskPoolSize = 4
  Pids = {1, 2}
  Vtimes = {1, 2}
  Runtimes = {0, 1}
  RuntimeCap = 1
SPECIFICATION Spec
INVARIANT TypeOK
INVARIANT TestsAgree
PROPERTY IsSortedPool
