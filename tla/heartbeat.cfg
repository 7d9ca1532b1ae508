\* Two CPUs, two other tasks.
CONSTANTS
  CPUs = {0, 1}
  MaxWork = 2
SPECIFICATION Spec
INVARIANT TypeOK
PROPERTY UserschedRuns
PROPERTY RecordsAreDrained
