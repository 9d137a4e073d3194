CONSTANTS
  numProcs = 4
  limit_procs = 4
  partitions = 6
  n_repeats = 2
  Inf = Inf
  I = I
SPECIFICATION SafeSpec
INVARIANT ReportIsAverage
