\* Five ranks, of which one only joins the reductions; six partitions, three
\* repetitions: three workers, one partition served by the master, and
\* repetitions that overlap so far that two workers can carry the same
\* partition, each in a repetition of its own.  With three repetitions one
\* tests nothing, one tests once and one twice.
CONSTANTS
  numProcs = 5
  limit_procs = 4
  partitions = 6
  n_repeats = 3
  Inf = Inf
  I = I
SPECIFICATION Spec
INVARIANTS OneOutstanding Accounted TestsRun
PROPERTIES IsWorkPool Terminates
