\* Three ranks: four partitions twice, which none of the strides 3 and 2 leaves
\* even; or a file of up to seven lines, shorter and longer than the ranks, after
\* an aborted run that has left up to three parts.
CONSTANTS
  numProcs = 3
  partitions = 4
  n = 2
  LineCounts = {0, 1, 2, 3, 4, 5, 6, 7}
  I = 100
SPECIFICATION Spec
INVARIANTS ReportIsRight ReadsItsPart
PROPERTIES Terminates
