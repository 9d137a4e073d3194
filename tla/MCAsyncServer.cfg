\* Two threads and two calls; clients may go away and work may throw.  No
\* symmetry, for the sake of liveness.
CONSTANTS
  Threads = {t1, t2}
  Objects = {o1, o2, o3, o4}
  Calls = {c1, c2}
  MayLeave = TRUE
  MayThrow = TRUE
  None = None
SPECIFICATION Spec
INVARIANTS OnePlace WorkBeforeAnswer
PROPERTIES IsWorkPool SentIsAnswered
