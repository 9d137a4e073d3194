\* The DPU with two handlers, concurrent clients.
CONSTANTS
  c1 = c1
  c2 = c2
  Calls <- MCCalls
  Threads = {t1, t2}
  Objects = {o1, o2, o3, o4}
  MayLeave = FALSE
  MayThrow = TRUE
  None = None
  Local <- MCLocal
  Remote <- MCRemote
  Offload = TRUE
SPECIFICATION OffloadSafeSpec
SYMMETRY Symmetry
INVARIANTS NothingInvented QuietIsZero AloneIsCounted
