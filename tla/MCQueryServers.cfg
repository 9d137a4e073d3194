CONSTANTS
  Running = {"exp4_server", "exp4_dpu", "exp5_dpu", "lb_mt_tfr_server"}
  Clients = {"c1", "c2"}
  Threads = {t1, t2}
  Files <- MCFiles
  Candidates <- MCCandidates
  BatchSize = 2
  HostMayFail = TRUE
  None = None
  Failed = Failed
  Racy = Racy
SPECIFICATION Spec
\* The clients stop at the end of their files.
CHECK_DEADLOCK FALSE
INVARIANTS FreshAnswer AloneIsRight WholeFile
PROPERTIES OthersAnswered
