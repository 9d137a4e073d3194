CONSTANTS
  Workers = {w1, w2}
  Sender = sender
  Jobs = 2
SPECIFICATION Spec
\* The threads end with the queue.
CHECK_DEADLOCK FALSE
INVARIANTS SkippedIsDoubled AloneIsExact HostServesOneAtATime
