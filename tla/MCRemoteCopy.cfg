\* Two senders call one receiver; or one local copy between small ranges.
\* The receiver waits for a sender without a timeout, so it may wait forever.
CONSTANTS
  Senders = {s1, s2}
  Receiver = receiver
  Local = local
  NoSender = none
  Addresses = {0, 1, 2, 3}
  Lengths = {0, 1, 2}
CHECK_DEADLOCK FALSE
SPECIFICATION Spec
INVARIANTS ReleasedInOrder NothingLeaked CopySound
PROPERTIES BothReturn
