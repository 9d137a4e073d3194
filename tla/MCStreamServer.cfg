CONSTANTS
  Mixes <- SmallMixes
  Messages <- SmallMessages
  AtOnce <- SmallAtOnce
  Backlog = 2
  Addresses <- SmallAddresses
  MayGive <- LeastAddress
SPECIFICATION Spec
\* The server goes on waiting.
CHECK_DEADLOCK FALSE
INVARIANTS OpsCounted OneOperation OkIsComplete SummaryIsOwn
PROPERTIES JobsReleased
