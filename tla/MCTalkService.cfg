SPECIFICATION FairSpec
CONSTANTS
  c1 = c1
  c2 = c2
  Clients <- TwoClients
  name <- OwnNames
  Empty = Empty
  None = None
  ClientNumMax = 2
  QueueTalks = 1
  MaxTalks = 1
  Faults <- AllFaults
INVARIANTS
  OneSlotPerClient
  LeaversAreForgotten
  MembersStayKnown
PROPERTY BlockedServerIsReleased
CHECK_DEADLOCK FALSE
