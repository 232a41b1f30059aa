SPECIFICATION Spec
CONSTANTS
  c1 = c1
  c2 = c2
  Clients <- TwoClients
  name <- OwnNames
  Empty = Empty
  None = None
  ClientNumMax = 2
  QueueTalks = 1
  MaxTalks = 1
  Faults <- Interrupts
INVARIANTS
  CountIsMembers
CHECK_DEADLOCK FALSE
