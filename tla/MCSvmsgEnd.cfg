SPECIFICATION Spec
CONSTANTS
  c1 = c1
  c2 = c2
  s1 = s1
  s2 = s2
  Clients <- TwoClients
  Servers = {s1}
  None = None
  Missing = Missing
  MaxBlocks = 3
  QueueBlocks = 2
  Files <- AnyFile
  Faults <- LongEnd
INVARIANTS
  EndIsAnnounced
CHECK_DEADLOCK FALSE
