SPECIFICATION FairSpec
CONSTANTS
  c1 = c1
  c2 = c2
  s1 = s1
  s2 = s2
  Clients <- TwoClients
  Servers = {s1}
  None = None
  Missing = Missing
  MaxBlocks = 3
  QueueBlocks = 2
  Files <- ExistingFile
  Faults <- NoFaults
PROPERTIES
  EveryClientFinishes
CHECK_DEADLOCK FALSE
