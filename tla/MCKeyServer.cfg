SPECIFICATION KeyFairSpec
CONSTANTS
  c1 = c1
  c2 = c2
  s1 = s1
  s2 = s2
  Clients <- TwoClients
  KeyServers <- TwoServers
  NoServer = NoServer
  Missing = Missing
  MaxBlocks = 1
  QueueBlocks = 1
  Files <- ShortFiles
  Faults <- AllFaults
PROPERTIES
  KeyClientServedOrOrphaned
CHECK_DEADLOCK FALSE
