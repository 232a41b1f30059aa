SPECIFICATION FairSpec
CONSTANTS
  c1 = c1
  c2 = c2
  Clients <- TwoClients
  Missing = Missing
  Files <- AnyFile
  Kinds <- AllKinds
  Mishaps <- AllMishaps
  MaxBlocks = 3
  QueueCap = 2
  MaxErrors = 1
INVARIANTS
  EndIsTheWholeFile
  NotifyNeverBusy
PROPERTIES
  EveryRequestAnswered
CHECK_DEADLOCK FALSE
