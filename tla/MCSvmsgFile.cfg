SPECIFICATION Spec
SYMMETRY Symmetry
CONSTANTS
  c1 = c1
  c2 = c2
  s1 = s1
  s2 = s2
  Clients <- TwoClients
  Servers <- TwoServers
  None = None
  Missing = Missing
  MaxBlocks = 2
  QueueBlocks = 1
  Files <- AnyFile
  Faults <- AllFaults
INVARIANTS
  BlocksConserved
  DoneIsComplete
  HandlerNeverSpins
  IdFileNamesAQueue
CHECK_DEADLOCK FALSE
