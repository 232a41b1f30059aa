SPECIFICATION Spec
CONSTANTS
  N = 6
  Size = 4
  MaxOld = 5
  MaxSent = 2
  Slots = 4
  MaxChanges = 2
  MaxPath = 4
  MayBeKilled <- EitherEnd
  MaxThreads = 3
  MaxBytes = 2
  MaxAddrs = 3
  Programs <- SocketPrograms
INVARIANT ReturnsASocket
CHECK_DEADLOCK FALSE
