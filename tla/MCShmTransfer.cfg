SPECIFICATION Spec
CONSTANTS
  r1 = r1
  r2 = r2
  Size = 2
  Readers <- TwoReaders
  MaxRuns = 3
  Faults <- AllFaults
SYMMETRY ReaderSymmetry
INVARIANTS
  TypeOK
  ReaderEndsWithTheFile
  SegmentIsRemoved
PROPERTY ReadersShareAStream
CHECK_DEADLOCK FALSE
