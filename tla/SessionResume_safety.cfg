CONSTANTS
  Browser = {b1, b2}
  None = None
  ReplayCapacity = 1
  MaxProduced = 3
  MaxConnections = 3
  MaxGeneration = 2
  MaxSequence = 4
SPECIFICATION Spec
CHECK_DEADLOCK FALSE
SYMMETRY Symmetry
INVARIANTS
  StreamsAgree
  NoDuplicateOutput
  ResumedWithoutGap
