SPECIFICATION Spec
CONSTANTS
  Conn = {c1, c2}
  Session = {s1, s2}
  None = None
  IdleEnabled = FALSE
  ReconnectWindow = TRUE
  MaxGeneration = 2
SYMMETRY Symmetry
INVARIANTS
  OneController
  NoOrphanSession
  ReleasedOnce
  StagingOutlivesManager
