SPECIFICATION Spec
CONSTANTS
  Conn = {c1}
  Session = {s1, s2}
  None = None
  IdleEnabled = TRUE
  ReconnectWindow = TRUE
  MaxGeneration = 1
SYMMETRY Symmetry
INVARIANTS
  TimersQuiet
  TypeOK
