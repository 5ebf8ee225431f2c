SPECIFICATION FairSpec
CONSTANTS
  Conn = {c1, c2}
  Session = {s1}
  None = None
  IdleEnabled = FALSE
  ReconnectWindow = TRUE
  MaxGeneration = 1
PROPERTIES
  EndingCompletes
  AbandonedSessionsEnd
  ConnectAnswered
