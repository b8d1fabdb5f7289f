SPECIFICATION Spec
CONSTANTS
  Clients = {c1, c2}
  MaxSend = 2
  Listen = Listen
  None = None
INVARIANT HangUpKeepsEpoll
CHECK_DEADLOCK FALSE
