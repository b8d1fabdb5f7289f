SPECIFICATION LiveSpec
CONSTANTS
  c1 = c1
  c2 = c2
  c3 = c3
  Clients <- MCClients
  MaxSend = 2
  Listen = Listen
  None = None
CONSTRAINT ArriveInOrder
INVARIANTS EchoesInOrder AcceptNeverBlocks StopsOnlyAfterLeave StaleSessionNeedsTwo
PROPERTIES LatestIsRead SupersededIsLeft
CHECK_DEADLOCK FALSE
