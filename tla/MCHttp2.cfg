SPECIFICATION MCSpec
CONSTANTS
  MaxOther = 4
  Limits = {1, 2, 100}
  Peer = Peer
  Listen = Listen
  NoConn = NoConn
  CNT = 3
  MaxTimers = 3
  Bytes <- MCBytes
  Following <- MCFollowing
  MaxPath = 5
INVARIANTS OnlyNewestWaits TimersApart PathsAreDecoded
PROPERTIES ReplyIsTheEnd ClientStops PairHangs
CHECK_DEADLOCK FALSE
