SPECIFICATION Spec
CONSTANTS
  Messages <- MCMessages
  Senders = {s1, s2}
  Capacity = 2
  Adders = {a1, a2}
  Bits = 2
  Arguments <- MCArguments
  MaxArgs = 5
  Streams = {x1, x2}
  Numbers <- MCNumbers
  NoHeader = NoHeader
  Text = Text
  Names = {n1, n2}
  MaxObjects = 3
  HalfBits = 5
  Mantissa = 6
  RatioBits = 10
  Conns = {c1, c2, c3}
  Cap = 2
  AddressWords <- MCAddressWords
INVARIANTS SafeIfJoinedAndChecked ResultsAreExact
           RepliesFollowFirstWord MarksComeFromTheirHeaders RatioIsHonoured
           HeaderVerifies NoReplyLost
PROPERTIES LookupProgramEnds MainReturns PointersDieByDestroyOnly
           PairBlocksItself EveryClientAnswered
CHECK_DEADLOCK FALSE
