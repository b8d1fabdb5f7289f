SPECIFICATION Spec
CONSTANTS
  Workers = {w1, w2}
  Conns = {c1, c2, c3, c4}
  Lines = {"root", "invalid"}
  Readable = {"root"}
SYMMETRY Symmetry
INVARIANTS ChannelFifo PanicNeverPoisons MutexOnlyInRecv NoJobLost
PROPERTY ImplementsJobPool
CHECK_DEADLOCK FALSE
