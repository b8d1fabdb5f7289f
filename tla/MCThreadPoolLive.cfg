SPECIFICATION LiveSpec
CONSTANTS
  Workers = {w1, w2}
  Conns = {c1, c2, c3}
  Lines = {"root"}
  Readable = {"root"}
PROPERTIES QueuedStarts EveryConnectionSettles
CHECK_DEADLOCK FALSE
