SPECIFICATION CurlLiveSpec
CONSTANTS
  CNT = 4
  MaxTimers = 3
PROPERTY RequestsAreSent
CHECK_DEADLOCK FALSE
