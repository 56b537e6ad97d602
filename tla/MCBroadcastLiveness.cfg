SPECIFICATION FairSpec
CONSTANTS
  Workers = {w1, w2}
  Requests = {r1}
  Conversations = {c1, c2}
  BatchSize = 2
  ScanLimit = 2
  LaunchUntil = 0
  MaxClock = 0
  Faults = {"throw", "crash"}
  Nobody = nobody
PROPERTIES
  BroadcastSettles
CHECK_DEADLOCK FALSE
