SPECIFICATION Spec
CONSTANTS
  Workers = {w1, w2}
  Requests = {r1, r2}
  Conversations = {c1, c2}
  BatchSize = 1
  ScanLimit = 2
  LaunchUntil = 0
  MaxClock = 1
  Faults = {"crash"}
  Nobody = nobody
SYMMETRY MCSymmetry
INVARIANTS
  OneMessagePerRecipient
  CancelStopsSends
  CompletedLeavesNobody
  RecordTellsTheTruth
  Paced
CHECK_DEADLOCK FALSE
