SPECIFICATION FairSpec
CONSTANTS
  Senders = {w1}
  Schedules = {s1}
  SendTries = 2
  SendFaults = {"throw"}
  NoSchedule = NoSchedule
  Posters = {p1}
  Events = {e1, e2}
  PostTries = 2
  PostFaults = {"throw", "crash"}
  NoEvent = NoEvent
INVARIANTS
  RepeatsHaveReasons
  PostsHaveReasons
  StatusTellsDelivery
  MessagesAreReported
PROPERTIES
  QuietCancelHolds
  ScheduleSettles
  EventSettles
CHECK_DEADLOCK FALSE
