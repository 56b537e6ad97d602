SPECIFICATION Spec
CONSTANTS
  t1 = t1
  t2 = t2
  d1 = d1
  s1 = s1
  n1 = n1
  Nobody = nobody
  Workers = {w1, w2}
  Requests = {r1}
  Conversations = {c1}
  Enrollments = {e1}
  Executions = {x1, x2}
  Nodes = {t1, t2, d1, s1, n1}
  TypeOf <- MCTypeOf
  Graphs <- MCGraphs
  Operations = {"enroll", "stopEnrollment", "pause", "resume", "stopFlow", "updateFlow", "deleteFlow"}
  Faults = {"throw", "replyLost", "crash"}
INVARIANTS
  AtMostOneSend
  OneLiveExecution
  LateSendsBounded
  SendsAfterEndBounded
  NoSilentStall
PROPERTIES
  EndedStaysEnded
CHECK_DEADLOCK FALSE
