SPECIFICATION FairSpec
CONSTANTS
  t1 = t1
  t2 = t2
  d1 = d1
  s1 = s1
  n1 = n1
  Nobody = nobody
  Workers = {w1}
  Requests = {r1, r2}
  Conversations = {c1}
  Enrollments = {e1}
  Executions = {x1}
  Nodes = {t1, t2, d1, s1, n1}
  TypeOf <- MCTypeOf
  Graphs <- MCOneNode
  Operations = {"pause", "resume", "stopFlow"}
  Faults = {}
PROPERTIES
  ArchivedIsNotResumed
CHECK_DEADLOCK FALSE
