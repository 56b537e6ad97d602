SPECIFICATION Spec
CONSTANTS
  Requests = {r1}
  Reconnect = timer
  Sockets = {s1, s2, s3}
  NoSocket = nosocket
  Operations = {"send", "look up", "qr", "pair", "refresh", "disconnect", "disconnectForOrg"}
  MaxLinks = 1
  MaxCrashes = 1
  Faults = {"create", "query", "close"}
SYMMETRY MCSymmetry
INVARIANTS
  OneSession
  DisconnectHolds
  NotForgotten
CHECK_DEADLOCK FALSE
