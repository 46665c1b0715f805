\* One permit per session and two sessions.
CONSTANTS
  Conns = {c1, c2}
  MaxSessions = 2
  MaxForwardConnections = 1
SPECIFICATION Spec
INVARIANTS
  TotalWithinLimit
CHECK_DEADLOCK FALSE
