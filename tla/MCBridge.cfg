\* Two permits, and more connections than permits in two successive sessions.
CONSTANTS
  Conns = {c1, c2, c3}
  MaxSessions = 2
  MaxForwardConnections = 2
SPECIFICATION FairSpec
INVARIANTS
  PermitsAreConserved
PROPERTIES
  EachSessionIsAPool
  FullPoolDrains
  OrphanWaitsForLocalOnly
\* Every session is over and every connection was handled.
CHECK_DEADLOCK FALSE
