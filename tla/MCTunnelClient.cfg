\* Two calls of close(), a buffer of two pieces of output, and one piece more
\* than it holds.
CONSTANTS
  Closers = {c1, c2}
  OutputCap = 2
  MaxText = 2
SPECIFICATION FairSpec
INVARIANTS
  ResultIsFrpsVerdict
PROPERTIES
  CloseEndsSession
  ImplementsTunnel
\* A dropped tunnel is over; the runner builds another one.
CHECK_DEADLOCK FALSE
