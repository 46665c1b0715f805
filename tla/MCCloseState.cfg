\* Two calls of close() against three waiters. The waiters are
\* interchangeable, but the run checks liveness, so no symmetry is declared.
CONSTANTS
  Waiters = {w1, w2, w3}
  Closers = {c1, c2}
SPECIFICATION FairSpec
INVARIANTS
  NoLostWakeup
PROPERTIES
  ImplementsStickyCancel
\* Every call returned: nobody has to close again.
CHECK_DEADLOCK FALSE
