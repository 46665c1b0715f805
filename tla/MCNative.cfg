\* Three ssh children.
CONSTANT Commands = {c1, c2, c3}
SPECIFICATION FairSpec
INVARIANTS
  ExitLeavesNoChild
  ChildrenDieOfSignalsOnly
PROPERTY
  HeardSignalStops
\* The process exits.
CHECK_DEADLOCK FALSE
