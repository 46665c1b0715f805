\* Two ssh children: the first ends, then a signal arrives.
CONSTANT Commands = {c1, c2}
SPECIFICATION FairSpec
PROPERTY SignalStops
CHECK_DEADLOCK FALSE
