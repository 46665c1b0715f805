\* Two proxies, renaming off, a build that unwinds on a panic.
CONSTANTS
  Proxies = {p1, p2}
  RenameEnabled = FALSE
  MaxSameNameRetries = 0
  MaxRenameRetries = 0
  MaxExSequence = 1
  ReconnectBaseDelay = 1
  ReconnectMaxDelay = 2
  Unwinds = TRUE
SPECIFICATION FairSpec
INVARIANTS
  NeverRenamesWhenOff
  ActiveIsWhatRuns
  SweepMissesOnlyRaced
  ReturnLeavesNoTunnel
PROPERTIES
  TunnelsRunToTheirEnd
  PanicStopsTheOthers
  ShutdownCompletes
