\* The shutdown of two proxies, asked whether close() covers every tunnel.
CONSTANTS
  Proxies = {p1, p2}
  RenameEnabled = FALSE
  MaxSameNameRetries = 0
  MaxRenameRetries = 0
  MaxExSequence = 1
  ReconnectBaseDelay = 1
  ReconnectMaxDelay = 2
  Unwinds = FALSE
SPECIFICATION Spec
INVARIANT CloseCoversTunnels
