\* Two proxies of one name, one name that another client may hold too, and
\* as many names as there are claims on them.
CONSTANTS
  Proxies = {p1, p2}
  RenameEnabled = TRUE
  MaxSameNameRetries = 0
  MaxRenameRetries = 2
  MaxExSequence = 2
  ReconnectBaseDelay = 1
  ReconnectMaxDelay = 1
  Unwinds = FALSE
  Foreign = {0}
  MaxTroubles = 1
SPECIFICATION RegistrySpec
INVARIANTS
  RegistryTypeOK
PROPERTIES
  EveryProxyComesBack
  ConfiguredNameReturns
  AddressChangesOnlyOnConflict
