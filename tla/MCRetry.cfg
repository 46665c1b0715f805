\* One proxy, renaming on, with the counts of RetryOptions::default().
CONSTANTS
  Proxies = {p1}
  RenameEnabled = TRUE
  MaxSameNameRetries = 2
  MaxRenameRetries = 3
  MaxExSequence = 3
  ReconnectBaseDelay = 3
  ReconnectMaxDelay = 30
  Unwinds = FALSE
SPECIFICATION FairSpec
INVARIANTS
  TypeOK
  RenamesOnlyAfterConflict
  CandidatesAreFresh
  WorkingNameIsKept
PROPERTIES
  GivesUpOnlyAfterEveryName
  BackoffShrinksOnlyAfterClosed
  KeepsReconnecting
