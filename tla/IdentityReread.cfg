\* A read error on an existing file replaces the identity.
SPECIFICATION IdSpec
CONSTANTS
  MaxIds = 2
  ReadErrors = TRUE
  PowerLoss = FALSE
INVARIANT RestartKeepsPairing
