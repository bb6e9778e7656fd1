\* Duplicates leave the modem within the cooldown.
SPECIFICATION TSpec
CONSTANTS
  p1 = p1
  p2 = p2
  PDUs = {p1, p2}
  Recipient <- MCRecipient
  AllowTo = {}
  Modes = {"http", "ws"}
  AtMode = "auto"
  Report = FALSE
  Cooldown = 2
  BackoffBase = 1
  BackoffMax = 2
  Workers = {w1, w2}
  NoPDU = NoPDU
  NoWorker = NoWorker
  MaxQueued = 4
  MaxNow = 3
INVARIANT TransmissionsApart
