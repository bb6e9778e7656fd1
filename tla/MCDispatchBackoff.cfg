\* A worker that read the backoff state early still starts its session later.
SPECIFICATION FairSpec
CONSTANTS
  p1 = p1
  p2 = p2
  PDUs = {p1, p2}
  Recipient <- MCRecipient
  AllowTo = {}
  Modes = {"ws"}
  AtMode = "atsrv"
  Report = FALSE
  Cooldown = 1
  BackoffBase = 1
  BackoffMax = 2
  Workers = {w1, w2, w3}
  NoPDU = NoPDU
  NoWorker = NoWorker
  MaxQueued = 4
  MaxNow = 1
PROPERTY NoSessionInBackoff
