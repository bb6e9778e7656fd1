\* Either mode with an allow-list, -at auto, atserver crashing: safety, liveness
\* and refinement of the whole pipeline.
SPECIFICATION FairHSpec
CONSTANTS
  p1 = p1
  p2 = p2
  PDUs = {p1, p2}
  Recipient <- MCRecipient
  AllowTo <- MCAllowTo
  Modes = {"http", "ws"}
  AtMode = "auto"
  Report = FALSE
  Cooldown = 1
  BackoffBase = 1
  BackoffMax = 2
  Workers = {w1, w2, w3}
  NoPDU = NoPDU
  NoWorker = NoWorker
  MaxQueued = 4
  MaxNow = 3
INVARIANTS ModemMutex Accounting  OncePerClaim FailsWereReal
PROPERTIES BackoffOnlyExtended OnlyEarlyReadersInBackoff
PROPERTIES WorkersEnd ImplementsRelay
