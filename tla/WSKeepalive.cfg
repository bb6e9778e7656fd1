\* Pongs that overlap the next pings, silent servers, stalled uplinks.
SPECIFICATION FairSpec
CONSTANTS
  Ping = 4
  DefaultIdle = 9
  Rtt = 7
CHECK_DEADLOCK FALSE
INVARIANTS HealthyNotCut
PROPERTY SilenceNoticed
