\* An atserver that is punctual, or overruns every deadline: orphaned
\* requests, SIGPIPE, restarts.
SPECIFICATION FairSpec
CONSTANTS
  Gap = 2
  ShortTO = 1
  LongTO = 2
  Grace = 2
  MaxLate = 3
  MaxSessions = 3
INVARIANTS SentMeansAccepted SparesAtserver
PROPERTY SessionsEnd
