\* The timings of the program, in seconds.
SPECIFICATION FairSpec
CONSTANTS
  Secure = TRUE
  HandshakeTO = 20
  Idle = 90
  Healthy = 5
  MaxDelay = 60
  MaxLosses = 2
INVARIANTS WSTypeOK SocketsAccountedFor
PROPERTY Reconnects
