\* A session the server drops at once ends the back-off.
SPECIFICATION Spec
CONSTANTS
  Secure = TRUE
  HandshakeTO = 20
  Idle = 90
  Healthy = 5
  MaxDelay = 60
  MaxLosses = 0
PROPERTY ShrinksOnlyAfterHealthySession
