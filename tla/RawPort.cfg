\* Two sessions on two descriptors of which select watches only the first.
SPECIFICATION FairSpec
CONSTANTS
  SetSize = 1
  MaxFd = 1
  FaultSets = {{}, {"write"}, {"readerr", "write"}, {"late"}, {"shared"}}
  MaxSessions = 2
  MaxPolls = 1
  MaxLag = 2
\* All sessions may be over with every descriptor left open.
CHECK_DEADLOCK FALSE
INVARIANTS
  ReadersOwnTheirFd
  EverySentBacked
  VerdictsRight
  LeavesNothingBehind
PROPERTY PortSessionsEnd
