\* 33 is 0x21: two different digits, and a status of failure.
SPECIFICATION Spec
CONSTANTS
  Bytes = {0, 1, 3, 33}
  MaxLen = 10
  StampLen = 1
  BlockSize = 3
\* An input ends.
CHECK_DEADLOCK FALSE
INVARIANTS
  DecodesExactly
  ReportBitSparesTheRest
  VerdictExact
  UnpadsExactly
PROPERTIES
  VerdictStays
