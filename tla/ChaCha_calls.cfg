SPECIFICATION Spec
CONSTANTS
  BlockBytes = 3
  Counters = 4
  MaxLen = 14
INVARIANTS TypeOK PadOfPosition
PROPERTY RoundTrip
CHECK_DEADLOCK FALSE
