SPECIFICATION Spec
CONSTANTS
  Byte = {0, 1, 2}
  Group = 3
  Slot = {0, 1, 2, 3}
  HASH <- MCHASH
  Mask <- MCMask
  SetBit <- MCSetBit
  Bit <- MCBit
  MaxLen = 7
  Inputs <- MCInputs
INVARIANT TypeOK
INVARIANT PrefixRestored
INVARIANT PackedBound
PROPERTY RoundTrip
\* the program ends
CHECK_DEADLOCK FALSE
