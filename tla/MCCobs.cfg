\* Two-bit bytes, blocks of two: strings of three full blocks and of any zeros.
SPECIFICATION StringSpec
CONSTANTS
  Full = 3
  MaxLen = 7
INVARIANTS
  RoundTrip
  EncodedFits
\* the strings end at MaxLen
CHECK_DEADLOCK FALSE
