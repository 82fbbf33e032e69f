SPECIFICATION Spec
CONSTANTS
  SentDlcis = {1, 63}
  SentLengths = {0, 127}
  MaxFlips = 3
INVARIANTS
  FcsIsPolynomialRemainder
  HeaderRoundTrip
  CheckDetectsFlips
\* Flipping stops when MaxFlips bits are wrong.
CHECK_DEADLOCK FALSE
