SPECIFICATION Spec
CONSTANTS
  ByteBits = 3
  Inputs <- SmallFiles
  Nonces <- TwoNonces
  Pattern <- Stream
  MayFill = FALSE
INVARIANT RoundTrip
CHECK_DEADLOCK FALSE
