SPECIFICATION Spec
CONSTANTS
  ByteBits = 3
  Inputs <- SmallFiles
  Nonces <- TwoNonces
  Pattern <- Stream
  MayFill = TRUE
INVARIANTS TypeOK TreeOptimal TreeRebuilt OutputFollowsInput DefinedUnlessEmptyOrCut
CHECK_DEADLOCK FALSE
