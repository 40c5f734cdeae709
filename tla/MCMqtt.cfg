CONSTANTS
  OBJ_MAX = 3
  OUT_MAX = 2
SPECIFICATION Spec
INVARIANT OneNetworkThread
PROPERTIES ServesUnlessExhausted DeliversAgain
CHECK_DEADLOCK FALSE
