CONSTANTS
  TIMER_1S = 10
  TIMER_5S = 50
SPECIFICATION Spec
INVARIANT SinceIsRemainder
PROPERTY Cadence
