CONSTANTS
  NumEndpoints <- MCNumEndpoints
  Repeats <- MCRepeats
SPECIFICATION Spec
INVARIANT
  InterceptionOffBeforeTraffic
