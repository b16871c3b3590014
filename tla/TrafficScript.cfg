CONSTANTS
  N <- MCN
SPECIFICATION Spec
INVARIANTS
  TypeOK
  TrafficTolerance
  AtMostOnceInOrder
PROPERTIES
  Terminates
