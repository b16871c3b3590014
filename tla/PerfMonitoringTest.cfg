CONSTANTS
  NumEndpoints <- MCNumEndpoints
  Repeats <- MCRepeats
SPECIFICATION Spec
INVARIANTS
  TypeOK
  NoOrphanServices
PROPERTIES
  Terminates
  ImplementsTestRunner
  ImplementsMetricsVerifier
