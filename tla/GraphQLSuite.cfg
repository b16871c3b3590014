CONSTANTS
  TESTS <- MCTests
SPECIFICATION Spec
INVARIANTS
  TypeOK
PROPERTIES
  Terminates
