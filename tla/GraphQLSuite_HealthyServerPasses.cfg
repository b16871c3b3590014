CONSTANTS
  TESTS <- MCTests
SPECIFICATION Spec
INVARIANT
  HealthyServerPasses
