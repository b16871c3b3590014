CONSTANTS
  SCENARIOS <- MCScenarios
  CRITICALS <- MCCriticals
  InUrl <- MCInUrl
  MaxOrchProbes = 2
  MaxAgentProbes = 2
SPECIFICATION Spec
INVARIANT ExitStatusReflectsVerdict
