SPECIFICATION Spec
CONSTANTS
  Checks <- MCNames
  Parts <- MCParts
  Policies <- MCPolicies
  Configs <- MCConfigs
  MaxChanges = 1
INVARIANTS
  TypeOK
  OkMeansAllPassed
  RequiredFailureIs503
  ResultsPreserved
  RedactedIsHidden
  FailsOnlyUnresolved
PROPERTIES
  AlwaysAnswers
CHECK_DEADLOCK FALSE
