SPECIFICATION Spec
CONSTANTS
  Checks <- MCSingle
  Parts <- MCParts
  Policies <- MCPolicies
  Configs <- MCConfigs
  MaxChanges = 0
PROPERTY AdapterIsTimed
CHECK_DEADLOCK FALSE
