SPECIFICATION Spec
CONSTANTS
  Checks <- MCDotted
  Parts <- MCParts
  Policies <- MCPolicies
  Configs <- MCConfigs
  MaxChanges = 0
INVARIANT ChildInheritsParent
CHECK_DEADLOCK FALSE
