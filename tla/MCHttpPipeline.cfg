SPECIFICATION Spec
CONSTANTS
  Classes <- MCClasses
  Mro <- MCMro
  Configs <- MCConfigs
INVARIANTS
  TypeOK
  LoggedOnce
  SuccessIsComplete
  Correlated
  FailureKeepsStatus
