SPECIFICATION Spec
CONSTANTS
  N = 3
  Checked <- MCChecked
  Required <- MCRequired
  SyncFactory <- MCSync
  SyncClose <- MCSyncClose
  Services <- MCServices
  Keycloak = keycloak
  keycloak = keycloak
  redis = redis
  UserNames <- MCUserNames
  Configs <- MCConfigs
  MaxRuns = 2
  MaxCancels = 2
INVARIANTS TypeOK RegistryHoldsTheLive NoCheckOfTheClosed ServesComplete NoSilentFailure StartupErrorKept AllReleased
PROPERTIES ForeignChecksKept ReleaseCompletes ImplementsScope
