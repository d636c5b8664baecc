SPECIFICATION Spec
CONSTANTS
  N = 3
  Checked <- MCChecked
  Required <- MCRequired
  SyncFactory <- MCSync
  SyncClose <- MCSyncClose
  Services <- MCServices
  Keycloak = keycloak
  keycloak = keycloak
  redis = redis
  UserNames <- MCUserNames
  Configs <- MCAllConfigs
  MaxRuns = 1
  MaxCancels = 1
INVARIANT ReportKeepsStarting
