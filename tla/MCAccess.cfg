SPECIFICATION Spec
CONSTANTS
  r1 = r1
  r2 = r2
  r3 = r3
  Requests <- MCRequests
  NoOne = NoOne
  Workers = 2
  Users <- MCUsers
  Plans <- MCPlans
  Configs <- MCConfigs
INVARIANTS
  TypeOK
  OnlyGrantedEnter
PROPERTIES
  AuthRouterServes
  OthersAnswered
