SPECIFICATION Spec
CONSTANTS
  Classes <- MCClasses
  Mro <- MCMro
  Configs <- MCConfigs
INVARIANT BodyMatchesHeader
