SPECIFICATION Spec
CONSTANTS
  Applications <- MCApplications
  Methods <- MCMethods
  Matches <- MCMatches
  Classes <- MCClasses
INVARIANTS
  TypeOK
  ErrorsFollowDeclaration
  DocumentFollowsDeclaration
  DependenciesStay
  DeclaredMapperAnswers
