SPECIFICATION Spec
CONSTANTS
  Texts <- MCTexts
  Entries <- MCEntries
  Positive = {"2"}
  Environments <- MCEnvironments
  Overrides <- MCOverrides
  Selections <- MCSelections
  ServiceOf <- MCServiceOf
  MaxDepth = 3
  MaxWrites = 1
INVARIANTS
  TypeOK
  CachedIsCurrent
PROPERTIES
  ImplementsScopes
