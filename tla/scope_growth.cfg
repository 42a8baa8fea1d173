SPECIFICATION Spec
CONSTANTS
  Policies <- MCPolicies
  ValueSets <- MCValueSets
  Scopes <- MCScopes
  FileSets <- MCFileSets
  Known <- MCKnown
INVARIANTS
  FilledInIsGranted
  NeededSuffice
  GrantedIsListed
PROPERTIES
  MoreScopesGrantMore
