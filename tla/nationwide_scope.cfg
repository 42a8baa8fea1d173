SPECIFICATION Spec
CONSTANTS
  Keys <- MCKeys
  AllFieldNames <- MCAllFieldNames
  FilteredMin <- MCFilteredMin
  ScopesForFields <- MCScopesForFields
  Requests <- SearchRequests
  Population <- SearchPopulation
  Outcomes <- Success
INVARIANT
  NationwideScopeNeeded
