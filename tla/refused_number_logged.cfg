SPECIFICATION Spec
CONSTANTS
  Keys <- MCKeys
  AllFieldNames <- MCAllFieldNames
  FilteredMin <- MCFilteredMin
  ScopesForFields <- MCScopesForFields
  Requests <- NumberRequests
  Population <- FieldPopulation
  Outcomes <- Success
INVARIANT
  RefusedNumberIsAudited
