SPECIFICATION Spec
CONSTANTS
  Keys <- MCKeys
  AllFieldNames <- MCAllFieldNames
  FilteredMin <- MCFilteredMin
  ScopesForFields <- MCScopesForFields
  Requests <- FailureRequests
  Population <- FailurePopulation
  Outcomes <- EachOutcome
INVARIANT
  EveryCallIsAudited
