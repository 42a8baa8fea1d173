SPECIFICATION Spec
CONSTANTS
  Keys <- MCKeys
  AllFieldNames <- MCAllFieldNames
  FilteredMin <- MCFilteredMin
  ScopesForFields <- MCScopesForFields
  Requests <- FieldRequests
  Population <- FieldPopulation
  Outcomes <- EachOutcome
INVARIANT
  FailureLogsClientRequest
