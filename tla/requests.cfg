SPECIFICATION Spec
CONSTANTS
  Keys <- MCKeys
  AllFieldNames <- MCAllFieldNames
  FilteredMin <- MCFilteredMin
  ScopesForFields <- MCScopesForFields
  Requests <- AllRequests
  Population <- AllPopulation
  Outcomes <- EachOutcome
INVARIANTS
  TypeOK
  WithinMunicipality
  DeceasedNeedsScope
  NumbersSealed
  DeliveredIsAudited
  OnlyGrantedFields
  ConfidentialHidden
  LogsClientRequest
  NeededJustifies
  RefusalIsAudited
  NeverBlamesClient
PROPERTIES
  LoggedBeforeDelivered
  ImplementsAuditedAccess
