SPECIFICATION Spec
CONSTANTS
  Outcomes <- MCOutcomes
PROPERTIES
  HealthTellsService
  CommandTellsConnection
  EventuallyHealthy
