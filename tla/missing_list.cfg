SPECIFICATION Spec
CONSTANTS
  Cases <- MCCases
  BewoningFields <- MCBewoningFields
  BaseFields <- MCBaseFields
  TypeFields <- MCTypeFields
INVARIANT
  MissingListIsEmpty
CHECK_DEADLOCK FALSE
