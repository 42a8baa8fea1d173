SPECIFICATION Spec
CONSTANTS
  Cases <- MCCases
  BewoningFields <- MCBewoningFields
  BaseFields <- MCBaseFields
  TypeFields <- MCTypeFields
INVARIANTS
  ValuesKept
  EveryNameIsThere
  AddedIsNamed
  NumbersSealedOnce
  LinksRewritten
CHECK_DEADLOCK FALSE
