SPECIFICATION Spec
CONSTANTS
  Numbers <- MCNumbers
  CorrelationIds <- MCCorrelationIds
  AllKeys <- MCAllKeys
  MaxHeld = 2
INVARIANTS
  TypeOK
  ReadableWhileDeployed
  RetiredOpensNothing
  PassedStartsWithNumber
