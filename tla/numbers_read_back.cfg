SPECIFICATION Spec
CONSTANTS
  Numbers <- MCNumbers
  CorrelationIds <- PartIds
  AllKeys <- MCAllKeys
  MaxHeld = 2
INVARIANT
  NumbersReadBack
