CONSTANTS
  Id <- MCId
  Ledgers <- MCLedgers
SPECIFICATION Spec
INVARIANTS
  TypeOK
  ClosureIsLeast
  OrderSound
PROPERTIES
  Terminates
