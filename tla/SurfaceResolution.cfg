CONSTANTS
  Id <- MCId
  Worlds <- MCWorlds
  Requests <- MCRequests
SPECIFICATION Spec
INVARIANTS
  TypeOK
  RowsAreCurrent
  QueryAnswered
PROPERTIES
  Terminates
