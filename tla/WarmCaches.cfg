SPECIFICATION Spec
CONSTANTS
  Queries <- MCWarmQueries
  Addrs <- MCAddrs
  MaxEdits <- MCMaxEdits
  LruSize = 2
INVARIANTS
  TypeOK
  CachesSound
PROPERTIES
  CachesKeep
  AnswersAreFresh
