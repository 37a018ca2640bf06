SPECIFICATION DeltaSpec
CONSTANTS
  Track <- MCTrack
  Source <- MCSource
  Triggers <- MCTriggers
  Node <- MCNode
  LedgerEdges <- MCEdges
  Reads <- MCReads
  Required <- MCRequired
  Optional <- MCOptional
  Account <- MCAccount
  MaxLevel <- MCMaxLevel
  MaxSnapshots = 3
INVARIANTS
  DeltaAgrees
CHECK_DEADLOCK FALSE
