-------------------------- MODULE MCCheckpointDelta --------------------------
(* Health feeds the wall through a surface that is not in the bundle;      *)
(* absolute defense, which has no trigger, feeds the wall too in the       *)
(* ledger but not in the resolver.                                         *)
EXTENDS CheckpointDelta

MCTrack == {"health", "absolute", "orbs"}
MCSource == [t \in MCTrack |-> t]
MCTriggers == MCTrack \ {"absolute"}
MCNode == MCTrack \union {"tower.hp", "wall.hp", "tower.defense", "tower.orbs"}
MCReads ==
  { <<"health", "tower.hp">>, <<"tower.hp", "wall.hp">>,
    <<"absolute", "tower.defense">>, <<"orbs", "tower.orbs">> }
MCEdges == MCReads \union { <<"tower.defense", "wall.hp">> }
MCRequired == {"wall.hp", "tower.orbs"}
MCOptional == {"tower.defense"}
MCAccount == [t \in MCTrack |-> 1]
MCMaxLevel == [t \in MCTrack |-> IF t = "health" THEN 2 ELSE 1]
=============================================================================
