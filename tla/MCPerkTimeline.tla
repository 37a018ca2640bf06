--------------------------- MODULE MCPerkTimeline --------------------------
(* Four perks, one behind an ultimate weapon; two cost sections.           *)
EXTENDS PerkTimeline, TLC

CONSTANTS pwr, hp, gold, speed, GoldenTower

MCPerk == {pwr, hp, gold, speed}
MCMaxPicks == (pwr :> 2) @@ (hp :> 2) @@ (gold :> 1) @@ (speed :> 1)
MCRequiredUw == [k \in MCPerk |-> IF k = gold THEN GoldenTower ELSE NoUw]
MCSections == << <<0, 5>>, <<2, 7>> >>

MCPolicies ==
  [ lab : {0, 1}, pwrPercent : {30}, optionQuantity : {0, 1}, target : {16},
    banned : { << >>, <<hp, speed>> }, banCapacity : {0, 1},
    unlocked : { {}, {GoldenTower} }, priority : { << >>, <<pwr, gold>>, <<gold, speed>> },
    first : {NoChoice, pwr, gold, hp} ]
=============================================================================
