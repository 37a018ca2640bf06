------------------------- MODULE MCMilestoneMatrix --------------------------
(* Two tiers and two categories, two presets, runs of three rows at waves  *)
(* 2, 5 and 8.                                                             *)
EXTENDS MilestoneMatrix

MCTiers == << 1, 2 >>
MCCategories == << "none", "attack" >>
MCPresets == << "eHP", "GC" >>
MCFields == {"fleet", "boss"}
MCFieldsOf == [ p \in {"speed", "ultimate", "unmapped"} |->
                  CASE p = "speed" -> {"fleet"} [] p = "ultimate" -> {"boss"} [] OTHER -> {} ]

Run(a, b, c) == << a, b, c >>
MCVerdicts ==
  { Run("survives", "survives", "survives"), Run("survives", "survives", "fails"),
    Run("survives", "fails", "ambiguous"), Run("survives", "ambiguous", "fails") }

(* Regular references first; the second tier has the dissonant ones.       *)
Refs(a, b, c, d) ==
  [ k \in {1, 2} \X {"none", "attack"} |->
      CASE k = << 1, "none" >> -> a [] k = << 1, "attack" >> -> b
        [] k = << 2, "none" >> -> c [] OTHER -> d ]

Pressed(a, b) == [ t \in {1, 2} |-> IF t = 1 THEN a ELSE b ]

Call(fleet, boss, factor, bridge, stop, align, refs, pressed) ==
  [ terminal |-> [ f \in MCFields |-> IF f = "fleet" THEN fleet ELSE boss ], factor |-> factor,
    bridge |-> bridge, stop |-> stop, align |-> align, reference |-> refs, pressures |-> pressed ]

(* Which inputs close which pressures.                                     *)
Closing ==
  { Call(fleet, boss, factor, FALSE, TRUE, TRUE, Refs(4, 6, 0, 6), pressed) :
      fleet \in {0, 4}, boss \in {0, 3}, factor \in BOOLEAN,
      pressed \in { Pressed({"speed"}, {"ultimate"}), Pressed({}, {"speed", "unmapped"}) } }

(* References below, at and beyond the rows, the cap and the end wave.     *)
Aligning ==
  { Call(fleet, 0, FALSE, bridge, stop, align, refs, Pressed({}, {"speed"})) :
      fleet \in {0, 4}, bridge \in BOOLEAN, stop \in BOOLEAN, align \in BOOLEAN,
      refs \in { Refs(6, 3, 7, 12), Refs(12, 9, 4, 0) } }

MCCalls == Closing \cup Aligning
=============================================================================
