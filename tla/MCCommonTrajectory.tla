------------------------- MODULE MCCommonTrajectory ------------------------
(***************************************************************************)
(* Small instances of CommonTrajectory: up to four workshop tracks in two  *)
(* categories, fractions in quarters, grids of a few boss waves.           *)
(***************************************************************************)
EXTENDS CommonTrajectory, TLC

CONSTANTS health, wall, armour, skipper

MCTrack == {health, wall, armour, skipper}

MCKBSchedule == (0 :> 1) @@ (4 :> 2)
MCSkipOfLevel == [n \in 0 .. 4 |-> n]
MCHpOfLevel == [n \in 0 .. 4 |-> 5 + n * n]
MCRatioOfLevel == [n \in 0 .. 4 |-> 1 + n]

Base ==
  [ mode |-> "farming", reduction |-> NotGiven, bcReduction |-> 0,
    overheatStart |-> 0, decayFraction |-> 0, decayInterval |-> 0,
    start |-> 1, end |-> 12, interval |-> 3, every |-> 1,
    skipTrack |-> [l \in Lane |-> NoTrack],
    skipFallback |-> [l \in Lane |-> IF l = "attack" THEN 3 ELSE 2],
    chance |-> <<3, 4>>, order |-> << <<health, wall>>, <<skipper>> >>,
    maxLevel |-> (health :> 3) @@ (wall :> 2) @@ (armour :> 4) @@ (skipper :> 3),
    levels |-> (health :> 0) @@ (wall :> 1) @@ (armour :> 0) @@ (skipper :> 1),
    towerHpTrack |-> health, wallHpTrack |-> wall,
    deathWaveMax |-> 3, deathWaveMaxWave |-> 8 ]

(* Grids and free upgrade chances, one decay each.                         *)
GridScenarios ==
  { [Base EXCEPT !.start = st, !.end = en, !.interval = i, !.every = e,
                 !.chance = ch] :
      st \in {-1, 1, 3, 4}, en \in {3, 11, 12}, i \in {0, 3}, e \in {0, 2},
      ch \in { <<1, 4>>, <<3, 2>>, <<4, 0>> } }

(* Overheat decay, stepwise or by the curve, and the skip workshop track.  *)
DecayScenarios ==
  { [Base EXCEPT !.overheatStart = o, !.decayFraction = f, !.decayInterval = 2,
                 !.bcReduction = b, !.reduction = r, !.skipTrack = tr] :
      o \in {0, 4, 6}, f \in {0, 1}, b \in {0, 1}, r \in {NotGiven, 2},
      tr \in { [l \in Lane |-> NoTrack],
               [l \in Lane |-> IF l = "attack" THEN skipper ELSE NoTrack] } }

(* Three tracks in one rotation, one to three of them open, filling in     *)
(* different rows and two in the same.                                     *)
RotationScenarios ==
  { [Base EXCEPT !.order = << o, <<skipper>> >>, !.end = 12, !.chance = ch,
                 !.maxLevel = [@ EXCEPT ![health] = h, ![wall] = w]] :
      o \in { <<wall, health, armour>>, <<armour, health, wall>> },
      ch \in { <<3, 1>>, <<4, 1>>, <<2, 1>> }, h \in {1, 4}, w \in {1, 2, 4} }

MCScenarios == GridScenarios \cup DecayScenarios \cup RotationScenarios

TournamentScenarios ==
  { [Base EXCEPT !.mode = "tournament", !.bcReduction = b] : b \in {0, 1} }
=============================================================================
