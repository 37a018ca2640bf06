--------------------------- MODULE MCBossFight -----------------------------
(* Bosses of 8 points, dead at 1; halves as fractions.  The fights differ  *)
(* in what kills the boss and when, in the clock, and in the wall.         *)
EXTENDS BossFight

Base ==
  [ hp |-> 8, cannon |-> 0, orb |-> 1, orbHits |-> 0, electron |-> 1, electronHits |-> 0,
    dps |-> 0, boost |-> 1, boostUntil |-> 0, contact |-> 2, interval |-> 2,
    thorns |-> 0, thornsGrowth |-> 0, horizon |-> 8, charges |-> 0,
    attack |-> 1, defense |-> 1, absolute |-> 0, wall |-> 8, regen |-> 0,
    dr |-> <<0, 1, 1>> ]

(* The boss dies of any mix of sources, at any point of the loops.         *)
Kills ==
  { [Base EXCEPT !.cannon = c, !.orbHits = o, !.electronHits = e, !.dps = d, !.boost = b,
                 !.boostUntil = 3, !.contact = t, !.interval = i, !.thorns = n,
                 !.thornsGrowth = g, !.charges = 1] :
      c \in {0, 1, 2}, o \in {0, 2, 3}, e \in {0, 1}, d \in {0, 1}, b \in {1, 2},
      t \in {0, 2, 3, 9, NoTime}, i \in {0, 2}, n \in {0, 1}, g \in {0, 1} }

(* Slow kills: many hits against a wall that regenerates.                  *)
Sieges ==
  { [Base EXCEPT !.hp = 16, !.thornsGrowth = 0, !.thorns = 0, !.dps = 1, !.contact = t,
                 !.interval = 2, !.horizon = 20, !.charges = c, !.attack = a, !.absolute = x,
                 !.wall = w, !.regen = r, !.dr = d] :
      t \in {0, 2}, c \in {0, 2}, a \in {1, 2}, x \in {0, 3}, w \in {2, 5, 12}, r \in {0, 1, 3, 9},
      d \in { <<0, 0, 1>>, <<0, 1, 2>> } }

MCFights == Kills \cup Sieges
=============================================================================
