----------------------------- MODULE BossFight -----------------------------
(***************************************************************************)
(* One row of Table 2 (simulators/evaluator_kernel.py): the boss is worn   *)
(* down on its way to the wall, then boss and wall hit each other until    *)
(* the boss is dead or the horizon is passed (_simulate_boss_combat_       *)
(* timeline); the hits the shield lets through are then replayed against   *)
(* the wall, once per damage-reduction lane (_evaluate_boss_ttd_lane).     *)
(*                                                                         *)
(* Fractions are in Unit-ths; wall HP and damage to the wall in Unit^3-ths *)
(* of a point.  Time is in ticks, and a kill between two ticks is put at   *)
(* the second.  The lanes do not touch each other, so one step here hits   *)
(* the wall in all of them.                                                *)
(***************************************************************************)
EXTENDS Integers

CONSTANTS
  Unit,
  KillDenominator,   \* the boss is dead at 1 / KillDenominator of its health
  HeatUp,            \* BOSS_HEAT_UP_DAMAGE_PER_HIT_PCT
  NoTime,            \* None
  Fights             \* the rows and their CombatInputs

Lane == 1 .. 3       \* LANE_ORDER: min, avg, max
Fraction == 0 .. Unit

Source == {"cannon", "orbs", "electrons", "continuous", "thorns"}

(* What _validate_combat, the bounds of the inputs and the lane order      *)
(* check of _compose_lane_damage_reduction let through.                    *)
Legal(f) ==
  /\ { f.hp, f.orbHits, f.electronHits, f.dps, f.boostUntil, f.interval, f.thorns,
       f.thornsGrowth, f.charges, f.attack, f.absolute, f.wall, f.regen } \subseteq Nat
  /\ { f.cannon, f.orb, f.electron, f.defense } \subseteq Fraction
  /\ f.contact \in Nat \cup {NoTime}
  /\ f.boost \in Nat \ {0} /\ f.horizon \in Nat \ {0}
  /\ f.dr \in [Lane -> Fraction] /\ f.dr[1] <= f.dr[2] /\ f.dr[2] <= f.dr[3]

ASSUME UnitAssumption == Unit \in Nat \ {0} /\ KillDenominator \in Nat \ {0} /\ HeatUp \in Nat
ASSUME NoTimeAssumption == NoTime \notin Nat
ASSUME FightsAssumption == \A f \in Fights : Legal(f)

VARIABLES
  fight,      \* the inputs; never change
  phase,
  left,       \* hits of the running strike loop still to come
  remaining,  \* remaining_hp
  dealt,      \* BossDamageBreakdown
  last,       \* last_event_seconds
  contact,    \* next_contact
  hits,       \* thorns_hits
  ttk,        \* ttk_seconds
  wall,       \* current_wall_hp of each lane
  landed      \* hit_index

vars == << fight, phase, left, remaining, dealt, last, contact, hits, ttk, wall,
           landed >>
boss == << left, remaining, dealt, last, contact, hits, ttk >>
wallVars == << wall, landed >>

-----------------------------------------------------------------------------
NonNegative(x) == IF x < 0 THEN 0 ELSE x
Smaller(a, b) == IF a <= b THEN a ELSE b

Threshold == fight.hp \div KillDenominator
ToKill == NonNegative(remaining - Threshold)

(* time_limited_multiplier_boosted_seconds                                 *)
Boosted(from, to) == NonNegative(Smaller(to, fight.boostUntil) - from)

(* _continuous_damage_between                                              *)
DamageBetween(from, to) ==
  fight.dps * (Boosted(from, to) * fight.boost + (to - from - Boosted(from, to)))

(* _continuous_kill_seconds_in_interval: when, if at all                   *)
KilledBetween(from, to) == ToKill <= DamageBetween(from, to)
KillTime(from, to) ==
  CHOOSE t \in from .. to :
    /\ ToKill <= DamageBetween(from, t)
    /\ \A s \in from .. to : ToKill <= DamageBetween(from, s) => t <= s

Wound(source, after) ==
  /\ remaining' = after
  /\ dealt' = [dealt EXCEPT ![source] = @ + (remaining - after)]

(* A strike takes a fraction of what is left.                              *)
Struck(fraction) == (remaining * (Unit - fraction)) \div Unit

-----------------------------------------------------------------------------
Init ==
  /\ fight \in Fights
  /\ phase = "cannon" /\ left = 0
  /\ remaining = fight.hp /\ dealt = [s \in Source |-> 0]
  /\ last = 0 /\ contact = fight.contact /\ hits = 0 /\ ttk = NoTime
  /\ wall = [l \in Lane |-> fight.wall] /\ landed = 0

(* Plasma cannon, at the start; its kill is at time 0.                     *)
Cannon ==
  /\ phase = "cannon"
  /\ Wound("cannon", Struck(fight.cannon))
  /\ IF remaining' <= Threshold
     THEN phase' = "wall" /\ ttk' = 0 /\ left' = 0
     ELSE phase' = "orbs" /\ ttk' = ttk /\ left' = fight.orbHits
  /\ UNCHANGED << fight, last, contact, hits, wallVars >>

(* One iteration of an orb or electron loop.  A total percentage is one    *)
(* strike.                                                                 *)
Strike(p, fraction) ==
  /\ phase = p /\ left > 0
  /\ Wound(p, Struck(fraction))
  /\ left' = left - 1
  /\ UNCHANGED << fight, phase, last, contact, hits, ttk, wallVars >>

(* Mutant: the boss is dead at zero only.                                  *)
StrikesKillAtZero == remaining = 0

StrikesKill == remaining <= Threshold

(* The kill is looked at after the loop only, and put at contact time: it  *)
(* cannot be placed when no contact time is known.                         *)
StrikesEnd(p, next, nextHits) ==
  /\ phase = p /\ left = 0
  /\ IF ~ StrikesKill
     THEN phase' = next /\ left' = nextHits /\ ttk' = ttk
     ELSE /\ phase' = IF fight.contact = NoTime THEN "ambiguous" ELSE "wall"
          /\ ttk' = fight.contact /\ left' = left
  /\ UNCHANGED << fight, remaining, dealt, last, contact, hits, wallVars >>

Orbs == Strike("orbs", fight.orb) \/ StrikesEnd("orbs", "electrons", fight.electronHits)
Electrons == Strike("electrons", fight.electron) \/ StrikesEnd("electrons", "approach", 0)

(* Continuous damage from spawn to contact.                                *)
Approach ==
  /\ phase = "approach"
  /\ IF fight.dps = 0 \/ fight.contact = NoTime
     THEN phase' = "contact" /\ UNCHANGED << remaining, dealt, ttk >>
     ELSE IF KilledBetween(0, fight.contact)
     THEN phase' = "wall" /\ ttk' = KillTime(0, fight.contact)
          /\ Wound("continuous", remaining - ToKill)
     ELSE phase' = "contact" /\ ttk' = ttk
          /\ Wound("continuous", remaining - DamageBetween(0, fight.contact))
  /\ UNCHANGED << fight, left, last, contact, hits, wallVars >>

-----------------------------------------------------------------------------
(* The contact loop                                                        *)

Horizon == contact # NoTime /\ contact <= fight.horizon

(* Mutant: the loop goes on where it should return.                        *)
PastHorizonLoops == phase = "contact" /\ ~ Horizon /\ UNCHANGED vars

(* No contact within the horizon: without thorns the boss is not killed,   *)
(* with thorns, or without a contact time, the row is ambiguous.           *)
PastHorizon ==
  /\ phase = "contact" /\ ~ Horizon
  /\ phase' = IF fight.thorns = 0 /\ contact # NoTime THEN "wall" ELSE "ambiguous"
  /\ UNCHANGED << fight, boss, wallVars >>

(* Continuous damage kills before, or at, the next contact.                *)
ContinuousKill ==
  /\ phase = "contact" /\ Horizon
  /\ fight.dps > 0 /\ contact > last /\ KilledBetween(last, contact)
  /\ phase' = "wall" /\ ttk' = KillTime(last, contact)
  /\ Wound("continuous", remaining - ToKill)
  /\ UNCHANGED << fight, left, last, contact, hits, wallVars >>

(* Mutant: a dying boss is dealt more than it has left.                    *)
ThornsUncapped == (fight.hp * (fight.thorns + fight.thornsGrowth * hits)) \div Unit

Thorns ==
  Smaller(remaining - DamageBetween(last, contact),
          (fight.hp * (fight.thorns + fight.thornsGrowth * hits)) \div Unit)

(* Mutant: the thorns are dealt but not booked.                            *)
BookedWithoutThorns == [dealt EXCEPT !["continuous"] = @ + DamageBetween(last, contact)]

Booked == [dealt EXCEPT !["continuous"] = @ + DamageBetween(last, contact),
                        !["thorns"] = @ + Thorns]

(* Mutant: the clock is a contact behind.                                  *)
NextContactBehind == fight.contact + hits * fight.interval

NextContact == contact + fight.interval

(* The boss touches the wall and its thorns answer.                        *)
Contact ==
  /\ phase = "contact" /\ Horizon
  /\ ~ (fight.dps > 0 /\ contact > last /\ KilledBetween(last, contact))
  /\ remaining' = remaining - DamageBetween(last, contact) - Thorns
  /\ dealt' = Booked
  /\ last' = contact /\ hits' = hits + 1 /\ contact' = NextContact
  /\ IF fight.interval = 0 THEN phase' = "ambiguous" /\ ttk' = ttk
     ELSE IF remaining' > Threshold THEN phase' = phase /\ ttk' = ttk
     ELSE phase' = "wall" /\ ttk' = contact
  /\ UNCHANGED << fight, left, wallVars >>

-----------------------------------------------------------------------------
(* The wall, lane by lane                                                  *)

(* The energy shield takes the first hits.                                 *)
Blows == hits - Smaller(hits, fight.charges)

(* The hit grows with its index; percent, then absolute, then the lane.    *)
RawHit(n) == fight.attack * (Unit + HeatUp * n)
Blunted(n) == NonNegative(RawHit(n) * (Unit - fight.defense) - fight.absolute)
(* Mutant: the reduction is taken for what gets through.                   *)
HitInverted(l, n) == Blunted(n) * fight.dr[l]

Hit(l, n) == Blunted(n) * (Unit - fight.dr[l])

(* Mutant: the wall regenerates beyond full health.                        *)
HealingUncapped(l) == IF landed = 0 THEN 0 ELSE fight.regen * fight.interval

(* Between two hits the wall regenerates, up to full health.               *)
Healing(l) ==
  IF landed = 0 THEN 0 ELSE Smaller(fight.wall - wall[l], fight.regen * fight.interval)

WallHit ==
  /\ phase = "wall" /\ ttk # NoTime /\ landed < Blows
  /\ wall' = [l \in Lane |-> wall[l] + Healing(l) - Hit(l, landed)]
  /\ landed' = landed + 1
  /\ UNCHANGED << fight, phase, boss >>

WallDone ==
  /\ phase = "wall" /\ (ttk = NoTime \/ landed = Blows)
  /\ phase' = "done"
  /\ UNCHANGED << fight, boss, wallVars >>

Returned == phase \in {"done", "ambiguous"} /\ UNCHANGED vars

Next ==
  \/ Cannon \/ Orbs \/ Electrons \/ Approach
  \/ PastHorizon \/ ContinuousKill \/ Contact
  \/ WallHit \/ WallDone \/ Returned

Spec == Init /\ [][Next]_vars
FairSpec == Spec /\ WF_vars(Next)

-----------------------------------------------------------------------------
(* Results of a lane: CombatLaneEvaluation                                 *)

Killed == ttk # NoTime

(* first_hit_damage; a row without a kill books the unshielded first hit.  *)
FirstHit(l) == IF ~ Killed \/ Blows > 0 THEN Hit(l, 0) ELSE 0

Survives(l) == Killed /\ wall[l] >= 0

Regenerated == IF fight.contact = NoTime THEN 0 ELSE fight.regen * fight.contact

EnvelopeSurvives(l) == Killed /\ fight.wall + Regenerated - FirstHit(l) >= 0

-----------------------------------------------------------------------------
(* Properties                                                              *)

(* The state keeps its types; the health of the boss never goes negative.  *)
TypeOK ==
  /\ phase \in {"cannon", "orbs", "electrons", "approach", "contact", "wall",
               "done", "ambiguous"}
  /\ left \in Nat /\ remaining \in Nat /\ dealt \in [Source -> Nat]
  /\ last \in Nat /\ contact \in Nat \cup {NoTime} /\ hits \in Nat
  /\ ttk \in Nat \cup {NoTime}
  /\ wall \in [Lane -> Int] /\ landed \in Nat

(* The damage breakdown accounts for every point the boss has lost,        *)
(* whichever source or exit of the loops it was lost to.                   *)
DamageConserved ==
  fight.hp = remaining + dealt["cannon"] + dealt["orbs"] + dealt["electrons"]
               + dealt["continuous"] + dealt["thorns"]

(* A time to kill is reported exactly for a boss that is dead.             *)
KilledMeansDead ==
  phase \in {"wall", "done"} => (Killed <=> remaining <= Threshold)

(* The boss hits at every contact before its death and at none after it.   *)
HitsMatchClock ==
  phase \in {"wall", "done"} /\ Killed /\ hits > 0 =>
    /\ fight.contact + (hits - 1) * fight.interval <= ttk
    /\ ttk <= fight.contact + hits * fight.interval
    /\ ttk <= fight.horizon

(* Regeneration never outruns the growing hits: the wall is at its lowest  *)
(* after the last one.  survives looks at that margin alone, so this is    *)
(* what makes a wall that fell count as fallen.                            *)
WallNeverRecovers == [][landed' # landed => \A l \in Lane : wall'[l] <= wall[l]]_vars

(* More damage reduction never leaves a lane worse off.                    *)
LanesOrdered == wall[1] <= wall[2] /\ wall[2] <= wall[3]

(* A lane that survives every hit survives the contact envelope: the scan  *)
(* stops at the first row that fails both.                                 *)
SurvivesThenEnvelope ==
  phase = "done" => \A l \in Lane : Survives(l) => EnvelopeSurvives(l)

(* The clock of the fight and the health of the boss tell the same story: it *)
(* is dead when a time to kill is reported, and hit at each contact before. *)
KillsAndHits == KilledMeansDead /\ HitsMatchClock

(* The two verdicts and the three lanes, computed in different branches, are *)
(* ordered as the scan and the summary take for granted.                   *)
VerdictsOrdered == LanesOrdered /\ SurvivesThenEnvelope

(* Continuous damage is dealt once, with the mastery multiplier applied    *)
(* for its timed window only.  The contact loop integrates the approach a  *)
(* second time.                                                            *)
ContinuousDealtOnce ==
  phase = "done" /\ Killed => dealt["continuous"] <= DamageBetween(0, ttk)

(* Every row is resolved or reported ambiguous.                            *)
Terminates == <>(phase \in {"done", "ambiguous"})
=============================================================================
