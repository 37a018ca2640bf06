-------------------------- MODULE BossFight_proofs --------------------------
(***************************************************************************)
(* Proofs about one row of Table 2, for every fight the kernel accepts.    *)
(* The types need two clocks to agree (a contact is never before the last  *)
(* event) and the boss to be alive while the contact loop runs: BossInv.   *)
(* The wall's properties rest on one fact about the lanes: what            *)
(* regenerates between two hits is never more than the next hit takes,     *)
(* WallOK.                                                                 *)
(***************************************************************************)
EXTENDS BossFight, TLAPS, WellFoundedInduction

-----------------------------------------------------------------------------
(* Arithmetic                                                              *)
-----------------------------------------------------------------------------

(* A product of naturals is a natural, and grows with its factors.         *)
LEMMA Product ==
  ASSUME NEW a \in Nat, NEW b \in Nat
  PROVE  a * b \in Nat
OBVIOUS

LEMMA ProductGrows ==
  ASSUME NEW a \in Nat, NEW b \in Nat, NEW c \in Nat, b <= c
  PROVE  a * b <= a * c /\ b * a <= c * a
<1>1. a * (c - b) \in Nat
  BY Product
<1>2. a * c = a * b + a * (c - b)
  OBVIOUS
<1> QED
  BY <1>1, <1>2

(* A quotient does not exceed q when q divisors cover the dividend.        *)
LEMMA Quotient ==
  ASSUME NEW a \in Nat, NEW b \in Nat \ {0}
  PROVE  a \div b \in Nat /\ b * (a \div b) <= a
OBVIOUS

LEMMA QuotientBound ==
  ASSUME NEW a \in Nat, NEW b \in Nat \ {0}, NEW q \in Nat, a <= q * b
  PROVE  a \div b \in Nat /\ a \div b <= q
<1> DEFINE d == a \div b
<1>1. d \in Nat /\ b * d <= a
  BY Quotient
<1> HIDE DEF d
<1>2. SUFFICES ASSUME d >= q + 1 PROVE FALSE
  BY <1>1 DEF d
<1>3. b * (q + 1) <= b * d
  BY <1>1, <1>2, ProductGrows
<1>4. b * (q + 1) = q * b + b
  OBVIOUS
<1> QED
  BY <1>1, <1>3, <1>4

(* "<" on the naturals, as a relation.                                     *)
Earlier == { pair \in Nat \X Nat : pair[1] < pair[2] }

LEMMA LeastExists ==
  ASSUME NEW S \in SUBSET Nat, S # {}
  PROVE  \E m \in S : \A s \in S : m <= s
<1>1. IsWellFoundedOn(Earlier, Nat)
  BY NatLessThanWellFounded DEF OpToRel, Earlier
<1>2. PICK m \in S : \A s \in S : ~ (<< s, m >> \in Earlier)
  BY <1>1, WFMin, Zenon
<1>3. \A s \in S : ~ (s < m)
  BY <1>2 DEF Earlier
<1> QED
  BY <1>3

-----------------------------------------------------------------------------
(* The inputs and the operators of a fight                                 *)
-----------------------------------------------------------------------------

FightOK == Legal(fight)

LEMMA FightTypes ==
  ASSUME FightOK
  PROVE  /\ fight.hp \in Nat /\ fight.orbHits \in Nat /\ fight.electronHits \in Nat
         /\ fight.dps \in Nat /\ fight.boostUntil \in Nat /\ fight.interval \in Nat
         /\ fight.thorns \in Nat /\ fight.thornsGrowth \in Nat /\ fight.charges \in Nat
         /\ fight.attack \in Nat /\ fight.absolute \in Nat /\ fight.wall \in Nat
         /\ fight.regen \in Nat /\ fight.boost \in Nat /\ fight.horizon \in Nat
         /\ fight.contact \in Nat \cup {NoTime}
BY DEF FightOK, Legal

LEMMA FractionTypes ==
  ASSUME FightOK
  PROVE  /\ fight.cannon \in Fraction /\ fight.orb \in Fraction
         /\ fight.electron \in Fraction /\ fight.defense \in Fraction
         /\ fight.dr \in [Lane -> Fraction]
         /\ fight.dr[1] <= fight.dr[2] /\ fight.dr[2] <= fight.dr[3]
BY DEF FightOK, Legal

(* The rest of a fraction is a natural too.                                *)
LEMMA RestOfUnit ==
  ASSUME NEW x \in Fraction
  PROVE  x \in Nat /\ Unit - x \in Nat /\ Unit - x <= Unit
BY UnitAssumption DEF Fraction

LEMMA ThresholdType ==
  ASSUME FightOK
  PROVE  Threshold \in Nat
BY FightTypes, UnitAssumption, Quotient DEF Threshold

(* A strike takes something between nothing and all that is left.          *)
LEMMA StruckOK ==
  ASSUME remaining \in Nat, NEW x \in Fraction
  PROVE  Struck(x) \in Nat /\ Struck(x) <= remaining
<1>1. Unit - x \in Nat /\ Unit - x <= Unit /\ Unit \in Nat \ {0}
  BY RestOfUnit, UnitAssumption
<1>2. remaining * (Unit - x) \in Nat
  BY <1>1, Product
<1>3. remaining * (Unit - x) <= remaining * Unit
  BY <1>1, ProductGrows
<1> QED
  BY <1>1, <1>2, <1>3, QuotientBound DEF Struck

LEMMA ToKillOK ==
  ASSUME FightOK, remaining \in Nat
  PROVE  /\ ToKill \in Nat /\ ToKill <= remaining
         /\ remaining - ToKill <= Threshold
         /\ remaining > Threshold => ToKill = remaining - Threshold
BY ThresholdType DEF ToKill, NonNegative

(* Continuous damage over an interval is a natural, and none without dps   *)
(* or in an empty interval.                                                *)
LEMMA DamageOK ==
  ASSUME FightOK, NEW from \in Nat, NEW to \in Nat, from <= to
  PROVE  /\ DamageBetween(from, to) \in Nat
         /\ fight.dps = 0 \/ from = to => DamageBetween(from, to) = 0
<1> DEFINE b == Boosted(from, to)
<1>1. b \in Nat /\ b <= to - from
  BY FightTypes DEF Boosted, NonNegative, Smaller
<1> HIDE DEF b
<1>2. b * fight.boost \in Nat
  BY <1>1, FightTypes, Product
<1> DEFINE sum == b * fight.boost + (to - from - b)
<1>3. sum \in Nat
  BY <1>1, <1>2
<1>4. from = to => b = 0 /\ sum = 0
  <2>1. SUFFICES ASSUME from = to PROVE b = 0 /\ sum = 0
    OBVIOUS
  <2>2. b = 0
    BY <1>1, <2>1
  <2>3. 0 * fight.boost = 0
    BY FightTypes
  <2> QED
    BY <2>1, <2>2, <2>3
<1> HIDE DEF sum
<1>5. DamageBetween(from, to) = fight.dps * sum
  BY DEF DamageBetween, sum, b
<1>6. fight.dps * sum \in Nat
  BY <1>3, FightTypes, Product
<1>7. fight.dps = 0 \/ sum = 0 => fight.dps * sum = 0
  BY <1>3, FightTypes
<1> QED
  BY <1>4, <1>5, <1>6, <1>7

(* A kill within an interval has a first tick there.                       *)
LEMMA KillTimeOK ==
  ASSUME NEW from \in Nat, NEW to \in Nat, from <= to, KilledBetween(from, to)
  PROVE  KillTime(from, to) \in from .. to
<1> DEFINE T == { t \in from .. to : ToKill <= DamageBetween(from, t) }
<1>1. T \in SUBSET Nat /\ to \in T
  BY DEF KilledBetween
<1>2. PICK m \in T : \A s \in T : m <= s
  BY <1>1, LeastExists, Zenon
<1>3. \E t \in from .. to :
        /\ ToKill <= DamageBetween(from, t)
        /\ \A s \in from .. to : ToKill <= DamageBetween(from, s) => t <= s
  BY <1>2
<1> QED
  BY <1>3, Zenon DEF KillTime

-----------------------------------------------------------------------------
(* The boss                                                                *)
-----------------------------------------------------------------------------

(* Before the boss is killed there is no time to kill; while it walks or   *)
(* hits it is alive; the clock of the contact loop is a function of the    *)
(* hits so far, within the horizon.                                        *)
Striking == {"cannon", "orbs", "electrons"}

BossInv ==
  /\ phase \in Striking \cup {"approach", "contact"} => ttk = NoTime
  /\ phase \in {"approach", "contact"} => remaining > Threshold
  /\ phase \in Striking \cup {"approach"} => hits = 0
  /\ hits = 0 => last = 0 /\ contact = fight.contact
  /\ hits > 0 =>
       /\ fight.contact \in Nat
       /\ last = fight.contact + (hits - 1) * fight.interval
       /\ contact = fight.contact + hits * fight.interval
       /\ last <= fight.horizon

TypeInv == FightOK /\ TypeOK /\ BossInv

(* A contact is never before the last event.                               *)
LEMMA ContactAfterLast ==
  ASSUME TypeInv, contact # NoTime
  PROVE  contact \in Nat /\ last \in Nat /\ last <= contact
<1>1. contact \in Nat /\ last \in Nat /\ hits \in Nat
  BY DEF TypeInv, TypeOK
<1>2. CASE hits = 0
  BY <1>1, <1>2 DEF TypeInv, BossInv
<1>3. CASE hits > 0
  <2>1. hits * fight.interval = (hits - 1) * fight.interval + fight.interval
    BY <1>1, FightTypes DEF TypeInv
  <2>2. (hits - 1) * fight.interval \in Nat
    BY <1>1, <1>3, FightTypes, Product DEF TypeInv
  <2> QED
    BY <1>1, <1>3, <2>1, <2>2, FightTypes DEF TypeInv, BossInv
<1> QED
  BY <1>1, <1>2, <1>3

(* What a contact does to the boss.                                        *)
LEMMA ThornsOK ==
  ASSUME TypeInv, Contact
  PROVE  /\ DamageBetween(last, contact) \in Nat /\ Thorns \in Nat
         /\ remaining - DamageBetween(last, contact) - Thorns \in Nat
<1> DEFINE d == DamageBetween(last, contact)
           t == (fight.hp * (fight.thorns + fight.thornsGrowth * hits)) \div Unit
<1>1. contact \in Nat /\ last \in Nat /\ last <= contact
  BY ContactAfterLast DEF Contact, Horizon
<1>2. d \in Nat /\ (fight.dps = 0 \/ last = contact => d = 0)
  BY <1>1, DamageOK DEF TypeInv
<1>3. remaining \in Nat /\ hits \in Nat
  BY DEF TypeInv, TypeOK
<1>4. d <= remaining
  <2>1. CASE fight.dps = 0 \/ last = contact
    BY <1>2, <1>3, <2>1
  <2>2. CASE ~ (fight.dps = 0 \/ last = contact)
    <3>1. ~ (ToKill <= d)
      BY <1>1, <2>2, FightTypes DEF Contact, KilledBetween, TypeInv
    <3> QED
      BY <1>2, <1>3, <3>1, ToKillOK DEF TypeInv
  <2> QED
    BY <2>1, <2>2
<1>5. t \in Nat
  <2>1. fight.thornsGrowth * hits \in Nat
    BY <1>3, FightTypes, Product DEF TypeInv
  <2>2. fight.hp * (fight.thorns + fight.thornsGrowth * hits) \in Nat
    BY <2>1, FightTypes, Product DEF TypeInv
  <2> QED
    BY <2>2, UnitAssumption, Quotient
<1>6. Thorns = Smaller(remaining - d, t)
  BY DEF Thorns
<1> HIDE DEF d, t
<1>7. Thorns \in Nat /\ Thorns <= remaining - d
  BY <1>2, <1>3, <1>4, <1>5, <1>6 DEF Smaller
<1> QED
  BY <1>2, <1>3, <1>7 DEF d

(* The book of damage stays a book of naturals.                            *)
LEMMA WoundOK ==
  ASSUME TypeInv, NEW s \in Source, NEW after \in Nat, after <= remaining, Wound(s, after)
  PROVE  /\ remaining' \in Nat /\ dealt' \in [Source -> Nat]
         /\ dealt' = [dealt EXCEPT ![s] = dealt[s] + (remaining - after)]
<1>1. dealt \in [Source -> Nat] /\ remaining \in Nat
  BY DEF TypeInv, TypeOK
<1>2. remaining - after \in Nat /\ dealt[s] + (remaining - after) \in Nat
  BY <1>1
<1> QED
  BY <1>1, <1>2 DEF Wound

LEMMA InitTypeInv == Init => TypeInv
<1> SUFFICES ASSUME Init PROVE TypeInv
  OBVIOUS
<1>1. FightOK
  BY FightsAssumption DEF Init, FightOK
<1>2. TypeOK
  BY <1>1, FightTypes DEF Init, TypeOK
<1>3. BossInv
  BY DEF Init, BossInv, Striking
<1> QED
  BY <1>1, <1>2, <1>3 DEF TypeInv

LEMMA CannonTypeInv == TypeInv /\ Cannon => TypeInv'
<1> SUFFICES ASSUME TypeInv, Cannon PROVE TypeInv'
  OBVIOUS
<1> DEFINE after == Struck(fight.cannon)
<1>1. after \in Nat /\ after <= remaining
  BY StruckOK, FractionTypes DEF TypeInv, TypeOK
<1>2. Wound("cannon", after) /\ "cannon" \in Source
  BY DEF Cannon, Source
<1> HIDE DEF after
<1>3. remaining' \in Nat /\ dealt' \in [Source -> Nat]
  BY <1>1, <1>2, WoundOK
<1>4. FightOK'
  BY DEF Cannon, TypeInv, FightOK, Legal
<1>5. TypeOK'
  BY <1>3, FightTypes DEF Cannon, TypeInv, TypeOK, wallVars
<1>6. BossInv'
  BY DEF Cannon, TypeInv, BossInv, Striking, Threshold
<1> QED
  BY <1>4, <1>5, <1>6 DEF TypeInv

LEMMA StrikeTypeInv ==
  ASSUME TypeInv, NEW p \in {"orbs", "electrons"}, NEW x \in Fraction, Strike(p, x)
  PROVE  TypeInv'
<1> DEFINE after == Struck(x)
<1>1. after \in Nat /\ after <= remaining
  BY StruckOK DEF TypeInv, TypeOK
<1>2. Wound(p, after) /\ p \in Source
  BY DEF Strike, Source
<1> HIDE DEF after
<1>3. remaining' \in Nat /\ dealt' \in [Source -> Nat]
  BY <1>1, <1>2, WoundOK
<1>4. FightOK'
  BY DEF Strike, TypeInv, FightOK, Legal
<1>5. TypeOK'
  BY <1>3 DEF Strike, TypeInv, TypeOK, wallVars
<1>6. BossInv'
  BY DEF Strike, TypeInv, BossInv, Striking
<1> QED
  BY <1>4, <1>5, <1>6 DEF TypeInv

LEMMA StrikesEndTypeInv ==
  ASSUME TypeInv, NEW p \in {"orbs", "electrons"}, NEW next \in {"electrons", "approach"},
         NEW n \in Nat, StrikesEnd(p, next, n)
  PROVE  TypeInv'
<1>1. FightOK'
  BY DEF StrikesEnd, TypeInv, FightOK, Legal
<1>2. TypeOK'
  BY FightTypes DEF StrikesEnd, TypeInv, TypeOK, wallVars
<1>3. remaining \in Nat /\ Threshold \in Nat
  BY ThresholdType DEF TypeInv, TypeOK
<1>4. BossInv'
  BY <1>3 DEF StrikesEnd, StrikesKill, TypeInv, BossInv, Striking, Threshold
<1> QED
  BY <1>1, <1>2, <1>4 DEF TypeInv

LEMMA ApproachTypeInv == TypeInv /\ Approach => TypeInv'
<1> SUFFICES ASSUME TypeInv, Approach PROVE TypeInv'
  OBVIOUS
<1>1. FightOK'
  BY DEF Approach, TypeInv, FightOK, Legal
<1>2. remaining \in Nat /\ Threshold \in Nat /\ ToKill \in Nat /\ ToKill <= remaining
  BY ToKillOK, ThresholdType DEF TypeInv, TypeOK
<1>3. Threshold' = Threshold
  BY DEF Approach, Threshold
<1>4. CASE fight.dps = 0 \/ fight.contact = NoTime
  <2>1. TypeOK'
    BY <1>4 DEF Approach, TypeInv, TypeOK, wallVars
  <2>2. BossInv'
    BY <1>3, <1>4 DEF Approach, TypeInv, BossInv, Striking
  <2> QED
    BY <1>1, <2>1, <2>2 DEF TypeInv
<1>5. CASE ~ (fight.dps = 0 \/ fight.contact = NoTime) /\ KilledBetween(0, fight.contact)
  <2>1. fight.contact \in Nat
    BY <1>5, FightTypes DEF TypeInv
  <2>2. KillTime(0, fight.contact) \in Nat
    BY <1>5, <2>1, KillTimeOK
  <2>3. remaining - ToKill \in Nat /\ remaining - ToKill <= remaining
    BY <1>2
  <2>4. Wound("continuous", remaining - ToKill) /\ "continuous" \in Source
    BY <1>5 DEF Approach, Source
  <2>5. remaining' \in Nat /\ dealt' \in [Source -> Nat]
    BY <2>3, <2>4, WoundOK
  <2>6. TypeOK'
    BY <1>5, <2>2, <2>5 DEF Approach, TypeInv, TypeOK, wallVars
  <2>7. BossInv'
    BY <1>5 DEF Approach, TypeInv, BossInv, Striking
  <2> QED
    BY <1>1, <2>6, <2>7 DEF TypeInv
<1>6. CASE ~ (fight.dps = 0 \/ fight.contact = NoTime) /\ ~ KilledBetween(0, fight.contact)
  <2> DEFINE d == DamageBetween(0, fight.contact)
  <2>1. fight.contact \in Nat
    BY <1>6, FightTypes DEF TypeInv
  <2>2. d \in Nat
    BY <2>1, DamageOK DEF TypeInv
  <2>3. d < ToKill
    BY <1>2, <1>6, <2>2 DEF KilledBetween
  <2>4. Wound("continuous", remaining - d) /\ "continuous" \in Source
    BY <1>6 DEF Approach, Source
  <2> HIDE DEF d
  <2>5. remaining - d \in Nat /\ remaining - d <= remaining
    BY <1>2, <2>2, <2>3
  <2>6. remaining' \in Nat /\ dealt' \in [Source -> Nat]
    BY <2>4, <2>5, WoundOK
  <2>7. TypeOK'
    BY <1>6, <2>6 DEF Approach, TypeInv, TypeOK, wallVars
  <2>8. remaining' > Threshold
    <3>1. remaining' = remaining - d
      BY <2>4 DEF Wound
    <3>2. ToKill = remaining - Threshold
      BY <1>2, ToKillOK DEF TypeInv, BossInv, Approach
    <3> QED
      BY <1>2, <2>2, <2>3, <3>1, <3>2
  <2>9. BossInv'
    BY <1>3, <1>6, <2>8 DEF Approach, TypeInv, BossInv, Striking
  <2> QED
    BY <1>1, <2>7, <2>9 DEF TypeInv
<1> QED
  BY <1>4, <1>5, <1>6

LEMMA ContinuousKillTypeInv == TypeInv /\ ContinuousKill => TypeInv'
<1> SUFFICES ASSUME TypeInv, ContinuousKill PROVE TypeInv'
  OBVIOUS
<1>1. FightOK'
  BY DEF ContinuousKill, TypeInv, FightOK, Legal
<1>2. remaining \in Nat /\ ToKill \in Nat /\ ToKill <= remaining
  BY ToKillOK DEF TypeInv, TypeOK
<1>3. contact \in Nat /\ last \in Nat /\ last <= contact
  BY ContactAfterLast DEF ContinuousKill, Horizon
<1>4. KillTime(last, contact) \in Nat
  BY <1>3, KillTimeOK DEF ContinuousKill
<1>5. remaining - ToKill \in Nat /\ remaining - ToKill <= remaining
  BY <1>2
<1>6. Wound("continuous", remaining - ToKill) /\ "continuous" \in Source
  BY DEF ContinuousKill, Source
<1>7. remaining' \in Nat /\ dealt' \in [Source -> Nat]
  BY <1>5, <1>6, WoundOK
<1>8. TypeOK'
  BY <1>4, <1>7 DEF ContinuousKill, TypeInv, TypeOK, wallVars
<1>9. BossInv'
  BY DEF ContinuousKill, TypeInv, BossInv, Striking
<1> QED
  BY <1>1, <1>8, <1>9 DEF TypeInv

LEMMA ContactTypeInv == TypeInv /\ Contact => TypeInv'
<1> SUFFICES ASSUME TypeInv, Contact PROVE TypeInv'
  OBVIOUS
<1>1. FightOK'
  BY DEF Contact, TypeInv, FightOK, Legal
<1>2. DamageBetween(last, contact) \in Nat /\ Thorns \in Nat /\ remaining' \in Nat
  BY ThornsOK DEF Contact
<1>3. contact \in Nat /\ last \in Nat /\ hits \in Nat
  BY ContactAfterLast DEF Contact, Horizon, TypeInv, TypeOK
<1>4. dealt' \in [Source -> Nat]
  <2>1. dealt \in [Source -> Nat] /\ {"continuous", "thorns"} \subseteq Source
    BY DEF TypeInv, TypeOK, Source
  <2>2. Booked \in [Source -> Nat]
    BY <1>2, <2>1 DEF Booked
  <2> QED
    BY <2>2 DEF Contact
<1>5. contact' = contact + fight.interval /\ contact' \in Nat
  BY <1>3, FightTypes DEF Contact, NextContact, TypeInv
<1>6. TypeOK'
  BY <1>2, <1>3, <1>4, <1>5 DEF Contact, TypeInv, TypeOK, wallVars
<1>7. fight.contact \in Nat /\ contact = fight.contact + hits * fight.interval
  <2>1. CASE hits = 0
    <3>1. 0 * fight.interval = 0 /\ fight.contact = contact
      BY <2>1, FightTypes DEF TypeInv, BossInv
    <3> QED
      BY <1>3, <2>1, <3>1
  <2>2. CASE hits > 0
    BY <2>2 DEF TypeInv, BossInv
  <2> QED
    BY <1>3, <2>1, <2>2
<1>8. (hits + 1) * fight.interval = hits * fight.interval + fight.interval
  BY <1>3, FightTypes DEF TypeInv
<1>9. hits * fight.interval \in Nat
  BY <1>3, FightTypes, Product DEF TypeInv
<1>10. /\ hits' = hits + 1 /\ hits' > 0 /\ hits' - 1 = hits
       /\ last' = contact /\ last' <= fight.horizon /\ fight' = fight
  BY <1>3 DEF Contact, Horizon
<1>11. contact' = fight.contact + hits' * fight.interval
  BY <1>5, <1>7, <1>8, <1>9, <1>10, FightTypes DEF TypeInv
<1>12. BossInv'
  <2>1. Threshold' = Threshold /\ Threshold \in Nat
    BY <1>10, ThresholdType DEF Threshold, TypeInv
  <2>2. phase' = "contact" => remaining' > Threshold'
    BY <1>2, <2>1 DEF Contact
  <2>3. phase' \in {"contact", "wall", "ambiguous"} /\ (phase' = "contact" => ttk' = NoTime)
    BY DEF Contact, TypeInv, BossInv, Striking
  <2> QED
    BY <1>7, <1>10, <1>11, <2>2, <2>3 DEF BossInv, Striking
<1> QED
  BY <1>1, <1>6, <1>12 DEF TypeInv

LEMMA PastHorizonTypeInv == TypeInv /\ PastHorizon => TypeInv'
<1> SUFFICES ASSUME TypeInv, PastHorizon PROVE TypeInv'
  OBVIOUS
<1>1. FightOK'
  BY DEF PastHorizon, TypeInv, FightOK, Legal
<1>2. TypeOK'
  BY DEF PastHorizon, TypeInv, TypeOK, boss, wallVars
<1>3. BossInv'
  BY DEF PastHorizon, TypeInv, BossInv, Striking, boss
<1> QED
  BY <1>1, <1>2, <1>3 DEF TypeInv

-----------------------------------------------------------------------------
(* The hits on the wall                                                    *)
-----------------------------------------------------------------------------

LEMMA BluntedOK ==
  ASSUME FightOK, NEW n \in Nat
  PROVE  Blunted(n) \in Nat /\ Blunted(n) <= Blunted(n + 1)
<1>1. HeatUp * n \in Nat /\ HeatUp * (n + 1) \in Nat /\ HeatUp * n <= HeatUp * (n + 1)
  BY UnitAssumption, Product, ProductGrows
<1>2. RawHit(n) \in Nat /\ RawHit(n + 1) \in Nat /\ RawHit(n) <= RawHit(n + 1)
  <2> DEFINE a == Unit + HeatUp * n
             b == Unit + HeatUp * (n + 1)
  <2>1. a \in Nat /\ b \in Nat /\ a <= b
    BY <1>1, UnitAssumption
  <2>2. RawHit(n) = fight.attack * a /\ RawHit(n + 1) = fight.attack * b
    BY DEF RawHit
  <2> HIDE DEF a, b
  <2> QED
    BY <2>1, <2>2, FightTypes, Product, ProductGrows
<1> DEFINE through == Unit - fight.defense
<1>3. through \in Nat
  BY FractionTypes, RestOfUnit
<1> HIDE DEF through
<1>4. /\ RawHit(n) * through \in Nat /\ RawHit(n + 1) * through \in Nat
      /\ RawHit(n) * through <= RawHit(n + 1) * through
  BY <1>2, <1>3, Product, ProductGrows
<1>5. \A m \in Nat : Blunted(m) = NonNegative(RawHit(m) * through - fight.absolute)
  BY DEF Blunted, through
<1> QED
  BY <1>4, <1>5, FightTypes DEF NonNegative

(* A later hit is no smaller, and more reduction lets no more through.     *)
LEMMA HitOK ==
  ASSUME FightOK, NEW l \in Lane, NEW n \in Nat
  PROVE  /\ Hit(l, n) \in Nat /\ Hit(l, n) <= Hit(l, n + 1)
         /\ \A m \in Lane : fight.dr[l] <= fight.dr[m] => Hit(m, n) <= Hit(l, n)
<1>1. \A m \in Lane : fight.dr[m] \in Nat /\ Unit - fight.dr[m] \in Nat /\ Unit \in Nat
  BY FractionTypes, RestOfUnit, UnitAssumption
<1>2. /\ Blunted(n) \in Nat /\ Blunted(n + 1) \in Nat /\ Blunted(n) <= Blunted(n + 1)
  BY BluntedOK
<1>3. Hit(l, n) \in Nat /\ Hit(l, n) <= Hit(l, n + 1)
  BY <1>1, <1>2, Product, ProductGrows DEF Hit
<1>4. ASSUME NEW m \in Lane, fight.dr[l] <= fight.dr[m] PROVE Hit(m, n) <= Hit(l, n)
  <2>1. Unit - fight.dr[m] <= Unit - fight.dr[l]
    BY <1>1, <1>4
  <2> QED
    BY <1>1, <1>2, <2>1, ProductGrows DEF Hit
<1> QED
  BY <1>3, <1>4

LEMMA HealingType ==
  ASSUME TypeInv, NEW l \in Lane
  PROVE  Healing(l) \in Int /\ fight.regen * fight.interval \in Nat
<1>1. fight.regen * fight.interval \in Nat
  BY FightTypes, Product DEF TypeInv
<1>2. wall[l] \in Int /\ landed \in Nat
  BY DEF TypeInv, TypeOK
<1> QED
  BY <1>1, <1>2, FightTypes DEF Healing, Smaller, TypeInv

LEMMA WallHitTypeInv == TypeInv /\ WallHit => TypeInv'
<1> SUFFICES ASSUME TypeInv, WallHit PROVE TypeInv'
  OBVIOUS
<1>1. FightOK'
  BY DEF WallHit, TypeInv, FightOK, Legal
<1>2. wall' \in [Lane -> Int]
  <2>1. \A l \in Lane : wall[l] + Healing(l) - Hit(l, landed) \in Int
    BY HealingType, HitOK DEF TypeInv, TypeOK
  <2> QED
    BY <2>1 DEF WallHit
<1>3. TypeOK'
  BY <1>2 DEF WallHit, TypeInv, TypeOK, boss
<1>4. BossInv'
  BY DEF WallHit, TypeInv, BossInv, Striking, boss
<1> QED
  BY <1>1, <1>3, <1>4 DEF TypeInv

LEMMA WallDoneTypeInv == TypeInv /\ WallDone => TypeInv'
<1> SUFFICES ASSUME TypeInv, WallDone PROVE TypeInv'
  OBVIOUS
<1>1. FightOK'
  BY DEF WallDone, TypeInv, FightOK, Legal
<1>2. TypeOK'
  BY DEF WallDone, TypeInv, TypeOK, boss, wallVars
<1>3. BossInv'
  BY DEF WallDone, TypeInv, BossInv, Striking, boss
<1> QED
  BY <1>1, <1>2, <1>3 DEF TypeInv

LEMMA StutterTypeInv == TypeInv /\ UNCHANGED vars => TypeInv'
BY DEF TypeInv, FightOK, Legal, TypeOK, BossInv, Striking, Threshold, vars

LEMMA NextTypeInv == TypeInv /\ [Next]_vars => TypeInv'
<1> SUFFICES ASSUME TypeInv, [Next]_vars PROVE TypeInv'
  OBVIOUS
<1>1. fight.orb \in Fraction /\ fight.electron \in Fraction /\ fight.electronHits \in Nat
  BY FightTypes, FractionTypes DEF TypeInv
<1>2. CASE Orbs
  BY <1>1, <1>2, StrikeTypeInv, StrikesEndTypeInv DEF Orbs
<1>3. CASE Electrons
  BY <1>1, <1>3, StrikeTypeInv, StrikesEndTypeInv DEF Electrons
<1>4. CASE Returned
  BY <1>4, StutterTypeInv DEF Returned
<1> QED
  BY <1>2, <1>3, <1>4, CannonTypeInv, ApproachTypeInv, PastHorizonTypeInv,
     ContinuousKillTypeInv, ContactTypeInv, WallHitTypeInv, WallDoneTypeInv, StutterTypeInv
  DEF Next

THEOREM TypeInvariant == Spec => []TypeInv
<1>1. Init => TypeInv
  BY InitTypeInv
<1>2. TypeInv /\ [Next]_vars => TypeInv'
  BY NextTypeInv
<1> QED
  BY <1>1, <1>2, PTL DEF Spec

(* The state keeps its types, whatever fight the kernel accepts: no loop   *)
(* exit deals a boss more than it has left.                                *)
THEOREM TypeCorrect == Spec => []TypeOK
<1>1. TypeInv => TypeOK
  BY DEF TypeInv
<1> QED
  BY <1>1, TypeInvariant, PTL

-----------------------------------------------------------------------------
(* Damage is accounted for                                                 *)
-----------------------------------------------------------------------------

LEMMA WoundConserves ==
  ASSUME TypeInv, DamageConserved, NEW s \in Source, NEW after \in Nat, after <= remaining,
         Wound(s, after), fight' = fight
  PROVE  DamageConserved'
<1>1. dealt \in [Source -> Nat] /\ remaining \in Nat /\ fight.hp \in Nat
  BY FightTypes DEF TypeInv, TypeOK
<1>2. \A t \in Source : dealt[t] \in Nat
  BY <1>1
<1>3. \A t \in Source : dealt'[t] = IF t = s THEN dealt[s] + (remaining - after) ELSE dealt[t]
  BY <1>1, WoundOK
<1>4. remaining' = after
  BY DEF Wound
<1>5. Source = {"cannon", "orbs", "electrons", "continuous", "thorns"}
  BY DEF Source
<1> QED
  BY <1>1, <1>2, <1>3, <1>4, <1>5 DEF DamageConserved

LEMMA NextConserves == TypeInv /\ DamageConserved /\ [Next]_vars => DamageConserved'
<1> SUFFICES ASSUME TypeInv, DamageConserved, [Next]_vars PROVE DamageConserved'
  OBVIOUS
<1>1. remaining \in Nat
  BY DEF TypeInv, TypeOK
<1>2. CASE Cannon
  <2>1. Struck(fight.cannon) \in Nat /\ Struck(fight.cannon) <= remaining
    BY <1>1, FractionTypes, StruckOK DEF TypeInv
  <2> QED
    BY <1>2, <2>1, WoundConserves DEF Cannon, Source
<1>3. ASSUME NEW p \in {"orbs", "electrons"}, NEW x \in Fraction, Strike(p, x)
      PROVE  DamageConserved'
  <2>1. Struck(x) \in Nat /\ Struck(x) <= remaining
    BY <1>1, StruckOK
  <2> QED
    BY <1>3, <2>1, WoundConserves DEF Strike, Source
<1>4. ASSUME UNCHANGED << fight, remaining, dealt >> PROVE DamageConserved'
  BY <1>4 DEF DamageConserved
<1>5. CASE Orbs \/ Electrons
  BY <1>3, <1>4, <1>5, FractionTypes DEF Orbs, Electrons, StrikesEnd, TypeInv
<1>6. ToKill \in Nat /\ ToKill <= remaining
  BY <1>1, ToKillOK DEF TypeInv
<1>7. remaining - ToKill \in Nat /\ remaining - ToKill <= remaining
  BY <1>1, <1>6
<1>8. CASE Approach
  <2>1. CASE fight.dps = 0 \/ fight.contact = NoTime
    BY <1>4, <1>8, <2>1 DEF Approach
  <2>2. CASE ~ (fight.dps = 0 \/ fight.contact = NoTime) /\ KilledBetween(0, fight.contact)
    BY <1>7, <1>8, <2>2, WoundConserves DEF Approach, Source
  <2>3. CASE ~ (fight.dps = 0 \/ fight.contact = NoTime) /\ ~ KilledBetween(0, fight.contact)
    <3> DEFINE d == DamageBetween(0, fight.contact)
    <3>1. d \in Nat
      BY <2>3, DamageOK, FightTypes DEF TypeInv
    <3>2. remaining - d \in Nat /\ remaining - d <= remaining
      BY <1>1, <1>6, <2>3, <3>1 DEF KilledBetween
    <3> QED
      BY <1>8, <2>3, <3>2, WoundConserves DEF Approach, Source
  <2> QED
    BY <2>1, <2>2, <2>3
<1>9. CASE ContinuousKill
  BY <1>7, <1>9, WoundConserves DEF ContinuousKill, Source
<1>10. CASE Contact
  <2>1. DamageBetween(last, contact) \in Nat /\ Thorns \in Nat
    BY <1>10, ThornsOK
  <2>2. dealt \in [Source -> Nat] /\ fight.hp \in Nat
    BY FightTypes DEF TypeInv, TypeOK
  <2>3. \A t \in Source : dealt[t] \in Nat
    BY <2>2
  <2>4. Source = {"cannon", "orbs", "electrons", "continuous", "thorns"}
    BY DEF Source
  <2>5. /\ dealt'["continuous"] = dealt["continuous"] + DamageBetween(last, contact)
        /\ dealt'["thorns"] = dealt["thorns"] + Thorns
        /\ \A t \in {"cannon", "orbs", "electrons"} : dealt'[t] = dealt[t]
    BY <1>10, <2>2, <2>4 DEF Contact, Booked
  <2>6. /\ remaining' = remaining - DamageBetween(last, contact) - Thorns
        /\ fight' = fight
    BY <1>10 DEF Contact
  <2> QED
    BY <1>1, <2>1, <2>2, <2>3, <2>4, <2>5, <2>6 DEF DamageConserved
<1>11. CASE PastHorizon \/ WallHit \/ WallDone \/ Returned \/ UNCHANGED vars
  BY <1>4, <1>11 DEF PastHorizon, WallHit, WallDone, Returned, boss, vars
<1> QED
  BY <1>2, <1>5, <1>8, <1>9, <1>10, <1>11 DEF Next

(* The damage breakdown adds up to what the boss has lost, whichever       *)
(* source killed it and whichever exit the loops took.                     *)
THEOREM DamageAccounted == Spec => []DamageConserved
<1>1. Init => DamageConserved
  <2> SUFFICES ASSUME Init PROVE DamageConserved
    OBVIOUS
  <2>1. fight.hp \in Nat
    BY InitTypeInv, FightTypes DEF TypeInv
  <2> QED
    BY <2>1 DEF Init, DamageConserved, Source
<1>2. TypeInv /\ DamageConserved /\ [Next]_vars => DamageConserved'
  BY NextConserves
<1> QED
  BY <1>1, <1>2, TypeInvariant, PTL DEF Spec

-----------------------------------------------------------------------------
(* Deaths and hits                                                         *)
-----------------------------------------------------------------------------

LEMMA NextKilled == TypeInv /\ KilledMeansDead /\ [Next]_vars => KilledMeansDead'
<1> SUFFICES ASSUME TypeInv, KilledMeansDead, [Next]_vars PROVE KilledMeansDead'
  OBVIOUS
<1>1. /\ remaining \in Nat /\ Threshold \in Nat /\ 0 # NoTime
      /\ fight.contact \in Nat \cup {NoTime}
  BY ThresholdType, FightTypes, NoTimeAssumption DEF TypeInv, TypeOK
<1>2. [Next]_vars => fight' = fight /\ Threshold' = Threshold
  BY DEF Next, Cannon, Orbs, Electrons, Strike, StrikesEnd, Approach, PastHorizon,
         ContinuousKill, Contact, WallHit, WallDone, Returned, vars, Threshold
<1>3. CASE Cannon
  BY <1>1, <1>2, <1>3 DEF Cannon, KilledMeansDead, Killed
<1>4. CASE Orbs \/ Electrons
  BY <1>1, <1>2, <1>4
  DEF Orbs, Electrons, Strike, StrikesEnd, StrikesKill, KilledMeansDead, Killed
<1>5. remaining - ToKill <= Threshold
  BY <1>1, ToKillOK DEF TypeInv
<1>6. CASE Approach
  <2>1. CASE phase' = "contact"
    BY <2>1 DEF KilledMeansDead
  <2>2. CASE phase' # "contact"
    <3>1. /\ KilledBetween(0, fight.contact) /\ fight.contact # NoTime
          /\ ttk' = KillTime(0, fight.contact) /\ remaining' = remaining - ToKill
      BY <1>6, <2>2 DEF Approach, Wound
    <3>2. ttk' \in Nat
      BY <1>1, <3>1, KillTimeOK
    <3> QED
      BY <1>2, <1>5, <3>1, <3>2, NoTimeAssumption DEF KilledMeansDead, Killed
  <2> QED
    BY <2>1, <2>2
<1>7. CASE PastHorizon
  <2>1. ttk' = NoTime /\ remaining' > Threshold /\ remaining' \in Nat
    BY <1>1, <1>7 DEF PastHorizon, TypeInv, BossInv, Striking, boss
  <2> QED
    BY <1>1, <1>2, <2>1 DEF KilledMeansDead, Killed
<1>8. CASE ContinuousKill
  <2>1. contact \in Nat /\ last \in Nat /\ last <= contact
    BY <1>8, ContactAfterLast DEF ContinuousKill, Horizon
  <2>2. ttk' \in Nat
    BY <1>8, <2>1, KillTimeOK DEF ContinuousKill
  <2>3. remaining' = remaining - ToKill
    BY <1>8 DEF ContinuousKill, Wound
  <2> QED
    BY <1>2, <1>5, <2>2, <2>3, NoTimeAssumption DEF KilledMeansDead, Killed
<1>9. CASE Contact
  <2>1. contact # NoTime /\ remaining' \in Nat
    BY <1>9, ThornsOK DEF Contact, Horizon
  <2> QED
    BY <1>1, <1>2, <1>9, <2>1 DEF Contact, KilledMeansDead, Killed
<1>10. CASE WallHit \/ WallDone \/ Returned \/ UNCHANGED vars
  BY <1>2, <1>10 DEF WallHit, WallDone, Returned, boss, vars, KilledMeansDead, Killed
<1> QED
  BY <1>3, <1>4, <1>6, <1>7, <1>8, <1>9, <1>10 DEF Next

(* A time to kill is reported exactly for a boss that is dead.             *)
THEOREM KillsAreDeaths == Spec => []KilledMeansDead
<1>1. Init => KilledMeansDead
  BY DEF Init, KilledMeansDead
<1>2. TypeInv /\ KilledMeansDead /\ [Next]_vars => KilledMeansDead'
  BY NextKilled
<1> QED
  BY <1>1, <1>2, TypeInvariant, PTL DEF Spec

LEMMA NextHits == TypeInv /\ HitsMatchClock /\ [Next]_vars => HitsMatchClock'
<1> SUFFICES ASSUME TypeInv, HitsMatchClock, [Next]_vars PROVE HitsMatchClock'
  OBVIOUS
<1>1. hits \in Nat /\ fight.interval \in Nat /\ fight.horizon \in Nat
  BY FightTypes DEF TypeInv, TypeOK
<1>2. CASE Cannon \/ Orbs \/ Electrons \/ Approach
  <2>1. hits' = 0
    BY <1>2 DEF Cannon, Orbs, Electrons, Strike, StrikesEnd, Approach, TypeInv, BossInv, Striking
  <2> QED
    BY <2>1 DEF HitsMatchClock
<1>3. CASE PastHorizon
  <2>1. ttk' = NoTime
    BY <1>3 DEF PastHorizon, TypeInv, BossInv, Striking, boss
  <2> QED
    BY <2>1 DEF HitsMatchClock, Killed
<1>4. CASE ContinuousKill
  <2>1. contact \in Nat /\ last \in Nat /\ last <= contact /\ contact <= fight.horizon
    BY <1>4, ContactAfterLast DEF ContinuousKill, Horizon
  <2>2. ttk' \in last .. contact
    BY <1>4, <2>1, KillTimeOK DEF ContinuousKill
  <2>3. fight' = fight /\ hits' = hits
    BY <1>4 DEF ContinuousKill
  <2>4. hits > 0 =>
          /\ last = fight.contact + (hits - 1) * fight.interval
          /\ contact = fight.contact + hits * fight.interval
    BY DEF TypeInv, BossInv
  <2> QED
    BY <1>1, <2>1, <2>2, <2>3, <2>4 DEF HitsMatchClock
<1>5. CASE Contact
  <2>1. contact \in Nat /\ contact <= fight.horizon /\ fight' = fight /\ hits' = hits + 1
    BY <1>5, ContactAfterLast DEF Contact, Horizon
  <2>2. TypeInv'
    BY <1>5, ContactTypeInv
  <2>3. /\ last' = fight.contact + (hits' - 1) * fight.interval
        /\ contact' = fight.contact + hits' * fight.interval
    BY <1>1, <2>1, <2>2 DEF TypeInv, BossInv
  <2>4. last' = contact /\ contact' = contact + fight.interval
    BY <1>5 DEF Contact, NextContact
  <2>5. ttk' = NoTime \/ ttk' = contact
    BY <1>5 DEF Contact, TypeInv, BossInv, Striking
  <2> QED
    BY <1>1, <2>1, <2>3, <2>4, <2>5 DEF HitsMatchClock, Killed
<1>6. CASE WallHit \/ WallDone \/ Returned \/ UNCHANGED vars
  BY <1>6 DEF WallHit, WallDone, Returned, boss, vars, HitsMatchClock, Killed
<1> QED
  BY <1>2, <1>3, <1>4, <1>5, <1>6 DEF Next

(* The boss hits at every contact before its death and at none after it.   *)
THEOREM HitsFollowTheClock == Spec => []HitsMatchClock
<1>1. Init => HitsMatchClock
  BY DEF Init, HitsMatchClock
<1>2. TypeInv /\ HitsMatchClock /\ [Next]_vars => HitsMatchClock'
  BY NextHits
<1> QED
  BY <1>1, <1>2, TypeInvariant, PTL DEF Spec

-----------------------------------------------------------------------------
(* The wall                                                                *)
-----------------------------------------------------------------------------

(* What regenerates before a hit is no more than what the hit takes, and   *)
(* from the first hit on no lane is better than after the first hit.       *)
WallOK ==
  /\ phase \notin {"wall", "done"} => landed = 0
  /\ phase = "done" /\ Killed => landed = Blows
  /\ \A l \in Lane :
       /\ landed = 0 => wall[l] = fight.wall
       /\ landed > 0 => wall[l] <= fight.wall - Hit(l, 0)
       /\ Healing(l) <= Hit(l, landed)

LEMMA InitWallOK == Init => WallOK
<1> SUFFICES ASSUME Init PROVE WallOK
  OBVIOUS
<1>1. FightOK /\ landed = 0 /\ phase = "cannon" /\ \A l \in Lane : wall[l] = fight.wall
  BY InitTypeInv DEF Init, TypeInv
<1>2. \A l \in Lane : Hit(l, 0) \in Nat /\ Healing(l) = 0
  BY <1>1, HitOK DEF Healing
<1> QED
  BY <1>1, <1>2 DEF WallOK

(* One hit in one lane: the heart of the argument.  Healing that was cut   *)
(* at full health leaves a gap of one hit; healing that was not is what    *)
(* the last hit already exceeded.                                          *)
LEMMA HitOutweighsHealing ==
  ASSUME TypeInv, WallOK, WallHit, NEW l \in Lane
  PROVE  /\ wall'[l] <= wall[l]
         /\ wall'[l] <= fight.wall - Hit(l, 0)
         /\ Healing(l)' <= Hit(l, landed + 1)
<1> DEFINE W == fight.wall
           x == wall[l]
           h == Healing(l)
           H == Hit(l, landed)
           R == fight.regen * fight.interval
<1>1. landed \in Nat /\ x \in Int /\ W \in Nat
  BY FightTypes DEF TypeInv, TypeOK
<1>2. h \in Int /\ R \in Nat
  BY HealingType
<1>3. H \in Nat /\ H <= Hit(l, landed + 1) /\ Hit(l, landed + 1) \in Nat /\ Hit(l, 0) \in Nat
  BY <1>1, HitOK DEF TypeInv
<1>4. wall'[l] = x + h - H /\ landed' = landed + 1 /\ landed' # 0 /\ fight' = fight
  BY <1>1 DEF WallHit
<1>5. h <= H
  BY DEF WallOK
<1>6. Healing(l)' = Smaller(W - (x + h - H), R)
  BY <1>4 DEF Healing
<1>7. h = IF landed = 0 THEN 0 ELSE Smaller(W - x, R)
  BY DEF Healing
<1>8. landed = 0 => x = W /\ H = Hit(l, 0)
  BY DEF WallOK
<1>9. landed > 0 => x <= W - Hit(l, 0)
  BY DEF WallOK
<1> HIDE DEF W, x, h, H, R
<1>10. x + h - H <= x
  BY <1>1, <1>2, <1>3, <1>5
<1>11. x + h - H <= W - Hit(l, 0)
  BY <1>1, <1>2, <1>3, <1>7, <1>8, <1>9, <1>10
<1>12. Smaller(W - (x + h - H), R) <= H
  <2>1. CASE landed = 0
    BY <1>1, <1>2, <1>3, <1>7, <1>8, <2>1 DEF Smaller
  <2>2. CASE landed > 0
    BY <1>1, <1>2, <1>3, <1>5, <1>7, <2>2 DEF Smaller
  <2> QED
    BY <1>1, <2>1, <2>2
<1>13. Smaller(W - (x + h - H), R) \in Int
  BY <1>1, <1>2, <1>3 DEF Smaller
<1>14. Healing(l)' <= Hit(l, landed + 1)
  BY <1>3, <1>6, <1>12, <1>13
<1> QED
  BY <1>4, <1>10, <1>11, <1>14 DEF x, W

LEMMA NextWallOK == TypeInv /\ WallOK /\ [Next]_vars => WallOK'
<1> SUFFICES ASSUME TypeInv, WallOK, [Next]_vars PROVE WallOK'
  OBVIOUS
<1>1. landed \in Nat
  BY DEF TypeInv, TypeOK
<1>2. ASSUME UNCHANGED << fight, wall, landed >>
      PROVE  \A l \in Lane :
               /\ (landed = 0 => wall[l] = fight.wall)'
               /\ (landed > 0 => wall[l] <= fight.wall - Hit(l, 0))'
               /\ (Healing(l) <= Hit(l, landed))'
  BY <1>2 DEF WallOK, Healing, Hit, Blunted, RawHit
<1>3. CASE Cannon \/ Orbs \/ Electrons \/ Approach \/ PastHorizon \/ ContinuousKill \/ Contact
  <2>1. UNCHANGED << fight, wall, landed >> /\ phase # "done" /\ phase # "wall"
    BY <1>3 DEF Cannon, Orbs, Electrons, Strike, StrikesEnd, Approach, PastHorizon,
                ContinuousKill, Contact, wallVars
  <2>2. phase' # "done" /\ landed = 0
    BY <1>3, <2>1 DEF Cannon, Orbs, Electrons, Strike, StrikesEnd, Approach, PastHorizon,
                      ContinuousKill, Contact, WallOK
  <2> QED
    BY <1>2, <2>1, <2>2 DEF WallOK
<1>4. CASE WallHit
  <2>1. phase' = "wall" /\ landed' = landed + 1 /\ fight' = fight
    BY <1>4 DEF WallHit
  <2>2. ASSUME NEW l \in Lane
        PROVE  /\ (landed = 0 => wall[l] = fight.wall)'
               /\ (landed > 0 => wall[l] <= fight.wall - Hit(l, 0))'
               /\ (Healing(l) <= Hit(l, landed))'
    <3>1. landed' # 0
      BY <1>1, <2>1
    <3>2. wall'[l] <= fight.wall - Hit(l, 0) /\ Healing(l)' <= Hit(l, landed + 1)
      BY <1>4, HitOutweighsHealing
    <3>3. Hit(l, 0)' = Hit(l, 0) /\ Hit(l, landed)' = Hit(l, landed + 1)
      BY <2>1 DEF Hit, Blunted, RawHit
    <3> QED
      BY <2>1, <3>1, <3>2, <3>3
  <2> QED
    BY <2>1, <2>2 DEF WallOK
<1>5. CASE WallDone
  <2>1. UNCHANGED << fight, wall, landed >> /\ phase' = "done"
    BY <1>5 DEF WallDone, wallVars
  <2>2. (Killed => landed = Blows)'
    BY <1>5 DEF WallDone, Killed, Blows, boss, wallVars
  <2> QED
    BY <1>2, <2>1, <2>2 DEF WallOK
<1>6. CASE Returned \/ UNCHANGED vars
  <2>1. UNCHANGED << fight, wall, landed >> /\ phase' = phase /\ ttk' = ttk /\ hits' = hits
    BY <1>6 DEF Returned, vars
  <2>2. (phase \notin {"wall", "done"} => landed = 0)'
    BY <2>1 DEF WallOK
  <2>3. (phase = "done" /\ Killed => landed = Blows)'
    BY <2>1 DEF WallOK, Killed, Blows
  <2> QED
    BY <1>2, <2>1, <2>2, <2>3 DEF WallOK
<1> QED
  BY <1>3, <1>4, <1>5, <1>6 DEF Next

LEMMA WallInvariant == Spec => []WallOK
<1>1. TypeInv /\ WallOK /\ [Next]_vars => WallOK'
  BY NextWallOK
<1> QED
  BY <1>1, InitWallOK, TypeInvariant, PTL DEF Spec

(* Regeneration never outruns the hits, so the margin after the last hit   *)
(* is the lowest the wall has been at, in every lane.                      *)
THEOREM WallOnlyFalls == Spec => WallNeverRecovers
<1>1. TypeInv /\ WallOK /\ [Next]_vars
        => [landed' # landed => \A l \in Lane : wall'[l] <= wall[l]]_vars
  <2> SUFFICES ASSUME TypeInv, WallOK, [Next]_vars, landed' # landed
               PROVE  \A l \in Lane : wall'[l] <= wall[l]
    OBVIOUS
  <2>1. WallHit
    BY DEF Next, Cannon, Orbs, Electrons, Strike, StrikesEnd, Approach, PastHorizon,
           ContinuousKill, Contact, WallDone, Returned, vars, wallVars
  <2> QED
    BY <2>1, HitOutweighsHealing
<1> QED
  BY <1>1, TypeInvariant, WallInvariant, PTL DEF Spec, WallNeverRecovers

(* A lane that survives hit by hit survives the contact envelope, so a row *)
(* that fails the envelope has failed both verdicts the scan asks for.     *)
THEOREM SurvivorsPassEnvelope == Spec => []SurvivesThenEnvelope
<1>1. TypeInv /\ WallOK => SurvivesThenEnvelope
  <2> SUFFICES ASSUME TypeInv, WallOK, phase = "done", NEW l \in Lane, Survives(l)
               PROVE  EnvelopeSurvives(l)
    BY DEF SurvivesThenEnvelope
  <2>1. landed \in Nat /\ wall[l] \in Int /\ fight.wall \in Nat /\ Hit(l, 0) \in Nat
    BY FightTypes, HitOK DEF TypeInv, TypeOK
  <2>2. Killed /\ wall[l] >= 0 /\ landed = Blows
    BY DEF Survives, WallOK
  <2>3. Regenerated \in Nat
    BY FightTypes, Product DEF Regenerated, TypeInv
  <2>4. FirstHit(l) = (IF landed > 0 THEN Hit(l, 0) ELSE 0)
    BY <2>2 DEF FirstHit
  <2>5. landed > 0 => wall[l] <= fight.wall - Hit(l, 0)
    BY DEF WallOK
  <2>6. fight.wall + Regenerated - FirstHit(l) >= 0
    BY <2>1, <2>2, <2>3, <2>4, <2>5
  <2> QED
    BY <2>2, <2>6 DEF EnvelopeSurvives
<1> QED
  BY <1>1, TypeInvariant, WallInvariant, PTL

(* More damage reduction never leaves a lane worse off, whatever was hit,  *)
(* healed and capped on the way.                                           *)
THEOREM LanesStayOrdered == Spec => []LanesOrdered
<1>1. Init => LanesOrdered
  <2> SUFFICES ASSUME Init PROVE LanesOrdered
    OBVIOUS
  <2>1. fight.wall \in Nat
    BY InitTypeInv, FightTypes DEF TypeInv
  <2> QED
    BY <2>1 DEF Init, LanesOrdered, Lane
<1>2. TypeInv /\ LanesOrdered /\ [Next]_vars => LanesOrdered'
  <2> SUFFICES ASSUME TypeInv, LanesOrdered, [Next]_vars PROVE LanesOrdered'
    OBVIOUS
  <2>1. CASE wall' = wall
    BY <2>1 DEF LanesOrdered
  <2>2. CASE WallHit
    <3>1. landed \in Nat /\ fight.wall \in Nat /\ fight.regen * fight.interval \in Nat
      BY FightTypes, Product DEF TypeInv, TypeOK
    <3>2. ASSUME NEW l \in Lane, NEW m \in Lane, wall[l] <= wall[m], fight.dr[l] <= fight.dr[m]
          PROVE  wall'[l] <= wall'[m]
      <4>1. wall[l] \in Int /\ wall[m] \in Int
        BY DEF TypeInv, TypeOK
      <4>2. Hit(l, landed) \in Nat /\ Hit(m, landed) \in Nat /\ Hit(m, landed) <= Hit(l, landed)
        BY <3>1, <3>2, HitOK DEF TypeInv
      <4>3. wall[l] + Healing(l) <= wall[m] + Healing(m)
        BY <3>1, <3>2, <4>1 DEF Healing, Smaller
      <4>4. Healing(l) \in Int /\ Healing(m) \in Int
        BY HealingType
      <4>5. /\ wall'[l] = wall[l] + Healing(l) - Hit(l, landed)
            /\ wall'[m] = wall[m] + Healing(m) - Hit(m, landed)
        BY <2>2 DEF WallHit
      <4> QED
        BY <4>1, <4>2, <4>3, <4>4, <4>5
    <3>3. fight.dr[1] <= fight.dr[2] /\ fight.dr[2] <= fight.dr[3] /\ {1, 2, 3} \subseteq Lane
      BY FractionTypes DEF TypeInv, Lane
    <3> QED
      BY <3>2, <3>3 DEF LanesOrdered
  <2>3. wall' = wall \/ WallHit
    BY DEF Next, Cannon, Orbs, Electrons, Strike, StrikesEnd, Approach, PastHorizon,
           ContinuousKill, Contact, WallDone, Returned, vars, wallVars
  <2> QED
    BY <2>1, <2>2, <2>3
<1> QED
  BY <1>1, <1>2, TypeInvariant, PTL DEF Spec

\* The time to kill and the hits are of one clock: what
\* _boss_total_ttk_seconds and the contact loop say of a fight agrees.
THEOREM KillsAndHitsAgree == Spec => []KillsAndHits
BY KillsAreDeaths, HitsFollowTheClock, PTL DEF KillsAndHits

\* The two verdicts and the three lanes of _evaluate_boss_ttd_lane are in the
\* order the scan of Table 2 relies on.
THEOREM VerdictsStayOrdered == Spec => []VerdictsOrdered
BY LanesStayOrdered, SurvivorsPassEnvelope, PTL DEF VerdictsOrdered
=============================================================================
