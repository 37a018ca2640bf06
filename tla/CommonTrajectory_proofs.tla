----------------------- MODULE CommonTrajectory_proofs ----------------------
(***************************************************************************)
(* Proofs about the trajectory loop.  Lemmas about the rules of RunPlan    *)
(* come first: clamps, floors, the checkpoint grid and the skip decay, for *)
(* every value of the constants.  TypeInv is inductive on its own: the     *)
(* types need the grid (a gap is never negative) and the candidate list (a *)
(* level is raised only below its maximum).  Every other invariant is then *)
(* proved relative to it.  The sums over tracks and rows come last, with   *)
(* the rotation and the grid: an upgrade moves one term of one sum.        *)
(***************************************************************************)
EXTENDS CommonTrajectory, DataLemmas

-----------------------------------------------------------------------------
(* Arithmetic                                                              *)
-----------------------------------------------------------------------------

(* Flooring a total by a positive unit leaves a remainder below the unit.  *)
LEMMA DivMod ==
  ASSUME NEW a \in Nat, NEW b \in Nat \ {0}
  PROVE  /\ a \div b \in Nat
         /\ a - b * (a \div b) \in Nat
         /\ a - b * (a \div b) < b
OBVIOUS

(* The residue of a wave modulo the boss interval.                         *)
LEMMA ModRange ==
  ASSUME NEW a \in Int, NEW b \in Nat \ {0}
  PROVE  a % b \in Nat /\ a % b < b
OBVIOUS

(* A product of naturals is a natural.                                     *)
LEMMA ProductNat ==
  ASSUME NEW a \in Nat, NEW b \in Nat
  PROVE  a * b \in Nat
OBVIOUS

(* Multiplication distributes over a sum and over a difference.            *)
LEMMA Distribute ==
  ASSUME NEW a \in Int, NEW b \in Int, NEW c \in Int
  PROVE  /\ a * (b + c) = a * b + a * c
         /\ a * (b - c) = a * b - a * c
OBVIOUS

-----------------------------------------------------------------------------
(* Clamps                                                                  *)
-----------------------------------------------------------------------------

LEMMA ClampTypes ==
  ASSUME NEW x \in Int
  PROVE  /\ BoundedFraction(x) \in 0 .. Unit
         /\ BoundedFraction(x) \in Nat
         /\ NonNegative(x) \in Nat
         /\ AtLeastOne(x) \in Nat \ {0}
BY UnitAssumption DEF BoundedFraction, NonNegative, AtLeastOne

-----------------------------------------------------------------------------
(* Checkpoint grid                                                         *)
-----------------------------------------------------------------------------

(* The first checkpoint is not before the start wave.                      *)
LEMMA FirstBossWaveBound ==
  ASSUME NEW start \in Int, NEW interval \in Nat \ {0}
  PROVE  /\ FirstBossWaveAtOrAfter(start, interval) \in Nat
         /\ NonNegative(start - 1) <= FirstBossWaveAtOrAfter(start, interval)
<1>1. start % interval \in Nat /\ start % interval < interval
  BY ModRange
<1> QED
  BY <1>1 DEF FirstBossWaveAtOrAfter, NonNegative

-----------------------------------------------------------------------------
(* Skip decay                                                              *)
-----------------------------------------------------------------------------

(* The latest threshold reached is a threshold.                            *)
LEMMA LatestOfType ==
  ASSUME NEW S \in SUBSET Nat, S # {}, NEW b \in Nat, \A s \in S : s <= b
  PROVE  LatestOf(S) \in S /\ \A s \in S : s <= LatestOf(S)
<1>1. \E m \in S : \A s \in S : s <= m
  BY GreatestExists
<1> QED
  BY <1>1 DEF LatestOf

(* The part of a plan the decay reads.                                     *)
DecayOK(p) ==
  /\ p.decayStart \in Nat /\ p.decayInterval \in Nat
  /\ p.decayFraction \in Nat
  /\ DOMAIN p.schedule \subseteq Nat
  /\ \A t \in DOMAIN p.schedule : p.schedule[t] \in Nat

(* The skip decay is a number, and never a gain.                           *)
LEMMA DecayType ==
  ASSUME NEW p, DecayOK(p), NEW w \in Nat
  PROVE  /\ EnemySkipDecayDelta(p, w) \in Int
         /\ EnemySkipDecayDelta(p, w) <= 0
<1>1. CASE ScheduleAnswers(p, w)
  <2> DEFINE S == Threshold(p.schedule, w - p.decayStart)
  <2>1. w - p.decayStart \in Nat /\ S # {}
    BY <1>1 DEF ScheduleAnswers, DecayOK
  <2>2. S \in SUBSET Nat /\ S \subseteq DOMAIN p.schedule
    BY DEF DecayOK, Threshold
  <2>3. \A s \in S : s <= w - p.decayStart
    BY DEF Threshold
  <2>4. LatestOf(S) \in S
    <3> HIDE DEF S
    <3> QED BY <2>1, <2>2, <2>3, LatestOfType
  <2>5. p.schedule[LatestOf(S)] \in Nat
    BY <2>2, <2>4 DEF DecayOK
  <2> HIDE DEF S
  <2>6. EnemySkipDecayDelta(p, w) = 0 - p.schedule[LatestOf(S)]
    BY <1>1 DEF EnemySkipDecayDelta, S
  <2> QED
    BY <2>5, <2>6
<1>2. CASE ~ ScheduleAnswers(p, w) /\ StepwiseAnswers(p, w)
  <2> DEFINE n == (w - p.decayStart) \div p.decayInterval
  <2>1. n \in Nat
    <3>1. w - p.decayStart \in Nat /\ p.decayInterval \in Nat \ {0}
      BY <1>2 DEF StepwiseAnswers, DecayOK
    <3> QED BY <3>1, DivMod
  <2>2. p.decayFraction * n \in Nat
    BY <2>1, ProductNat DEF DecayOK
  <2>3. EnemySkipDecayDelta(p, w) = 0 - p.decayFraction * n
    BY <1>2 DEF EnemySkipDecayDelta
  <2> QED
    BY <2>2, <2>3
<1>3. CASE ~ ScheduleAnswers(p, w) /\ ~ StepwiseAnswers(p, w)
  BY <1>3 DEF EnemySkipDecayDelta
<1> QED
  BY <1>1, <1>2, <1>3

-----------------------------------------------------------------------------
(* The loop                                                                *)
-----------------------------------------------------------------------------

(* What compile_run_plan guarantees of every plan.                         *)
PlanOK(p) ==
  /\ p.start \in Int /\ p.end \in Int
  /\ p.interval \in Nat \ {0} /\ p.every \in Nat \ {0}
  /\ p.skipTrack \in [Lane -> Track \cup {NoTrack}]
  /\ p.skipFallback \in [Lane -> Int] /\ p.skipDelta \in Int
  /\ DecayOK(p)
  /\ p.chance \in [Category -> Fraction]
  /\ p.order \in [Category -> Seq(Track)] /\ DistinctTracks(p.order)
  /\ p.levels \in Levels /\ p.maxLevel \in Levels
  /\ p.towerHpTrack \in Track /\ p.wallHpTrack \in Track
  /\ p.deathWaveMax \in Nat /\ p.deathWaveMaxWave \in Nat \ {0}

(* The loop never looks at a checkpoint that lies behind the last row.     *)
GridOK ==
  /\ pc = "checkpoint" => previous <= CheckpointWave(plan, index)
  /\ pc \in {"advance", "allocate", "row"} =>
       previous <= wave /\ wave = CheckpointWave(plan, index)

TypeInv == PlanOK(plan) /\ TypeOK /\ GridOK /\ CandidatesCurrent

-----------------------------------------------------------------------------
LEMMA RangesNat == Fraction \subseteq Nat /\ LevelRange \subseteq Nat /\ Category \subseteq Nat
BY UnitAssumption, TableAssumption, CategoryAssumption DEF Fraction, LevelRange, Category

LEMMA CompiledPlanOK ==
  ASSUME NEW s \in Scenarios
  PROVE  PlanOK(CompileRunPlan(s))
<1> DEFINE p == CompileRunPlan(s)
<1>1. Compilable(s)
  BY ScenariosAssumption
<1>2. /\ p.start = s.start /\ p.end = s.end
      /\ p.interval = AtLeastOne(s.interval) /\ p.every = AtLeastOne(s.every)
      /\ p.skipTrack = s.skipTrack /\ p.skipFallback = s.skipFallback
      /\ p.skipDelta = SkipDelta(s)
      /\ p.decayStart = NonNegative(DecayStart(s))
      /\ p.decayFraction = BoundedFraction(s.decayFraction)
      /\ p.decayInterval = NonNegative(s.decayInterval)
      /\ p.schedule = DecaySchedule(s)
      /\ p.chance = [c \in DOMAIN s.chance |-> BoundedFraction(s.chance[c])]
      /\ p.order = s.order /\ p.levels = s.levels /\ p.maxLevel = s.maxLevel
      /\ p.towerHpTrack = s.towerHpTrack /\ p.wallHpTrack = s.wallHpTrack
      /\ p.deathWaveMax = s.deathWaveMax /\ p.deathWaveMaxWave = s.deathWaveMaxWave
  BY DEF CompileRunPlan
<1> HIDE DEF p
<1>3. p.skipDelta \in Int
  BY <1>1, <1>2 DEF SkipDelta, Compilable
<1>4. DecayOK(p)
  <2>1. DecayStart(s) \in Int
    BY <1>1 DEF DecayStart, Compilable
  <2>2. p.decayStart \in Nat /\ p.decayInterval \in Nat
    BY <1>1, <1>2, <2>1, ClampTypes DEF Compilable
  <2>3. p.decayFraction \in Nat
    BY <1>1, <1>2, ClampTypes DEF Compilable
  <2>4. CASE UsesCurve(s)
    BY <1>2, <2>2, <2>3, <2>4, TableAssumption DEF DecayOK, DecaySchedule
  <2>5. CASE ~ UsesCurve(s)
    BY <1>2, <2>2, <2>3, <2>5 DEF DecayOK, DecaySchedule, EmptySchedule
  <2> QED
    BY <2>4, <2>5
<1>5. p.chance \in [Category -> Fraction]
  <2>1. DOMAIN s.chance = Category /\ \A c \in Category : s.chance[c] \in Int
    BY <1>1 DEF Compilable
  <2> QED
    BY <1>2, <2>1, ClampTypes DEF Fraction
<1>6. p.interval \in Nat \ {0} /\ p.every \in Nat \ {0}
  BY <1>1, <1>2, ClampTypes DEF Compilable
<1> QED
  BY <1>1, <1>2, <1>3, <1>4, <1>5, <1>6 DEF PlanOK, Compilable, Levels, p

LEMMA CheckpointWaveOK ==
  ASSUME NEW p, PlanOK(p), NEW k \in Nat
  PROVE  /\ CheckpointWave(p, k) \in Nat
         /\ CheckpointWave(p, k) <= CheckpointWave(p, k + 1)
         /\ StartProgressionWave(p) \in Nat
         /\ StartProgressionWave(p) <= CheckpointWave(p, 0)
<1> DEFINE first  == FirstBossWaveAtOrAfter(p.start, p.interval)
           stride == p.every * p.interval
<1>1. first \in Nat /\ NonNegative(p.start - 1) <= first
  BY FirstBossWaveBound DEF PlanOK
<1>2. stride \in Nat
  BY ProductNat DEF PlanOK
<1>3. \A n \in Nat : CheckpointWave(p, n) = first + n * stride
  <2> TAKE n \in Nat
  <2>1. n * p.every * p.interval = n * (p.every * p.interval)
    BY DEF PlanOK
  <2> QED
    BY <2>1 DEF CheckpointWave
<1> HIDE DEF first, stride
<1>4. k * stride \in Nat /\ (k + 1) * stride = k * stride + stride /\ 0 * stride = 0
  BY <1>2, ProductNat
<1>5. StartProgressionWave(p) = NonNegative(p.start - 1)
  BY DEF StartProgressionWave
<1>6. NonNegative(p.start - 1) \in Nat
  <2>1. p.start - 1 \in Int
    BY DEF PlanOK
  <2> QED
    BY <2>1, ClampTypes
<1> QED
  BY <1>1, <1>2, <1>3, <1>4, <1>5, <1>6

LEMMA SkipChanceOK ==
  ASSUME NEW p, PlanOK(p), NEW l \in Lane, NEW lv \in Levels, NEW w \in Nat
  PROVE  RowSkipChance(p, l, lv, EnemySkipDecayDelta(p, w)) \in Fraction
<1>1. EnemySkipDecayDelta(p, w) \in Int
  BY DecayType DEF PlanOK
<1>2. CASE p.skipTrack[l] = NoTrack
  <2>1. BoundedFraction(p.skipFallback[l]) \in Nat
    <3>1. p.skipFallback[l] \in Int
      BY DEF PlanOK
    <3> QED
      BY <3>1, ClampTypes
  <2>2. BoundedFraction(p.skipFallback[l]) + p.skipDelta + EnemySkipDecayDelta(p, w) \in Int
    BY <1>1, <2>1 DEF PlanOK
  <2> QED
    BY <1>2, <2>2, ClampTypes DEF RowSkipChance, Fraction
<1>3. CASE p.skipTrack[l] # NoTrack
  <2>1. p.skipTrack[l] \in Track
    BY <1>3 DEF PlanOK
  <2>2. SkipOfLevel[lv[p.skipTrack[l]]] \in Int
    BY <2>1, TableAssumption DEF Levels
  <2>3. SkipOfLevel[lv[p.skipTrack[l]]] + p.skipDelta + EnemySkipDecayDelta(p, w) \in Int
    BY <1>1, <2>2 DEF PlanOK
  <2> QED
    BY <1>3, <2>3, ClampTypes DEF RowSkipChance, Fraction
<1> QED
  BY <1>2, <1>3

-----------------------------------------------------------------------------
(* Initially the candidate list is empty, so only the plan matters.        *)
LEMMA TypeInvInit == Init => TypeInv
<1> SUFFICES ASSUME Init PROVE TypeInv
  OBVIOUS
<1>1. PlanOK(plan)
  BY CompiledPlanOK DEF Init
<1>2. 0 \in Nat /\ StartProgressionWave(plan) \in Nat
      /\ StartProgressionWave(plan) <= CheckpointWave(plan, 0)
  BY <1>1, CheckpointWaveOK
<1>3. TypeOK
  <2>1. 0 \in Fraction /\ 1 \in Category
    BY UnitAssumption, CategoryAssumption DEF Fraction, Category
  <2>2. levels \in Levels
    BY <1>1 DEF Init, PlanOK
  <2> QED
    BY <1>2, <2>1, <2>2 DEF Init, TypeOK
<1>4. GridOK
  BY <1>2 DEF Init, GridOK
<1>5. CandidatesCurrent
  BY DEF Init, CandidatesCurrent
<1> QED
  BY <1>1, <1>3, <1>4, <1>5 DEF TypeInv

(* A step of the rotation keeps the list equal to the candidates it would  *)
(* recompute: no other position of the order names the raised track.       *)
LEMMA AllocateTypes == TypeInv /\ AllocateOne => TypeOK' /\ CandidatesCurrent'
<1> SUFFICES ASSUME TypeInv, AllocateOne PROVE TypeOK' /\ CandidatesCurrent'
  OBVIOUS
<1> USE DEF TypeInv
<1>1. PICK p \in cands :
        /\ levels' = [levels EXCEPT ![Order(cat)[p]] = @ + 1]
        /\ cands' = IF StaysOpen(Order(cat)[p]) THEN cands ELSE cands \ {p}
  BY DEF AllocateOne
<1> DEFINE t == Order(cat)[p]
<1>2. /\ cands = Candidates(cat, levels) /\ cat \in Category /\ cat' = cat
      /\ plan' = plan /\ pc' = pc /\ pc = "allocate"
  BY DEF AllocateOne, CandidatesCurrent, TypeOK
<1>3. Order(cat) \in Seq(Track) /\ p \in DOMAIN Order(cat) /\ t \in Track
  BY <1>2 DEF Order, PlanOK, Candidates
<1>4. levels[t] < MaxLevel(t) /\ MaxLevel(t) \in LevelRange /\ levels[t] \in LevelRange
  BY <1>2, <1>3 DEF Candidates, MaxLevel, PlanOK, Levels, TypeOK
<1>5. levels' \in Levels
  <2>1. levels[t] + 1 \in LevelRange
    BY <1>4, TableAssumption DEF LevelRange
  <2> QED
    BY <1>1, <2>1 DEF Levels, TypeOK
<1>6. TypeOK'
  <2>1. alloc' \in [Category -> Nat] /\ nextIndex' \in [Category -> Nat] /\ left' \in Nat
    BY DEF AllocateOne, TypeOK
  <2>2. cands' \subseteq Nat
    BY <1>1 DEF TypeOK
  <2> QED
    BY <1>5, <2>1, <2>2 DEF AllocateOne, TypeOK, progression
<1>7. CandidatesCurrent'
  <2>1. \A q \in DOMAIN Order(cat) : Order(cat)[q] = t => q = p
    BY <1>2, <1>3 DEF PlanOK, DistinctTracks, Order
  <2>2. \A q \in DOMAIN Order(cat) : Order(cat)[q] \in Track
    BY <1>3
  <2>3. \A q \in DOMAIN Order(cat) :
          levels'[Order(cat)[q]] = IF q = p THEN levels[t] + 1 ELSE levels[Order(cat)[q]]
    BY <1>1, <2>1, <2>2 DEF TypeOK, Levels
  <2>4. Candidates(cat, levels')
          = IF StaysOpen(t) THEN cands ELSE cands \ {p}
    BY <1>2, <1>3, <2>3 DEF Candidates, StaysOpen
  <2> QED
    BY <1>1, <1>2, <2>4 DEF CandidatesCurrent, Candidates, Order, MaxLevel
<1> QED
  BY <1>6, <1>7

LEMMA TypeInvNext == TypeInv /\ [Next]_vars => TypeInv'
<1> SUFFICES ASSUME TypeInv, [Next]_vars PROVE TypeInv'
  OBVIOUS
<1> USE DEF TypeInv
<1>1. CASE BeginRow
  <2>1. wave' \in Nat
    BY <1>1, CheckpointWaveOK DEF BeginRow, TypeOK
  <2>2. skip' \in [Lane -> Fraction]
    BY <1>1, <2>1, SkipChanceOK DEF BeginRow, TypeOK
  <2>3. PlanOK(plan')
    BY <1>1 DEF BeginRow
  <2>4. TypeOK'
    BY <1>1, <2>1, <2>2 DEF BeginRow, TypeOK, progression, recurrence, allocation
  <2>5. GridOK'
    BY <1>1 DEF BeginRow, GridOK, TypeOK
  <2>6. CandidatesCurrent'
    BY <1>1 DEF BeginRow, CandidatesCurrent
  <2> QED
    BY <2>3, <2>4, <2>5, <2>6
<1>2. CASE AdvanceWave
  <2>1. ASSUME NEW l \in Lane
        PROVE  /\ counter[l] + skip[l] \in Nat
               /\ Suppressed(l) \in Nat /\ Remainder(l) \in Nat
    <3> DEFINE a == counter[l] + skip[l]
    <3>1. a \in Nat
      BY UnitAssumption DEF TypeOK, Fraction
    <3> HIDE DEF a
    <3>2. a \div Unit \in Nat /\ a - Unit * (a \div Unit) \in Nat
      BY <3>1, DivMod, UnitAssumption
    <3>3. Suppressed(l) = a \div Unit
      BY DEF a, Suppressed
    <3>4. Remainder(l) = a - Unit * (a \div Unit)
      BY <3>3 DEF a, Remainder
    <3> QED
      BY <3>1, <3>2, <3>3, <3>4 DEF a
  <2>2. level' \in [Lane -> Nat] /\ counter' \in [Lane -> Nat]
    <3>1. \A l \in Lane : NonNegative(1 - Suppressed(l)) \in Nat
      BY <2>1 DEF NonNegative
    <3> QED
      BY <1>2, <2>1, <3>1 DEF AdvanceWave, TypeOK
  <2>3. owed' \in [Lane -> Nat] /\ display' \in Nat
    BY <1>2, UnitAssumption DEF AdvanceWave, TypeOK, Fraction
  <2>4. TypeOK'
    BY <1>2, <2>2, <2>3 DEF AdvanceWave, TypeOK, recurrence, allocation
  <2>5. PlanOK(plan') /\ GridOK' /\ CandidatesCurrent'
    BY <1>2 DEF AdvanceWave, GridOK, CandidatesCurrent
  <2> QED
    BY <2>4, <2>5
<1>3. CASE Generate
  <2>1. ASSUME NEW c \in Category
        PROVE  /\ Earned(c) \in Nat
               /\ Earned(c) \div Unit \in Nat
               /\ Earned(c) - Unit * (Earned(c) \div Unit) \in Nat
    <3>1. wave - previous \in Nat /\ carry[c] \in Nat
      BY <1>3 DEF Generate, GridOK, TypeOK
    <3>2. plan.chance[c] \in Nat
      BY UnitAssumption DEF PlanOK, Fraction
    <3>3. plan.chance[c] * (wave - previous) \in Nat
      BY <3>1, <3>2, ProductNat
    <3>4. Earned(c) \in Nat
      BY <3>1, <3>3 DEF Earned
    <3> QED
      BY <3>4, DivMod, UnitAssumption
  <2>2. gen' \in [Category -> Nat] /\ carry' \in [Category -> Nat]
    BY <1>3, <2>1 DEF Generate
  <2>3. genTotal' \in [Category -> Nat]
    BY <1>3, <2>2 DEF Generate, TypeOK
  <2>4. 1 \in Category
    BY CategoryAssumption DEF Category
  <2>5. Candidates(1, levels) \subseteq Nat
    BY <2>4 DEF Candidates, Order, PlanOK
  <2>6. TypeOK'
    BY <1>3, <2>2, <2>3, <2>4, <2>5 DEF Generate, TypeOK, progression
  <2>7. PlanOK(plan') /\ GridOK'
    BY <1>3 DEF Generate, GridOK
  <2>8. CandidatesCurrent'
    BY <1>3 DEF Generate, CandidatesCurrent, Candidates, Order, MaxLevel
  <2> QED
    BY <2>6, <2>7, <2>8
<1>4. CASE AllocateOne
  BY <1>4, AllocateTypes DEF AllocateOne, GridOK
<1>5. CASE LeaveOne
  <2>1. TypeOK'
    BY <1>5 DEF LeaveOne, TypeOK, progression, recurrence
  <2>2. PlanOK(plan') /\ GridOK' /\ CandidatesCurrent'
    BY <1>5 DEF LeaveOne, GridOK, CandidatesCurrent, Candidates, Order, MaxLevel
  <2> QED
    BY <2>1, <2>2
<1>6. CASE CloseCategory
  <2>1. cat \in Category /\ nextIndex[cat] \in Nat
    BY DEF TypeOK
  <2>2. NormalisedIndex(cat) \in Nat
    <3>1. Order(cat) \in Seq(Track) /\ Len(Order(cat)) \in Nat
      BY <2>1 DEF Order, PlanOK
    <3>2. CASE Len(Order(cat)) > 1
      <4>1. nextIndex[cat] % Len(Order(cat)) \in Nat
        BY <2>1, <3>1, <3>2, ModRange
      <4> QED
        BY <3>2, <4>1 DEF NormalisedIndex
    <3>3. CASE ~ (Len(Order(cat)) > 1)
      BY <2>1, <3>3 DEF NormalisedIndex
    <3> QED
      BY <3>2, <3>3
  <2>3. nextIndex' \in [Category -> Nat]
    BY <1>6, <2>2 DEF CloseCategory, TypeOK
  <2>4. CASE cat < NCategory
    <3>1. cat + 1 \in Category
      BY <2>1, <2>4, CategoryAssumption DEF Category
    <3>2. Candidates(cat + 1, levels) \subseteq Nat
      BY <3>1 DEF Candidates, Order, PlanOK
    <3>3. gen[cat + 1] \in Nat
      BY <3>1 DEF TypeOK
    <3>4. TypeOK'
      BY <1>6, <2>3, <2>4, <3>1, <3>2, <3>3 DEF CloseCategory, TypeOK, progression
    <3>5. PlanOK(plan') /\ GridOK'
      BY <1>6, <2>4 DEF CloseCategory, GridOK
    <3>6. CandidatesCurrent'
      BY <1>6, <2>4 DEF CloseCategory, CandidatesCurrent, Candidates, Order, MaxLevel
    <3> QED
      BY <3>4, <3>5, <3>6
  <2>5. CASE ~ (cat < NCategory)
    <3>1. allocTotal' \in [Category -> Nat]
      BY <1>6, <2>5 DEF CloseCategory, AllocatedSoFar, TypeOK
    <3>2. TypeOK'
      BY <1>6, <2>3, <2>5, <3>1 DEF CloseCategory, TypeOK, progression
    <3>3. PlanOK(plan') /\ GridOK' /\ CandidatesCurrent'
      BY <1>6, <2>5 DEF CloseCategory, GridOK, CandidatesCurrent
    <3> QED
      BY <3>2, <3>3
  <2> QED
    BY <2>4, <2>5
<1>7. CASE EmitRow
  <2>1. TypeOK'
    BY <1>7 DEF EmitRow, TypeOK, progression, recurrence, allocation
  <2>2. PlanOK(plan') /\ CandidatesCurrent'
    BY <1>7 DEF EmitRow, CandidatesCurrent
  <2>3. GridOK'
    <3>1. index \in Nat /\ wave = CheckpointWave(plan, index)
      BY <1>7 DEF EmitRow, GridOK, TypeOK
    <3>2. wave <= CheckpointWave(plan, index + 1)
      BY <3>1, CheckpointWaveOK
    <3> QED
      BY <1>7, <3>2 DEF EmitRow, GridOK
  <2> QED
    BY <2>1, <2>2, <2>3
<1>8. CASE FinishTable
  <2>1. TypeOK'
    BY <1>8 DEF FinishTable, TypeOK, progression, recurrence, allocation
  <2>2. PlanOK(plan') /\ GridOK' /\ CandidatesCurrent'
    BY <1>8 DEF FinishTable, GridOK, CandidatesCurrent
  <2> QED
    BY <2>1, <2>2
<1>9. CASE UNCHANGED vars
  BY <1>9 DEF vars, TypeOK, GridOK, CandidatesCurrent, Candidates, Order, MaxLevel, progression, recurrence, allocation
<1> QED
  BY <1>1, <1>2, <1>3, <1>4, <1>5, <1>6, <1>7, <1>8, <1>9 DEF Next, Returned

LEMMA TypeInvAlways == Spec => []TypeInv
BY TypeInvInit, TypeInvNext, PTL DEF Spec

(* Every field keeps its declared type, for every plan: levels stay within *)
(* the level tables and no count becomes negative (build_common_trajectory).*)
THEOREM TypeCorrect == Spec => []TypeOK
<1>1. TypeInv => TypeOK
  BY DEF TypeInv
<1> QED
  BY <1>1, TypeInvAlways, PTL

(* The one-pass candidate list of a category never goes stale              *)
(* (allocate_free_upgrades).                                               *)
THEOREM CandidatesStayCurrent == Spec => []CandidatesCurrent
<1>1. TypeInv => CandidatesCurrent
  BY DEF TypeInv
<1> QED
  BY <1>1, TypeInvAlways, PTL

-----------------------------------------------------------------------------
(* Lane accounting                                                         *)
-----------------------------------------------------------------------------

LEMMA LaneInit == Init => LaneAccounting
<1> SUFFICES ASSUME Init PROVE LaneAccounting
  OBVIOUS
<1>1. StartProgressionWave(plan) \in Nat
  BY TypeInvInit, CheckpointWaveOK DEF TypeInv
<1> QED
  BY <1>1, UnitAssumption DEF Init, LaneAccounting

(* One wave: the counter stays below one unit, so it holds at most one     *)
(* suppressed wave, and the lane gains what the counter did not give up.   *)
LEMMA LaneStep ==
  TypeInv /\ LaneAccounting /\ AdvanceWave => LaneAccounting'
<1> SUFFICES ASSUME TypeInv, LaneAccounting, AdvanceWave, NEW l \in Lane
             PROVE  /\ Unit * (display' - level'[l]) + counter'[l] = owed'[l]
                    /\ counter'[l] < Unit
  BY DEF LaneAccounting
<1> DEFINE a == counter[l] + skip[l]
           s == Suppressed(l)
<1>1. /\ counter[l] \in Nat /\ skip[l] \in Nat /\ skip[l] <= Unit
      /\ display \in Nat /\ level[l] \in Nat /\ owed[l] \in Nat
  BY UnitAssumption DEF TypeInv, TypeOK, Fraction
<1>2. counter[l] < Unit /\ Unit * (display - level[l]) + counter[l] = owed[l]
  BY DEF LaneAccounting
<1>3. a \in Nat /\ a < 2 * Unit
  BY <1>1, <1>2, UnitAssumption
<1>4. s = a \div Unit
  BY DEF Suppressed
<1>5. /\ display' = display + 1 /\ level'[l] = level[l] + NonNegative(1 - s)
      /\ counter'[l] = a - Unit * s /\ owed'[l] = owed[l] + skip[l]
  BY DEF AdvanceWave, Remainder
<1> HIDE DEF a, s
<1>6. s \in Nat /\ a - Unit * s \in Nat /\ a - Unit * s < Unit
  BY <1>3, <1>4, DivMod, UnitAssumption
<1>7. s \in {0, 1}
  <2>1. CASE s >= 2
    <3>1. Unit * s >= Unit * 2
      BY <1>6, <2>1, UnitAssumption
    <3> QED
      BY <1>3, <1>6, <3>1, UnitAssumption
  <2> QED
    BY <1>6, <2>1
<1>8. CASE s = 0
  <2>1. Unit * s = 0 /\ level'[l] = level[l] + 1
    BY <1>1, <1>5, <1>8, UnitAssumption DEF NonNegative
  <2>2. display' - level'[l] = display - level[l]
    BY <1>1, <1>5, <2>1
  <2> QED
    BY <1>1, <1>2, <1>3, <1>5, <1>6, <2>1, <2>2, UnitAssumption DEF a
<1>9. CASE s = 1
  <2>1. Unit * s = Unit /\ level'[l] = level[l]
    BY <1>1, <1>5, <1>9, UnitAssumption DEF NonNegative
  <2>2. display' - level'[l] = (display - level[l]) + 1
    BY <1>1, <1>5, <2>1
  <2>3. Unit * (display' - level'[l]) = Unit * (display - level[l]) + Unit
    <3> DEFINE spared == display - level[l]
    <3>1. spared \in Int /\ Unit \in Int
      BY <1>1, UnitAssumption
    <3>2. display' - level'[l] = spared + 1
      BY <2>2
    <3> HIDE DEF spared
    <3>3. Unit * (spared + 1) = Unit * spared + Unit
      BY <3>1
    <3> QED
      BY <3>2, <3>3 DEF spared
  <2> QED
    BY <1>1, <1>2, <1>3, <1>5, <1>6, <2>1, <2>3, UnitAssumption DEF a
<1> QED
  BY <1>7, <1>8, <1>9

(* The skip counters lose nothing, whatever the chances and the grid: the  *)
(* waves a lane was spared plus its counter are all the chance it was      *)
(* given (advance_wave_progression).                                       *)
THEOREM LaneAccounted == Spec => []LaneAccounting
<1>1. TypeInv /\ LaneAccounting /\ [Next]_vars => LaneAccounting'
  <2> SUFFICES ASSUME TypeInv, LaneAccounting, [Next]_vars PROVE LaneAccounting'
    OBVIOUS
  <2>1. CASE AdvanceWave
    BY <2>1, LaneStep
  <2>2. CASE UNCHANGED progression
    BY <2>2 DEF progression, LaneAccounting
  <2>3. [Next]_vars => AdvanceWave \/ UNCHANGED progression
    BY DEF Next, BeginRow, Generate, AllocateOne, LeaveOne, CloseCategory,
           EmitRow, FinishTable, Returned, vars
  <2> QED
    BY <2>1, <2>2, <2>3
<1> QED
  BY <1>1, LaneInit, TypeInvAlways, PTL DEF Spec

-----------------------------------------------------------------------------
(* Free upgrade generation                                                 *)
-----------------------------------------------------------------------------

LEMMA GenerationStep ==
  TypeInv /\ GenerationAccounting /\ Generate => GenerationAccounting'
<1> SUFFICES ASSUME TypeInv, GenerationAccounting, Generate, NEW c \in Category
             PROVE  /\ Unit * genTotal'[c] + carry'[c]
                          = plan.chance[c] * (wave - StartProgressionWave(plan))
                    /\ carry'[c] < Unit
  BY DEF GenerationAccounting, Settled, Generate
<1> DEFINE e == Earned(c)
           q == e \div Unit
           s == StartProgressionWave(plan)
           chance == plan.chance[c]
<1>1. /\ genTotal[c] \in Nat /\ carry[c] \in Nat /\ wave \in Nat
      /\ previous \in Nat /\ wave - previous \in Nat
  BY DEF TypeInv, TypeOK, GridOK, Generate
<1>2. chance \in Nat /\ s \in Nat
  <2>1. PlanOK(plan)
    BY DEF TypeInv
  <2>2. chance \in Nat
    BY <2>1, RangesNat DEF PlanOK
  <2> QED
    BY <2>1, <2>2, CheckpointWaveOK
<1>3. Unit * genTotal[c] + carry[c] = chance * (previous - s)
  BY DEF GenerationAccounting, Settled, Generate
<1>4. genTotal'[c] = genTotal[c] + q /\ carry'[c] = e - Unit * q
  BY DEF Generate
<1>5. e = carry[c] + chance * (wave - previous)
  BY DEF Earned
<1> HIDE DEF e, s, chance
<1>6. e \in Nat
  BY <1>1, <1>2, <1>5, ProductNat
<1>7. q \in Nat /\ e - Unit * q \in Nat /\ e - Unit * q < Unit
  BY <1>6, DivMod, UnitAssumption
<1> HIDE DEF q
<1>8. Unit * (genTotal[c] + q) = Unit * genTotal[c] + Unit * q
  BY <1>1, <1>7, Distribute, UnitAssumption
<1>9. chance * (wave - s) = chance * (previous - s) + chance * (wave - previous)
  <2>1. wave - s = (previous - s) + (wave - previous)
    BY <1>1, <1>2
  <2> QED
    BY <1>1, <1>2, <2>1, Distribute
<1>10. /\ Unit * q \in Nat /\ Unit * genTotal[c] \in Nat
       /\ chance * (wave - previous) \in Nat
  BY <1>1, <1>2, <1>7, ProductNat, UnitAssumption
<1> QED
  BY <1>1, <1>3, <1>4, <1>5, <1>6, <1>7, <1>8, <1>9, <1>10 DEF s, chance

(* Free upgrades generated are the floor of chance times the waves played, *)
(* for every checkpoint grid (advance_free_upgrade_generation).            *)
THEOREM GenerationAccounted == Spec => []GenerationAccounting
<1>1. Init => GenerationAccounting
  <2> SUFFICES ASSUME Init, NEW c \in Category
               PROVE  /\ Unit * 0 + 0
                            = plan.chance[c] * (StartProgressionWave(plan) - StartProgressionWave(plan))
                      /\ 0 < Unit
    BY DEF Init, GenerationAccounting, Settled
  <2>1. PlanOK(plan)
    BY TypeInvInit DEF TypeInv
  <2>2. plan.chance[c] \in Int
    BY <2>1, UnitAssumption DEF PlanOK, Fraction
  <2>3. StartProgressionWave(plan) \in Int
    BY <2>1, CheckpointWaveOK
  <2> HIDE DEF StartProgressionWave
  <2> QED
    BY <2>2, <2>3, UnitAssumption
<1>2. TypeInv /\ GenerationAccounting /\ [Next]_vars => GenerationAccounting'
  <2> SUFFICES ASSUME TypeInv, GenerationAccounting, [Next]_vars
               PROVE  GenerationAccounting'
    OBVIOUS
  <2>1. CASE Generate
    BY <2>1, GenerationStep
  <2>2. CASE ~ Generate
    <3>1. plan' = plan /\ genTotal' = genTotal /\ carry' = carry
      BY <2>2 DEF Next, BeginRow, AdvanceWave, AllocateOne, LeaveOne, CloseCategory,
                  EmitRow, FinishTable, Returned, vars, recurrence
    <3>2. Settled' = Settled
      BY <2>2 DEF Next, BeginRow, AdvanceWave, AllocateOne, LeaveOne, CloseCategory,
                  EmitRow, FinishTable, Returned, vars, Settled
    <3> QED
      BY <3>1, <3>2 DEF GenerationAccounting
  <2> QED
    BY <2>1, <2>2
<1> QED
  BY <1>1, <1>2, TypeInvAlways, PTL DEF Spec

-----------------------------------------------------------------------------
(* Free upgrade allocation                                                 *)
-----------------------------------------------------------------------------

(* Every generated upgrade of a step is allocated, left over or pending    *)
(* (allocate_free_upgrades).                                               *)
THEOREM StepsConserve == Spec => []StepConserved
<1>1. Init => StepConserved
  BY DEF Init, StepConserved
<1>2. TypeInv /\ StepConserved /\ [Next]_vars => StepConserved'
  <2> SUFFICES ASSUME TypeInv, StepConserved, [Next]_vars PROVE StepConserved'
    OBVIOUS
  <2> USE DEF TypeInv
  <2>1. CASE Generate
    <3>1. \A c \in Category : c \in Nat /\ c >= 1
      BY CategoryAssumption DEF Category
    <3>2. \A c \in Category : gen'[c] \in Nat
      BY <2>1, TypeInvNext DEF TypeOK
    <3> QED
      BY <2>1, <3>1, <3>2 DEF Generate, StepConserved, Pending
  <2>2. CASE AllocateOne
    <3>1. /\ pc = "allocate" /\ gen' = gen /\ unalloc' = unalloc /\ cat' = cat
          /\ left' = left - 1 /\ alloc' = [alloc EXCEPT ![cat] = @ + 1]
      BY <2>2 DEF AllocateOne
    <3> QED
      BY <3>1, RangesNat DEF StepConserved, Pending, TypeOK
  <2>3. CASE LeaveOne
    <3>1. /\ pc = "allocate" /\ gen' = gen /\ alloc' = alloc /\ cat' = cat
          /\ left' = left - 1 /\ unalloc' = [unalloc EXCEPT ![cat] = @ + 1]
      BY <2>3 DEF LeaveOne
    <3> QED
      BY <3>1, RangesNat DEF StepConserved, Pending, TypeOK
  <2>4. CASE CloseCategory
    <3>1. CASE cat < NCategory
      <4>1. /\ cat' = cat + 1 /\ left' = gen[cat + 1] /\ left = 0 /\ pc = "allocate"
            /\ gen' = gen /\ alloc' = alloc /\ unalloc' = unalloc
        BY <2>4, <3>1 DEF CloseCategory
      <4>2. ASSUME NEW c \in Category PROVE Pending(c)' = Pending(c)
        <5>1. c \in Nat /\ cat \in Nat
          BY CategoryAssumption DEF TypeOK, Category
        <5> QED
          BY <4>1, <5>1 DEF Pending
      <4> QED
        BY <4>1, <4>2 DEF StepConserved
    <3>2. CASE ~ (cat < NCategory)
      BY <2>4, <3>2 DEF CloseCategory, StepConserved
    <3> QED
      BY <3>1, <3>2
  <2>5. CASE BeginRow \/ AdvanceWave \/ EmitRow \/ FinishTable
    BY <2>5 DEF BeginRow, AdvanceWave, EmitRow, FinishTable, StepConserved
  <2>6. CASE UNCHANGED vars
    BY <2>6 DEF vars, allocation, StepConserved, Pending
  <2> QED
    BY <2>1, <2>2, <2>3, <2>4, <2>5, <2>6 DEF Next, Returned
<1> QED
  BY <1>1, <1>2, TypeInvAlways, PTL DEF Spec

(* The only step that changes a level raises one of a track below its      *)
(* maximum by one.                                                         *)
LEMMA LevelsGrow ==
  ASSUME TypeInv, [Next]_vars, NEW t \in Track
  PROVE  /\ levels[t] \in Nat /\ levels'[t] \in Nat
         /\ levels'[t] = levels[t] \/ (levels'[t] = levels[t] + 1 /\ levels[t] < MaxLevel(t))
         /\ plan' = plan
<1>1. levels[t] \in Nat /\ levels'[t] \in Nat
  <2>1. levels \in Levels /\ levels' \in Levels
    BY TypeInvNext DEF TypeInv, TypeOK
  <2> QED
    BY <2>1, RangesNat DEF Levels
<1>2. CASE AllocateOne
  <2>1. PICK p \in cands : levels' = [levels EXCEPT ![Order(cat)[p]] = @ + 1]
    BY <1>2 DEF AllocateOne
  <2>2. p \in Candidates(cat, levels) /\ plan' = plan
    BY <1>2 DEF TypeInv, CandidatesCurrent, AllocateOne
  <2>3. levels[Order(cat)[p]] < MaxLevel(Order(cat)[p])
    BY <2>2 DEF Candidates
  <2> QED
    BY <1>1, <2>1, <2>2, <2>3 DEF TypeInv, TypeOK, Levels
<1>3. CASE ~ AllocateOne
  BY <1>1, <1>3 DEF Next, BeginRow, AdvanceWave, Generate, LeaveOne, CloseCategory,
                    EmitRow, FinishTable, Returned, vars
<1> QED
  BY <1>2, <1>3

(* A free upgrade never pushes a track beyond its maximum                  *)
(* (allocate_free_upgrades).                                               *)
THEOREM LevelsStayWithinMax == Spec => []LevelsWithinMax
<1>1. Init => LevelsWithinMax
  <2> SUFFICES ASSUME Init, NEW t \in Track, levels[t] > plan.levels[t] PROVE FALSE
    BY DEF LevelsWithinMax
  <2>1. levels[t] \in Nat /\ levels = plan.levels
    BY TypeInvInit, TableAssumption DEF Init, TypeInv, TypeOK, Levels, LevelRange
  <2> QED
    BY <2>1
<1>2. TypeInv /\ LevelsWithinMax /\ [Next]_vars => LevelsWithinMax'
  <2> SUFFICES ASSUME TypeInv, LevelsWithinMax, [Next]_vars, NEW t \in Track,
                      levels'[t] > plan'.levels[t]
               PROVE  levels'[t] <= MaxLevel(t)'
    BY DEF LevelsWithinMax
  <2>1. /\ levels[t] \in Nat /\ plan' = plan
        /\ levels'[t] = levels[t] \/ (levels'[t] = levels[t] + 1 /\ levels[t] < MaxLevel(t))
    BY LevelsGrow
  <2>2. MaxLevel(t) \in Nat /\ MaxLevel(t)' = MaxLevel(t)
    BY <2>1, TableAssumption DEF MaxLevel, TypeInv, PlanOK, Levels, LevelRange
  <2> QED
    BY <2>1, <2>2 DEF LevelsWithinMax
<1> QED
  BY <1>1, <1>2, TypeInvAlways, PTL DEF Spec

LEMMA CandidatesShrink ==
  ASSUME TypeInv, [Next]_vars, NEW c \in Category, Candidates(c, levels) = {}
  PROVE  Candidates(c, levels)' = {}
<1>1. plan' = plan
  BY DEF Next, BeginRow, AdvanceWave, Generate, AllocateOne, LeaveOne, CloseCategory,
         EmitRow, FinishTable, Returned, vars
<1> SUFFICES ASSUME NEW p \in DOMAIN Order(c),
                    levels'[Order(c)[p]] < MaxLevel(Order(c)[p])
             PROVE  FALSE
  BY <1>1 DEF Candidates, Order, MaxLevel
<1> DEFINE t == Order(c)[p]
<1>2. t \in Track
  BY DEF Order, TypeInv, PlanOK
<1>3. MaxLevel(t) \in Nat
  BY <1>2, TableAssumption DEF MaxLevel, TypeInv, PlanOK, Levels, LevelRange
<1>4. ~ (levels[t] < MaxLevel(t))
  BY DEF Candidates
<1>5. levels[t] \in Nat /\ levels'[t] \in Nat /\ levels'[t] >= levels[t]
  BY <1>2, LevelsGrow
<1> QED
  BY <1>3, <1>4, <1>5

(* An upgrade is left over only when its whole category is maxed           *)
(* (allocate_free_upgrades).                                               *)
THEOREM NothingIsWasted == Spec => []NothingWasted
<1>1. Init => NothingWasted
  BY DEF Init, NothingWasted
<1>2. TypeInv /\ NothingWasted /\ [Next]_vars => NothingWasted'
  <2> SUFFICES ASSUME TypeInv, NothingWasted, [Next]_vars,
                      pc' \in {"allocate", "row"},
                      NEW c \in Category, unalloc'[c] > 0
               PROVE  Candidates(c, levels)' = {}
    BY DEF NothingWasted
  <2>1. CASE Generate
    BY <2>1 DEF Generate
  <2>2. CASE LeaveOne /\ c = cat
    <3>1. Candidates(c, levels) = {}
      BY <2>2 DEF LeaveOne, TypeInv, CandidatesCurrent
    <3> QED
      BY <3>1, CandidatesShrink
  <2>3. CASE ~ Generate /\ ~ (LeaveOne /\ c = cat)
    <3>1. unalloc'[c] = unalloc[c] /\ pc \in {"allocate", "row"}
      BY <2>3 DEF Next, BeginRow, AdvanceWave, AllocateOne, LeaveOne, CloseCategory,
                  EmitRow, FinishTable, Returned, vars, allocation, TypeInv, TypeOK
    <3>2. Candidates(c, levels) = {}
      BY <3>1 DEF NothingWasted
    <3> QED
      BY <3>2, CandidatesShrink
  <2> QED
    BY <2>1, <2>2, <2>3
<1> QED
  BY <1>1, <1>2, TypeInvAlways, PTL DEF Spec

\* Neither recurrence loses anything to its floors: advance_wave_progression
\* and advance_free_upgrade_generation, over every plan and grid.
THEOREM RecurrencesStayExact == Spec => []RecurrencesExact
BY LaneAccounted, GenerationAccounted, PTL DEF RecurrencesExact

\* The allocation with its list kept up to date by hand is the stepwise rule:
\* allocate_free_upgrades conserves, wastes nothing and stays within maxima.
THEOREM AllocationStaysExact == Spec => []AllocationExact
BY StepsConserve, CandidatesStayCurrent, NothingIsWasted, LevelsStayWithinMax, PTL
   DEF AllocationExact

-----------------------------------------------------------------------------
(* Consecutive rows                                                        *)
(*                                                                         *)
(* Wall HP never drops and the skip decay never recovers.  RowsInv links   *)
(* the last row to the levels and the wave the loop has reached since;     *)
(* monotonicity of the rules of RunPlan does the rest when the next row is *)
(* emitted.                                                                *)
-----------------------------------------------------------------------------

RowType ==
  [ display : Nat, level : [Lane -> Nat], skip : [Lane -> Fraction],
    levels : Levels, unalloc : [Category -> Nat], wallHp : Nat ]

(* The chance of a lane no workshop track drives.                          *)
FallbackChance(p, l, w) ==
  BoundedFraction(BoundedFraction(p.skipFallback[l]) + p.skipDelta
                    + EnemySkipDecayDelta(p, w))

(* A plan never mixes the imported curve with a stepwise decay.            *)
DecayShape(p) ==
  /\ \A t, u \in DOMAIN p.schedule : t <= u => p.schedule[t] <= p.schedule[u]
  /\ DOMAIN p.schedule # {} /\ p.decayStart > 0 =>
       p.decayFraction = 0 \/ p.decayInterval = 0

(* The gap under way has the chance of its checkpoint wave.                *)
GapLinked ==
  pc \in {"advance", "allocate", "row"} =>
    \A l \in Lane : plan.skipTrack[l] = NoTrack =>
      skip[l] = FallbackChance(plan, l, wave)

(* The last row has the chance and wall HP of the previous checkpoint, and *)
(* levels below those reached since.                                       *)
LastLinked ==
  rows # << >> =>
    LET last == rows[Len(rows)] IN
      /\ last.wallHp = RederivedWallHp(plan, last.levels, previous)
      /\ \A t \in Track : last.levels[t] <= levels[t]
      /\ \A l \in Lane : plan.skipTrack[l] = NoTrack =>
           last.skip[l] = FallbackChance(plan, l, previous)

RowsInv ==
  /\ DecayShape(plan)
  /\ rows \in Seq(RowType)
  /\ GapLinked /\ LastLinked
  /\ WallHpNeverDrops /\ DecayNeverRecovers

-----------------------------------------------------------------------------
LEMMA LevelNat ==
  ASSUME NEW lv \in Levels, NEW t \in Track
  PROVE  lv[t] \in Nat
<1>1. lv[t] \in LevelRange
  BY DEF Levels
<1> QED
  BY <1>1, RangesNat

LEMMA RowFields ==
  ASSUME NEW table \in Seq(RowType), NEW r \in DOMAIN table
  PROVE  table[r].levels \in Levels /\ table[r].wallHp \in Nat
<1>1. table[r] \in RowType
  OBVIOUS
<1> QED
  BY <1>1 DEF RowType

-----------------------------------------------------------------------------
(* Monotonicity of the rules                                               *)
-----------------------------------------------------------------------------

LEMMA ProductMonotone ==
  ASSUME NEW a \in Nat, NEW b \in Nat, NEW c \in Nat, NEW d \in Nat, a <= b, c <= d
  PROVE  a * c <= b * d
<1>1. a * c <= b * c
  OBVIOUS
<1>2. b * c <= b * d
  OBVIOUS
<1> QED
  BY <1>1, <1>2, ProductNat

LEMMA QuotientMonotone ==
  ASSUME NEW a \in Nat, NEW b \in Nat, NEW n \in Nat \ {0}, a <= b
  PROVE  a \div n <= b \div n
OBVIOUS

(* Death Wave health grows with the wave.                                  *)
LEMMA DeathWaveMonotone ==
  ASSUME NEW p, PlanOK(p), NEW v \in Nat, NEW w \in Nat, v <= w
  PROVE  /\ DeathWaveMultiplier(p, v) \in Nat /\ DeathWaveMultiplier(p, w) \in Nat
         /\ DeathWaveMultiplier(p, v) <= DeathWaveMultiplier(p, w)
<1> DEFINE m == p.deathWaveMaxWave
           reached(x) == IF x < m THEN x ELSE m
<1>1. m \in Nat \ {0} /\ p.deathWaveMax \in Nat
  BY DEF PlanOK
<1>2. CASE p.deathWaveMax <= 1
  <2>1. p.deathWaveMax * m \in Nat
    BY <1>1, ProductNat
  <2> QED
    BY <1>2, <2>1 DEF DeathWaveMultiplier
<1>3. CASE ~ (p.deathWaveMax <= 1)
  <2>1. p.deathWaveMax - 1 \in Nat
    BY <1>1, <1>3
  <2>2. reached(v) \in Nat /\ reached(w) \in Nat /\ reached(v) <= reached(w)
    BY <1>1
  <2>3. \A x \in {v, w} :
          DeathWaveMultiplier(p, x) = m + (p.deathWaveMax - 1) * reached(x)
    BY <1>3 DEF DeathWaveMultiplier
  <2> HIDE DEF m, reached
  <2>4. (p.deathWaveMax - 1) * reached(v) <= (p.deathWaveMax - 1) * reached(w)
    BY <2>1, <2>2, ProductMonotone
  <2>5. /\ (p.deathWaveMax - 1) * reached(v) \in Nat
        /\ (p.deathWaveMax - 1) * reached(w) \in Nat
    BY <2>1, <2>2, ProductNat
  <2> QED
    BY <1>1, <2>3, <2>4, <2>5
<1> QED
  BY <1>2, <1>3

(* Wall HP grows with the levels and with the wave.                        *)
LEMMA WallHpMonotone ==
  ASSUME NEW p, PlanOK(p), NEW v \in Nat, NEW w \in Nat, v <= w,
         NEW a \in Levels, NEW b \in Levels, \A t \in Track : a[t] <= b[t]
  PROVE  /\ RederivedWallHp(p, a, v) \in Nat /\ RederivedWallHp(p, b, w) \in Nat
         /\ RederivedWallHp(p, a, v) <= RederivedWallHp(p, b, w)
<1> DEFINE h(lv) == HpOfLevel[lv[p.towerHpTrack]]
           r(lv) == RatioOfLevel[lv[p.wallHpTrack]]
           d(x)  == DeathWaveMultiplier(p, x)
<1>1. /\ a[p.towerHpTrack] \in LevelRange /\ b[p.towerHpTrack] \in LevelRange
      /\ a[p.wallHpTrack] \in LevelRange /\ b[p.wallHpTrack] \in LevelRange
      /\ a[p.towerHpTrack] <= b[p.towerHpTrack] /\ a[p.wallHpTrack] <= b[p.wallHpTrack]
  BY DEF PlanOK, Levels
<1>2. /\ h(a) \in Nat /\ h(b) \in Nat /\ h(a) <= h(b)
      /\ r(a) \in Nat /\ r(b) \in Nat /\ r(a) <= r(b)
  BY <1>1, GrowthAssumption
<1>3. d(v) \in Nat /\ d(w) \in Nat /\ d(v) <= d(w)
  BY DeathWaveMonotone
<1>4. /\ RederivedWallHp(p, a, v) = NonNegative(h(a) * d(v) * r(a))
      /\ RederivedWallHp(p, b, w) = NonNegative(h(b) * d(w) * r(b))
  BY DEF RederivedWallHp
<1> HIDE DEF h, r, d
<1>5. h(a) * d(v) \in Nat /\ h(b) * d(w) \in Nat /\ h(a) * d(v) <= h(b) * d(w)
  BY <1>2, <1>3, ProductNat, ProductMonotone
<1>6. /\ (h(a) * d(v)) * r(a) \in Nat /\ (h(b) * d(w)) * r(b) \in Nat
      /\ (h(a) * d(v)) * r(a) <= (h(b) * d(w)) * r(b)
  BY <1>2, <1>5, ProductNat, ProductMonotone
<1> QED
  BY <1>4, <1>6 DEF NonNegative

LEMMA ThresholdFacts ==
  ASSUME NEW p, DecayOK(p), NEW w \in Nat, ScheduleAnswers(p, w)
  PROVE  LET S == Threshold(p.schedule, w - p.decayStart) IN
           /\ w - p.decayStart \in Nat
           /\ LatestOf(S) \in DOMAIN p.schedule
           /\ LatestOf(S) <= w - p.decayStart
           /\ \A s \in S : s <= LatestOf(S)
           /\ p.schedule[LatestOf(S)] \in Nat /\ p.schedule[LatestOf(S)] > 0
           /\ EnemySkipDecayDelta(p, w) = 0 - p.schedule[LatestOf(S)]
<1> DEFINE S == Threshold(p.schedule, w - p.decayStart)
<1>1. w - p.decayStart \in Nat /\ S # {} /\ p.schedule[LatestOf(S)] > 0
  BY DEF ScheduleAnswers, DecayOK
<1>2. /\ S \in SUBSET Nat /\ S \subseteq DOMAIN p.schedule
      /\ \A s \in S : s <= w - p.decayStart
  BY DEF DecayOK, Threshold
<1>3. EnemySkipDecayDelta(p, w) = 0 - p.schedule[LatestOf(S)]
  BY DEF EnemySkipDecayDelta
<1> HIDE DEF S
<1>4. LatestOf(S) \in S /\ \A s \in S : s <= LatestOf(S)
  BY <1>1, <1>2, LatestOfType
<1>5. p.schedule[LatestOf(S)] \in Nat
  BY <1>2, <1>4 DEF DecayOK
<1> QED
  BY <1>1, <1>2, <1>3, <1>4, <1>5 DEF S

(* The skip decay of a later wave is at least as deep.                     *)
LEMMA DecayMonotone ==
  ASSUME NEW p, DecayOK(p), DecayShape(p), NEW v \in Nat, NEW w \in Nat, v <= w
  PROVE  EnemySkipDecayDelta(p, w) <= EnemySkipDecayDelta(p, v)
<1> DEFINE V == Threshold(p.schedule, v - p.decayStart)
           W == Threshold(p.schedule, w - p.decayStart)
<1>1. /\ EnemySkipDecayDelta(p, v) \in Int /\ EnemySkipDecayDelta(p, v) <= 0
      /\ EnemySkipDecayDelta(p, w) \in Int /\ EnemySkipDecayDelta(p, w) <= 0
  BY DecayType
<1>2. CASE ScheduleAnswers(p, v)
  <2>1. /\ LatestOf(V) \in DOMAIN p.schedule /\ LatestOf(V) <= v - p.decayStart
        /\ p.schedule[LatestOf(V)] \in Nat /\ p.schedule[LatestOf(V)] > 0
        /\ EnemySkipDecayDelta(p, v) = 0 - p.schedule[LatestOf(V)]
    BY <1>2, ThresholdFacts
  <2>2. LatestOf(V) \in Nat /\ p.decayStart \in Nat /\ p.decayStart <= v
        /\ p.decayStart > 0
    BY <1>2, <2>1 DEF DecayOK, ScheduleAnswers
  <2>3. LatestOf(V) \in W
    BY <2>1, <2>2 DEF Threshold
  <2>4. /\ W \in SUBSET Nat /\ W \subseteq DOMAIN p.schedule /\ W # {}
        /\ \A s \in W : s <= w - p.decayStart
    BY <2>3 DEF DecayOK, Threshold
  <2>5. w - p.decayStart \in Nat
    BY <2>2
  <2> HIDE DEF V, W
  <2>6. LatestOf(W) \in W /\ LatestOf(V) <= LatestOf(W)
    BY <2>3, <2>4, <2>5, LatestOfType
  <2>7. /\ p.schedule[LatestOf(W)] \in Nat
        /\ p.schedule[LatestOf(V)] <= p.schedule[LatestOf(W)]
    BY <2>1, <2>4, <2>6 DEF DecayOK, DecayShape
  <2>8. ScheduleAnswers(p, w)
    BY <2>1, <2>2, <2>4, <2>7 DEF ScheduleAnswers, W
  <2>9. EnemySkipDecayDelta(p, w) = 0 - p.schedule[LatestOf(W)]
    BY <2>8, ThresholdFacts DEF W
  <2> QED
    BY <2>1, <2>7, <2>9
<1>3. CASE ~ ScheduleAnswers(p, v) /\ StepwiseAnswers(p, v)
  <2>1. p.decayStart > 0 /\ p.decayInterval > 0 /\ p.decayFraction > 0 /\ v >= p.decayStart
    BY <1>3 DEF StepwiseAnswers
  <2>2. DOMAIN p.schedule = {}
    BY <2>1 DEF DecayShape, DecayOK
  <2>3. ~ ScheduleAnswers(p, w) /\ StepwiseAnswers(p, w)
    BY <2>1, <2>2 DEF ScheduleAnswers, StepwiseAnswers, Threshold, DecayOK
  <2> DEFINE m == (v - p.decayStart) \div p.decayInterval
             n == (w - p.decayStart) \div p.decayInterval
  <2>4. /\ v - p.decayStart \in Nat /\ w - p.decayStart \in Nat
        /\ v - p.decayStart <= w - p.decayStart
        /\ p.decayInterval \in Nat \ {0} /\ p.decayFraction \in Nat
    BY <2>1 DEF DecayOK
  <2>5. m \in Nat /\ n \in Nat /\ m <= n
    BY <2>4, DivMod, QuotientMonotone
  <2>6. /\ EnemySkipDecayDelta(p, v) = 0 - p.decayFraction * m
        /\ EnemySkipDecayDelta(p, w) = 0 - p.decayFraction * n
    BY <1>3, <2>3 DEF EnemySkipDecayDelta
  <2> HIDE DEF m, n
  <2>7. p.decayFraction * m <= p.decayFraction * n
    BY <2>4, <2>5, ProductMonotone
  <2>8. p.decayFraction * m \in Nat /\ p.decayFraction * n \in Nat
    BY <2>4, <2>5, ProductNat
  <2> QED
    BY <2>6, <2>7, <2>8
<1>4. CASE ~ ScheduleAnswers(p, v) /\ ~ StepwiseAnswers(p, v)
  <2>1. EnemySkipDecayDelta(p, v) = 0
    BY <1>4 DEF EnemySkipDecayDelta
  <2> QED
    BY <1>1, <2>1
<1> QED
  BY <1>2, <1>3, <1>4

LEMMA FallbackMonotone ==
  ASSUME NEW p, PlanOK(p), DecayShape(p), NEW v \in Nat, NEW w \in Nat, v <= w,
         NEW l \in Lane
  PROVE  /\ FallbackChance(p, l, v) \in Int /\ FallbackChance(p, l, w) \in Int
         /\ FallbackChance(p, l, w) <= FallbackChance(p, l, v)
<1> DEFINE base == BoundedFraction(p.skipFallback[l]) + p.skipDelta
           dv == EnemySkipDecayDelta(p, v)
           dw == EnemySkipDecayDelta(p, w)
<1>1. base \in Int
  <2>1. p.skipFallback[l] \in Int /\ p.skipDelta \in Int
    BY DEF PlanOK
  <2> QED
    BY <2>1, ClampTypes
<1>2. dv \in Int /\ dw \in Int /\ dw <= dv
  BY DecayType, DecayMonotone DEF PlanOK
<1>3. /\ FallbackChance(p, l, v) = BoundedFraction(base + dv)
      /\ FallbackChance(p, l, w) = BoundedFraction(base + dw)
  BY DEF FallbackChance
<1> HIDE DEF base, dv, dw
<1>4. base + dv \in Int /\ base + dw \in Int /\ base + dw <= base + dv
  BY <1>1, <1>2
<1>5. BoundedFraction(base + dv) \in Nat /\ BoundedFraction(base + dw) \in Nat
  BY <1>4, ClampTypes
<1>6. BoundedFraction(base + dw) <= BoundedFraction(base + dv)
  BY <1>4, UnitAssumption DEF BoundedFraction
<1> QED
  BY <1>3, <1>5, <1>6

-----------------------------------------------------------------------------
(* The invariant of the rows                                               *)
-----------------------------------------------------------------------------

LEMMA CompiledDecayShape ==
  ASSUME NEW s \in Scenarios
  PROVE  DecayShape(CompileRunPlan(s))
<1> DEFINE p == CompileRunPlan(s)
<1>1. /\ p.schedule = DecaySchedule(s)
      /\ p.decayStart = NonNegative(DecayStart(s))
      /\ p.decayFraction = BoundedFraction(s.decayFraction)
      /\ p.decayInterval = NonNegative(s.decayInterval)
  BY DEF CompileRunPlan
<1>2. s.decayFraction \in Int /\ s.decayInterval \in Int
  BY ScenariosAssumption DEF Compilable
<1> SUFFICES DecayShape(p)
  OBVIOUS
<1> HIDE DEF p
<1>3. CASE ~ UsesCurve(s)
  <2>1. DOMAIN p.schedule = {}
    BY <1>1, <1>3 DEF DecaySchedule, EmptySchedule
  <2> QED
    BY <2>1 DEF DecayShape
<1>4. CASE UsesTournamentCurve(s)
  <2>1. p.schedule = KBSchedule /\ p.decayStart = 0
    BY <1>1, <1>4 DEF DecaySchedule, UsesCurve, DecayStart, NonNegative
  <2>2. \A t, u \in DOMAIN p.schedule : t <= u => p.schedule[t] <= p.schedule[u]
    BY <2>1, GrowthAssumption, Zenon
  <2>3. ~ (p.decayStart > 0)
    BY <2>1
  <2> QED
    BY <2>2, <2>3, Zenon DEF DecayShape
<1>5. CASE UsesCurve(s) /\ ~ UsesTournamentCurve(s)
  <2>1. p.schedule = KBSchedule /\ ~ UsesStepwiseDecay(s)
    BY <1>1, <1>5 DEF DecaySchedule, UsesCurve
  <2>2. p.decayFraction = 0 \/ p.decayInterval = 0
    BY <1>1, <1>2, <2>1, UnitAssumption
       DEF UsesStepwiseDecay, BoundedFraction, NonNegative
  <2>3. \A t, u \in DOMAIN p.schedule : t <= u => p.schedule[t] <= p.schedule[u]
    BY <2>1, GrowthAssumption, Zenon
  <2> QED
    BY <2>2, <2>3, Zenon DEF DecayShape
<1> QED
  BY <1>3, <1>4, <1>5

LEMMA RowsInvInit == Init => RowsInv
<1> SUFFICES ASSUME Init PROVE RowsInv
  OBVIOUS
<1>1. DecayShape(plan)
  BY CompiledDecayShape DEF Init
<1>2. rows = << >> /\ rows \in Seq(RowType) /\ DOMAIN rows = {}
  BY DEF Init
<1>3. GapLinked /\ LastLinked
  BY <1>2 DEF Init, GapLinked, LastLinked
<1>4. WallHpNeverDrops /\ DecayNeverRecovers
  BY <1>2 DEF WallHpNeverDrops, DecayNeverRecovers
<1> QED
  BY <1>1, <1>2, <1>3, <1>4 DEF RowsInv

(* The next row is compared with the last one only: the earlier pairs are  *)
(* those of the table so far.                                              *)
LEMMA EmitLinked ==
  ASSUME TypeInv, RowsInv, EmitRow
  PROVE  rows' \in Seq(RowType) /\ LastLinked' /\ WallHpNeverDrops' /\ DecayNeverRecovers'
<1> DEFINE n == Len(rows)
<1>1. /\ wave \in Nat /\ previous \in Nat /\ previous <= wave /\ levels \in Levels
      /\ PlanOK(plan) /\ DecayShape(plan)
  BY DEF TypeInv, TypeOK, GridOK, EmitRow, RowsInv
<1>2. /\ rows' = Append(rows, Row) /\ previous' = wave /\ plan' = plan
      /\ levels' = levels /\ skip' = skip /\ pc = "row"
  BY DEF EmitRow
<1>3. /\ Row.wallHp = RederivedWallHp(plan, levels, wave)
      /\ Row.levels = levels /\ Row.skip = skip
  BY DEF Row
<1>4. Row \in RowType
  <2>1. \A t \in Track : levels[t] <= levels[t]
    BY <1>1, LevelNat
  <2>2. RederivedWallHp(plan, levels, wave) \in Nat
    BY <1>1, <2>1, WallHpMonotone
  <2> QED
    BY <1>1, <2>2 DEF Row, RowType, TypeInv, TypeOK
<1>5. /\ rows \in Seq(RowType) /\ n \in Nat
      /\ rows' \in Seq(RowType) /\ Len(rows') = n + 1 /\ rows'[n + 1] = Row
      /\ DOMAIN rows = 1 .. n /\ DOMAIN rows' = 1 .. n + 1
      /\ \A r \in 1 .. n : rows'[r] = rows[r]
  BY <1>2, <1>4 DEF RowsInv
<1> HIDE DEF n
<1>6. \A l \in Lane : plan.skipTrack[l] = NoTrack => skip[l] = FallbackChance(plan, l, wave)
  BY <1>2 DEF RowsInv, GapLinked
<1>7. LastLinked'
  <2>1. rows'[Len(rows')] = Row
    BY <1>5
  <2>2. \A t \in Track : levels[t] <= levels[t]
    BY <1>1, LevelNat
  <2>3. ASSUME NEW l \in Lane, NEW w
        PROVE  FallbackChance(plan, l, w)' = FallbackChance(plan, l, w')
    BY <1>2 DEF FallbackChance
  <2> QED
    BY <1>2, <1>3, <1>6, <2>1, <2>2, <2>3 DEF LastLinked
<1>8. ASSUME n >= 1
      PROVE  /\ rows[n].wallHp <= Row.wallHp
             /\ \A l \in Lane : plan.skipTrack[l] = NoTrack => Row.skip[l] <= rows[n].skip[l]
  <2>1. /\ rows[n].wallHp = RederivedWallHp(plan, rows[n].levels, previous)
        /\ \A t \in Track : rows[n].levels[t] <= levels[t]
        /\ \A l \in Lane : plan.skipTrack[l] = NoTrack =>
             rows[n].skip[l] = FallbackChance(plan, l, previous)
    BY <1>5, <1>8 DEF RowsInv, LastLinked, n
  <2>2. rows[n].levels \in Levels
    BY <1>5, <1>8, RowFields
  <2>3. rows[n].wallHp <= Row.wallHp
    BY <1>1, <1>3, <2>1, <2>2, WallHpMonotone
  <2>4. ASSUME NEW l \in Lane, plan.skipTrack[l] = NoTrack
        PROVE  Row.skip[l] <= rows[n].skip[l]
    BY <1>1, <1>3, <1>6, <2>1, <2>4, FallbackMonotone
  <2> QED
    BY <2>3, <2>4
<1>9. WallHpNeverDrops'
  <2> SUFFICES ASSUME NEW r \in DOMAIN rows', r > 1
               PROVE  rows'[r].wallHp >= rows'[r - 1].wallHp
    BY DEF WallHpNeverDrops
  <2>1. CASE r = n + 1
    BY <1>4, <1>5, <1>8, <2>1 DEF RowType
  <2>2. CASE r # n + 1
    <3>1. r \in DOMAIN rows /\ r - 1 \in DOMAIN rows
      BY <1>5, <2>2
    <3> QED
      BY <1>5, <3>1 DEF RowsInv, WallHpNeverDrops
  <2> QED
    BY <2>1, <2>2
<1>10. DecayNeverRecovers'
  <2> SUFFICES ASSUME NEW r \in DOMAIN rows', r > 1,
                      NEW l \in Lane, plan.skipTrack[l] = NoTrack
               PROVE  rows'[r].skip[l] <= rows'[r - 1].skip[l]
    BY <1>2 DEF DecayNeverRecovers
  <2>1. CASE r = n + 1
    BY <1>5, <1>8, <2>1
  <2>2. CASE r # n + 1
    <3>1. r \in DOMAIN rows /\ r - 1 \in DOMAIN rows
      BY <1>5, <2>2
    <3> QED
      BY <1>5, <3>1 DEF RowsInv, DecayNeverRecovers
  <2> QED
    BY <2>1, <2>2
<1> QED
  BY <1>5, <1>7, <1>9, <1>10

LEMMA RowsInvNext == TypeInv /\ RowsInv /\ [Next]_vars => RowsInv'
<1> SUFFICES ASSUME TypeInv, RowsInv, [Next]_vars PROVE RowsInv'
  OBVIOUS
<1>1. plan' = plan
  BY DEF Next, BeginRow, AdvanceWave, Generate, AllocateOne, LeaveOne, CloseCategory,
         EmitRow, FinishTable, Returned, vars
<1>2. GapLinked'
  <2>1. CASE BeginRow
    BY <2>1 DEF BeginRow, GapLinked, RowSkipChance, FallbackChance
  <2>2. CASE ~ BeginRow
    <3>1. CASE pc' \in {"advance", "allocate", "row"}
      <4>1. skip' = skip /\ wave' = wave /\ pc \in {"advance", "allocate", "row"}
        BY <2>2, <3>1 DEF Next, AdvanceWave, Generate, AllocateOne, LeaveOne,
               CloseCategory, EmitRow, FinishTable, Returned, vars, TypeInv, TypeOK
      <4> QED
        BY <1>1, <4>1 DEF RowsInv, GapLinked, FallbackChance
    <3> QED
      BY <3>1 DEF GapLinked
  <2> QED
    BY <2>1, <2>2
<1>3. CASE EmitRow
  BY <1>1, <1>2, <1>3, EmitLinked DEF RowsInv
<1>4. CASE ~ EmitRow
  <2>1. rows' = rows /\ previous' = previous
    BY <1>4 DEF Next, BeginRow, AdvanceWave, Generate, AllocateOne, LeaveOne,
                CloseCategory, FinishTable, Returned, vars
  <2>2. LastLinked'
    <3> SUFFICES ASSUME rows # << >>
                 PROVE  \A t \in Track : rows[Len(rows)].levels[t] <= levels'[t]
      BY <1>1, <2>1 DEF RowsInv, LastLinked, FallbackChance
    <3>1. rows[Len(rows)].levels \in Levels
      <4>1. rows \in Seq(RowType) /\ Len(rows) \in DOMAIN rows
        BY DEF RowsInv
      <4> QED
        BY <4>1, RowFields
    <3> TAKE t \in Track
    <3>2. rows[Len(rows)].levels[t] \in Nat /\ rows[Len(rows)].levels[t] <= levels[t]
      BY <3>1, LevelNat DEF RowsInv, LastLinked
    <3>3. levels[t] \in Nat /\ levels'[t] \in Nat /\ levels'[t] >= levels[t]
      BY LevelsGrow
    <3> QED
      BY <3>2, <3>3
  <2> QED
    BY <1>1, <1>2, <2>1, <2>2
       DEF RowsInv, WallHpNeverDrops, DecayNeverRecovers
<1> QED
  BY <1>3, <1>4

LEMMA RowsInvAlways == Spec => []RowsInv
BY TypeInvAlways, RowsInvInit, RowsInvNext, PTL DEF Spec

(* Wall HP rederived from the evolved levels and Death Wave never drops    *)
(* from a row to the next (rederive_for_workshop_levels).                  *)
THEOREM WallHpMonotoneAlongRun == Spec => []WallHpNeverDrops
<1>1. RowsInv => WallHpNeverDrops
  BY DEF RowsInv
<1> QED
  BY <1>1, RowsInvAlways, PTL

(* The chance of a lane without a workshop track never rises along the run *)
(* (_enemy_skip_decay_delta_for_wave).                                     *)
THEOREM DecayMonotoneAlongRun == Spec => []DecayNeverRecovers
<1>1. RowsInv => DecayNeverRecovers
  BY DEF RowsInv
<1> QED
  BY <1>1, RowsInvAlways, PTL

\* From a row of Table 1 to the next, wall HP does not drop and a decay without
\* a workshop track does not recover.
THEOREM RowsGoOneWayAlongRun == Spec => []RowsGoOneWay
BY WallHpMonotoneAlongRun, DecayMonotoneAlongRun, PTL DEF RowsGoOneWay

-----------------------------------------------------------------------------
(* Levels, totals and rows                                                 *)
(*                                                                         *)
(* Three records of the same upgrades.  The levels gained in a category    *)
(* are a sum over its tracks, of which an allocation changes one term; the *)
(* upgrades left over are a sum over the rows, to which a row adds one.    *)
-----------------------------------------------------------------------------

LEMMA OrderFacts ==
  ASSUME PlanOK(plan), NEW c \in Category
  PROVE  /\ DOMAIN Order(c) = 1 .. Len(Order(c)) /\ Len(Order(c)) \in Nat
         /\ IsFiniteSet(DOMAIN Order(c))
         /\ \A p \in DOMAIN Order(c) : Order(c)[p] \in Track
<1>1. Order(c) \in Seq(Track)
  BY DEF Order, PlanOK
<1>2. DOMAIN Order(c) = 1 .. Len(Order(c)) /\ Len(Order(c)) \in Nat
  BY <1>1
<1>3. IsFiniteSet(DOMAIN Order(c))
  BY <1>2, FS_Interval
<1> QED
  BY <1>1, <1>2, <1>3

LEMMA GainsInt ==
  ASSUME PlanOK(plan), NEW lv \in Levels, NEW c \in Category
  PROVE  \A p \in DOMAIN Order(c) :
           /\ Gains(c, lv)[p] \in Int
           /\ Gains(c, lv)[p] = lv[Order(c)[p]] - plan.levels[Order(c)[p]]
<1> TAKE p \in DOMAIN Order(c)
<1>1. Order(c)[p] \in Track
  BY OrderFacts
<1>2. lv[Order(c)[p]] \in Nat /\ plan.levels[Order(c)[p]] \in Nat
  BY <1>1, RangesNat DEF PlanOK, Levels
<1>3. Gains(c, lv)[p] = lv[Order(c)[p]] - plan.levels[Order(c)[p]]
  BY DEF Gains
<1> QED
  BY <1>2, <1>3

LEMMA GainedSum ==
  /\ \A c : Gained(c) = SumFunctionOnSet(Gains(c, levels), DOMAIN Order(c))
  /\ plan' = plan =>
       \A c : Gained(c)' = SumFunctionOnSet(Gains(c, levels'), DOMAIN Order(c))
BY DEF Gained, Gains, SumFunction, Order

(* An allocation adds one to the gain of the position the rotation points  *)
(* at, and leaves every other position of every category as it is.         *)
LEMMA OneGain ==
  ASSUME TypeInv, AllocateOne
  PROVE  \E p \in DOMAIN Order(cat) :
           /\ cat \in Category /\ levels' \in Levels
           /\ p \in cands /\ Rank(p, cands) = nextIndex[cat] % Cardinality(cands)
           /\ Gains(cat, levels')[p] = Gains(cat, levels)[p] + 1
           /\ \A q \in DOMAIN Order(cat) \ {p} :
                Gains(cat, levels')[q] = Gains(cat, levels)[q]
           /\ \A c \in Category \ {cat} : \A q \in DOMAIN Order(c) :
                Gains(c, levels')[q] = Gains(c, levels)[q]
<1> USE DEF TypeInv
<1>1. PICK p \in cands :
        /\ Rank(p, cands) = nextIndex[cat] % Cardinality(cands)
        /\ levels' = [levels EXCEPT ![Order(cat)[p]] = @ + 1]
  BY DEF AllocateOne, Turn
<1> DEFINE t == Order(cat)[p]
<1>2. cat \in Category /\ levels \in Levels /\ levels' \in Levels
  BY AllocateTypes DEF TypeOK
<1>3. p \in DOMAIN Order(cat)
  <2>1. cands = Candidates(cat, levels)
    BY DEF AllocateOne, CandidatesCurrent
  <2> QED
    BY <2>1 DEF Candidates
<1>4. t \in Track
  BY <1>2, <1>3, OrderFacts
<1>5. \A c \in Category : \A q \in DOMAIN Order(c) :
        Order(c)[q] \in Track /\ (Order(c)[q] = t => c = cat /\ q = p)
  BY <1>2, <1>3, OrderFacts DEF PlanOK, DistinctTracks, Order
<1>6. levels[t] \in Nat /\ plan.levels[t] \in Nat
  BY <1>2, <1>4, RangesNat DEF Levels, PlanOK
<1>7. levels'[t] = levels[t] + 1 /\ \A u \in Track \ {t} : levels'[u] = levels[u]
  BY <1>1, <1>2, <1>4 DEF Levels
<1>8. \A c \in Category : \A q \in DOMAIN Order(c) :
        /\ Gains(c, levels')[q] = levels'[Order(c)[q]] - plan.levels[Order(c)[q]]
        /\ Gains(c, levels)[q] = levels[Order(c)[q]] - plan.levels[Order(c)[q]]
  BY <1>2, GainsInt
<1>9. Gains(cat, levels')[p] = Gains(cat, levels)[p] + 1
  BY <1>2, <1>3, <1>6, <1>7, <1>8
<1>10. \A c \in Category : \A q \in DOMAIN Order(c) :
         ~ (c = cat /\ q = p) => Gains(c, levels')[q] = Gains(c, levels)[q]
  BY <1>5, <1>7, <1>8
<1> QED
  BY <1>1, <1>2, <1>3, <1>9, <1>10

LEMMA LevelAccountingStep ==
  ASSUME TypeInv, LevelAccounting, AllocateOne
  PROVE  LevelAccounting'
<1> USE DEF TypeInv
<1>1. PICK p \in DOMAIN Order(cat) :
        /\ cat \in Category /\ levels' \in Levels
        /\ Gains(cat, levels')[p] = Gains(cat, levels)[p] + 1
        /\ \A q \in DOMAIN Order(cat) \ {p} :
             Gains(cat, levels')[q] = Gains(cat, levels)[q]
        /\ \A c \in Category \ {cat} : \A q \in DOMAIN Order(c) :
             Gains(c, levels')[q] = Gains(c, levels)[q]
  BY OneGain
<1>2. levels \in Levels /\ alloc \in [Category -> Nat] /\ allocTotal \in [Category -> Nat]
  BY DEF TypeOK
<1>3. /\ plan' = plan /\ pc = "allocate" /\ pc' = "allocate" /\ allocTotal' = allocTotal
      /\ alloc' = [alloc EXCEPT ![cat] = @ + 1]
  BY DEF AllocateOne
<1> SUFFICES ASSUME NEW c \in Category
             PROVE  Gained(c)' = allocTotal[c] + alloc'[c]
  BY <1>3 DEF LevelAccounting
<1>4. Gained(c) = allocTotal[c] + alloc[c]
  BY <1>3 DEF LevelAccounting
<1>5. /\ Gained(c) = SumFunctionOnSet(Gains(c, levels), DOMAIN Order(c))
      /\ Gained(c)' = SumFunctionOnSet(Gains(c, levels'), DOMAIN Order(c))
  BY <1>3, GainedSum
<1>6. IsFiniteSet(DOMAIN Order(c))
  BY OrderFacts
<1>7. \A q \in DOMAIN Order(c) :
        Gains(c, levels)[q] \in Int /\ Gains(c, levels')[q] \in Int
  BY <1>1, <1>2, GainsInt
<1> DEFINE f == Gains(c, levels)
           g == Gains(c, levels')
           D == DOMAIN Order(c)
<1>8. CASE c = cat
  <2>1. p \in D /\ g[p] = f[p] + 1 /\ \A q \in D \ {p} : g[q] = f[q]
    BY <1>1, <1>8
  <2>2. f[p] \in Int /\ SumFunctionOnSet(f, D) \in Nat
    BY <1>2, <1>4, <1>5, <1>7, <2>1
  <2> HIDE DEF f, g, D
  <2>3. SumFunctionOnSet(g, D) = SumFunctionOnSet(f, D) + (g[p] - f[p])
    BY <1>6, <1>7, <2>1, SumChangeOne DEF f, g, D
  <2>4. SumFunctionOnSet(g, D) = SumFunctionOnSet(f, D) + 1
    BY <2>1, <2>2, <2>3
  <2>5. alloc'[c] = alloc[c] + 1
    BY <1>2, <1>3, <1>8
  <2> QED
    BY <1>2, <1>4, <1>5, <2>4, <2>5 DEF f, g, D
<1>9. CASE c # cat
  <2>1. \A q \in D : g[q] = f[q]
    BY <1>1, <1>9
  <2>2. SumFunctionOnSet(g, D) = SumFunctionOnSet(f, D)
    <3> HIDE DEF f, g, D
    <3> QED
      BY <1>6, <2>1, SumAgree DEF D
  <2>3. alloc'[c] = alloc[c]
    BY <1>2, <1>3, <1>9
  <2> QED
    BY <1>4, <1>5, <2>2, <2>3
<1> QED
  BY <1>8, <1>9

(* The levels gained in a category are the upgrades allocated to it, also  *)
(* while the totals wait for the last category (allocate_free_upgrades).   *)
THEOREM LevelsAccounted == Spec => []LevelAccounting
<1>1. Init => LevelAccounting
  <2> SUFFICES ASSUME Init, NEW c \in Category PROVE Gained(c) = 0
    BY DEF Init, LevelAccounting
  <2>1. PlanOK(plan) /\ levels \in Levels /\ levels = plan.levels
    BY TypeInvInit DEF Init, TypeInv, TypeOK
  <2> DEFINE f == Gains(c, levels)
             D == DOMAIN Order(c)
             zero == [p \in D |-> 0]
  <2>2. \A p \in D : f[p] = 0
    <3> TAKE p \in D
    <3>1. f[p] = levels[Order(c)[p]] - levels[Order(c)[p]] /\ Order(c)[p] \in Track
      BY <2>1, GainsInt, OrderFacts
    <3>2. levels[Order(c)[p]] \in Nat
      BY <2>1, <3>1, RangesNat DEF Levels
    <3> QED
      BY <3>1, <3>2
  <2>3. IsFiniteSet(D)
    BY <2>1, OrderFacts
  <2>4. Gained(c) = SumFunctionOnSet(f, D)
    BY GainedSum
  <2> HIDE DEF f, D
  <2> QED
    BY <2>2, <2>3, <2>4, SumZero
<1>2. TypeInv /\ StepConserved /\ LevelAccounting /\ [Next]_vars => LevelAccounting'
  <2> SUFFICES ASSUME TypeInv, LevelAccounting, [Next]_vars PROVE LevelAccounting'
    OBVIOUS
  <2>1. CASE AllocateOne
    BY <2>1, LevelAccountingStep
  <2>2. CASE ~ AllocateOne
    <3>1. plan' = plan /\ levels' = levels
      BY <2>2 DEF Next, BeginRow, AdvanceWave, Generate, LeaveOne, CloseCategory,
                  EmitRow, FinishTable, Returned, vars
    <3>2. \A c \in Category : Gained(c)' = Gained(c)
      BY <3>1, GainedSum
    <3>3. /\ allocTotal \in [Category -> Nat] /\ alloc \in [Category -> Nat]
      BY DEF TypeInv, TypeOK
    <3>4. CASE Generate
      BY <3>2, <3>3, <3>4 DEF Generate, LevelAccounting
    <3>5. CASE CloseCategory
      <4>1. pc = "allocate" /\ alloc' = alloc
        BY <3>5 DEF CloseCategory
      <4>2. CASE cat < NCategory
        BY <3>2, <3>5, <4>1, <4>2 DEF CloseCategory, LevelAccounting
      <4>3. CASE ~ (cat < NCategory)
        <5>1. pc' = "row" /\ \A c \in Category : allocTotal'[c] = allocTotal[c] + alloc[c]
          BY <3>5, <4>3 DEF CloseCategory, AllocatedSoFar
        <5> QED
          BY <3>2, <3>3, <4>1, <5>1 DEF LevelAccounting
      <4> QED
        BY <4>2, <4>3
    <3>6. CASE ~ Generate /\ ~ CloseCategory
      <4>1. /\ allocTotal' = allocTotal /\ alloc' = alloc
            /\ pc' = "allocate" <=> pc = "allocate"
        BY <2>2, <3>6 DEF Next, BeginRow, AdvanceWave, LeaveOne,
                  EmitRow, FinishTable, Returned, vars, recurrence, allocation
      <4> QED
        BY <3>2, <4>1 DEF LevelAccounting
    <3> QED
      BY <3>4, <3>5, <3>6
  <2> QED
    BY <2>1, <2>2
<1> QED
  BY <1>1, <1>2, TypeInvAlways, StepsConserve, PTL DEF Spec

(* What the rows of a table report as left over in a category.             *)
LeftOver(table, c) == [r \in DOMAIN table |-> table[r].unalloc[c]]

(* Upgrades of the row under construction no total or row accounts for yet. *)
Open(c) ==
  IF pc = "allocate" THEN gen[c] ELSE IF pc = "row" THEN unalloc[c] ELSE 0

(* The totals differ by what the rows report and what is still open.       *)
TableInv ==
  \A c \in Category :
    genTotal[c] = allocTotal[c] + SumFunction(LeftOver(rows, c)) + Open(c)

LEMMA LeftOverFacts ==
  ASSUME NEW table \in Seq(RowType), NEW c \in Category
  PROVE  /\ SumFunction(LeftOver(table, c)) = SumFunctionOnSet(LeftOver(table, c), DOMAIN table)
         /\ IsFiniteSet(DOMAIN table)
         /\ \A r \in DOMAIN table :
              LeftOver(table, c)[r] = table[r].unalloc[c] /\ LeftOver(table, c)[r] \in Nat
         /\ SumFunction(LeftOver(table, c)) \in Nat
<1>1. SumFunction(LeftOver(table, c)) = SumFunctionOnSet(LeftOver(table, c), DOMAIN table)
  BY DEF SumFunction, LeftOver
<1>2. IsFiniteSet(DOMAIN table)
  <2>1. DOMAIN table = 1 .. Len(table) /\ Len(table) \in Nat
    OBVIOUS
  <2> QED
    BY <2>1, FS_Interval
<1>3. ASSUME NEW r \in DOMAIN table
      PROVE  LeftOver(table, c)[r] = table[r].unalloc[c] /\ LeftOver(table, c)[r] \in Nat
  <2>1. table[r] \in RowType
    OBVIOUS
  <2>2. table[r].unalloc \in [Category -> Nat]
    BY <2>1 DEF RowType
  <2>3. table[r].unalloc[c] \in Nat
    BY <2>2
  <2> QED
    BY <2>3 DEF LeftOver
<1> QED
  BY <1>1, <1>2, <1>3, SumNat

LEMMA TableEmit ==
  ASSUME TypeInv, RowsInv, TableInv, EmitRow
  PROVE  TableInv'
<1>1. rows \in Seq(RowType) /\ rows' \in Seq(RowType)
  BY EmitLinked DEF RowsInv
<1>2. /\ rows' = Append(rows, Row) /\ pc = "row" /\ pc' = "checkpoint"
      /\ genTotal' = genTotal /\ allocTotal' = allocTotal
  BY DEF EmitRow, recurrence
<1>3. Row.unalloc = unalloc /\ unalloc \in [Category -> Nat]
  BY DEF Row, TypeInv, TypeOK
<1> SUFFICES ASSUME NEW c \in Category
             PROVE  genTotal[c] = allocTotal[c] + SumFunction(LeftOver(rows', c))
  <2>1. \A c \in Category : genTotal'[c] = genTotal[c] /\ allocTotal'[c] = allocTotal[c]
    BY <1>2
  <2>2. allocTotal \in [Category -> Nat]
    BY DEF TypeInv, TypeOK
  <2>3. \A c \in Category : SumFunction(LeftOver(rows', c)) \in Nat
    BY <1>1, LeftOverFacts
  <2>4. ~ (pc' = "allocate") /\ ~ (pc' = "row")
    BY <1>2
  <2>5. \A c \in Category : Open(c)' = 0
    BY <2>4 DEF Open
  <2>6. \A c \in Category : LeftOver(rows, c)' = LeftOver(rows', c)
    BY DEF LeftOver
  <2> QED
    BY <2>1, <2>2, <2>3, <2>5, <2>6 DEF TableInv
<1> DEFINE n == Len(rows)
           f == LeftOver(rows, c)
           g == LeftOver(rows', c)
<1>4. /\ n \in Nat /\ DOMAIN rows = 1 .. n /\ DOMAIN rows' = 1 .. n + 1
      /\ rows'[n + 1] = Row /\ \A r \in 1 .. n : rows'[r] = rows[r]
  BY <1>1, <1>2
<1>5. SumFunction(g) = SumFunctionOnSet(g, 1 .. n + 1)
  BY <1>1, <1>4, LeftOverFacts
<1>6. /\ SumFunction(f) = SumFunctionOnSet(f, 1 .. n) /\ IsFiniteSet(1 .. n)
      /\ SumFunction(f) \in Nat
      /\ \A r \in 1 .. n : f[r] = rows[r].unalloc[c] /\ f[r] \in Int
  BY <1>1, <1>4, LeftOverFacts
<1>7. g[n + 1] = unalloc[c] /\ unalloc[c] \in Nat /\ g[n + 1] \in Int
  BY <1>3, <1>4 DEF LeftOver
<1>8. \A r \in 1 .. n : f[r] \in Int /\ g[r] = f[r]
  BY <1>4, <1>6 DEF LeftOver
<1>9. n + 1 \notin 1 .. n /\ 1 .. n + 1 = (1 .. n) \cup {n + 1}
  BY <1>4
<1> HIDE DEF f, g, n
<1>10. SumFunctionOnSet(g, (1 .. n) \cup {n + 1}) = SumFunctionOnSet(f, 1 .. n) + g[n + 1]
  <2> DEFINE D == 1 .. n
             k == n + 1
  <2>1. IsFiniteSet(D) /\ k \notin D /\ g[k] \in Int
    BY <1>6, <1>7, <1>9
  <2>2. \A x \in D : f[x] \in Int /\ g[x] = f[x]
    BY <1>8
  <2> SUFFICES SumFunctionOnSet(g, D \cup {k}) = SumFunctionOnSet(f, D) + g[k]
    OBVIOUS
  <2> HIDE DEF D, k
  <2> QED
    BY <2>1, <2>2, SumAdd
<1>11. genTotal[c] = allocTotal[c] + SumFunction(f) + unalloc[c]
  BY <1>2 DEF TableInv, Open, f
<1>12. allocTotal[c] \in Nat
  BY DEF TypeInv, TypeOK
<1>13. SumFunction(g) = SumFunction(f) + unalloc[c]
  BY <1>5, <1>6, <1>7, <1>9, <1>10
<1>14. genTotal[c] = allocTotal[c] + SumFunction(g)
  BY <1>6, <1>7, <1>11, <1>12, <1>13
<1> QED
  BY <1>14 DEF g

LEMMA TableInvNext ==
  ASSUME TypeInv, RowsInv, StepConserved, TableInv, [Next]_vars
  PROVE  TableInv'
<1>1. CASE EmitRow
  BY <1>1, TableEmit
<1>2. CASE ~ EmitRow
  <2>1. rows' = rows
    BY <1>2 DEF Next, BeginRow, AdvanceWave, Generate, AllocateOne, LeaveOne,
                CloseCategory, FinishTable, Returned, vars
  <2>2. \A c \in Category : LeftOver(rows, c)' = LeftOver(rows, c)
    BY <2>1 DEF LeftOver
  <2>3. \A c \in Category : SumFunction(LeftOver(rows, c))' = SumFunction(LeftOver(rows, c))
    BY <2>2
  <2>4. /\ genTotal \in [Category -> Nat] /\ allocTotal \in [Category -> Nat]
        /\ gen \in [Category -> Nat] /\ alloc \in [Category -> Nat]
        /\ unalloc \in [Category -> Nat]
        /\ \A c \in Category : SumFunction(LeftOver(rows, c)) \in Nat
    BY LeftOverFacts DEF TypeInv, TypeOK, RowsInv
  <2>5. \A c \in Category :
          genTotal[c] = allocTotal[c] + SumFunction(LeftOver(rows, c)) + Open(c)
    BY DEF TableInv
  <2> SUFFICES ASSUME NEW c \in Category
               PROVE  genTotal'[c] = allocTotal'[c] + SumFunction(LeftOver(rows, c)) + Open(c)'
    BY <2>3 DEF TableInv
  <2>6. CASE Generate
    <3>1. /\ pc = "advance" /\ pc' = "allocate" /\ allocTotal' = allocTotal
          /\ genTotal'[c] = genTotal[c] + gen'[c]
      BY <2>6 DEF Generate
    <3>2. gen'[c] \in Nat
      BY TypeInvNext DEF TypeInv, TypeOK
    <3>3. Open(c) = 0 /\ Open(c)' = gen'[c]
      BY <3>1 DEF Open
    <3> QED
      BY <2>4, <2>5, <3>1, <3>2, <3>3
  <2>7. CASE CloseCategory /\ ~ (cat < NCategory)
    <3>1. /\ pc = "allocate" /\ pc' = "row" /\ genTotal' = genTotal /\ left = 0
          /\ unalloc' = unalloc /\ allocTotal'[c] = allocTotal[c] + alloc[c]
      BY <2>7 DEF CloseCategory, AllocatedSoFar
    <3>2. c \in Nat /\ cat \in Nat /\ c <= cat
      BY <2>7, CategoryAssumption DEF TypeInv, TypeOK, Category
    <3>3. Pending(c) = 0
      BY <3>1, <3>2 DEF Pending
    <3>4. gen[c] = alloc[c] + unalloc[c]
      BY <2>4, <3>1, <3>3 DEF StepConserved
    <3>5. Open(c) = gen[c] /\ Open(c)' = unalloc[c]
      BY <3>1 DEF Open
    <3> QED
      BY <2>4, <2>5, <3>1, <3>4, <3>5
  <2>8. CASE ~ Generate /\ ~ (CloseCategory /\ ~ (cat < NCategory))
    <3>1. /\ genTotal' = genTotal /\ allocTotal' = allocTotal
          /\ pc' = "allocate" <=> pc = "allocate"
          /\ pc' = "row" <=> pc = "row"
          /\ gen' = gen
          /\ pc = "row" => unalloc' = unalloc
      BY <1>2, <2>8 DEF Next, BeginRow, AdvanceWave, AllocateOne, LeaveOne,
           CloseCategory, FinishTable, Returned, vars, recurrence, allocation
    <3>2. Open(c)' = Open(c)
      BY <3>1 DEF Open
    <3> QED
      BY <2>5, <3>1, <3>2
  <2> QED
    BY <2>6, <2>7, <2>8
<1> QED
  BY <1>1, <1>2

(* What was generated and not allocated is what the rows report as         *)
(* unallocated (build_common_trajectory).                                  *)
THEOREM TableConserves == Spec => []TableConserved
<1>1. Init => TableInv
  <2> SUFFICES ASSUME Init, NEW c \in Category
               PROVE  genTotal[c] = allocTotal[c] + SumFunction(LeftOver(rows, c)) + Open(c)
    BY DEF TableInv
  <2>1. genTotal[c] = 0 /\ allocTotal[c] = 0 /\ Open(c) = 0 /\ DOMAIN rows = {}
    BY DEF Init, Open
  <2>2. SumFunction(LeftOver(rows, c)) = SumFunctionOnSet(LeftOver(rows, c), {})
    BY <2>1 DEF SumFunction, LeftOver
  <2> QED
    BY <2>1, <2>2, SumEmpty
<1>2. TypeInv /\ RowsInv /\ StepConserved /\ TableInv /\ [Next]_vars => TableInv'
  BY TableInvNext
<1>3. TypeInv /\ RowsInv /\ TableInv => TableConserved
  <2> SUFFICES ASSUME TypeInv, RowsInv, TableInv, pc \in {"checkpoint", "done"},
                      NEW c \in Category
               PROVE  genTotal[c] - allocTotal[c] = SumFunction(LeftOver(rows, c))
    BY DEF TableConserved, LeftOver
  <2>1. allocTotal[c] \in Nat /\ SumFunction(LeftOver(rows, c)) \in Nat /\ Open(c) = 0
    BY LeftOverFacts DEF TypeInv, TypeOK, RowsInv, Open
  <2>2. genTotal[c] = allocTotal[c] + SumFunction(LeftOver(rows, c)) + Open(c)
    BY DEF TableInv
  <2> QED
    BY <2>1, <2>2
<1> QED
  BY <1>1, <1>2, <1>3, TypeInvAlways, RowsInvAlways, StepsConserve, PTL DEF Spec

(* Levels, totals and rows agree whenever they are read, for every plan:   *)
(* no upgrade is lost or counted twice between the three records of it     *)
(* (build_common_trajectory).                                              *)
THEOREM UpgradesAreConserved == Spec => []UpgradesConserved
BY LevelsAccounted, TableConserves, PTL DEF UpgradesConserved

-----------------------------------------------------------------------------
(* The rotation                                                            *)
(*                                                                         *)
(* While no track of a category is maxed its candidates are all of its     *)
(* tracks, so the rotation points at the position after those that are one *)
(* level ahead of the others.                                              *)
-----------------------------------------------------------------------------

AllOpen(c) == \A p \in DOMAIN Order(c) : levels[Order(c)[p]] < MaxLevel(Order(c)[p])

(* The positions the current round of the rotation has served already.     *)
Ahead(c, p) == IF p <= nextIndex[c] % Len(Order(c)) THEN 1 ELSE 0

RotationInv ==
  \A c \in Category : AllOpen(c) =>
    \A p, q \in DOMAIN Order(c) :
      Gains(c, levels)[p] - Ahead(c, p) = Gains(c, levels)[q] - Ahead(c, q)

(* The rank of a position among all of them.                               *)
LEMMA RankOfAll ==
  ASSUME NEW n \in Nat, NEW p \in 1 .. n
  PROVE  Rank(p, 1 .. n) = p - 1 /\ Cardinality(1 .. n) = n
<1>1. { q \in 1 .. n : q < p } = 1 .. p - 1
  OBVIOUS
<1>2. Cardinality(1 .. p - 1) = p - 1 /\ Cardinality(1 .. n) = n
  BY FS_Interval
<1> QED
  BY <1>1, <1>2 DEF Rank

LEMMA AllWereOpen ==
  ASSUME TypeInv, [Next]_vars, NEW c \in Category, AllOpen(c)'
  PROVE  AllOpen(c)
<1> SUFFICES ASSUME NEW p \in DOMAIN Order(c)
             PROVE  levels[Order(c)[p]] < MaxLevel(Order(c)[p])
  BY DEF AllOpen
<1> DEFINE t == Order(c)[p]
<1>1. t \in Track
  BY OrderFacts DEF TypeInv
<1>2. levels[t] \in Nat /\ levels'[t] \in Nat /\ levels[t] <= levels'[t] /\ plan' = plan
  BY <1>1, LevelsGrow
<1>3. levels'[t] < MaxLevel(t)
  BY <1>2 DEF AllOpen, Order, MaxLevel
<1>4. MaxLevel(t) \in Nat
  BY <1>1, RangesNat DEF MaxLevel, TypeInv, PlanOK, Levels
<1> QED
  BY <1>2, <1>3, <1>4

LEMMA RotationStep ==
  ASSUME TypeInv, RotationInv, AllocateOne, NEW c \in Category, c = cat, AllOpen(c)
  PROVE  \A p, q \in DOMAIN Order(c) :
           Gains(c, levels')[p] - Ahead(c, p)'
             = Gains(c, levels')[q] - Ahead(c, q)'
<1> USE DEF TypeInv
<1> DEFINE n == Len(Order(c))
           f == Gains(c, levels)
           g == Gains(c, levels')
           i == nextIndex[c]
<1>1. PICK r \in DOMAIN Order(c) :
        /\ levels' \in Levels
        /\ r \in cands /\ Rank(r, cands) = i % Cardinality(cands)
        /\ g[r] = f[r] + 1
        /\ \A q \in DOMAIN Order(c) \ {r} : g[q] = f[q]
  BY OneGain
<1>2. DOMAIN Order(c) = 1 .. n /\ n \in Nat /\ r \in 1 .. n
  BY <1>1, OrderFacts
<1>3. cands = 1 .. n
  <2>1. cands = Candidates(c, levels)
    BY DEF AllocateOne, CandidatesCurrent
  <2> QED
    BY <1>2, <2>1 DEF Candidates, AllOpen
<1>4. r - 1 = i % n
  <2>1. Rank(r, 1 .. n) = r - 1 /\ Cardinality(1 .. n) = n
    BY <1>2, RankOfAll
  <2> QED
    BY <1>1, <1>3, <2>1
<1>5. i \in Nat /\ nextIndex'[c] = i + 1 /\ plan' = plan
  BY <1>1 DEF TypeOK, AllocateOne
<1>6. \A q \in 1 .. n : f[q] \in Int /\ g[q] \in Int
  BY <1>1, <1>2, GainsInt DEF TypeOK
<1>7. \A q \in 1 .. n : Ahead(c, q) = IF q <= r - 1 THEN 1 ELSE 0
  BY <1>4 DEF Ahead
<1>8. \A q \in 1 .. n : Ahead(c, q)' = IF q <= (i + 1) % n THEN 1 ELSE 0
  <2>1. Order(c)' = Order(c) /\ nextIndex'[c] = i + 1
    BY <1>5 DEF Order
  <2> QED
    BY <1>5, <2>1 DEF Ahead, Order
<1>9. \A p, q \in 1 .. n : f[p] - Ahead(c, p) = f[q] - Ahead(c, q)
  BY <1>1, <1>2 DEF RotationInv
<1>10. (i + 1) % n = IF r = n THEN 0 ELSE r
  <2>1. n \in Nat \ {0} /\ r \in Nat /\ (i % n) + 1 = r
    BY <1>2, <1>4
  <2> QED
    BY <1>5, <2>1, NextModulo
<1> HIDE DEF n, f, g, i
<1> SUFFICES ASSUME NEW p \in 1 .. n, NEW q \in 1 .. n
             PROVE  g[p] - Ahead(c, p)' = g[q] - Ahead(c, q)'
  BY <1>2 DEF g
<1>11. \A s \in 1 .. n : g[s] = IF s = r THEN f[s] + 1 ELSE f[s]
  BY <1>1, <1>2
<1>12. CASE r = n
  <2>1. \A s \in 1 .. n : Ahead(c, s)' = 0 /\ Ahead(c, s) = IF s = r THEN 0 ELSE 1
    BY <1>2, <1>7, <1>8, <1>10, <1>12
  <2>2. \A s \in 1 .. n : g[s] - Ahead(c, s)' = f[s] - Ahead(c, s) + 1
    BY <1>6, <1>11, <2>1
  <2> QED
    BY <1>9, <2>2
<1>13. CASE r # n
  <2>1. \A s \in 1 .. n : /\ Ahead(c, s)' = IF s <= r THEN 1 ELSE 0
                          /\ Ahead(c, s) = IF s <= r - 1 THEN 1 ELSE 0
    BY <1>2, <1>7, <1>8, <1>10, <1>13
  <2>2. \A s \in 1 .. n : g[s] - Ahead(c, s)' = f[s] - Ahead(c, s)
    BY <1>2, <1>6, <1>11, <2>1
  <2> QED
    BY <1>9, <2>2
<1> QED
  BY <1>12, <1>13

LEMMA RotationInvNext ==
  ASSUME TypeInv, RotationInv, [Next]_vars
  PROVE  RotationInv'
<1>1. plan' = plan
  BY DEF Next, BeginRow, AdvanceWave, Generate, AllocateOne, LeaveOne, CloseCategory,
         EmitRow, FinishTable, Returned, vars
<1> SUFFICES ASSUME NEW c \in Category, AllOpen(c)',
                    NEW p \in DOMAIN Order(c), NEW q \in DOMAIN Order(c)
             PROVE  Gains(c, levels')[p] - Ahead(c, p)'
                      = Gains(c, levels')[q] - Ahead(c, q)'
  <2>1. \A c \in Category :
          /\ DOMAIN Order(c)' = DOMAIN Order(c)
          /\ Gains(c, levels)' = Gains(c, levels')
    BY <1>1 DEF Gains, Order
  <2> QED
    BY <2>1 DEF RotationInv
<1>2. AllOpen(c)
  BY AllWereOpen
<1>3. Gains(c, levels)[p] - Ahead(c, p) = Gains(c, levels)[q] - Ahead(c, q)
  BY <1>2 DEF RotationInv
<1>4. CASE AllocateOne
  <2>1. CASE c = cat
    BY <1>2, <1>4, <2>1, RotationStep
  <2>2. CASE c # cat
    <3>1. \A s \in DOMAIN Order(c) : Gains(c, levels')[s] = Gains(c, levels)[s]
      BY <1>4, <2>2, OneGain
    <3>2. nextIndex'[c] = nextIndex[c]
      BY <1>4, <2>2 DEF AllocateOne, TypeInv, TypeOK
    <3>3. \A s : Ahead(c, s)' = Ahead(c, s)
      BY <1>1, <3>2 DEF Ahead, Order
    <3> QED
      BY <1>3, <3>1, <3>3
  <2> QED
    BY <2>1, <2>2
<1>5. CASE CloseCategory
  <2>1. levels' = levels /\ nextIndex' = [nextIndex EXCEPT ![cat] = NormalisedIndex(cat)]
    BY <1>5 DEF CloseCategory
  <2>2. nextIndex \in [Category -> Nat]
    BY DEF TypeInv, TypeOK
  <2>3. Len(Order(c)) \in Nat /\ DOMAIN Order(c) = 1 .. Len(Order(c))
    BY OrderFacts DEF TypeInv
  <2>4. Len(Order(c)) \in Nat \ {0}
    BY <2>3
  <2>5. nextIndex'[c] % Len(Order(c)) = nextIndex[c] % Len(Order(c))
    <3>1. CASE c = cat /\ Len(Order(c)) > 1
      <4>1. nextIndex'[c] = nextIndex[c] % Len(Order(c))
        BY <2>1, <2>2, <3>1 DEF NormalisedIndex
      <4> QED
        BY <2>2, <2>4, <4>1, NextModulo
    <3>2. CASE ~ (c = cat /\ Len(Order(c)) > 1)
      <4>1. nextIndex'[c] = nextIndex[c]
        BY <2>1, <2>2, <3>2 DEF NormalisedIndex
      <4> QED
        BY <4>1
    <3> QED
      BY <3>1, <3>2
  <2>6. \A s : Ahead(c, s)' = Ahead(c, s)
    BY <1>1, <2>5 DEF Ahead, Order
  <2> QED
    BY <1>3, <2>1, <2>6
<1>6. CASE ~ AllocateOne /\ ~ CloseCategory
  <2>1. levels' = levels /\ nextIndex' = nextIndex
    BY <1>6 DEF Next, BeginRow, AdvanceWave, Generate, LeaveOne,
                EmitRow, FinishTable, Returned, vars, recurrence
  <2>2. \A s : Ahead(c, s)' = Ahead(c, s)
    BY <1>1, <2>1 DEF Ahead, Order
  <2> QED
    BY <1>3, <2>1, <2>2
<1> QED
  BY <1>4, <1>5, <1>6

(* As long as no track of a category is maxed, the rotation keeps their    *)
(* gains within one level of each other, across rows and whatever the gaps *)
(* (allocate_free_upgrades).                                               *)
THEOREM RotationStaysBalancedAcrossRows == Spec => []BalancedAcrossRows
<1>1. Init => RotationInv
  <2> SUFFICES ASSUME Init, NEW c \in Category, NEW p \in DOMAIN Order(c)
               PROVE  Gains(c, levels)[p] - Ahead(c, p) = 0
    BY DEF RotationInv
  <2>1. PlanOK(plan) /\ levels \in Levels /\ levels = plan.levels
    BY TypeInvInit DEF Init, TypeInv, TypeOK
  <2>2. /\ Order(c)[p] \in Track /\ Len(Order(c)) \in Nat
        /\ DOMAIN Order(c) = 1 .. Len(Order(c))
    BY <2>1, OrderFacts
  <2>3. levels[Order(c)[p]] \in Nat
    BY <2>1, <2>2, RangesNat DEF Levels
  <2>4. Gains(c, levels)[p] = levels[Order(c)[p]] - levels[Order(c)[p]]
    BY <2>1, GainsInt
  <2>5. p \in Nat \ {0} /\ Len(Order(c)) \in Nat \ {0}
    BY <2>2
  <2>6. nextIndex[c] % Len(Order(c)) = 0
    <3>1. nextIndex[c] = 0
      BY DEF Init
    <3> QED
      BY <2>5, <3>1
  <2>7. Ahead(c, p) = 0
    BY <2>5, <2>6 DEF Ahead
  <2> QED
    BY <2>3, <2>4, <2>7
<1>2. TypeInv /\ RotationInv /\ [Next]_vars => RotationInv'
  BY RotationInvNext
<1>3. TypeInv /\ RotationInv => BalancedAcrossRows
  <2> SUFFICES ASSUME TypeInv, RotationInv, NEW c \in Category, AllOpen(c),
                      NEW p \in DOMAIN Order(c), NEW q \in DOMAIN Order(c)
               PROVE  Gains(c, levels)[p] <= Gains(c, levels)[q] + 1
    BY DEF BalancedAcrossRows, AllOpen
  <2>1. Gains(c, levels)[p] \in Int /\ Gains(c, levels)[q] \in Int
    BY GainsInt DEF TypeInv, TypeOK
  <2>2. Gains(c, levels)[p] - Ahead(c, p) = Gains(c, levels)[q] - Ahead(c, q)
    BY DEF RotationInv
  <2>3. Ahead(c, p) \in {0, 1} /\ Ahead(c, q) \in {0, 1}
    BY DEF Ahead
  <2> QED
    BY <2>1, <2>2, <2>3
<1> QED
  BY <1>1, <1>2, <1>3, TypeInvAlways, PTL DEF Spec

-----------------------------------------------------------------------------
(* The rotation within a row                                               *)
(*                                                                         *)
(* Between two fillings the candidates do not change and the rotation      *)
(* walks round them, from a turn s it happened to start at: what they have *)
(* gained since differs by whether the turn has passed them on the current *)
(* round and had passed them on the first.  A filling starts a new walk    *)
(* from gains that differ by one more.                                     *)
-----------------------------------------------------------------------------
Passed(r, t) == IF r < t THEN 1 ELSE 0

(* The gains g of the candidates S grew from b while the turn went from s  *)
(* to t, and b was level up to k.                                          *)
Walk(S, g, b, s, t, k) ==
  /\ \A p, q \in S : b[p] <= b[q] + k
  /\ \A p, q \in S :
       g[p] - b[p] - Passed(Rank(p, S), t) + Passed(Rank(p, S), s)
         = g[q] - b[q] - Passed(Rank(q, S), t) + Passed(Rank(q, S), s)

RowGains(c, lv, before) == [p \in DOMAIN Order(c) |-> lv[Order(c)[p]] - before[Order(c)[p]]]

Filled(c, lv, before) == Cardinality(Candidates(c, before) \ Candidates(c, lv))

WalkUnderWay ==
  \E b \in [cands -> Int], s \in Nat :
    Walk(cands, RowGains(cat, levels, LevelsBeforeRow), b, s, Turn,
         Filled(cat, levels, LevelsBeforeRow))

WithinRowInv ==
  /\ pc \in {"checkpoint", "advance"} => levels = LevelsBeforeRow
  /\ \A t \in Track : LevelsBeforeRow[t] <= levels[t]
  /\ pc = "allocate" =>
       /\ \A c \in Category : c > cat =>
            \A p \in DOMAIN Order(c) : levels[Order(c)[p]] = LevelsBeforeRow[Order(c)[p]]
       /\ WalkUnderWay
  /\ BalancedWithinRow

(* The rank of a candidate is below their number, and its own.             *)
LEMMA RankFacts ==
  ASSUME NEW S, S \subseteq Nat, IsFiniteSet(S), NEW p \in S
  PROVE  /\ Rank(p, S) \in Nat /\ Rank(p, S) < Cardinality(S) /\ Cardinality(S) \in Nat \ {0}
         /\ \A q \in S : p < q => Rank(p, S) < Rank(q, S)
<1> DEFINE B(x) == { y \in S : y < x }
<1>1. \A x : B(x) \subseteq S /\ IsFiniteSet(B(x)) /\ Cardinality(B(x)) \in Nat
  BY FS_Subset, FS_CardinalityType
<1>2. \A x : Rank(x, S) = Cardinality(B(x))
  BY DEF Rank
<1>3. p \notin B(p)
  OBVIOUS
<1>4. Cardinality(B(p)) < Cardinality(S) /\ Cardinality(S) \in Nat
  <2>1. B(p) # S
    BY <1>3
  <2> HIDE DEF B
  <2> QED
    BY <1>1, <2>1, FS_Subset, FS_CardinalityType
<1>5. ASSUME NEW q \in S, p < q
      PROVE  Cardinality(B(p)) < Cardinality(B(q))
  <2>1. B(p) \subseteq B(q) /\ B(p) # B(q)
    <3>1. p \in B(q) /\ p \notin B(p)
      BY <1>5
    <3>2. ASSUME NEW y \in S, y < p PROVE y < q
      <4>1. y \in Nat /\ p \in Nat /\ q \in Nat
        OBVIOUS
      <4> QED
        BY <1>5, <3>2, <4>1
    <3>3. B(p) \subseteq B(q)
      BY <3>2
    <3> QED
      BY <3>1, <3>3
  <2> HIDE DEF B
  <2> QED
    BY <1>1, <2>1, FS_Subset, FS_CardinalityType
<1>6. Rank(p, S) \in Nat /\ Rank(p, S) < Cardinality(S)
  <2>1. Rank(p, S) = Cardinality(B(p)) /\ Cardinality(B(p)) \in Nat
    BY <1>1, <1>2
  <2> HIDE DEF B
  <2> QED
    BY <1>4, <2>1
<1>7. Cardinality(S) \in Nat \ {0}
  BY <1>4, <1>6
<1>8. \A q \in S : p < q => Rank(p, S) < Rank(q, S)
  <2> TAKE q \in S
  <2>1. Rank(p, S) = Cardinality(B(p)) /\ Rank(q, S) = Cardinality(B(q))
    BY <1>2
  <2> HIDE DEF B
  <2> QED
    BY <1>5, <2>1
<1> QED
  BY <1>6, <1>7, <1>8

(* Whatever turn a walk started at, it treats the candidates alike.        *)
LEMMA WalkBalanced ==
  ASSUME NEW S, S \subseteq Nat, IsFiniteSet(S), NEW g, \A p \in S : g[p] \in Int,
         NEW b \in [S -> Int], NEW s \in Nat, NEW t \in Nat, NEW k \in Nat,
         Walk(S, g, b, s, t, k)
  PROVE  \A p, q \in S : g[p] <= g[q] + 1 + k
<1> TAKE p \in S, q \in S
<1>1. Rank(p, S) \in Nat /\ Rank(q, S) \in Nat
  BY RankFacts
<1>2. /\ Passed(Rank(p, S), t) - Passed(Rank(p, S), s)
           - Passed(Rank(q, S), t) + Passed(Rank(q, S), s) <= 1
      /\ Passed(Rank(p, S), t) \in Int /\ Passed(Rank(p, S), s) \in Int
      /\ Passed(Rank(q, S), t) \in Int /\ Passed(Rank(q, S), s) \in Int
  BY <1>1 DEF Passed
<1>3. g[p] - b[p] - Passed(Rank(p, S), t) + Passed(Rank(p, S), s)
        = g[q] - b[q] - Passed(Rank(q, S), t) + Passed(Rank(q, S), s)
  BY DEF Walk
<1>4. b[p] <= b[q] + k
  BY DEF Walk
<1>5. b[p] \in Int /\ b[q] \in Int /\ g[p] \in Int /\ g[q] \in Int
  OBVIOUS
<1> QED
  BY <1>2, <1>3, <1>4, <1>5

(* Serving the candidate whose turn it is takes the walk one turn on.      *)
LEMMA WalkServes ==
  ASSUME NEW S, S \subseteq Nat, IsFiniteSet(S), NEW g, \A p \in S : g[p] \in Int,
         NEW b \in [S -> Int], NEW s \in Nat, NEW n \in Nat, NEW k \in Nat,
         Walk(S, g, b, s, n % Cardinality(S), k),
         NEW r \in S, Rank(r, S) = n % Cardinality(S),
         NEW h, h[r] = g[r] + 1, \A p \in S \ {r} : h[p] = g[p]
  PROVE  Walk(S, h, b, s, (n + 1) % Cardinality(S), k)
<1> DEFINE m == Cardinality(S)
           t == n % m
           u == (n + 1) % m
           At(f, p, v) == f[p] - b[p] - Passed(Rank(p, S), v) + Passed(Rank(p, S), s)
<1>1. m \in Nat \ {0}
  BY RankFacts
<1>2. t \in Nat /\ t < m /\ u = IF t + 1 = m THEN 0 ELSE t + 1
  <2> HIDE DEF m
  <2>1. t \in Nat /\ t < m
    BY <1>1, ModRange
  <2>2. u = IF (n % m) + 1 = m THEN 0 ELSE (n % m) + 1
    BY <1>1, NextModulo
  <2> QED
    BY <1>1, <2>1, <2>2
<1>3. \A p \in S : Rank(p, S) \in Nat /\ Rank(p, S) < m /\ (p # r => Rank(p, S) # t)
  <2> TAKE p \in S
  <2>1. Rank(p, S) \in Nat /\ Rank(p, S) < m
    BY RankFacts
  <2>2. ASSUME p # r PROVE Rank(p, S) # t
    <3>1. p \in Nat /\ r \in Nat
      OBVIOUS
    <3>2. CASE p < r
      <4>1. Rank(p, S) < Rank(r, S)
        BY <3>2, RankFacts
      <4> QED
        BY <2>1, <1>2, <4>1
    <3>3. CASE r < p
      <4>1. Rank(r, S) < Rank(p, S)
        BY <3>3, RankFacts
      <4> QED
        BY <2>1, <1>2, <4>1
    <3> QED
      BY <2>2, <3>1, <3>2, <3>3
  <2> QED
    BY <2>1, <2>2
<1> HIDE DEF m, t, u
<1>4. \A p \in S : h[p] = g[p] + (IF p = r THEN 1 ELSE 0) /\ g[p] \in Int /\ b[p] \in Int
  OBVIOUS
<1>5. CASE t + 1 = m
  <2>1. \A p \in S : Passed(Rank(p, S), u) = 0
    BY <1>2, <1>3, <1>5 DEF Passed
  <2>2. \A p \in S : Passed(Rank(p, S), t) = IF p = r THEN 0 ELSE 1
    BY <1>1, <1>2, <1>3, <1>5 DEF Passed, t, m
  <2>3. \A p \in S : At(h, p, u) = At(g, p, t) + 1
    <3> TAKE p \in S
    <3>1. Passed(Rank(p, S), s) \in Int
      BY DEF Passed
    <3> QED
      BY <1>4, <2>1, <2>2, <3>1
  <2>4. \A p, q \in S : At(g, p, t) = At(g, q, t)
    BY DEF Walk, t, m
  <2>5. \A p, q \in S : At(h, p, u) = At(h, q, u)
    BY <2>3, <2>4
  <2> QED
    BY <2>5 DEF Walk, u, m
<1>6. CASE t + 1 # m
  <2>1. \A p \in S : Passed(Rank(p, S), u)
                       = Passed(Rank(p, S), t) + (IF p = r THEN 1 ELSE 0)
    BY <1>2, <1>3, <1>6 DEF Passed, t, m
  <2>2. \A p \in S : At(h, p, u) = At(g, p, t)
    <3> TAKE p \in S
    <3>1. Passed(Rank(p, S), s) \in Int /\ Passed(Rank(p, S), t) \in Int
      BY DEF Passed
    <3> QED
      BY <1>4, <2>1, <3>1
  <2>3. \A p, q \in S : At(g, p, t) = At(g, q, t)
    BY DEF Walk, t, m
  <2>4. \A p, q \in S : At(h, p, u) = At(h, q, u)
    BY <2>2, <2>3
  <2> QED
    BY <2>4 DEF Walk, u, m
<1> QED
  BY <1>5, <1>6

(* A walk starts from gains that are level up to k.                        *)
LEMMA WalkStarts ==
  ASSUME NEW S, NEW g, \A p \in S : g[p] \in Int, NEW t, NEW k \in Nat,
         S # {} => t \in Nat, \A p, q \in S : g[p] <= g[q] + k
  PROVE  \E b \in [S -> Int], s \in Nat : Walk(S, g, b, s, t, k)
<1> DEFINE b == [p \in S |-> g[p]]
<1>1. b \in [S -> Int] /\ \A p \in S : b[p] = g[p]
  OBVIOUS
<1>2. CASE S = {}
  BY <1>1, <1>2 DEF Walk
<1>3. CASE S # {}
  <2>1. \A p \in S : Passed(Rank(p, S), t) \in Int
    BY DEF Passed
  <2>2. \A p \in S : g[p] - b[p] - Passed(Rank(p, S), t) + Passed(Rank(p, S), t) = 0
    BY <1>1, <2>1
  <2>3. Walk(S, g, b, t, t, k)
    BY <1>1, <2>2 DEF Walk
  <2> QED
    BY <1>1, <1>3, <2>3
<1> QED
  BY <1>2, <1>3

LEMMA BeforeType ==
  ASSUME TypeInv, RowsInv
  PROVE  LevelsBeforeRow \in Levels
<1>1. CASE rows = << >>
  BY <1>1 DEF LevelsBeforeRow, TypeInv, PlanOK
<1>2. CASE rows # << >>
  <2>1. rows \in Seq(RowType) /\ Len(rows) \in DOMAIN rows
    BY <1>2 DEF RowsInv
  <2> QED
    BY <1>2, <2>1, RowFields DEF LevelsBeforeRow
<1> QED
  BY <1>1, <1>2

LEMMA RowGainsInt ==
  ASSUME PlanOK(plan), NEW lv \in Levels, NEW before \in Levels, NEW c \in Category
  PROVE  \A p \in DOMAIN Order(c) :
           /\ Order(c)[p] \in Track
           /\ lv[Order(c)[p]] \in Nat /\ before[Order(c)[p]] \in Nat
           /\ RowGains(c, lv, before)[p] = lv[Order(c)[p]] - before[Order(c)[p]]
           /\ RowGains(c, lv, before)[p] \in Int
<1> TAKE p \in DOMAIN Order(c)
<1>1. Order(c)[p] \in Track
  BY OrderFacts
<1>2. lv[Order(c)[p]] \in Nat /\ before[Order(c)[p]] \in Nat
  BY <1>1, LevelNat
<1>3. RowGains(c, lv, before)[p] = lv[Order(c)[p]] - before[Order(c)[p]]
  BY DEF RowGains
<1> QED
  BY <1>1, <1>2, <1>3

LEMMA CandidatesFinite ==
  ASSUME PlanOK(plan), NEW c \in Category, NEW lv, NEW before
  PROVE  /\ Candidates(c, lv) \subseteq DOMAIN Order(c) /\ Candidates(c, lv) \subseteq Nat
         /\ IsFiniteSet(Candidates(c, lv)) /\ Filled(c, lv, before) \in Nat
<1>1. IsFiniteSet(DOMAIN Order(c)) /\ DOMAIN Order(c) \subseteq Nat
  BY OrderFacts
<1>2. /\ Candidates(c, lv) \subseteq DOMAIN Order(c)
      /\ Candidates(c, before) \ Candidates(c, lv) \subseteq DOMAIN Order(c)
  BY DEF Candidates
<1> QED
  BY <1>1, <1>2, FS_Subset, FS_CardinalityType DEF Filled

(* The gains of a row that the walk of a category starts from are none.    *)
LEMMA FreshWalk ==
  ASSUME TypeInv, NEW lv \in Levels, NEW before \in Levels, NEW c \in Category,
         \A p \in DOMAIN Order(c) : lv[Order(c)[p]] = before[Order(c)[p]], NEW t,
         Candidates(c, lv) # {} => t \in Nat
  PROVE  \E b \in [Candidates(c, lv) -> Int], s \in Nat :
           Walk(Candidates(c, lv), RowGains(c, lv, before), b, s, t, Filled(c, lv, before))
<1> DEFINE S == Candidates(c, lv)
           g == RowGains(c, lv, before)
           k == Filled(c, lv, before)
<1>1. PlanOK(plan)
  BY DEF TypeInv
<1>2. S \subseteq DOMAIN Order(c) /\ k \in Nat
  BY <1>1, CandidatesFinite
<1>3. \A p \in DOMAIN Order(c) : g[p] = 0
  <2> TAKE p \in DOMAIN Order(c)
  <2>1. /\ lv[Order(c)[p]] \in Nat /\ before[Order(c)[p]] \in Nat
        /\ g[p] = lv[Order(c)[p]] - before[Order(c)[p]]
    BY <1>1, RowGainsInt
  <2> QED
    BY <2>1
<1>4. (\A p \in S : g[p] \in Int) /\ (\A p, q \in S : g[p] <= g[q] + k)
  BY <1>2, <1>3
<1>5. S # {} => t \in Nat
  OBVIOUS
<1> HIDE DEF S, g, k
<1>6. \E b \in [S -> Int], s \in Nat : Walk(S, g, b, s, t, k)
  BY <1>2, <1>4, <1>5, WalkStarts
<1> QED
  BY <1>6 DEF S, g, k

(* The index a category is left with is a number, so it points at one of   *)
(* its candidates if there is any.                                         *)
LEMMA TurnNat ==
  ASSUME TypeInv, NEW c \in Category, NEW S, S \subseteq Nat, IsFiniteSet(S), S # {}
  PROVE  nextIndex[c] % Cardinality(S) \in Nat
<1>1. Cardinality(S) \in Nat \ {0}
  <2>1. PICK p : p \in S
    OBVIOUS
  <2> QED
    BY <2>1, RankFacts
<1>2. nextIndex[c] \in Int
  BY DEF TypeInv, TypeOK
<1> QED
  BY <1>1, <1>2, ModRange

(* One allocation, seen from the row: the candidate served is one level    *)
(* ahead of before, and leaves the candidates or stays.                    *)
LEMMA ServeOne ==
  ASSUME TypeInv, RowsInv, WithinRowInv, AllocateOne
  PROVE  \E r \in cands :
           LET before == LevelsBeforeRow
               g == RowGains(cat, levels, before)
               h == RowGains(cat, levels', before)
           IN /\ Rank(r, cands) = Turn
              /\ h[r] = g[r] + 1 /\ \A p \in DOMAIN Order(cat) \ {r} : h[p] = g[p]
              /\ \/ /\ Candidates(cat, levels') = cands
                    /\ Filled(cat, levels', before) = Filled(cat, levels, before)
                 \/ /\ Candidates(cat, levels') = cands \ {r}
                    /\ Filled(cat, levels', before) = Filled(cat, levels, before) + 1
<1> USE DEF TypeInv
<1> DEFINE before == LevelsBeforeRow
           g == RowGains(cat, levels, before)
           h == RowGains(cat, levels', before)
<1>1. PICK r \in DOMAIN Order(cat) :
        /\ cat \in Category /\ levels' \in Levels
        /\ r \in cands /\ Rank(r, cands) = nextIndex[cat] % Cardinality(cands)
        /\ Gains(cat, levels')[r] = Gains(cat, levels)[r] + 1
        /\ \A q \in DOMAIN Order(cat) \ {r} :
             Gains(cat, levels')[q] = Gains(cat, levels)[q]
  BY OneGain
<1>2. levels \in Levels /\ before \in Levels
  BY BeforeType DEF TypeOK
<1>3. cands = Candidates(cat, levels)
  BY DEF CandidatesCurrent, AllocateOne
<1>4. \A p \in DOMAIN Order(cat) :
        /\ Order(cat)[p] \in Track
        /\ levels[Order(cat)[p]] \in Nat /\ levels'[Order(cat)[p]] \in Nat
        /\ before[Order(cat)[p]] \in Nat /\ MaxLevel(Order(cat)[p]) \in Nat
        /\ before[Order(cat)[p]] <= levels[Order(cat)[p]]
        /\ levels'[Order(cat)[p]]
             = levels[Order(cat)[p]] + (IF p = r THEN 1 ELSE 0)
        /\ g[p] = levels[Order(cat)[p]] - before[Order(cat)[p]]
        /\ h[p] = levels'[Order(cat)[p]] - before[Order(cat)[p]]
  <2> TAKE p \in DOMAIN Order(cat)
  <2>1. /\ Order(cat)[p] \in Track
        /\ levels[Order(cat)[p]] \in Nat /\ before[Order(cat)[p]] \in Nat
        /\ g[p] = levels[Order(cat)[p]] - before[Order(cat)[p]]
    BY <1>1, <1>2, RowGainsInt
  <2>2. /\ levels'[Order(cat)[p]] \in Nat
        /\ h[p] = levels'[Order(cat)[p]] - before[Order(cat)[p]]
    BY <1>1, <1>2, RowGainsInt
  <2>3. MaxLevel(Order(cat)[p]) \in Nat /\ plan.levels[Order(cat)[p]] \in Nat
    BY <2>1, LevelNat DEF PlanOK, MaxLevel
  <2>4. before[Order(cat)[p]] <= levels[Order(cat)[p]]
    BY <2>1 DEF WithinRowInv
  <2>5. /\ Gains(cat, levels)[p] = levels[Order(cat)[p]] - plan.levels[Order(cat)[p]]
        /\ Gains(cat, levels')[p] = levels'[Order(cat)[p]] - plan.levels[Order(cat)[p]]
    BY <1>1, <1>2, GainsInt
  <2>6. Gains(cat, levels')[p] = Gains(cat, levels)[p] + (IF p = r THEN 1 ELSE 0)
    <3>1. CASE p = r
      BY <1>1, <3>1
    <3>2. CASE p # r
      <4>1. Gains(cat, levels')[p] = Gains(cat, levels)[p]
        BY <1>1, <3>2
      <4> QED
        BY <2>1, <2>3, <2>5, <3>2, <4>1
    <3> QED
      BY <3>1, <3>2
  <2>7. levels'[Order(cat)[p]] = levels[Order(cat)[p]] + (IF p = r THEN 1 ELSE 0)
    BY <2>1, <2>2, <2>3, <2>5, <2>6
  <2> QED
    BY <2>1, <2>2, <2>3, <2>4, <2>7
<1>5. h[r] = g[r] + 1 /\ \A p \in DOMAIN Order(cat) \ {r} : h[p] = g[p]
  BY <1>1, <1>4
<1>6. \A p \in DOMAIN Order(cat) \ {r} :
        p \in Candidates(cat, levels') <=> p \in Candidates(cat, levels)
  BY <1>4 DEF Candidates
<1>7. \A lv : Candidates(cat, lv) \subseteq DOMAIN Order(cat)
  BY DEF Candidates
<1>8. CASE r \in Candidates(cat, levels')
  <2>1. Candidates(cat, levels') = cands
    <3>1. \A p \in DOMAIN Order(cat) :
            p \in Candidates(cat, levels') <=> p \in Candidates(cat, levels)
      BY <1>1, <1>3, <1>6, <1>8
    <3> QED
      BY <1>3, <1>7, <3>1
  <2> QED
    BY <1>1, <1>3, <1>5, <2>1 DEF Turn, Filled
<1>9. CASE r \notin Candidates(cat, levels')
  <2>1. Candidates(cat, levels') = cands \ {r}
    BY <1>1, <1>3, <1>6, <1>7, <1>9
  <2> DEFINE F == Candidates(cat, before) \ Candidates(cat, levels)
  <2>2. r \in Candidates(cat, before) /\ r \in Candidates(cat, levels)
    BY <1>1, <1>3, <1>4 DEF Candidates
  <2>3. Candidates(cat, before) \ Candidates(cat, levels') = F \cup {r} /\ r \notin F
    BY <1>3, <2>1, <2>2
  <2>4. IsFiniteSet(F)
    BY <1>1, CandidatesFinite, FS_Subset
  <2> HIDE DEF F
  <2>5. Cardinality(F \cup {r}) = Cardinality(F) + 1
    BY <2>3, <2>4, FS_AddElement
  <2>6. Filled(cat, levels', before) = Filled(cat, levels, before) + 1
    BY <2>3, <2>5 DEF Filled, F
  <2> QED
    BY <1>1, <1>5, <2>1, <2>6 DEF Turn
<1> QED
  BY <1>8, <1>9

LEMMA WalkStep ==
  ASSUME TypeInv, RowsInv, WithinRowInv, AllocateOne
  PROVE  /\ WalkUnderWay'
         /\ \A p, q \in Candidates(cat, levels') :
              RowGains(cat, levels', LevelsBeforeRow)[p]
                <= RowGains(cat, levels', LevelsBeforeRow)[q] + 1
                     + Filled(cat, levels', LevelsBeforeRow)
<1> DEFINE before == LevelsBeforeRow
           g == RowGains(cat, levels, before)
           h == RowGains(cat, levels', before)
           k == Filled(cat, levels, before)
           l == Filled(cat, levels', before)
           n == nextIndex[cat]
           S == cands
           T == Candidates(cat, levels')
<1>1. /\ cat \in Category /\ n \in Nat /\ PlanOK(plan)
      /\ levels \in Levels /\ levels' \in Levels /\ before \in Levels
  BY AllocateTypes, BeforeType DEF TypeInv, TypeOK
<1>2. /\ cat' = cat /\ plan' = plan /\ rows' = rows /\ nextIndex'[cat] = n + 1
      /\ pc = "allocate"
  BY <1>1 DEF AllocateOne, TypeInv, TypeOK
<1>3. LevelsBeforeRow' = before /\ cands' = T
  <2>1. CandidatesCurrent'
    BY AllocateTypes
  <2>2. pc' = "allocate"
    BY DEF AllocateOne
  <2> QED
    BY <1>2, <2>1, <2>2 DEF CandidatesCurrent, LevelsBeforeRow, Candidates, Order, MaxLevel
<1>4. S = Candidates(cat, levels)
  BY <1>2 DEF TypeInv, CandidatesCurrent
<1>5. /\ S \subseteq Nat /\ IsFiniteSet(S) /\ S \subseteq DOMAIN Order(cat) /\ k \in Nat
      /\ T \subseteq Nat /\ IsFiniteSet(T) /\ T \subseteq DOMAIN Order(cat) /\ l \in Nat
  BY <1>1, <1>4, CandidatesFinite
<1>6. \A p \in DOMAIN Order(cat) : g[p] \in Int /\ h[p] \in Int
  BY <1>1, RowGainsInt
<1>7. PICK r \in S :
        /\ Rank(r, S) = Turn
        /\ h[r] = g[r] + 1 /\ \A p \in DOMAIN Order(cat) \ {r} : h[p] = g[p]
        /\ (T = S /\ l = k) \/ (T = S \ {r} /\ l = k + 1)
  BY ServeOne, Zenon
<1>8. PICK b \in [S -> Int], s \in Nat : Walk(S, g, b, s, Turn, k)
  BY <1>2 DEF WithinRowInv, WalkUnderWay
<1>9. Turn = n % Cardinality(S) /\ Turn' = (n + 1) % Cardinality(T)
  BY <1>2, <1>3 DEF Turn
<1>10. WalkUnderWay' <=>
         \E b2 \in [T -> Int], s2 \in Nat : Walk(T, h, b2, s2, Turn', l)
  <2>1. RowGains(cat, levels, LevelsBeforeRow)' = h
    BY <1>2, <1>3 DEF RowGains, Order
  <2>2. Filled(cat, levels, LevelsBeforeRow)' = l
    BY <1>2, <1>3 DEF Filled, Candidates, Order, MaxLevel
  <2> QED
    BY <1>3, <2>1, <2>2 DEF WalkUnderWay
<1>11. Turn \in Nat
  BY <1>1, <1>5, <1>9, TurnNat
<1> HIDE DEF before, g, h, k, l, n, S, T
<1>12. CASE T = S /\ l = k
  <2>1. /\ \A p \in S : g[p] \in Int /\ h[p] \in Int
        /\ \A p \in S \ {r} : h[p] = g[p]
    BY <1>5, <1>6, <1>7
  <2>2. Walk(S, g, b, s, n % Cardinality(S), k) /\ Rank(r, S) = n % Cardinality(S)
    BY <1>7, <1>8, <1>9
  <2>3. Walk(S, h, b, s, (n + 1) % Cardinality(S), k)
    BY <1>1, <1>5, <1>7, <2>1, <2>2, WalkServes
  <2>4. WalkUnderWay'
    BY <1>9, <1>10, <1>12, <2>3
  <2>5. (n + 1) % Cardinality(S) \in Nat
    <3>1. Cardinality(S) \in Nat \ {0}
      BY <1>5, RankFacts
    <3> QED
      BY <1>1, <3>1, ModRange
  <2>6. \A p, q \in S : h[p] <= h[q] + 1 + k
    BY <1>5, <2>1, <2>3, <2>5, WalkBalanced
  <2> QED
    BY <1>12, <2>4, <2>6 DEF h, l, T, before
<1>13. CASE T = S \ {r} /\ l = k + 1
  <2>1. \A p \in S : g[p] \in Int
    BY <1>5, <1>6
  <2>2. \A p, q \in S : g[p] <= g[q] + 1 + k
    BY <1>5, <1>8, <1>11, <2>1, WalkBalanced
  <2>3. \A p \in T : p \in S /\ h[p] = g[p] /\ h[p] \in Int
    BY <1>5, <1>6, <1>7, <1>13
  <2>4. \A p, q \in T : h[p] <= h[q] + l
    <3> TAKE p \in T, q \in T
    <3>1. g[p] <= g[q] + 1 + k /\ g[p] \in Int /\ g[q] \in Int
      BY <2>1, <2>2, <2>3
    <3>2. h[p] = g[p] /\ h[q] = g[q]
      BY <2>3
    <3> QED
      BY <1>5, <1>13, <3>1, <3>2
  <2>5. T # {} => Turn' \in Nat
    <3> SUFFICES ASSUME T # {} PROVE (n + 1) % Cardinality(T) \in Nat
      BY <1>9
    <3>1. PICK p : p \in T
      OBVIOUS
    <3>2. Cardinality(T) \in Nat \ {0}
      BY <1>5, <3>1, RankFacts
    <3> QED
      BY <1>1, <3>2, ModRange
  <2>6. \E b2 \in [T -> Int], s2 \in Nat : Walk(T, h, b2, s2, Turn', l)
    BY <1>5, <2>3, <2>4, <2>5, WalkStarts
  <2>7. \A p, q \in T : h[p] <= h[q] + 1 + l
    <3> TAKE p \in T, q \in T
    <3>1. h[p] <= h[q] + l /\ h[p] \in Int /\ h[q] \in Int
      BY <2>3, <2>4
    <3> QED
      BY <1>5, <3>1
  <2> QED
    BY <1>10, <2>6, <2>7 DEF h, l, T, before
<1> QED
  BY <1>7, <1>12, <1>13

LEMMA WithinRowNext ==
  ASSUME TypeInv, RowsInv, WithinRowInv, [Next]_vars
  PROVE  WithinRowInv'
<1> DEFINE before == LevelsBeforeRow
<1>1. plan' = plan
  BY DEF Next, BeginRow, AdvanceWave, Generate, AllocateOne, LeaveOne, CloseCategory,
         EmitRow, FinishTable, Returned, vars
<1>2. /\ TypeInv' /\ RowsInv' /\ PlanOK(plan)
      /\ levels \in Levels /\ levels' \in Levels /\ before \in Levels
  BY TypeInvNext, RowsInvNext, BeforeType DEF TypeInv, TypeOK
<1>3. \A t \in Track : /\ levels[t] \in Nat /\ levels'[t] \in Nat
                       /\ before[t] \in Nat /\ levels[t] <= levels'[t]
  BY <1>2, LevelNat, LevelsGrow
<1>4. /\ \A c, lv : Candidates(c, lv)' = Candidates(c, lv')
      /\ \A c : Order(c)' = Order(c)
  BY <1>1 DEF Candidates, Order, MaxLevel
<1>5. CASE EmitRow
  <2>1. /\ pc' = "checkpoint" /\ levels' = levels /\ rows' = Append(rows, Row)
        /\ Row.levels = levels
    BY <1>5 DEF EmitRow, Row
  <2>2. LevelsBeforeRow' = levels
    <3>1. rows \in Seq(RowType) /\ rows' \in Seq(RowType)
      BY <1>2 DEF RowsInv
    <3>2. rows' # << >> /\ rows'[Len(rows')] = Row
      BY <2>1, <3>1
    <3> QED
      BY <2>1, <3>2 DEF LevelsBeforeRow
  <2>3. BalancedWithinRow'
    <3>0. \A c : /\ Candidates(c, levels)' = Candidates(c, levels)
                 /\ FilledInRow(c)' = Candidates(c, levels) \ Candidates(c, levels)
                 /\ \A p : GainInRow(c, p)'
                           = levels[Order(c)[p]] - levels[Order(c)[p]]
      BY <1>4, <2>1, <2>2 DEF GainInRow, FilledInRow
    <3> SUFFICES ASSUME NEW c \in Category, NEW p \in Candidates(c, levels),
                        NEW q \in Candidates(c, levels)
                 PROVE  levels[Order(c)[p]] - levels[Order(c)[p]]
                          <= levels[Order(c)[q]] - levels[Order(c)[q]] + 1
                               + Filled(c, levels, levels)
      BY <3>0 DEF BalancedWithinRow, Filled
    <3>1. Filled(c, levels, levels) \in Nat /\ p \in DOMAIN Order(c) /\ q \in DOMAIN Order(c)
      BY <1>2, CandidatesFinite
    <3>2. levels[Order(c)[p]] \in Nat /\ levels[Order(c)[q]] \in Nat
      BY <1>2, <3>1, RowGainsInt
    <3> QED
      BY <3>1, <3>2
  <2> QED
    BY <1>3, <2>1, <2>2, <2>3 DEF WithinRowInv
<1>6. CASE ~ EmitRow
  <2>1. LevelsBeforeRow' = before
    <3>1. rows' = rows
      BY <1>6 DEF Next, BeginRow, AdvanceWave, Generate, AllocateOne, LeaveOne,
                  CloseCategory, FinishTable, Returned, vars
    <3> QED
      BY <1>1, <3>1 DEF LevelsBeforeRow
  <2>2. \A t \in Track : LevelsBeforeRow'[t] <= levels'[t]
    <3> TAKE t \in Track
    <3>1. before[t] <= levels[t]
      BY DEF WithinRowInv
    <3> QED
      BY <1>3, <2>1, <3>1
  <2>3. \A c : /\ RowGains(c, levels, LevelsBeforeRow)' = RowGains(c, levels', before)
               /\ Filled(c, levels, LevelsBeforeRow)' = Filled(c, levels', before)
    BY <1>1, <2>1 DEF RowGains, Filled, Candidates, Order, MaxLevel
  <2>4. \A c \in Category : \A p, q \in Candidates(c, levels) :
          RowGains(c, levels, before)[p]
            <= RowGains(c, levels, before)[q] + 1 + Filled(c, levels, before)
    <3> TAKE c \in Category
    <3> TAKE p \in Candidates(c, levels), q \in Candidates(c, levels)
    <3>1. p \in DOMAIN Order(c) /\ q \in DOMAIN Order(c)
      BY DEF Candidates
    <3>2. GainInRow(c, p) <= GainInRow(c, q) + 1 + Cardinality(FilledInRow(c))
      BY DEF WithinRowInv, BalancedWithinRow
    <3> QED
      BY <3>1, <3>2 DEF GainInRow, FilledInRow, RowGains, Filled
  <2>5. ASSUME \A c \in Category : \A p, q \in Candidates(c, levels') :
                 RowGains(c, levels', before)[p]
                   <= RowGains(c, levels', before)[q] + 1 + Filled(c, levels', before)
        PROVE  BalancedWithinRow'
    <3> SUFFICES ASSUME NEW c \in Category, NEW p \in Candidates(c, levels'),
                        NEW q \in Candidates(c, levels')
                 PROVE  levels'[Order(c)[p]] - before[Order(c)[p]]
                          <= levels'[Order(c)[q]] - before[Order(c)[q]] + 1
                               + Filled(c, levels', before)
      BY <1>1, <2>1 DEF BalancedWithinRow, GainInRow, FilledInRow, Filled,
                       Candidates, Order, MaxLevel
    <3>1. p \in DOMAIN Order(c) /\ q \in DOMAIN Order(c)
      BY DEF Candidates
    <3> QED
      BY <2>5, <3>1 DEF RowGains
  <2>6. CASE AllocateOne
    <3>1. cat \in Category /\ cat' = cat /\ pc = "allocate" /\ pc' = "allocate"
      BY <2>6 DEF AllocateOne, TypeInv, TypeOK
    <3>2. \A c \in Category \ {cat} : \A p \in DOMAIN Order(c) :
            levels'[Order(c)[p]] = levels[Order(c)[p]]
      <4> TAKE c \in Category \ {cat}
      <4> TAKE p \in DOMAIN Order(c)
      <4>1. Gains(c, levels')[p] = Gains(c, levels)[p]
        BY <2>6, OneGain
      <4>2. /\ Gains(c, levels)[p] = levels[Order(c)[p]] - plan.levels[Order(c)[p]]
            /\ Gains(c, levels')[p] = levels'[Order(c)[p]] - plan.levels[Order(c)[p]]
        BY <1>2, GainsInt
      <4>3. /\ levels[Order(c)[p]] \in Nat /\ levels'[Order(c)[p]] \in Nat
            /\ plan.levels[Order(c)[p]] \in Nat
        BY <1>2, RowGainsInt DEF PlanOK
      <4> QED
        BY <4>1, <4>2, <4>3
    <3>3. \A c \in Category \ {cat} :
            /\ Candidates(c, levels') = Candidates(c, levels)
            /\ Filled(c, levels', before) = Filled(c, levels, before)
            /\ RowGains(c, levels', before) = RowGains(c, levels, before)
      BY <3>2 DEF Candidates, Filled, RowGains
    <3>4. BalancedWithinRow'
      <4>1. \A p, q \in Candidates(cat, levels') :
              RowGains(cat, levels', before)[p]
                <= RowGains(cat, levels', before)[q] + 1 + Filled(cat, levels', before)
        BY <2>6, WalkStep
      <4>2. \A c \in Category \ {cat} : \A p, q \in Candidates(c, levels') :
              RowGains(c, levels', before)[p]
                <= RowGains(c, levels', before)[q] + 1 + Filled(c, levels', before)
        BY <2>4, <3>3
      <4> HIDE DEF before
      <4> QED
        BY <2>5, <4>1, <4>2
    <3>5. WalkUnderWay'
      BY <2>6, WalkStep
    <3>6. \A c \in Category : c > cat =>
            \A p \in DOMAIN Order(c) : levels'[Order(c)[p]] = before[Order(c)[p]]
      <4> SUFFICES ASSUME NEW c \in Category, c > cat, NEW p \in DOMAIN Order(c)
                   PROVE  levels'[Order(c)[p]] = before[Order(c)[p]]
        OBVIOUS
      <4>1. c # cat
        BY <3>1 DEF Category
      <4>2. levels[Order(c)[p]] = before[Order(c)[p]]
        BY <3>1 DEF WithinRowInv
      <4> QED
        BY <3>2, <4>1, <4>2
    <3> QED
      BY <1>4, <2>1, <2>2, <3>1, <3>4, <3>5, <3>6 DEF WithinRowInv
  <2>7. CASE ~ AllocateOne
    <3>1. levels' = levels
      BY <1>6, <2>7 DEF Next, BeginRow, AdvanceWave, Generate, LeaveOne,
                  CloseCategory, FinishTable, Returned, vars
    <3>2. BalancedWithinRow'
      BY <2>4, <2>5, <3>1
    <3>3. ASSUME pc' \in {"checkpoint", "advance"}
          PROVE  levels' = LevelsBeforeRow'
      <4>1. pc \in {"checkpoint", "advance"}
        BY <1>6, <2>7, <3>3 DEF Next, BeginRow, AdvanceWave, Generate, LeaveOne,
              CloseCategory, FinishTable, Returned, vars, TypeInv, TypeOK
      <4> QED
        BY <2>1, <3>1, <4>1 DEF WithinRowInv
    <3>4. CASE pc' # "allocate"
      BY <2>2, <3>2, <3>3, <3>4 DEF WithinRowInv
    <3>5. CASE pc' = "allocate"
      <4>1. cands' = Candidates(cat', levels') /\ cat' \in Category
        BY <1>2, <1>4, <3>5 DEF TypeInv, TypeOK, CandidatesCurrent, Candidates, Order, MaxLevel
      <4>2. ASSUME \A p \in DOMAIN Order(cat') :
                     levels'[Order(cat')[p]] = before[Order(cat')[p]]
            PROVE  WalkUnderWay'
        <5> DEFINE S == Candidates(cat', levels')
        <5>1. S # {} => Turn' \in Nat
          <6> SUFFICES ASSUME S # {} PROVE nextIndex'[cat'] % Cardinality(S) \in Nat
            BY <4>1 DEF Turn
          <6>1. S \subseteq Nat /\ IsFiniteSet(S)
            BY <1>2, <4>1, CandidatesFinite
          <6>2. PICK p : p \in S
            OBVIOUS
          <6> HIDE DEF S
          <6>3. Cardinality(S) \in Nat \ {0}
            BY <6>1, <6>2, RankFacts
          <6>4. nextIndex'[cat'] \in Int
            BY <1>2, <4>1 DEF TypeInv, TypeOK
          <6> QED
            BY <6>3, <6>4, ModRange
        <5>2. \E b \in [S -> Int], s \in Nat :
                Walk(S, RowGains(cat', levels', before), b, s, Turn',
                     Filled(cat', levels', before))
          BY <1>2, <4>1, <4>2, <5>1, FreshWalk
        <5>3. /\ RowGains(cat, levels, LevelsBeforeRow)' = RowGains(cat', levels', before)
              /\ Filled(cat, levels, LevelsBeforeRow)' = Filled(cat', levels', before)
          BY <1>1, <2>1 DEF RowGains, Filled, Candidates, Order, MaxLevel
        <5> QED
          BY <4>1, <5>2, <5>3 DEF WalkUnderWay
      <4>3. CASE Generate
        <5>1. levels' = before
          BY <3>1, <4>3 DEF Generate, WithinRowInv
        <5>2. WalkUnderWay'
          BY <4>2, <5>1
        <5> QED
          BY <1>4, <2>1, <2>2, <3>2, <3>3, <5>1, <5>2 DEF WithinRowInv
      <4>4. CASE CloseCategory
        <5>1. cat' = cat + 1 /\ pc = "allocate" /\ cat \in Category
          BY <3>5, <4>4 DEF CloseCategory, TypeInv, TypeOK
        <5>2. \A c \in Category : c > cat =>
                \A p \in DOMAIN Order(c) : levels'[Order(c)[p]] = before[Order(c)[p]]
          BY <3>1, <5>1 DEF WithinRowInv
        <5>3. cat' > cat /\ \A c \in Category : c > cat' => c > cat
          BY <5>1 DEF Category
        <5>4. WalkUnderWay'
          BY <4>1, <4>2, <5>2, <5>3
        <5>5. \A c \in Category : c > cat' =>
                \A p \in DOMAIN Order(c) : levels'[Order(c)[p]] = before[Order(c)[p]]
          BY <5>2, <5>3
        <5> QED
          BY <1>4, <2>1, <2>2, <3>2, <3>3, <5>4, <5>5 DEF WithinRowInv
      <4>5. CASE ~ Generate /\ ~ CloseCategory
        <5>1. pc = "allocate" /\ cands' = cands /\ cat' = cat /\ nextIndex' = nextIndex
          BY <1>6, <2>7, <3>5, <4>5 DEF Next, BeginRow, AdvanceWave, LeaveOne,
                FinishTable, Returned, vars, recurrence, allocation
        <5>2. Turn' = Turn
          BY <5>1 DEF Turn
        <5>3. /\ RowGains(cat, levels, LevelsBeforeRow)' = RowGains(cat, levels, before)
              /\ Filled(cat, levels, LevelsBeforeRow)' = Filled(cat, levels, before)
          BY <1>1, <2>1, <3>1, <5>1 DEF RowGains, Filled, Candidates, Order, MaxLevel
        <5>4. WalkUnderWay'
          BY <5>1, <5>2, <5>3 DEF WithinRowInv, WalkUnderWay
        <5>5. \A c \in Category : c > cat' =>
                \A p \in DOMAIN Order(c) : levels'[Order(c)[p]] = before[Order(c)[p]]
          BY <3>1, <5>1 DEF WithinRowInv
        <5> QED
          BY <1>4, <2>1, <2>2, <3>2, <3>3, <5>4, <5>5 DEF WithinRowInv
      <4> QED
        BY <4>3, <4>4, <4>5
    <3> QED
      BY <3>4, <3>5
  <2> QED
    BY <2>6, <2>7
<1> QED
  BY <1>5, <1>6

LEMMA WithinRowInit ==
  ASSUME Init
  PROVE  WithinRowInv
<1>1. TypeInv /\ RowsInv /\ rows = << >> /\ levels = plan.levels /\ pc # "allocate"
  BY TypeInvInit, RowsInvInit DEF Init
<1>2. LevelsBeforeRow = levels /\ PlanOK(plan) /\ levels \in Levels
  BY <1>1 DEF LevelsBeforeRow, TypeInv, TypeOK
<1>3. BalancedWithinRow
  <2> SUFFICES ASSUME NEW c \in Category, NEW p \in Candidates(c, levels),
                      NEW q \in Candidates(c, levels)
               PROVE  levels[Order(c)[p]] - levels[Order(c)[p]]
                        <= levels[Order(c)[q]] - levels[Order(c)[q]] + 1
                             + Filled(c, levels, levels)
    BY <1>2 DEF BalancedWithinRow, GainInRow, FilledInRow, Filled
  <2>1. Filled(c, levels, levels) \in Nat /\ p \in DOMAIN Order(c) /\ q \in DOMAIN Order(c)
    BY <1>2, CandidatesFinite
  <2>2. levels[Order(c)[p]] \in Nat /\ levels[Order(c)[q]] \in Nat
    BY <1>2, <2>1, RowGainsInt
  <2> QED
    BY <2>1, <2>2
<1>4. \A t \in Track : levels[t] <= levels[t]
  BY <1>2, LevelNat
<1> QED
  BY <1>1, <1>2, <1>3, <1>4 DEF WithinRowInv

(* The rotation keeps the gains of a category within one level of each     *)
(* other across rows while none of its tracks is full; and when some are,  *)
(* it keeps the gains of those still open within one level of each other   *)
(* in every row, and one more for each that fills in that row, whatever    *)
(* index the last row left (allocate_free_upgrades).                       *)
THEOREM RotationStaysBalanced == Spec => []RotationBalanced
<1>1. Spec => []BalancedWithinRow
  <2>1. WithinRowInv => BalancedWithinRow
    BY DEF WithinRowInv
  <2>2. TypeInv /\ RowsInv /\ WithinRowInv /\ [Next]_vars => WithinRowInv'
    BY WithinRowNext
  <2>3. Init => WithinRowInv
    BY WithinRowInit
  <2> QED
    BY <2>1, <2>2, <2>3, TypeInvAlways, RowsInvAlways, PTL DEF Spec
<1>2. BalancedAcrossRows /\ BalancedWithinRow => RotationBalanced
  BY DEF RotationBalanced
<1> QED
  BY <1>1, <1>2, RotationStaysBalancedAcrossRows, PTL

-----------------------------------------------------------------------------
(* The checkpoint grid covers the boss waves                               *)
(*                                                                         *)
(* The boss waves from the start on are the multiples of the interval from *)
(* the first checkpoint on, so the n-th of them has n before it and the    *)
(* selected ones are the waves of the grid.                                *)
-----------------------------------------------------------------------------

FirstWave == FirstBossWaveAtOrAfter(plan.start, plan.interval)

(* The n-th boss wave of the scope, counted from 0.                        *)
BossWave(n) == FirstWave + plan.interval * n

(* The first checkpoint is the least multiple of the interval that is      *)
(* neither zero nor before the start.                                      *)
LEMMA FirstWaveFacts ==
  ASSUME PlanOK(plan)
  PROVE  \E m \in Nat \ {0} :
           /\ FirstWave = plan.interval * m /\ FirstWave >= plan.start
           /\ \A q \in Nat \ {0} : plan.interval * q >= plan.start => q >= m
<1> DEFINE I == plan.interval
           start == plan.start
<1>1. I \in Nat \ {0} /\ start \in Int
  BY DEF PlanOK
<1>2. FirstWave = IF start <= I THEN I
                  ELSE IF start % I = 0 THEN start ELSE start + (I - (start % I))
  BY DEF FirstWave, FirstBossWaveAtOrAfter
<1> SUFFICES \E m \in Nat \ {0} :
               /\ FirstWave = I * m /\ FirstWave >= start
               /\ \A q \in Nat \ {0} : I * q >= start => q >= m
  OBVIOUS
<1> HIDE DEF I, start, FirstWave
<1>3. CASE start <= I
  <2>1. FirstWave = I * 1 /\ FirstWave >= start
    BY <1>1, <1>2, <1>3
  <2>2. \A q \in Nat \ {0} : q >= 1
    OBVIOUS
  <2> QED
    BY <2>1, <2>2
<1>4. CASE ~ (start <= I)
  <2> DEFINE r == start % I
  <2>1. r \in 0 .. I - 1 /\ \E q \in Int : start = I * q + r
    BY <1>1, Division
  <2>2. PICK k \in Int : start = I * k + r
    BY <2>1
  <2>3. FirstWave = IF r = 0 THEN start ELSE start + (I - r)
    BY <1>2, <1>4
  <2> HIDE DEF r
  <2>4. k >= 1
    <3>1. CASE k <= 0
      <4>1. I * k <= 0
        BY <1>1, <3>1
      <4> QED
        BY <1>1, <1>4, <2>1, <2>2, <4>1
    <3> QED
      BY <3>1
  <2>5. CASE r = 0
    <3>1. FirstWave = I * k /\ FirstWave >= start /\ k \in Nat \ {0}
      BY <1>1, <2>2, <2>3, <2>4, <2>5
    <3>2. ASSUME NEW q \in Nat \ {0}, I * q >= start PROVE q >= k
      <4>1. CASE q <= k - 1
        <5>1. I * q <= I * (k - 1) /\ I * (k - 1) = I * k - I
          BY <1>1, <4>1
        <5> QED
          BY <1>1, <2>2, <2>5, <3>2, <5>1
      <4> QED
        BY <4>1
    <3> QED
      BY <3>1, <3>2
  <2>6. CASE r # 0
    <3>1. FirstWave = I * (k + 1) /\ FirstWave >= start /\ k + 1 \in Nat \ {0}
      BY <1>1, <2>1, <2>2, <2>3, <2>4, <2>6
    <3>2. ASSUME NEW q \in Nat \ {0}, I * q >= start PROVE q >= k + 1
      <4>1. CASE q <= k
        <5>1. I * q <= I * k
          BY <1>1, <4>1
        <5> QED
          BY <1>1, <2>1, <2>2, <2>6, <3>2, <5>1
      <4> QED
        BY <4>1
    <3> QED
      BY <3>1, <3>2
  <2> QED
    BY <2>5, <2>6
<1> QED
  BY <1>3, <1>4

LEMMA BossWavesAre ==
  ASSUME PlanOK(plan)
  PROVE  BossWaves = { w \in Int : w <= plan.end /\ \E n \in Nat : w = BossWave(n) }
<1> DEFINE I == plan.interval
<1>1. I \in Nat \ {0} /\ plan.end \in Int /\ plan.start \in Int
  BY DEF PlanOK
<1>2. PICK m \in Nat \ {0} :
        /\ FirstWave = I * m /\ FirstWave >= plan.start
        /\ \A q \in Nat \ {0} : I * q >= plan.start => q >= m
  BY FirstWaveFacts
<1>3. \A n \in Nat : BossWave(n) = I * (m + n)
  BY <1>1, <1>2 DEF BossWave
<1> HIDE DEF I
<1>4. ASSUME NEW w \in BossWaves
      PROVE  w \in Int /\ w <= plan.end /\ \E n \in Nat : w = BossWave(n)
  <2>1. w \in 1 .. plan.end /\ w >= plan.start /\ w % I = 0
    BY DEF BossWaves, I
  <2>2. w \in Int
    BY <1>1, <2>1
  <2>3. PICK q \in Int : w = I * q + (w % I)
    BY <1>1, <2>2, Division
  <2>4. w = I * q
    BY <1>1, <2>1, <2>3
  <2>5. q \in Nat \ {0}
    <3>1. CASE q <= 0
      <4>1. I * q <= 0
        BY <1>1, <3>1
      <4> QED
        BY <1>1, <2>1, <2>4, <4>1
    <3> QED
      BY <3>1
  <2>6. q >= m
    BY <1>2, <2>1, <2>4, <2>5
  <2>7. q - m \in Nat /\ m + (q - m) = q
    BY <2>5, <2>6
  <2>8. w = BossWave(q - m)
    BY <1>3, <2>4, <2>7
  <2> QED
    BY <1>1, <2>1, <2>2, <2>7, <2>8
<1>5. ASSUME NEW w \in Int, w <= plan.end, NEW n \in Nat, w = BossWave(n)
      PROVE  w \in BossWaves
  <2>1. w = I * (m + n) + 0 /\ m + n \in Int
    BY <1>1, <1>3, <1>5
  <2>2. w % I = 0
    BY <1>1, <2>1, ResidueOf
  <2>3. I * (m + n) = I * m + I * n /\ I * n \in Nat /\ I * m >= 1
    BY <1>1
  <2>4. w >= plan.start /\ w >= 1
    BY <1>1, <1>2, <2>1, <2>3
  <2> QED
    BY <1>1, <1>5, <2>2, <2>4 DEF BossWaves, I
<1> QED
  BY <1>4, <1>5

(* The n-th boss wave has n of them before it.                             *)
LEMMA BossWavesBelow ==
  ASSUME PlanOK(plan), NEW n \in Nat, BossWave(n) <= plan.end
  PROVE  /\ BossWave(n) \in BossWaves
         /\ Cardinality({ v \in BossWaves : v < BossWave(n) }) = n
<1> DEFINE I == plan.interval
           S == { v \in BossWaves : v < BossWave(n) }
<1>1. I \in Nat \ {0} /\ plan.end \in Int
  BY DEF PlanOK
<1>2. FirstWave \in Int
  BY <1>1, FirstWaveFacts
<1>3. \A i \in Nat : BossWave(i) = FirstWave + I * i
  BY DEF BossWave
<1>4. \A i \in Nat : BossWave(i) \in Int
  BY <1>1, <1>2, <1>3
<1> HIDE DEF I
<1>5. ASSUME NEW i \in Nat, NEW j \in Nat, i < j PROVE BossWave(i) < BossWave(j)
  <2>1. I * (j - i) >= 1 /\ I * j = I * i + I * (j - i)
    <3>1. j - i >= 1 /\ j = i + (j - i)
      BY <1>5
    <3> DEFINE d == j - i
    <3>2. d \in Nat \ {0} /\ j = i + d
      BY <3>1
    <3> HIDE DEF d
    <3>3. I * (i + d) = I * i + I * d /\ I * d >= 1
      BY <1>1, <3>2
    <3> QED
      BY <3>2, <3>3 DEF d
  <2> QED
    BY <1>1, <1>2, <1>3, <2>1
<1>6. BossWaves = { w \in Int : w <= plan.end /\ \E i \in Nat : w = BossWave(i) }
  BY BossWavesAre
<1>7. BossWave(n) \in BossWaves
  BY <1>4, <1>6
<1> DEFINE f == [i \in 1 .. n |-> BossWave(i - 1)]
<1>8. ASSUME NEW i \in 1 .. n PROVE BossWave(i - 1) \in S
  <2>1. i - 1 \in Nat /\ i - 1 < n
    OBVIOUS
  <2>2. BossWave(i - 1) < BossWave(n) /\ BossWave(i - 1) \in Int /\ BossWave(n) \in Int
    BY <1>4, <1>5, <2>1
  <2>3. BossWave(i - 1) <= plan.end
    BY <1>1, <2>2
  <2> QED
    BY <1>6, <2>1, <2>2, <2>3
<1>9. ASSUME NEW v \in S PROVE \E i \in 1 .. n : BossWave(i - 1) = v
  <2>1. PICK j \in Nat : v = BossWave(j)
    BY <1>6
  <2>2. j < n
    <3>1. CASE j > n
      BY <1>4, <1>5, <2>1, <3>1
    <3>2. CASE j = n
      BY <1>4, <2>1, <3>2
    <3> QED
      BY <3>1, <3>2
  <2>3. j + 1 \in 1 .. n /\ (j + 1) - 1 = j
    BY <2>2
  <2> QED
    BY <2>1, <2>3
<1>10. ASSUME NEW i \in 1 .. n, NEW j \in 1 .. n, i # j
       PROVE  BossWave(i - 1) # BossWave(j - 1)
  <2>1. i - 1 \in Nat /\ j - 1 \in Nat /\ (i - 1 < j - 1 \/ j - 1 < i - 1)
    BY <1>10
  <2> QED
    BY <1>4, <1>5, <2>1
<1> HIDE DEF S
<1>11. f \in Bijection(1 .. n, S)
  <2>1. f \in [1 .. n -> S]
    BY <1>8
  <2>2. \A i, j \in 1 .. n : f[i] = f[j] => i = j
    BY <1>10
  <2>3. \A v \in S : \E i \in 1 .. n : f[i] = v
    BY <1>9
  <2> HIDE DEF f
  <2> QED
    BY <2>1, <2>2, <2>3 DEF Bijection, Injection, Surjection, IsInjective
<1>12. Cardinality(S) = n
  BY <1>11, FS_CountingElements DEF ExistsBijection
<1> QED
  BY <1>7, <1>12 DEF S

LEMMA GridIsEvery ==
  ASSUME PlanOK(plan), NEW k \in Nat
  PROVE  CheckpointWave(plan, k) = BossWave(plan.every * k) /\ plan.every * k \in Nat
<1>1. plan.every \in Nat \ {0} /\ plan.interval \in Nat \ {0}
  BY DEF PlanOK
<1>2. k * plan.every * plan.interval = plan.interval * (plan.every * k)
  BY <1>1
<1>3. plan.every * k \in Nat
  BY <1>1
<1> QED
  BY <1>2, <1>3 DEF CheckpointWave, BossWave, FirstWave

(* Every selected boss wave is a checkpoint and conversely.                *)
LEMMA SelectedWaves ==
  ASSUME PlanOK(plan)
  PROVE  { w \in BossWaves : Cardinality({ v \in BossWaves : v < w }) % plan.every = 0 }
           = { w \in Int : w <= plan.end /\ \E k \in Nat : w = CheckpointWave(plan, k) }
<1> DEFINE E == plan.every
<1>1. E \in Nat \ {0}
  BY DEF PlanOK
<1>2. BossWaves = { w \in Int : w <= plan.end /\ \E i \in Nat : w = BossWave(i) }
  BY BossWavesAre
<1>3. \A k \in Nat : CheckpointWave(plan, k) = BossWave(E * k) /\ E * k \in Nat
  BY GridIsEvery
<1> HIDE DEF E
<1>4. ASSUME NEW w \in BossWaves, Cardinality({ v \in BossWaves : v < w }) % E = 0
      PROVE  \E k \in Nat : w = CheckpointWave(plan, k)
  <2>1. PICK n \in Nat : w = BossWave(n) /\ w <= plan.end
    BY <1>2
  <2>2. n % E = 0
    BY <1>4, <2>1, BossWavesBelow
  <2>3. n \in Int
    BY <2>1
  <2>4. PICK q \in Int : n = E * q + (n % E)
    BY <1>1, <2>3, Division
  <2>5. n = E * q
    BY <1>1, <2>2, <2>4
  <2>6. q \in Nat
    <3>1. CASE q <= -1
      <4>1. E * q <= -1
        BY <1>1, <3>1
      <4> QED
        BY <2>1, <2>5, <4>1
    <3> QED
      BY <3>1
  <2> QED
    BY <1>3, <2>1, <2>5, <2>6
<1>5. ASSUME NEW w \in Int, w <= plan.end, NEW k \in Nat, w = CheckpointWave(plan, k)
      PROVE  w \in BossWaves /\ Cardinality({ v \in BossWaves : v < w }) % E = 0
  <2>1. w = BossWave(E * k) /\ E * k \in Nat
    BY <1>3, <1>5
  <2>2. w \in BossWaves /\ Cardinality({ v \in BossWaves : v < w }) = E * k
    BY <1>5, <2>1, BossWavesBelow
  <2>3. (E * k) % E = 0
    <3>1. E * k = E * k + 0 /\ E * k \in Int /\ 0 \in 0 .. E - 1
      BY <1>1, <2>1
    <3> QED
      BY <1>1, <3>1, ResidueOf
  <2> QED
    BY <2>2, <2>3
<1>6. \A w \in BossWaves : w \in Int /\ w <= plan.end
  BY <1>2
<1>7. { w \in BossWaves : Cardinality({ v \in BossWaves : v < w }) % E = 0 }
        = { w \in Int : w <= plan.end /\ \E k \in Nat : w = CheckpointWave(plan, k) }
  BY <1>4, <1>5, <1>6
<1> QED
  BY <1>7 DEF E

(* The rows so far are the first checkpoints of the grid, all in the scope. *)
CoverInv ==
  /\ index = Len(rows)
  /\ \A r \in DOMAIN rows :
       rows[r].display = CheckpointWave(plan, r - 1) /\ rows[r].display <= plan.end
  /\ pc \in {"advance", "allocate", "row"} => wave <= plan.end
  /\ pc = "done" => CheckpointWave(plan, index) > plan.end

LEMMA CoverInvNext ==
  ASSUME TypeInv, RowsInv, CoverInv, [Next]_vars
  PROVE  CoverInv'
<1>1. plan' = plan
  BY DEF Next, BeginRow, AdvanceWave, Generate, AllocateOne, LeaveOne, CloseCategory,
         EmitRow, FinishTable, Returned, vars
<1>2. CASE EmitRow
  <2>1. /\ rows' = Append(rows, Row) /\ Row.display = wave /\ index' = index + 1
        /\ pc = "row" /\ pc' = "checkpoint"
    BY <1>2 DEF EmitRow, Row
  <2>2. /\ rows \in Seq(RowType) /\ rows' \in Seq(RowType)
    BY <1>2, EmitLinked DEF RowsInv
  <2> DEFINE n == Len(rows)
  <2>3. /\ n \in Nat /\ DOMAIN rows = 1 .. n /\ DOMAIN rows' = 1 .. n + 1
        /\ Len(rows') = n + 1
        /\ rows'[n + 1] = Row /\ \A r \in 1 .. n : rows'[r] = rows[r]
    BY <2>1, <2>2
  <2>4. index = n /\ wave = CheckpointWave(plan, n) /\ wave <= plan.end
    BY <2>1 DEF CoverInv, TypeInv, GridOK
  <2>5. \A r \in 1 .. n :
          rows[r].display = CheckpointWave(plan, r - 1) /\ rows[r].display <= plan.end
    BY <2>3 DEF CoverInv
  <2> HIDE DEF n
  <2>6. ASSUME NEW r \in 1 .. n + 1
        PROVE  rows'[r].display = CheckpointWave(plan, r - 1)
               /\ rows'[r].display <= plan.end
    <3>1. CASE r = n + 1
      <4>1. r - 1 = n
        BY <2>3, <3>1
      <4> QED
        BY <2>1, <2>3, <2>4, <3>1, <4>1
    <3>2. CASE r # n + 1
      <4>1. r \in 1 .. n
        BY <2>3, <3>2
      <4> QED
        BY <2>3, <2>5, <4>1
    <3> QED
      BY <3>1, <3>2
  <2>7. \A r \in 1 .. n + 1 : CheckpointWave(plan, r - 1)' = CheckpointWave(plan, r - 1)
    BY <1>1 DEF CheckpointWave
  <2> QED
    BY <1>1, <2>1, <2>3, <2>4, <2>6, <2>7 DEF CoverInv
<1>3. CASE ~ EmitRow
  <2>1. rows' = rows /\ index' = index
    BY <1>3 DEF Next, BeginRow, AdvanceWave, Generate, AllocateOne, LeaveOne,
                CloseCategory, FinishTable, Returned, vars
  <2>2. \A k : CheckpointWave(plan, k)' = CheckpointWave(plan, k)
    BY <1>1 DEF CheckpointWave
  <2>3. CheckpointWave(plan, index)' = CheckpointWave(plan, index)
    BY <1>1, <2>1 DEF CheckpointWave
  <2>4. pc' \in {"advance", "allocate", "row"} => wave' <= plan.end
    BY <1>3 DEF CoverInv, TypeInv, TypeOK, Next, BeginRow, AdvanceWave, Generate,
         AllocateOne, LeaveOne, CloseCategory, FinishTable, Returned, vars
  <2>5. pc' = "done" => CheckpointWave(plan, index) > plan.end
    BY <1>3 DEF CoverInv, TypeInv, TypeOK, Next, BeginRow, AdvanceWave, Generate,
         AllocateOne, LeaveOne, CloseCategory, FinishTable, Returned, vars
  <2> QED
    BY <1>1, <2>1, <2>2, <2>3, <2>4, <2>5 DEF CoverInv
<1> QED
  BY <1>2, <1>3

LEMMA GridMonotone ==
  ASSUME PlanOK(plan), NEW i \in Nat, NEW j \in Nat, i <= j
  PROVE  /\ CheckpointWave(plan, i) \in Int /\ CheckpointWave(plan, j) \in Int
         /\ CheckpointWave(plan, i) <= CheckpointWave(plan, j)
<1> DEFINE E == plan.every
           I == plan.interval
<1>1. E \in Nat \ {0} /\ I \in Nat \ {0}
  BY DEF PlanOK
<1>2. FirstWave \in Int
  BY <1>1, FirstWaveFacts
<1>3. /\ CheckpointWave(plan, i) = FirstWave + I * (E * i)
      /\ CheckpointWave(plan, j) = FirstWave + I * (E * j)
  BY GridIsEvery DEF BossWave
<1> HIDE DEF E, I
<1>4. E * i \in Nat /\ E * j \in Nat /\ E * i <= E * j
  BY <1>1, ProductNat, ProductMonotone
<1>5. I * (E * i) \in Nat /\ I * (E * j) \in Nat /\ I * (E * i) <= I * (E * j)
  BY <1>1, <1>4, ProductNat, ProductMonotone
<1> QED
  BY <1>2, <1>3, <1>5

(* The next checkpoint is a later wave.                                    *)
LEMMA GridAdvances ==
  ASSUME PlanOK(plan), NEW k \in Nat
  PROVE  CheckpointWave(plan, k) < CheckpointWave(plan, k + 1)
<1> DEFINE E == plan.every
           I == plan.interval
<1>1. E \in Nat \ {0} /\ I \in Nat \ {0}
  BY DEF PlanOK
<1>2. FirstWave \in Int
  BY <1>1, FirstWaveFacts
<1>3. /\ CheckpointWave(plan, k) = FirstWave + I * (E * k)
      /\ CheckpointWave(plan, k + 1) = FirstWave + I * (E * (k + 1))
  BY GridIsEvery DEF BossWave
<1> HIDE DEF E, I
<1>4. E * k \in Nat /\ E * (k + 1) = E * k + E
  BY <1>1, ProductNat, Distribute
<1>5. I * (E * k) \in Nat /\ I * (E * k + E) = I * (E * k) + I * E
  BY <1>1, <1>4, ProductNat, Distribute
<1>6. I * E > 0
  BY <1>1
<1> QED
  BY <1>1, <1>2, <1>3, <1>4, <1>5, <1>6

(* A finished table has one row per selected boss wave of its scope, in    *)
(* order and each once, for every start, interval and thinning             *)
(* (build_checkpoint_wave_grid).                                           *)
THEOREM RowsAreTheBossWaves == Spec => []RowsCoverBossWaves
<1>1. Init => CoverInv
  <2>1. << >> \in Seq(RowType)
    OBVIOUS
  <2> QED
    BY <2>1 DEF Init, CoverInv
<1>2. TypeInv /\ RowsInv /\ CoverInv /\ [Next]_vars => CoverInv'
  BY CoverInvNext
<1>3. TypeInv /\ RowsInv /\ CoverInv => RowsCoverBossWaves
  <2> SUFFICES ASSUME TypeInv, RowsInv, CoverInv, pc = "done"
               PROVE  /\ { rows[r].display : r \in DOMAIN rows }
                            = { w \in Int : w <= plan.end
                                  /\ \E k \in Nat : w = CheckpointWave(plan, k) }
                      /\ \A r \in DOMAIN rows :
                           r > 1 => rows[r - 1].display < rows[r].display
    BY SelectedWaves DEF RowsCoverBossWaves, TypeInv
  <2>1. PlanOK(plan) /\ plan.end \in Int
    BY DEF TypeInv, PlanOK
  <2>2. rows \in Seq(RowType) /\ index = Len(rows) /\ index \in Nat
        /\ DOMAIN rows = 1 .. index
    BY DEF RowsInv, CoverInv
  <2>3. CheckpointWave(plan, index) > plan.end
    BY DEF CoverInv
  <2>4. ASSUME NEW r \in DOMAIN rows
        PROVE  /\ rows[r].display \in Int /\ rows[r].display <= plan.end
               /\ \E k \in Nat : rows[r].display = CheckpointWave(plan, k)
    <3>1. r - 1 \in Nat
      BY <2>2
    <3>2. rows[r].display = CheckpointWave(plan, r - 1) /\ rows[r].display <= plan.end
      BY DEF CoverInv
    <3>3. CheckpointWave(plan, r - 1) \in Int
      BY <2>1, <3>1, GridMonotone
    <3> QED
      BY <3>1, <3>2, <3>3
  <2>5. ASSUME NEW k \in Nat, CheckpointWave(plan, k) <= plan.end
        PROVE  \E r \in DOMAIN rows : rows[r].display = CheckpointWave(plan, k)
    <3>1. k < index
      <4>1. CASE k >= index
        <5>1. /\ CheckpointWave(plan, index) \in Int /\ CheckpointWave(plan, k) \in Int
              /\ CheckpointWave(plan, index) <= CheckpointWave(plan, k)
          BY <2>1, <2>2, <4>1, GridMonotone
        <5> QED
          BY <2>1, <2>3, <2>5, <5>1
      <4> QED
        BY <2>2, <4>1
    <3>2. k + 1 \in DOMAIN rows /\ (k + 1) - 1 = k
      BY <2>2, <3>1
    <3>3. rows[k + 1].display = CheckpointWave(plan, (k + 1) - 1)
      BY <3>2 DEF CoverInv
    <3> QED
      BY <3>2, <3>3
  <2>6. ASSUME NEW r \in DOMAIN rows, r > 1
        PROVE  rows[r - 1].display < rows[r].display
    <3>1. r - 1 \in DOMAIN rows /\ r - 2 \in Nat /\ (r - 1) - 1 = r - 2
          /\ (r - 2) + 1 = r - 1
      BY <2>2, <2>6
    <3>2. /\ rows[r].display = CheckpointWave(plan, r - 1)
          /\ rows[r - 1].display = CheckpointWave(plan, r - 2)
      BY <3>1 DEF CoverInv
    <3> QED
      BY <2>1, <3>1, <3>2, GridAdvances
  <2> QED
    BY <2>4, <2>5, <2>6
<1> QED
  BY <1>1, <1>2, <1>3, TypeInvAlways, RowsInvAlways, PTL DEF Spec
=============================================================================
