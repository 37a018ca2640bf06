------------------------------ MODULE RunPlan ------------------------------
(***************************************************************************)
(* The compiled run plan of the Boss Waves trajectory and the pure rules   *)
(* the trajectory loop reads from it (qe/run_plan.py), together with the   *)
(* choice of the skip-decay inputs made by the caller that compiles the    *)
(* plan (app/pipeline.py).                                                 *)
(*                                                                         *)
(* A fraction of the code (a float clamped to [0, 1]) is an integer number *)
(* of Unit-ths, so 1.0 is Unit and arithmetic is exact; the 1e-12 guard    *)
(* the code adds before flooring a carry is the identity here.             *)
(***************************************************************************)
EXTENDS Integers, Sequences

CONSTANTS
  Unit,          \* the integer that stands for the fraction 1.0
  Track,         \* workshop tracks
  NoTrack,       \* "": the skip chance is not tied to a workshop track
  NotGiven,      \* None: the caller gave no explicit skip reduction
  KBSchedule,    \* imported skip-decay curve: elapsed waves -> Unit-ths
  LevelCap,      \* highest workshop level the level tables know
  SkipOfLevel,   \* skip chance (Unit-ths) a skip track gives at each level
  HpOfLevel,     \* tower HP of each level of the tower HP track
  RatioOfLevel   \* wall HP ratio of each level of the wall HP track

LevelRange == 0 .. LevelCap

ASSUME UnitAssumption == Unit \in Nat \ {0}

(* The imported curve is a finite map from waves to amounts, the level     *)
(* tables cover every level a track can have.                              *)
ASSUME TableAssumption ==
  /\ LevelCap \in Nat
  /\ SkipOfLevel \in [LevelRange -> Int]
  /\ DOMAIN KBSchedule \subseteq Nat
  /\ \A t \in DOMAIN KBSchedule : KBSchedule[t] \in Nat

(* The imported values only grow: the decay along the run, tower HP and    *)
(* wall ratio with the workshop level.                                     *)
ASSUME GrowthAssumption ==
  /\ \A t, u \in DOMAIN KBSchedule : t <= u => KBSchedule[t] <= KBSchedule[u]
  /\ HpOfLevel \in [LevelRange -> Nat] /\ RatioOfLevel \in [LevelRange -> Nat]
  /\ \A m, n \in LevelRange : m <= n =>
       HpOfLevel[m] <= HpOfLevel[n] /\ RatioOfLevel[m] <= RatioOfLevel[n]

(* Enemy attack level and enemy health level advance in separate lanes.    *)
Lane == {"attack", "health"}

(* Mutant: only the upper bound is enforced.                               *)
CappedFraction(x) == IF x > Unit THEN Unit ELSE x

BoundedFraction(x) == IF x < 0 THEN 0 ELSE IF x > Unit THEN Unit ELSE x

NonNegative(x) == IF x < 0 THEN 0 ELSE x

AtLeastOne(x) == IF x < 1 THEN 1 ELSE x

(***************************************************************************)
(* Checkpoint grid                                                         *)
(***************************************************************************)

(* Mutant: a start on a boss wave moves to the next one.                   *)
FirstBossWaveAfter(start, interval) ==
  IF start < interval THEN interval
  ELSE start + (interval - (start % interval))

FirstBossWaveAtOrAfter(start, interval) ==
  IF start <= interval THEN interval
  ELSE IF start % interval = 0 THEN start
  ELSE start + (interval - (start % interval))

(* The k-th checkpoint wave (k counts from 0).                             *)
CheckpointWave(plan, k) ==
  FirstBossWaveAtOrAfter(plan.start, plan.interval) + k * plan.every * plan.interval

StartProgressionWave(plan) == NonNegative(plan.start - 1)

(***************************************************************************)
(* Skip chances                                                            *)
(***************************************************************************)

(* Mutant: only the wave of a threshold itself is matched.                 *)
ThresholdReachedNow(schedule, elapsed) ==
  { t \in DOMAIN schedule : t = elapsed }

Threshold(schedule, elapsed) == { t \in DOMAIN schedule : t <= elapsed }

LatestOf(S) == CHOOSE t \in S : \A u \in S : u <= t

(* The schedule answers when it has started and its latest threshold       *)
(* carries a positive amount; otherwise the stepwise rule answers.         *)
ScheduleAnswers(plan, wave) ==
  /\ plan.decayStart > 0 /\ wave >= plan.decayStart
  /\ LET active == Threshold(plan.schedule, wave - plan.decayStart)
     IN active # {} /\ plan.schedule[LatestOf(active)] > 0

StepwiseAnswers(plan, wave) ==
  /\ plan.decayStart > 0 /\ wave >= plan.decayStart
  /\ plan.decayInterval > 0 /\ plan.decayFraction > 0

EnemySkipDecayDelta(plan, wave) ==
  IF ScheduleAnswers(plan, wave)
  THEN 0 - plan.schedule[LatestOf(Threshold(plan.schedule, wave - plan.decayStart))]
  ELSE IF StepwiseAnswers(plan, wave)
  THEN 0 - plan.decayFraction * ((wave - plan.decayStart) \div plan.decayInterval)
  ELSE 0

(* The fallback chance is used when no workshop track drives the lane.     *)
RowSkipChance(plan, lane, levels, decay) ==
  LET track == plan.skipTrack[lane]
      base  == IF track = NoTrack
               THEN BoundedFraction(plan.skipFallback[lane])
               ELSE SkipOfLevel[levels[track]]
  IN BoundedFraction(base + plan.skipDelta + decay)

(***************************************************************************)
(* Death Wave health: 1 + (max - 1) * min(1, wave / maxWave), times        *)
(* maxWave to stay in the integers; a maximum of at most 1 is constant.    *)
(***************************************************************************)
(* Mutant: the progress is lost once the last Death Wave is passed.        *)
DeathWaveWrapsAround(plan, wave) ==
  plan.deathWaveMaxWave + (plan.deathWaveMax - 1) * (wave % plan.deathWaveMaxWave)

DeathWaveMultiplier(plan, wave) ==
  LET reached == IF wave < plan.deathWaveMaxWave THEN wave ELSE plan.deathWaveMaxWave
  IN IF plan.deathWaveMax <= 1 THEN plan.deathWaveMax * plan.deathWaveMaxWave
     ELSE plan.deathWaveMaxWave + (plan.deathWaveMax - 1) * reached

(* The row's wall HP when both the tower HP and the wall ratio come from   *)
(* workshop tracks; Death Wave multiplies the tower HP.                    *)
RederivedWallHp(plan, levels, wave) ==
  NonNegative(HpOfLevel[levels[plan.towerHpTrack]] * DeathWaveMultiplier(plan, wave)
                * RatioOfLevel[levels[plan.wallHpTrack]])

(***************************************************************************)
(* The caller: which decay the plan is compiled with.  A scenario gives    *)
(* the mode, an explicit skip reduction or NotGiven, the reduction of the  *)
(* battle condition, the wave Overheat starts and an optional stepwise     *)
(* decay.                                                                  *)
(***************************************************************************)
UsesTournamentCurve(s) == s.mode = "tournament" /\ s.reduction = NotGiven

UsesStepwiseDecay(s) == s.decayFraction > 0 /\ s.decayInterval > 0

UsesCurve(s) ==
  UsesTournamentCurve(s) \/ (~UsesStepwiseDecay(s) /\ s.overheatStart > 0)

EmptySchedule == [t \in {} |-> 0]

DecaySchedule(s) == IF UsesCurve(s) THEN KBSchedule ELSE EmptySchedule

DecayStart(s) ==
  IF UsesTournamentCurve(s) THEN 0
  ELSE IF UsesStepwiseDecay(s) \/ UsesCurve(s) THEN s.overheatStart
  ELSE 0

SkipDelta(s) ==
  IF UsesTournamentCurve(s) THEN 0
  ELSE 0 - (IF s.reduction = NotGiven THEN s.bcReduction ELSE s.reduction)

CompileRunPlan(s) ==
  [ start |-> s.start, end |-> s.end, interval |-> AtLeastOne(s.interval),
    every |-> AtLeastOne(s.every),
    skipTrack |-> s.skipTrack, skipFallback |-> s.skipFallback,
    skipDelta |-> SkipDelta(s), decayStart |-> NonNegative(DecayStart(s)),
    decayFraction |-> BoundedFraction(s.decayFraction),
    decayInterval |-> NonNegative(s.decayInterval),
    schedule |-> DecaySchedule(s),
    chance |-> [c \in DOMAIN s.chance |-> BoundedFraction(s.chance[c])],
    order |-> s.order, maxLevel |-> s.maxLevel, levels |-> s.levels,
    towerHpTrack |-> s.towerHpTrack, wallHpTrack |-> s.wallHpTrack,
    deathWaveMax |-> s.deathWaveMax, deathWaveMaxWave |-> s.deathWaveMaxWave,
    curveSource |-> UsesCurve(s) ]
=============================================================================
