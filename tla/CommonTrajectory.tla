-------------------------- MODULE CommonTrajectory -------------------------
(***************************************************************************)
(* Table 1 of Boss Waves: the loop of build_common_trajectory              *)
(* (qe/run_plan.py) at the grain of its inner loops.  For every checkpoint *)
(* wave of the grid it derives the skip chances from the levels reached so *)
(* far (BeginRow), advances the attack and health levels one display wave  *)
(* at a time (AdvanceWave), generates free upgrades for the whole gap      *)
(* (Generate), hands them out category by category in a rotation           *)
(* (AllocateOne, LeaveOne, CloseCategory) and emits the row (EmitRow).     *)
(*                                                                         *)
(* The candidate list of a category always is a subsequence of the         *)
(* category's track order, so it is kept as the set of its positions in    *)
(* that order: the list's index i is the position of rank i.               *)
(***************************************************************************)
EXTENDS RunPlan, FiniteSetsExt, Functions

CONSTANTS
  NCategory,    \* CATEGORY_IDS: attack, defense, utility are 1, 2, 3
  Scenarios     \* the inputs a caller may compile a plan from

Category == 1 .. NCategory

ASSUME CategoryAssumption == NCategory \in Nat \ {0}

(* A track has one place in one order: the orders are built by walking the *)
(* keys of the level map once, and a track has one category                *)
(* (default_category_track_order).                                         *)
DistinctTracks(order) ==
  \A c, d \in Category : \A p \in DOMAIN order[c], q \in DOMAIN order[d] :
    order[c][p] = order[d][q] => c = d /\ p = q

(* The inputs as their dataclass types them; levels are within the tables. *)
Compilable(s) ==
  /\ s.start \in Int /\ s.end \in Int /\ s.interval \in Int /\ s.every \in Int
  /\ s.skipTrack \in [Lane -> Track \cup {NoTrack}]
  /\ s.skipFallback \in [Lane -> Int]
  /\ s.reduction = NotGiven \/ s.reduction \in Int
  /\ s.bcReduction \in Int /\ s.overheatStart \in Int
  /\ s.decayFraction \in Int /\ s.decayInterval \in Int
  /\ s.chance \in [Category -> Int]
  /\ s.order \in [Category -> Seq(Track)] /\ DistinctTracks(s.order)
  /\ s.levels \in [Track -> LevelRange] /\ s.maxLevel \in [Track -> LevelRange]
  /\ s.towerHpTrack \in Track /\ s.wallHpTrack \in Track
  /\ s.deathWaveMax \in Nat /\ s.deathWaveMaxWave \in Nat \ {0}

ASSUME ScenariosAssumption == \A s \in Scenarios : Compilable(s)

VARIABLES
  plan,         \* the compiled plan; frozen
  pc,           \* where the loop is
  index,        \* checkpoint index of the row under construction
  wave,         \* its display wave, the target of the gap
  skip,         \* skip chance of each lane over the gap
  display, level, counter,          \* WaveProgressionRecurrence
  carry, nextIndex, genTotal, allocTotal,   \* FreeUpgradeRecurrence
  levels,       \* workshop levels
  previous,     \* display wave of the previous row
  gen, alloc, unalloc,              \* of the last step, per category
  cat, left, cands,                 \* the allocation loops
  rows,         \* the table
  owed          \* history: all the skip chance a lane has been given

progression == << display, level, counter, owed >>
recurrence  == << carry, nextIndex, genTotal, allocTotal >>
allocation  == << gen, alloc, unalloc, cat, left, cands >>
vars == << plan, pc, index, wave, skip, progression, recurrence, levels,
           previous, allocation, rows >>

-----------------------------------------------------------------------------
Order(c) == plan.order[c]
MaxLevel(t) == plan.maxLevel[t]

(* Positions of the category's tracks that are still below their maximum.  *)
Candidates(c, lv) ==
  { p \in DOMAIN Order(c) : lv[Order(c)[p]] < MaxLevel(Order(c)[p]) }

Rank(p, S) == Cardinality({ q \in S : q < p })

-----------------------------------------------------------------------------
Init ==
  /\ \E s \in Scenarios : plan = CompileRunPlan(s)
  /\ pc = IF plan.end < plan.start THEN "failed" ELSE "checkpoint"
  /\ index = 0
  /\ wave = StartProgressionWave(plan)
  /\ skip = [l \in Lane |-> 0]
  /\ display = StartProgressionWave(plan)
  /\ level = [l \in Lane |-> StartProgressionWave(plan)]
  /\ counter = [l \in Lane |-> 0]
  /\ owed = [l \in Lane |-> 0]
  /\ carry = [c \in Category |-> 0]
  /\ nextIndex = [c \in Category |-> 0]
  /\ genTotal = [c \in Category |-> 0]
  /\ allocTotal = [c \in Category |-> 0]
  /\ levels = plan.levels
  /\ previous = StartProgressionWave(plan)
  /\ gen = [c \in Category |-> 0]
  /\ alloc = [c \in Category |-> 0]
  /\ unalloc = [c \in Category |-> 0]
  /\ cat = 1 /\ left = 0 /\ cands = {}
  /\ rows = << >>

(* Next checkpoint of the grid.  The decay is the one of the checkpoint    *)
(* wave and the workshop levels are those left by the previous row.        *)
BeginRow ==
  /\ pc = "checkpoint"
  /\ CheckpointWave(plan, index) <= plan.end
  /\ wave' = CheckpointWave(plan, index)
  /\ skip' = [l \in Lane |->
                RowSkipChance(plan, l, levels, EnemySkipDecayDelta(plan, wave'))]
  /\ pc' = "advance"
  /\ UNCHANGED << plan, index, progression, recurrence, levels, previous,
                  allocation, rows >>

(* Waves suppressed in a lane by this wave's share of skip chance.         *)
Suppressed(l) == (counter[l] + skip[l]) \div Unit

(* Mutant: a suppressed wave clears the counter.                           *)
RemainderDropped(l) ==
  IF Suppressed(l) > 0 THEN 0 ELSE counter[l] + skip[l]

Remainder(l) == (counter[l] + skip[l]) - Unit * Suppressed(l)

AdvanceWave ==
  /\ pc = "advance"
  /\ display < wave
  /\ display' = display + 1
  /\ level' = [l \in Lane |-> level[l] + NonNegative(1 - Suppressed(l))]
  /\ counter' = [l \in Lane |-> Remainder(l)]
  /\ owed' = [l \in Lane |-> owed[l] + skip[l]]
  /\ UNCHANGED << plan, pc, index, wave, skip, recurrence, levels, previous,
                  allocation, rows >>

(* Mutant: the carry of the previous gap is forgotten.                     *)
EarnedWithoutCarry(c) == plan.chance[c] * (wave - previous)

(* Free upgrades of the whole gap: the carry plus chance times waves.      *)
Earned(c) == carry[c] + plan.chance[c] * (wave - previous)

Generate ==
  /\ pc = "advance"
  /\ display = wave
  /\ gen' = [c \in Category |-> Earned(c) \div Unit]
  /\ carry' = [c \in Category |-> Earned(c) - Unit * (Earned(c) \div Unit)]
  /\ genTotal' = [c \in Category |-> genTotal[c] + gen'[c]]
  /\ alloc' = [c \in Category |-> 0]
  /\ unalloc' = [c \in Category |-> 0]
  /\ cat' = 1 /\ left' = gen'[1] /\ cands' = Candidates(1, levels)
  /\ pc' = "allocate"
  /\ UNCHANGED << plan, index, wave, skip, progression, nextIndex, allocTotal,
                  levels, previous, rows >>

(* Mutants: the bound checked after an allocation is off by one.           *)
StaysOpenTooLong(t) == levels[t] + 1 <= MaxLevel(t)
ClosesTooEarly(t) == levels[t] + 2 < MaxLevel(t)

StaysOpen(t) == levels[t] + 1 < MaxLevel(t)

(* Mutant: the turn is taken in the whole order, the last candidate stands *)
(* in for the tracks that have left the list.                              *)
TurnOfWholeOrder ==
  LET turn == nextIndex[cat] % Len(Order(cat)) IN
    IF turn < Cardinality(cands) THEN turn ELSE Cardinality(cands) - 1

(* The rank of the candidate whose turn it is.                             *)
Turn == nextIndex[cat] % Cardinality(cands)

(* One upgrade goes to the candidate the rotation points at; a track that  *)
(* reaches its maximum leaves the list, the rotation index stays.          *)
AllocateOne ==
  /\ pc = "allocate" /\ left > 0
  /\ \E p \in cands :
       /\ Rank(p, cands) = Turn
       /\ LET t == Order(cat)[p] IN
          /\ levels' = [levels EXCEPT ![t] = @ + 1]
          /\ cands' = IF StaysOpen(t) THEN cands ELSE cands \ {p}
  /\ alloc' = [alloc EXCEPT ![cat] = @ + 1]
  /\ nextIndex' = [nextIndex EXCEPT ![cat] = @ + 1]
  /\ left' = left - 1
  /\ UNCHANGED << plan, pc, index, wave, skip, progression, carry, genTotal,
                  allocTotal, previous, gen, unalloc, cat, rows >>

(* Mutant: an upgrade without a candidate is not reported.                 *)
LeaveOneUnreported ==
  /\ pc = "allocate" /\ left > 0
  /\ cands = {}
  /\ left' = left - 1
  /\ UNCHANGED << plan, pc, index, wave, skip, progression, recurrence, levels,
                  previous, gen, alloc, unalloc, cat, cands, rows >>

LeaveOne ==
  /\ pc = "allocate" /\ left > 0
  /\ cands = {}
  /\ unalloc' = [unalloc EXCEPT ![cat] = @ + 1]
  /\ left' = left - 1
  /\ UNCHANGED << plan, pc, index, wave, skip, progression, recurrence, levels,
                  previous, gen, alloc, cat, cands, rows >>

(* Mutant: every row restarts the rotation.                                *)
RotationRestarted(c) == 0

(* The rotation index is kept modulo the number of tracks of the category, *)
(* not of its candidates.                                                  *)
NormalisedIndex(c) ==
  IF Len(Order(c)) > 1 THEN nextIndex[c] % Len(Order(c)) ELSE nextIndex[c]

(* Mutant: the total forgets the earlier rows.                             *)
AllocatedThisRow(c) == alloc[c]

AllocatedSoFar(c) == allocTotal[c] + alloc[c]

CloseCategory ==
  /\ pc = "allocate" /\ left = 0
  /\ nextIndex' = [nextIndex EXCEPT ![cat] = NormalisedIndex(cat)]
  /\ IF cat < NCategory
     THEN /\ cat' = cat + 1
          /\ left' = gen[cat + 1]
          /\ cands' = Candidates(cat + 1, levels)
          /\ UNCHANGED << pc, allocTotal >>
     ELSE /\ allocTotal' = [c \in Category |-> AllocatedSoFar(c)]
          /\ pc' = "row"
          /\ UNCHANGED << cat, left, cands >>
  /\ UNCHANGED << plan, index, wave, skip, progression, carry, genTotal, levels,
                  previous, gen, alloc, unalloc, rows >>

Row ==
  [ display |-> wave, level |-> level, skip |-> skip, levels |-> levels,
    unalloc |-> unalloc, wallHp |-> RederivedWallHp(plan, levels, wave) ]

EmitRow ==
  /\ pc = "row"
  /\ rows' = Append(rows, Row)
  /\ previous' = wave
  /\ index' = index + 1
  /\ pc' = "checkpoint"
  /\ UNCHANGED << plan, wave, skip, progression, recurrence, levels, allocation >>

FinishTable ==
  /\ pc = "checkpoint"
  /\ CheckpointWave(plan, index) > plan.end
  /\ pc' = "done"
  /\ UNCHANGED << plan, index, wave, skip, progression, recurrence, levels,
                  previous, allocation, rows >>

(* The call has returned its table, or raised.                             *)
Returned == pc \in {"done", "failed"} /\ UNCHANGED vars

Next ==
  \/ BeginRow \/ AdvanceWave \/ Generate
  \/ AllocateOne \/ LeaveOne \/ CloseCategory
  \/ EmitRow \/ FinishTable
  \/ Returned

Spec == Init /\ [][Next]_vars

-----------------------------------------------------------------------------
(***************************************************************************)
(* Properties                                                              *)
(***************************************************************************)
Fraction == 0 .. Unit
Levels == [Track -> LevelRange]

(* Every field stays in the type its dataclass declares.                   *)
TypeOK ==
  /\ pc \in {"checkpoint", "advance", "allocate", "row", "done", "failed"}
  /\ index \in Nat /\ wave \in Nat /\ display \in Nat /\ previous \in Nat
  /\ skip \in [Lane -> Fraction]
  /\ level \in [Lane -> Nat] /\ counter \in [Lane -> Nat] /\ owed \in [Lane -> Nat]
  /\ carry \in [Category -> Nat] /\ nextIndex \in [Category -> Nat]
  /\ genTotal \in [Category -> Nat] /\ allocTotal \in [Category -> Nat]
  /\ gen \in [Category -> Nat] /\ alloc \in [Category -> Nat]
  /\ unalloc \in [Category -> Nat]
  /\ levels \in Levels
  /\ cat \in Category /\ left \in Nat /\ cands \subseteq Nat

(* Flooring the skip counter loses nothing: the waves a lane has been      *)
(* spared, plus what its counter still holds, is all the chance it was     *)
(* given, whatever the gaps and however the chance changed between them    *)
(* (advance_wave_progression).                                             *)
LaneAccounting ==
  \A l \in Lane :
    /\ Unit * (display - level[l]) + counter[l] = owed[l]
    /\ counter[l] < Unit

(* Free upgrades generated so far are exactly the floor of chance times    *)
(* the waves played, so they do not depend on how coarse the checkpoint    *)
(* grid is (advance_free_upgrade_generation).                              *)
Settled == IF pc \in {"allocate", "row"} THEN wave ELSE previous

GenerationAccounting ==
  \A c \in Category :
    /\ Unit * genTotal[c] + carry[c]
         = plan.chance[c] * (Settled - StartProgressionWave(plan))
    /\ carry[c] < Unit

(* Every upgrade generated in this step is allocated, left over, or still  *)
(* to be handed out (allocate_free_upgrades).                              *)
Pending(c) == IF c < cat THEN 0 ELSE IF c = cat THEN left ELSE gen[c]

StepConserved ==
  pc = "allocate" =>
    \A c \in Category : gen[c] = alloc[c] + unalloc[c] + Pending(c)

(* The fast path works on a candidate list computed once per category; it  *)
(* is at every iteration the list the stepwise rule would recompute from   *)
(* the levels (allocate_free_upgrades).                                    *)
CandidatesCurrent ==
  pc = "allocate" => cands = Candidates(cat, levels)

(* An upgrade is left over only when every track of its category has       *)
(* reached its maximum.                                                    *)
NothingWasted ==
  pc \in {"allocate", "row"} =>
    \A c \in Category : unalloc[c] > 0 => Candidates(c, levels) = {}

(* Free upgrades never push a track beyond its maximum.                    *)
LevelsWithinMax ==
  \A t \in Track : levels[t] > plan.levels[t] => levels[t] <= MaxLevel(t)

(* The levels gained in a category are the upgrades allocated to it: no    *)
(* upgrade raises two tracks or a track of another category.               *)
Gains(c, lv) ==
  [p \in DOMAIN Order(c) |-> lv[Order(c)[p]] - plan.levels[Order(c)[p]]]

Gained(c) == SumFunction(Gains(c, levels))

LevelAccounting ==
  \A c \in Category :
    Gained(c) = allocTotal[c] + (IF pc = "allocate" THEN alloc[c] ELSE 0)

(* The rotation.  As long as no track of a category has reached its        *)
(* maximum, it keeps their gains within one level of each other, across    *)
(* rows too.  Once tracks are full the index that a row leaves behind is   *)
(* reduced modulo all tracks of the category, so a row starts anywhere     *)
(* among the open ones and the next rows may favour the same track; but    *)
(* from wherever it starts, a row treats the tracks that stay open alike,  *)
(* up to one level and one more for every track that fills during it       *)
(* (allocate_free_upgrades).                                               *)
BalancedAcrossRows ==
  \A c \in Category :
    (\A p \in DOMAIN Order(c) : levels[Order(c)[p]] < MaxLevel(Order(c)[p])) =>
      \A p, q \in DOMAIN Order(c) :
        Gains(c, levels)[p] <= Gains(c, levels)[q] + 1

LevelsBeforeRow == IF rows = << >> THEN plan.levels ELSE rows[Len(rows)].levels

GainInRow(c, p) == levels[Order(c)[p]] - LevelsBeforeRow[Order(c)[p]]

FilledInRow(c) == Candidates(c, LevelsBeforeRow) \ Candidates(c, levels)

BalancedWithinRow ==
  \A c \in Category : \A p, q \in Candidates(c, levels) :
    GainInRow(c, p) <= GainInRow(c, q) + 1 + Cardinality(FilledInRow(c))

RotationBalanced == BalancedAcrossRows /\ BalancedWithinRow

(* Over the whole table, what was generated and not allocated is what the  *)
(* rows report as unallocated.                                             *)
TableConserved ==
  pc \in {"checkpoint", "done"} =>
    \A c \in Category :
      genTotal[c] - allocTotal[c]
        = SumFunction([r \in DOMAIN rows |-> rows[r].unalloc[c]])

(* A finished table has one row per selected boss wave of the scope, in    *)
(* order and each once: every boss wave from the start wave on, thinned by *)
(* checkpoint_every_bosses counted from the first of them                  *)
(* (build_checkpoint_wave_grid).                                           *)
BossWaves ==
  { w \in 1 .. plan.end : w >= plan.start /\ w % plan.interval = 0 }

RowsCoverBossWaves ==
  pc = "done" =>
    /\ { rows[r].display : r \in DOMAIN rows }
         = { w \in BossWaves :
               Cardinality({ v \in BossWaves : v < w }) % plan.every = 0 }
    /\ \A r \in DOMAIN rows : r > 1 => rows[r - 1].display < rows[r].display

(* The tower only gets stronger along the run: wall HP rederived from the  *)
(* evolved levels and Death Wave never drops from a row to the next.       *)
WallHpNeverDrops ==
  \A r \in DOMAIN rows : r > 1 => rows[r].wallHp >= rows[r - 1].wallHp

(* Skip decay is one way: the chance of a lane without a workshop track    *)
(* never rises again once Overheat has lowered it.                         *)
DecayNeverRecovers ==
  \A r \in DOMAIN rows : r > 1 =>
    \A l \in Lane : plan.skipTrack[l] = NoTrack =>
      rows[r].skip[l] <= rows[r - 1].skip[l]

(* The two recurrences of the loop lose nothing to flooring: skip chance is *)
(* counted out in whole waves, upgrades in whole upgrades, and what remains *)
(* is carried (advance_wave_progression, advance_free_upgrade_generation). *)
RecurrencesExact == LaneAccounting /\ GenerationAccounting

(* The one-pass allocation is the stepwise rule at every iteration, gives  *)
(* away all it can and nothing that a track cannot take                    *)
(* (allocate_free_upgrades).                                               *)
AllocationExact ==
  StepConserved /\ CandidatesCurrent /\ NothingWasted /\ LevelsWithinMax

(* Levels, totals and rows are three records of the same upgrades, written *)
(* at different points of the loop: they agree whenever they are read.     *)
UpgradesConserved == LevelAccounting /\ TableConserved

(* From a row to the next the wall only grows and the decay only deepens,  *)
(* whatever the levels, Death Wave and the schedule do in between.         *)
RowsGoOneWay == WallHpNeverDrops /\ DecayNeverRecovers

(* The plan names the imported curve as the source of its skip decay; then *)
(* the curve lowers the chance of every row it covers, in tournament mode  *)
(* as in farming.                                                          *)
CurveLowersSkip ==
  \A r \in DOMAIN rows, l \in Lane :
    /\ plan.curveSource
    /\ plan.skipTrack[l] = NoTrack
    /\ rows[r].display >= plan.decayStart
    => LET active == Threshold(KBSchedule, rows[r].display - plan.decayStart)
           raw    == plan.skipFallback[l] + plan.skipDelta
       IN active # {} /\ KBSchedule[LatestOf(active)] > 0 /\ raw \in 1 .. Unit
            => rows[r].skip[l] < raw
=============================================================================
