---------------------------- MODULE PerkTimeline ---------------------------
(***************************************************************************)
(* The runtime perk timeline (simulators/perk_timeline_generator.py) and   *)
(* its two readers: perk_state_at_wave, which counts rows, and the Boss    *)
(* Waves schedule (app/pipeline.py), which Table 1 looks up by wave.       *)
(*                                                                         *)
(* An offer is a weighted draw of a seeded generator; the model offers any *)
(* perks of the pool in any order.  Waves a perk costs are kept in percent *)
(* of a wave, so the floor of the exact sum is a division by 100.          *)
(***************************************************************************)
EXTENDS Integers, Sequences, Functions, FiniteSetsExt

CONSTANTS
  Perk, MaxPicks,   \* perks and how often each can be taken; 0: no limit
  RequiredUw,       \* ultimate weapon a perk needs, or NoUw
  NoUw,
  Pwr,              \* Perk Wave Requirement
  Sections,         \* cost sections: <<perks taken threshold, base waves>>
  NoChoice,         \* no first perk choice, or no perk to take
  Policies

ASSUME SectionsAssumption ==
  /\ Sections \in Seq(Int \X Int) /\ Sections # << >>
  /\ \A i \in DOMAIN Sections \ {1} : Sections[i - 1][1] < Sections[i][1]

ASSUME PerkAssumption ==
  IsFiniteSet(Perk) /\ NoChoice \notin Perk /\ MaxPicks \in [Perk -> Int]

ASSUME PoliciesAssumption ==
  \A p \in Policies :
    /\ p.priority \in Seq(Perk) /\ p.optionQuantity \in Int
    /\ p.lab \in Int /\ p.pwrPercent \in Nat /\ p.target \in Int

VARIABLES
  policy,     \* PerkTimelinePolicy; frozen
  pool,       \* perks that can still be offered
  counts,     \* taken_counts
  wave,       \* current_wave
  stacks,     \* pwr_stacks
  timeline,   \* rows emitted
  done

vars == << policy, pool, counts, wave, stacks, timeline, done >>

-----------------------------------------------------------------------------
Larger(a, b) == IF a >= b THEN a ELSE b
Smaller(a, b) == IF a <= b THEN a ELSE b
Elements(s) == { s[i] : i \in DOMAIN s }

(* The ban list counts up to the capacity of the Ban Perks lab.            *)
Banned(p) == { p.banned[i] : i \in 1 .. Smaller(Len(p.banned), p.banCapacity) }

Eligible(p) ==
  { k \in Perk \ Banned(p) : RequiredUw[k] = NoUw \/ RequiredUw[k] \in p.unlocked }

Open(k, taken) == MaxPicks[k] <= 0 \/ taken[k] < MaxPicks[k]

(* Mutant: the requirement perk lengthens the steps.                       *)
StepExactLengthened(base, n) ==
  Larger(0, (base - policy.lab) * (100 + n * policy.pwrPercent))

(* Cost of a perk, in percent of a wave, with n requirement perks taken.   *)
StepExact(base, n) ==
  Larger(0, (base - policy.lab) * Larger(0, 100 - n * policy.pwrPercent))

(* How many of the first n perks section i pays for.                       *)
SectionCount(i, n) ==
  LET before == n - (Sections[i][1] - Sections[1][1])
      capped == IF i < Len(Sections)
                THEN Smaller(before, Sections[i + 1][1] - Sections[i][1]) ELSE before
  IN Larger(0, capped)

(* Wave the n-th perk is due; every section is priced at today's stacks.   *)
IdealWave(n, s) ==
  SumFunction([i \in DOMAIN Sections |-> SectionCount(i, n) * StepExact(Sections[i][2], s)]) \div 100

FirstWave ==
  Larger(1, Min({ Sections[i][2] : i \in DOMAIN Sections }) - policy.lab)

DueWave(n, s) ==
  IF n = 1 THEN Larger(IdealWave(n, s), FirstWave) ELSE IdealWave(n, s)

(* Mutant: a perk that became due in the past is dated back.               *)
NextWaveUnclamped == DueWave(Len(timeline) + 1, stacks)

NextWave == Larger(wave, DueWave(Len(timeline) + 1, stacks))

(* Mutants: the wave reached is tested, or the target wave is left out.    *)
DueInTimeOfLast == wave <= policy.target
DueInTimeStrict == NextWave < policy.target

DueInTime == NextWave <= policy.target

-----------------------------------------------------------------------------
(* Offers                                                                  *)

OfferSize == Larger(2, Smaller(4, 2 + Larger(0, policy.optionQuantity)))

Samples ==
  { o \in [1 .. Smaller(OfferSize, Cardinality(pool)) -> pool] :
      \A i, j \in DOMAIN o : o[i] = o[j] => i = j }

(* Mutants: the first choice is put in unchecked, or never put in.         *)
OfferedUnchecked(sample) ==
  IF timeline = << >> /\ policy.first # NoChoice /\ policy.first \notin Elements(sample)
  THEN [sample EXCEPT ![Len(sample)] = policy.first] ELSE sample
OfferedAsDrawn(sample) == sample

(* The first offer always holds the first perk choice.                     *)
Offered(sample) ==
  IF /\ timeline = << >> /\ policy.first \in Eligible(policy)
     /\ policy.first \notin Elements(sample)
  THEN [sample EXCEPT ![Len(sample)] = policy.first]
  ELSE sample

(* The best of a preference list that is offered and can still be taken.   *)
Best(preference, offered) ==
  LET able == { i \in DOMAIN preference :
                  preference[i] \in Elements(offered) /\ Open(preference[i], counts) }
  IN IF able = {} THEN NoChoice ELSE preference[Min(able)]

Chosen(offered) ==
  IF Best(policy.priority, offered) # NoChoice THEN Best(policy.priority, offered)
  ELSE Best(offered, offered)

-----------------------------------------------------------------------------
Init ==
  /\ policy \in Policies
  /\ pool = Eligible(policy)
  /\ counts = [k \in Perk |-> 0]
  /\ wave = 0 /\ stacks = 0
  /\ timeline = << >>
  /\ done = FALSE

(* Mutant: a perk leaves the pool one pick too late.                       *)
RemainingLate(k) == IF MaxPicks[k] > 0 /\ counts[k] >= MaxPicks[k] THEN pool \ {k} ELSE pool

Remaining(k) ==
  IF MaxPicks[k] > 0 /\ counts[k] + 1 >= MaxPicks[k] THEN pool \ {k} ELSE pool

Row(k) ==
  [ wave |-> NextWave, perk |-> k, quantity |-> counts[k] + 1 ]

Take(k) ==
  /\ counts' = [counts EXCEPT ![k] = @ + 1]
  /\ stacks' = IF k = Pwr THEN stacks + 1 ELSE stacks
  /\ timeline' = Append(timeline, Row(k))
  /\ pool' = Remaining(k)
  /\ wave' = NextWave
  /\ UNCHANGED << policy, done >>

(* One round of the loop: an offer is drawn and a perk taken, or nothing   *)
(* offered can be taken and the timeline ends.                             *)
TakePerk ==
  /\ ~ done /\ pool # {} /\ DueInTime
  /\ \E sample \in Samples :
       LET k == Chosen(Offered(sample)) IN
       IF k = NoChoice
       THEN done' = TRUE /\ UNCHANGED << policy, pool, counts, wave, stacks, timeline >>
       ELSE Take(k)

Finish ==
  /\ ~ done
  /\ pool = {} \/ ~ DueInTime
  /\ done' = TRUE
  /\ UNCHANGED << policy, pool, counts, wave, stacks, timeline >>

Returned == done /\ UNCHANGED vars

Next == TakePerk \/ Finish \/ Returned

Spec == Init /\ [][Next]_vars

-----------------------------------------------------------------------------
(* The readers of the timeline.                                            *)

(* perk_state_at_wave                                                      *)
CountsAt(w) ==
  [k \in Perk |-> Cardinality({ i \in DOMAIN timeline :
                                  timeline[i].perk = k /\ timeline[i].wave <= w })]

(* Mutant: the first row of a wave is kept instead of the last.            *)
ScheduleOfFirst(w) ==
  LET last == Min({ i \in DOMAIN timeline : timeline[i].wave = w })
  IN [k \in Perk |-> Cardinality({ i \in 1 .. last : timeline[i].perk = k })]

(* _boss_wave_perk_counts_by_wave: counts after the last row of a wave     *)
ScheduleOf(w) ==
  LET last == Max({ i \in DOMAIN timeline : timeline[i].wave = w })
  IN [k \in Perk |-> Cardinality({ i \in 1 .. last : timeline[i].perk = k })]

(* _scheduled_mapping_at_wave: the entry of the latest wave reached        *)
ScheduledAt(w) ==
  LET reached == { timeline[i].wave : i \in DOMAIN timeline } \cap 0 .. w
  IN IF reached = {} THEN [k \in Perk |-> 0] ELSE ScheduleOf(Max(reached))

-----------------------------------------------------------------------------
(* Properties                                                              *)

(* The state keeps its types.                                              *)
TypeOK ==
  /\ pool \subseteq Perk /\ counts \in [Perk -> Nat]
  /\ wave \in Nat /\ stacks \in Nat /\ done \in BOOLEAN
  /\ timeline # << >> => wave <= policy.target
  /\ timeline \in Seq([wave : Nat, perk : Perk, quantity : Nat])

(* A perk is in the pool exactly while it is eligible and can still be     *)
(* taken, so an offer never wastes a slot and never comes up empty.        *)
PoolOpen == pool = { k \in Eligible(policy) : Open(k, counts) }

(* No perk that is banned, or whose weapon is locked, is ever taken: not   *)
(* even as the first perk choice.                                          *)
OnlyEligibleTaken == \A i \in DOMAIN timeline : timeline[i].perk \in Eligible(policy)

(* Rows come in wave order although taking the requirement perk makes the  *)
(* next perks due in the past; Table 1 keeps one entry per wave.           *)
WavesOrdered ==
  \A i \in DOMAIN timeline : i > 1 => timeline[i - 1].wave <= timeline[i].wave

(* The requirement perk is retroactive: no perk comes later than it would  *)
(* have without one, where only the wave of the first perk holds a later   *)
(* one back, and none earlier than all the stacks taken so far allow.      *)
RetroactiveBounds ==
  \A i \in DOMAIN timeline :
    /\ timeline[i].wave <= Larger(DueWave(i, 0), FirstWave)
    /\ timeline[i].wave >= IdealWave(i, stacks)

(* The first perk choice, ranked first, is the first perk of the timeline. *)
FirstChoiceHonoured ==
  ( /\ timeline # << >> /\ policy.priority # << >>
    /\ policy.first = policy.priority[1] /\ policy.first \in Eligible(policy) )
  => timeline[1].perk = policy.first

(* The diagnostics of the timeline price a perk at                         *)
(* floor((base - lab) * (1 - stacks * reduction)); the waves are sums of   *)
(* those steps.  The code floors the sum alone.                            *)
StepsAreFloored ==
  ~ done /\ timeline # << >> =>
    IdealWave(Len(timeline) + 1, stacks) =
      SumFunction([i \in DOMAIN Sections |->
                     SectionCount(i, Len(timeline) + 1) * (StepExact(Sections[i][2], stacks) \div 100)])

(* Both readers see the same perks at every wave, in a burst of perks at   *)
(* one wave too.                                                           *)
ReadersAgree == \A w \in 0 .. policy.target : ScheduledAt(w) = CountsAt(w)

(* The timeline ends only when nothing can be taken any more or the next   *)
(* perk is due beyond the target wave.                                     *)
CompleteWhenDone ==
  done => \/ \A k \in Eligible(policy) : ~ Open(k, counts)
          \/ ~ (NextWave <= policy.target)

(* The picks of a timeline are legal, and it leaves none out: the pool     *)
(* holds what can be taken, the first choice is taken first, and the       *)
(* timeline ends only when nothing is left or due.                         *)
PicksLegal == PoolOpen /\ OnlyEligibleTaken /\ FirstChoiceHonoured /\ CompleteWhenDone

(* Perks come when they are due, in wave order, although one of them moves *)
(* all later ones into the past.                                           *)
DueInOrder == WavesOrdered /\ RetroactiveBounds
=============================================================================
