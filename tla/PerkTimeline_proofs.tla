------------------------- MODULE PerkTimeline_proofs ------------------------
(***************************************************************************)
(* Proofs about the perk timeline: for any perks, bans, preferences and    *)
(* offers, and whatever wave a perk is due at, the picks are legal and     *)
(* none is left out.  The invariant is the pool, kept by hand, against     *)
(* what the counts allow; from it follows that every offer holds a perk    *)
(* that can be taken, so a timeline never ends for want of one.            *)
(*                                                                         *)
(* What a perk costs is a sum over the sections: it grows with the ordinal *)
(* of the perk, section by section, which is why perks come in wave order. *)
(* The two readers then agree because what one looks up by wave the other  *)
(* counts over a prefix of an ordered timeline.                            *)
(***************************************************************************)
EXTENDS PerkTimeline, DataLemmas

-----------------------------------------------------------------------------
(* The invariant                                                           *)
-----------------------------------------------------------------------------

CountsOK ==
  /\ counts \in [Perk -> Nat]
  /\ timeline = << >> => \A k \in Perk : counts[k] = 0

PicksInv == policy \in Policies /\ CountsOK /\ IsSequence(timeline) /\ PicksLegal

-----------------------------------------------------------------------------
(* Costs                                                                   *)
-----------------------------------------------------------------------------

LEMMA SectionTypes ==
  /\ IsFiniteSet(DOMAIN Sections) /\ 1 \in DOMAIN Sections
  /\ Len(Sections) \in Nat /\ DOMAIN Sections = 1 .. Len(Sections)
  /\ \A i \in DOMAIN Sections : Sections[i][1] \in Int /\ Sections[i][2] \in Int
<1>1. Len(Sections) \in Nat /\ DOMAIN Sections = 1 .. Len(Sections) /\ 1 \in DOMAIN Sections
  BY SectionsAssumption
<1>2. IsFiniteSet(1 .. Len(Sections))
  BY <1>1, FS_Interval
<1>3. \A i \in DOMAIN Sections : Sections[i] \in Int \X Int
  BY SectionsAssumption
<1> QED
  BY <1>1, <1>2, <1>3

(* A section pays for more of the perks the more there are.                *)
LEMMA CountMonotone ==
  ASSUME NEW i \in DOMAIN Sections, NEW m \in Nat, NEW n \in Nat, m <= n
  PROVE  SectionCount(i, m) \in Nat /\ SectionCount(i, m) <= SectionCount(i, n)
<1>1. Sections[i][1] \in Int /\ Sections[1][1] \in Int
  BY SectionTypes
<1>2. i < Len(Sections) => Sections[i + 1][1] \in Int
  BY SectionTypes
<1> DEFINE from == Sections[i][1] - Sections[1][1]
           width == Sections[i + 1][1] - Sections[i][1]
<1>3. CASE i < Len(Sections)
  <2>1. \A k \in Nat : SectionCount(i, k) = Larger(0, Smaller(k - from, width))
    BY <1>3 DEF SectionCount
  <2>2. from \in Int /\ width \in Int
    BY <1>1, <1>2, <1>3
  <2> HIDE DEF from, width
  <2> QED
    BY <2>1, <2>2 DEF Larger, Smaller
<1>4. CASE ~ (i < Len(Sections))
  <2>1. \A k \in Nat : SectionCount(i, k) = Larger(0, k - from)
    BY <1>4 DEF SectionCount
  <2>2. from \in Int
    BY <1>1
  <2> HIDE DEF from
  <2> QED
    BY <2>1, <2>2 DEF Larger
<1> QED
  BY <1>3, <1>4

(* The more requirement perks, the shorter every step.                     *)
LEMMA StepAntitone ==
  ASSUME policy \in Policies, NEW base \in Int, NEW r \in Nat, NEW s \in Nat, r <= s
  PROVE  StepExact(base, s) \in Nat /\ StepExact(base, s) <= StepExact(base, r)
<1> DEFINE p == policy.pwrPercent
           after == base - policy.lab
           left(n) == Larger(0, 100 - n * p)
<1>1. p \in Nat /\ after \in Int
  BY PoliciesAssumption
<1>2. StepExact(base, r) = Larger(0, after * left(r)) /\ StepExact(base, s) = Larger(0, after * left(s))
  BY DEF StepExact
<1> HIDE DEF p, after
<1>3. r * p \in Nat /\ s * p \in Nat /\ r * p <= s * p
  BY <1>1
<1>4. left(r) \in Nat /\ left(s) \in Nat /\ left(s) <= left(r)
  BY <1>3 DEF Larger
<1> HIDE DEF left
<1>5. after * left(r) \in Int /\ after * left(s) \in Int
  BY <1>1, <1>4
<1>6. CASE after <= 0
  <2>1. after * left(s) <= 0 /\ after * left(r) <= 0
    BY <1>1, <1>4, <1>6
  <2> QED
    BY <1>2, <1>5, <2>1 DEF Larger
<1>7. CASE after > 0
  <2>1. after * left(s) <= after * left(r)
    BY <1>1, <1>4, <1>7
  <2> QED
    BY <1>2, <1>5, <2>1 DEF Larger
<1> QED
  BY <1>1, <1>6, <1>7

LEMMA FloorMonotone ==
  ASSUME NEW a \in Int, NEW b \in Int, 0 <= a, a <= b
  PROVE  a \div 100 \in Nat /\ a \div 100 <= b \div 100
OBVIOUS

LEMMA ProductMonotone ==
  ASSUME NEW a \in Nat, NEW b \in Nat, NEW c \in Nat, NEW d \in Nat, a <= c, b <= d
  PROVE  a * b \in Nat /\ a * b <= c * d
<1>1. a * b <= c * b
  OBVIOUS
<1>2. c * b <= c * d
  OBVIOUS
<1> QED
  BY <1>1, <1>2

(* A perk is due later the more perks come before it, and earlier the more *)
(* requirement perks have been taken.                                      *)
LEMMA IdealMonotone ==
  ASSUME policy \in Policies, NEW m \in Nat, NEW n \in Nat, m <= n,
         NEW r \in Nat, NEW s \in Nat, r <= s
  PROVE  /\ IdealWave(m, s) \in Nat /\ IdealWave(n, r) \in Nat
         /\ IdealWave(m, s) <= IdealWave(n, r)
<1> DEFINE f == [i \in DOMAIN Sections |-> SectionCount(i, m) * StepExact(Sections[i][2], s)]
           g == [i \in DOMAIN Sections |-> SectionCount(i, n) * StepExact(Sections[i][2], r)]
<1>1. ASSUME NEW i \in DOMAIN Sections
      PROVE  f[i] \in Nat /\ g[i] \in Nat /\ f[i] <= g[i]
  <2>1. /\ SectionCount(i, m) \in Nat /\ SectionCount(i, n) \in Nat
        /\ SectionCount(i, m) <= SectionCount(i, n)
    BY CountMonotone
  <2>2. /\ StepExact(Sections[i][2], s) \in Nat /\ StepExact(Sections[i][2], r) \in Nat
        /\ StepExact(Sections[i][2], s) <= StepExact(Sections[i][2], r)
    <3>1. Sections[i][2] \in Int
      BY SectionTypes
    <3>2. StepExact(Sections[i][2], r) \in Nat
      BY <3>1, StepAntitone, r <= r
    <3>3. /\ StepExact(Sections[i][2], s) \in Nat
          /\ StepExact(Sections[i][2], s) <= StepExact(Sections[i][2], r)
      BY <3>1, StepAntitone
    <3> QED
      BY <3>2, <3>3
  <2> QED
    BY <2>1, <2>2, ProductMonotone
<1>2. /\ IdealWave(m, s) = SumFunctionOnSet(f, DOMAIN Sections) \div 100
      /\ IdealWave(n, r) = SumFunctionOnSet(g, DOMAIN Sections) \div 100
  BY DEF IdealWave, SumFunction
<1> HIDE DEF f, g
<1>4. /\ SumFunctionOnSet(f, DOMAIN Sections) \in Int /\ SumFunctionOnSet(g, DOMAIN Sections) \in Int
      /\ SumFunctionOnSet(f, DOMAIN Sections) <= SumFunctionOnSet(g, DOMAIN Sections)
  <2>1. \A i \in DOMAIN Sections : f[i] \in Int /\ g[i] \in Int /\ f[i] <= g[i]
    BY <1>1
  <2>2. IsFiniteSet(DOMAIN Sections)
    BY SectionTypes
  <2> QED
    BY <2>1, <2>2, SumInt, SumMonotone
<1>5. 0 <= SumFunctionOnSet(f, DOMAIN Sections)
  BY <1>1, SectionTypes, SumNat
<1> QED
  BY <1>2, <1>4, <1>5, FloorMonotone

LEMMA FirstWaveType ==
  ASSUME policy \in Policies
  PROVE  FirstWave \in Nat \ {0}
<1> DEFINE B == { Sections[i][2] : i \in DOMAIN Sections }
<1>1. IsFiniteSet(B)
  <2>1. [i \in DOMAIN Sections |-> Sections[i][2]] \in Surjection(DOMAIN Sections, B)
    BY DEF Surjection
  <2> QED
    BY <2>1, SectionTypes, FS_Surjection
<1>2. B \in SUBSET Int /\ B # {}
  BY SectionTypes
<1>3. Min(B) \in Int
  <2> HIDE DEF B
  <2> QED
    BY <1>1, <1>2, MinOfIntegers
<1>4. policy.lab \in Int
  BY PoliciesAssumption
<1>5. FirstWave = Larger(1, Min(B) - policy.lab)
  BY DEF FirstWave
<1> HIDE DEF B
<1> QED
  BY <1>3, <1>4, <1>5 DEF Larger

(* What a perk is due at, with and without the wave of the first perk.     *)
LEMMA DueFacts ==
  ASSUME policy \in Policies, NEW n \in Nat, NEW s \in Nat
  PROVE  /\ DueWave(n, s) \in Nat /\ IdealWave(n, s) \in Nat /\ IdealWave(n, s) <= DueWave(n, s)
         /\ DueWave(n, s) <= Larger(IdealWave(n, s), FirstWave)
<1>1. IdealWave(n, s) \in Nat /\ FirstWave \in Nat
  BY IdealMonotone, FirstWaveType
<1> QED
  BY <1>1 DEF DueWave, Larger

-----------------------------------------------------------------------------
(* Offers                                                                  *)
-----------------------------------------------------------------------------

LEMMA SampleFacts ==
  ASSUME PicksInv, pool # {}, NEW sample \in Samples
  PROVE  /\ sample \in Seq(pool) /\ Len(sample) \in Nat \ {0}
         /\ DOMAIN sample = 1 .. Len(sample)
<1> DEFINE m == Smaller(OfferSize, Cardinality(pool))
<1>1. pool \subseteq Perk
  BY DEF PicksInv, PicksLegal, PoolOpen, Eligible
<1>2. IsFiniteSet(pool)
  BY <1>1, PerkAssumption, FS_Subset
<1>3. Cardinality(pool) \in Nat /\ Cardinality(pool) # 0
  BY <1>2, FS_CardinalityType, FS_EmptySet
<1>4. OfferSize \in Nat /\ OfferSize >= 2
  BY PoliciesAssumption DEF PicksInv, OfferSize, Larger, Smaller
<1>5. m \in Nat \ {0}
  BY <1>3, <1>4 DEF Smaller
<1>6. sample \in [1 .. m -> pool]
  BY DEF Samples
<1> HIDE DEF m
<1> QED
  BY <1>5, <1>6

(* An offer is drawn from the pool; the first one has the first choice.    *)
LEMMA OfferFacts ==
  ASSUME PicksInv, pool # {}, NEW sample \in Samples
  PROVE  LET o == Offered(sample)
         IN /\ DOMAIN o = 1 .. Len(sample) /\ Len(sample) \in Nat \ {0}
            /\ Elements(o) \subseteq pool
            /\ timeline = << >> /\ policy.first \in Eligible(policy) => policy.first \in Elements(o)
<1>1. /\ sample \in Seq(pool) /\ Len(sample) \in Nat \ {0}
      /\ DOMAIN sample = 1 .. Len(sample)
  BY SampleFacts
<1>2. CASE /\ timeline = << >> /\ policy.first \in Eligible(policy)
           /\ policy.first \notin Elements(sample)
  <2>1. policy.first \in pool
    BY <1>2, PerkAssumption DEF PicksInv, CountsOK, PicksLegal, PoolOpen, Open, Eligible
  <2>2. Offered(sample) = [sample EXCEPT ![Len(sample)] = policy.first]
    BY <1>2 DEF Offered
  <2> QED
    BY <1>1, <2>1, <2>2 DEF Elements
<1>3. CASE ~ ( /\ timeline = << >> /\ policy.first \in Eligible(policy)
               /\ policy.first \notin Elements(sample) )
  <2>1. Offered(sample) = sample
    BY <1>3 DEF Offered
  <2> QED
    BY <1>1, <1>3, <2>1 DEF Elements
<1> QED
  BY <1>2, <1>3

(* The best of a preference is one of the perks offered that can be taken. *)
LEMMA BestFacts ==
  ASSUME NEW n \in Nat, NEW preference, DOMAIN preference = 1 .. n, NEW offered
  PROVE  LET able == { i \in DOMAIN preference :
                         preference[i] \in Elements(offered) /\ Open(preference[i], counts) }
         IN /\ able # {} =>
                 /\ Best(preference, offered) \in Elements(offered)
                 /\ Open(Best(preference, offered), counts)
            /\ able = {} => Best(preference, offered) = NoChoice
            /\ 1 \in able => Best(preference, offered) = preference[1]
<1> DEFINE able == { i \in DOMAIN preference :
                       preference[i] \in Elements(offered) /\ Open(preference[i], counts) }
<1>1. able \in SUBSET Nat
  OBVIOUS
<1>2. Best(preference, offered) = IF able = {} THEN NoChoice ELSE preference[Min(able)]
  BY DEF Best
<1>3. \A i \in able : i \in 1 .. n /\ preference[i] \in Elements(offered) /\ Open(preference[i], counts)
  OBVIOUS
<1> HIDE DEF able
<1>4. able # {} => Min(able) \in able /\ \A i \in able : Min(able) <= i
  BY <1>1, MinOfNaturals
<1>5. 1 \in able => Min(able) = 1
  BY <1>3, <1>4
<1> QED
  BY <1>2, <1>3, <1>4, <1>5 DEF able

(* Of every offer a perk of the pool is taken, first of all the first      *)
(* choice when it is preferred as well.                                    *)
LEMMA ChosenFacts ==
  ASSUME PicksInv, pool # {}, NEW sample \in Samples
  PROVE  LET k == Chosen(Offered(sample))
         IN /\ k \in pool /\ k \in Perk /\ k # NoChoice
            /\ ( /\ timeline = << >> /\ policy.priority # << >>
                 /\ policy.first = policy.priority[1] /\ policy.first \in Eligible(policy) )
               => k = policy.first
<1> DEFINE o == Offered(sample)
           n == Len(sample)
           p == policy.priority
<1>1. /\ DOMAIN o = 1 .. n /\ n \in Nat \ {0} /\ Elements(o) \subseteq pool
      /\ timeline = << >> /\ policy.first \in Eligible(policy) => policy.first \in Elements(o)
  BY OfferFacts
<1>2. pool \subseteq Perk /\ \A k \in pool : k \in Eligible(policy) /\ Open(k, counts)
  BY DEF PicksInv, PicksLegal, PoolOpen, Eligible
<1>3. p \in Seq(Perk) /\ Len(p) \in Nat /\ DOMAIN p = 1 .. Len(p)
  BY PoliciesAssumption DEF PicksInv
<1> HIDE DEF o, n, p
<1>4. o[1] \in Elements(o) /\ 1 \in DOMAIN o
  BY <1>1 DEF Elements
<1>5. Best(o, o) \in Elements(o)
  <2>1. Open(o[1], counts)
    BY <1>1, <1>2, <1>4
  <2> QED
    BY <1>1, <1>4, <2>1, BestFacts
<1>6. Best(p, o) # NoChoice => Best(p, o) \in Elements(o)
  BY <1>3, BestFacts
<1>7. Chosen(o) \in Elements(o)
  BY <1>5, <1>6 DEF Chosen, p
<1>8. ASSUME timeline = << >>, p # << >>, policy.first = p[1], policy.first \in Eligible(policy)
      PROVE  Chosen(o) = policy.first
  <2>1. policy.first \in Elements(o) /\ policy.first \in pool
    BY <1>1, <1>8
  <2>2. 1 \in DOMAIN p /\ p[1] \in Elements(o) /\ Open(p[1], counts)
    BY <1>2, <1>3, <1>8, <2>1
  <2>3. Best(p, o) = policy.first
    BY <1>3, <1>8, <2>2, BestFacts
  <2>4. policy.first # NoChoice
    BY <1>2, <2>1, PerkAssumption
  <2> QED
    BY <2>3, <2>4 DEF Chosen, p
<1> QED
  BY <1>1, <1>2, <1>7, <1>8, PerkAssumption DEF o, p

-----------------------------------------------------------------------------
(* The steps                                                               *)
-----------------------------------------------------------------------------

LEMMA PicksInit == Init => PicksInv
<1> SUFFICES ASSUME Init PROVE PicksInv
  OBVIOUS
<1>1. CountsOK
  BY DEF Init, CountsOK
<1>2. IsSequence(timeline)
  <2>1. timeline \in Seq(Perk)
    BY DEF Init
  <2> QED
    BY <2>1 DEF IsSequence
<1>3. PoolOpen
  BY PerkAssumption DEF Init, PoolOpen, Open, Eligible
<1>4. OnlyEligibleTaken /\ FirstChoiceHonoured /\ CompleteWhenDone
  BY DEF Init, OnlyEligibleTaken, FirstChoiceHonoured, CompleteWhenDone
<1> QED
  BY <1>1, <1>2, <1>3, <1>4 DEF Init, PicksInv, PicksLegal

LEMMA TakeKeeps ==
  ASSUME PicksInv, ~ done, NEW k \in pool, k \in Perk, Take(k),
         ( /\ timeline = << >> /\ policy.priority # << >>
           /\ policy.first = policy.priority[1] /\ policy.first \in Eligible(policy) )
           => k = policy.first
  PROVE  PicksInv'
<1>1. /\ counts' = [counts EXCEPT ![k] = @ + 1] /\ timeline' = Append(timeline, Row(k))
      /\ pool' = Remaining(k) /\ policy' = policy /\ done' = done
  BY DEF Take
<1>2. counts \in [Perk -> Nat] /\ pool = { j \in Eligible(policy) : Open(j, counts) }
  BY DEF PicksInv, CountsOK, PicksLegal, PoolOpen
<1>3. /\ counts' \in [Perk -> Nat] /\ counts'[k] = counts[k] + 1
      /\ \A j \in Perk \ {k} : counts'[j] = counts[j]
  BY <1>1, <1>2
<1>4. /\ IsSequence(timeline') /\ timeline' # << >>
      /\ Len(timeline) \in Nat /\ DOMAIN timeline = 1 .. Len(timeline)
      /\ DOMAIN timeline' = 1 .. Len(timeline) + 1
      /\ timeline'[Len(timeline) + 1] = Row(k)
      /\ \A i \in 1 .. Len(timeline) : timeline'[i] = timeline[i]
      /\ timeline = << >> <=> Len(timeline) = 0
  BY <1>1, AppendFacts DEF PicksInv
<1>5. PoolOpen'
  <2>1. Eligible(policy) \subseteq Perk /\ Eligible(policy') = Eligible(policy)
    BY <1>1 DEF Eligible
  <2>2. \A j \in Perk \ {k} : Open(j, counts') <=> Open(j, counts)
    BY <1>3 DEF Open
  <2>3. MaxPicks[k] \in Int /\ counts[k] \in Nat /\ Open(k, counts) /\ k \in Eligible(policy)
    BY <1>2, PerkAssumption
  <2>4. Open(k, counts') <=> ~ (MaxPicks[k] > 0 /\ counts[k] + 1 >= MaxPicks[k])
    BY <1>3, <2>3 DEF Open
  <2>5. pool' = { j \in Eligible(policy) : Open(j, counts') }
    <3>1. CASE MaxPicks[k] > 0 /\ counts[k] + 1 >= MaxPicks[k]
      <4>1. pool' = pool \ {k}
        BY <1>1, <3>1 DEF Remaining
      <4> QED
        BY <1>2, <2>1, <2>2, <2>4, <3>1, <4>1
    <3>2. CASE ~ (MaxPicks[k] > 0 /\ counts[k] + 1 >= MaxPicks[k])
      <4>1. pool' = pool
        BY <1>1, <3>2 DEF Remaining
      <4> QED
        BY <1>2, <2>1, <2>2, <2>3, <2>4, <3>2, <4>1
    <3> QED
      BY <3>1, <3>2
  <2> QED
    BY <2>1, <2>5 DEF PoolOpen
<1>6. OnlyEligibleTaken'
  <2>1. Row(k).perk = k /\ k \in Eligible(policy)
    BY <1>2 DEF Row
  <2>2. \A i \in 1 .. Len(timeline) + 1 : timeline'[i].perk \in Eligible(policy)
    BY <1>4, <2>1 DEF PicksInv, PicksLegal, OnlyEligibleTaken
  <2> QED
    BY <1>1, <1>4, <2>2 DEF OnlyEligibleTaken, Eligible
<1>7. FirstChoiceHonoured'
  <2>1. Row(k).perk = k
    BY DEF Row
  <2>2. CASE timeline = << >>
    BY <1>1, <1>4, <2>1, <2>2 DEF FirstChoiceHonoured, Eligible
  <2>3. CASE timeline # << >>
    BY <1>1, <1>4, <2>3 DEF FirstChoiceHonoured, PicksInv, PicksLegal, Eligible
  <2> QED
    BY <2>2, <2>3
<1>8. CompleteWhenDone'
  BY <1>1 DEF CompleteWhenDone
<1>9. CountsOK'
  BY <1>3, <1>4 DEF CountsOK
<1> QED
  BY <1>1, <1>4, <1>5, <1>6, <1>7, <1>8, <1>9 DEF PicksInv, PicksLegal

LEMMA PicksNext == PicksInv /\ [Next]_vars => PicksInv'
<1> SUFFICES ASSUME PicksInv, [Next]_vars PROVE PicksInv'
  OBVIOUS
<1>1. CASE TakePerk
  <2>1. PICK sample \in Samples :
          LET k == Chosen(Offered(sample)) IN
          IF k = NoChoice
          THEN done' = TRUE /\ UNCHANGED << policy, pool, counts, wave, stacks, timeline >>
          ELSE Take(k)
    BY <1>1 DEF TakePerk
  <2> DEFINE k == Chosen(Offered(sample))
  <2>2. pool # {} /\ ~ done
    BY <1>1 DEF TakePerk
  <2>3. /\ k \in pool /\ k \in Perk /\ k # NoChoice
        /\ ( /\ timeline = << >> /\ policy.priority # << >>
             /\ policy.first = policy.priority[1] /\ policy.first \in Eligible(policy) )
           => k = policy.first
    BY <2>2, ChosenFacts
  <2>4. Take(k)
    BY <2>1, <2>3
  <2> HIDE DEF k
  <2> QED
    BY <2>2, <2>3, <2>4, TakeKeeps
<1>2. CASE Finish
  <2>1. /\ pool = {} \/ ~ DueInTime
        /\ UNCHANGED << policy, pool, counts, wave, stacks, timeline >>
    BY <1>2 DEF Finish
  <2>2. NextWave' = NextWave
    BY <2>1 DEF NextWave, DueWave, IdealWave, StepExact, FirstWave, SectionCount
  <2>3. CompleteWhenDone'
    BY <2>1, <2>2 DEF CompleteWhenDone, DueInTime, PicksInv, PicksLegal, PoolOpen, Open, Eligible
  <2> QED
    BY <2>1, <2>3 DEF PicksInv, CountsOK, PicksLegal, PoolOpen, Open, Eligible,
       OnlyEligibleTaken, FirstChoiceHonoured
<1>3. CASE Returned \/ UNCHANGED vars
  <2>1. UNCHANGED vars
    BY <1>3 DEF Returned
  <2>2. PicksLegal' = PicksLegal
    BY <2>1 DEF vars, PicksLegal, PoolOpen, Open, Eligible, OnlyEligibleTaken,
       FirstChoiceHonoured, CompleteWhenDone, NextWave, DueWave, IdealWave, StepExact, FirstWave,
       SectionCount
  <2> QED
    BY <2>1, <2>2 DEF vars, PicksInv, CountsOK
<1> QED
  BY <1>1, <1>2, <1>3 DEF Next

(* Only legal perks are taken, the first choice first, the pool is what    *)
(* can be taken, and a timeline ends only when nothing is left or due: for *)
(* any perks and policies, and any wave a perk may be due at.              *)
THEOREM PicksStayLegal == Spec => []PicksLegal
<1>1. Init => PicksInv
  BY PicksInit
<1>2. PicksInv /\ [Next]_vars => PicksInv'
  BY PicksNext
<1>3. PicksInv => PicksLegal
  BY DEF PicksInv
<1> QED
  BY <1>1, <1>2, <1>3, PTL DEF Spec

-----------------------------------------------------------------------------
(* Waves                                                                   *)
-----------------------------------------------------------------------------

RowType == [wave : Nat, perk : Perk, quantity : Nat]

(* The wave reached, which the rows do not keep, is a bound of all of      *)
(* them, and is itself no later than without the requirement perk.         *)
WaveTypes ==
  /\ timeline \in Seq(RowType)
  /\ wave \in Nat /\ stacks \in Nat /\ done \in BOOLEAN
  /\ timeline # << >> => wave <= policy.target

WaveReached ==
  /\ \A i \in DOMAIN timeline : timeline[i].wave <= wave
  /\ wave <= Larger(DueWave(Len(timeline), 0), FirstWave)

(* The order of any two rows, of which WavesOrdered compares neighbours.   *)
AllOrdered ==
  \A i, j \in DOMAIN timeline : i <= j => timeline[i].wave <= timeline[j].wave

WaveInv == PicksInv /\ WaveTypes /\ WaveReached /\ AllOrdered /\ RetroactiveBounds

(* What a perk is due at does not change while the policy is the same.     *)
LEMMA DueUnchanged ==
  ASSUME policy' = policy
  PROVE  /\ \A i \in Nat : DueWave(i, 0)' = DueWave(i, 0)
         /\ \A i \in Nat : IdealWave(i, stacks)' = IdealWave(i, stacks')
         /\ FirstWave' = FirstWave
         /\ DueWave(Len(timeline), 0)' = DueWave(Len(timeline'), 0)
BY DEF DueWave, IdealWave, FirstWave, StepExact, SectionCount

LEMMA WaveInit == Init => WaveInv
<1> SUFFICES ASSUME Init PROVE WaveInv
  OBVIOUS
<1>1. PicksInv
  BY PicksInit
<1>2. timeline = << >> /\ DOMAIN timeline = {} /\ Len(timeline) = 0 /\ wave = 0 /\ stacks = 0 /\ done = FALSE
  BY DEF Init
<1>3. WaveTypes
  <2>1. timeline \in Seq(RowType)
    BY <1>2
  <2> QED
    BY <1>2, <2>1 DEF WaveTypes
<1>4. FirstWave \in Nat /\ DueWave(0, 0) \in Nat
  BY <1>1, FirstWaveType, DueFacts DEF PicksInv
<1>5. WaveReached
  BY <1>2, <1>4 DEF WaveReached, Larger
<1>6. AllOrdered /\ RetroactiveBounds
  BY <1>2 DEF AllOrdered, RetroactiveBounds
<1> QED
  BY <1>1, <1>3, <1>5, <1>6 DEF WaveInv

LEMMA TakeKeepsWaves ==
  ASSUME WaveInv, DueInTime, NEW k \in Perk, Take(k)
  PROVE  (WaveTypes /\ WaveReached /\ AllOrdered /\ RetroactiveBounds)'
<1> DEFINE n == Len(timeline)
           w == NextWave
<1>1. /\ timeline' = Append(timeline, Row(k)) /\ wave' = w /\ policy' = policy /\ done' = done
      /\ stacks' = IF k = Pwr THEN stacks + 1 ELSE stacks
  BY DEF Take
<1>2. /\ policy \in Policies /\ timeline \in Seq(RowType) /\ wave \in Nat /\ stacks \in Nat
      /\ counts \in [Perk -> Nat] /\ done \in BOOLEAN
  BY DEF WaveInv, WaveTypes, PicksInv, CountsOK
<1>3. n \in Nat /\ n + 1 \in Nat /\ DOMAIN timeline = 1 .. n
  BY <1>2
<1>4. stacks' \in Nat /\ stacks <= stacks'
  BY <1>1, <1>2
<1>5. /\ DueWave(n + 1, stacks) \in Nat /\ IdealWave(n + 1, stacks) <= DueWave(n + 1, stacks)
      /\ DueWave(n + 1, stacks) <= Larger(IdealWave(n + 1, stacks), FirstWave)
  BY <1>2, <1>3, DueFacts
<1>6. w = Larger(wave, DueWave(n + 1, stacks)) /\ w \in Nat
  BY <1>2, <1>5 DEF NextWave, Larger
<1>7. Row(k) \in RowType /\ Row(k).wave = w
  BY <1>2, <1>6 DEF Row, RowType
<1>8. /\ timeline' \in Seq(RowType) /\ Len(timeline') = n + 1 /\ DOMAIN timeline' = 1 .. n + 1
      /\ timeline'[n + 1] = Row(k) /\ \A i \in 1 .. n : timeline'[i] = timeline[i]
  BY <1>1, <1>2, <1>3, <1>7
<1>9. /\ \A i \in Nat : DueWave(i, 0)' = DueWave(i, 0)
      /\ \A i \in Nat : IdealWave(i, stacks)' = IdealWave(i, stacks')
      /\ FirstWave' = FirstWave
      /\ DueWave(Len(timeline), 0)' = DueWave(n + 1, 0)
  BY <1>1, <1>8, DueUnchanged
<1>10. w <= policy.target
  BY DEF DueInTime
<1>11. /\ IdealWave(n, 0) <= IdealWave(n + 1, 0) /\ IdealWave(n + 1, stacks) <= IdealWave(n + 1, 0)
       /\ IdealWave(n, 0) \in Nat /\ IdealWave(n + 1, 0) \in Nat
       /\ IdealWave(n + 1, stacks) \in Nat
  <2>1. 0 \in Nat /\ 0 <= stacks /\ n <= n + 1 /\ n + 1 <= n + 1 /\ 0 <= 0
    BY <1>2, <1>3
  <2> HIDE DEF n
  <2> QED
    BY <1>2, <1>3, <2>1, IdealMonotone
<1>12. /\ DueWave(n, 0) <= Larger(IdealWave(n, 0), FirstWave) /\ IdealWave(n + 1, 0) <= DueWave(n + 1, 0)
       /\ DueWave(n, 0) \in Nat /\ DueWave(n + 1, 0) \in Nat /\ FirstWave \in Nat
  BY <1>2, <1>3, DueFacts, FirstWaveType
<1>13. /\ wave <= Larger(DueWave(n, 0), FirstWave)
       /\ \A i \in 1 .. n : timeline[i].wave <= wave
  BY <1>3 DEF WaveInv, WaveReached
<1>14. \A i \in 1 .. n : timeline[i].wave \in Nat
  <2>1. \A i \in 1 .. n : timeline[i] \in RowType
    BY <1>2, <1>3
  <2> QED
    BY <2>1 DEF RowType
<1> HIDE DEF n, w
<1>15. w <= Larger(DueWave(n + 1, 0), FirstWave) /\ wave <= w
  BY <1>2, <1>5, <1>6, <1>11, <1>12, <1>13 DEF Larger
<1>16. WaveTypes'
  BY <1>1, <1>2, <1>4, <1>6, <1>8, <1>10 DEF WaveTypes
<1>17. WaveReached'
  <2>1. \A i \in 1 .. n + 1 : timeline'[i].wave <= w
    BY <1>2, <1>3, <1>6, <1>7, <1>8, <1>13, <1>14, <1>15
  <2> QED
    BY <1>1, <1>8, <1>9, <1>15, <2>1 DEF WaveReached, Larger
<1>18. AllOrdered'
  <2>1. ASSUME NEW i \in 1 .. n + 1, NEW j \in 1 .. n + 1, i <= j
        PROVE  timeline'[i].wave <= timeline'[j].wave
    <3>1. CASE j \in 1 .. n
      <4>1. i \in 1 .. n
        BY <1>3, <2>1, <3>1
      <4> QED
        BY <1>3, <1>8, <2>1, <3>1, <4>1 DEF WaveInv, AllOrdered
    <3>2. CASE j = n + 1
      <4>1. i \in 1 .. n \/ i = n + 1
        BY <1>3
      <4> QED
        BY <1>2, <1>6, <1>7, <1>8, <1>13, <1>14, <1>15, <3>2, <4>1
    <3> QED
      BY <1>3, <3>1, <3>2
  <2> QED
    BY <1>8, <2>1 DEF AllOrdered
<1>19. RetroactiveBounds'
  <2>1. ASSUME NEW i \in 1 .. n + 1
        PROVE  /\ timeline'[i].wave <= Larger(DueWave(i, 0), FirstWave)
               /\ timeline'[i].wave >= IdealWave(i, stacks')
    <3>0. i \in Nat
      BY <1>3
    <3>1. IdealWave(i, stacks') \in Nat /\ IdealWave(i, stacks) \in Nat /\ IdealWave(i, stacks') <= IdealWave(i, stacks)
      BY <1>2, <1>4, <3>0, i <= i, IdealMonotone
    <3>2. CASE i \in 1 .. n
      <4>1. timeline[i].wave <= Larger(DueWave(i, 0), FirstWave) /\ timeline[i].wave >= IdealWave(i, stacks)
        BY <1>3, <3>2 DEF WaveInv, RetroactiveBounds
      <4> QED
        BY <1>8, <1>14, <3>1, <3>2, <4>1
    <3>3. CASE i = n + 1
      BY <1>2, <1>5, <1>6, <1>7, <1>8, <1>15, <3>1, <3>3 DEF Larger
    <3> QED
      BY <1>3, <3>2, <3>3
  <2>2. \A i \in 1 .. n + 1 : i \in Nat
    BY <1>3
  <2> QED
    BY <1>8, <1>9, <2>1, <2>2 DEF RetroactiveBounds, Larger
<1> QED
  BY <1>16, <1>17, <1>18, <1>19

LEMMA WaveNext == WaveInv /\ [Next]_vars => WaveInv'
<1> SUFFICES ASSUME WaveInv, [Next]_vars PROVE WaveInv'
  OBVIOUS
<1>1. PicksInv'
  BY PicksNext DEF WaveInv
<1>2. ASSUME UNCHANGED << policy, pool, counts, wave, stacks, timeline >>, done' \in BOOLEAN
      PROVE  WaveInv'
  <2>1. WaveTypes' /\ AllOrdered'
    BY <1>2 DEF WaveInv, WaveTypes, AllOrdered
  <2>2. /\ \A i \in Nat : DueWave(i, 0)' = DueWave(i, 0)
        /\ \A i \in Nat : IdealWave(i, stacks)' = IdealWave(i, stacks)
        /\ FirstWave' = FirstWave /\ DueWave(Len(timeline), 0)' = DueWave(Len(timeline), 0)
    BY <1>2, DueUnchanged
  <2>3. WaveReached'
    BY <1>2, <2>2 DEF WaveInv, WaveReached, Larger
  <2>4. \A i \in DOMAIN timeline : i \in Nat
    BY DEF WaveInv, WaveTypes
  <2>5. RetroactiveBounds'
    BY <1>2, <2>2, <2>4 DEF WaveInv, RetroactiveBounds, Larger
  <2> QED
    BY <1>1, <2>1, <2>3, <2>5 DEF WaveInv
<1>3. done \in BOOLEAN
  BY DEF WaveInv, WaveTypes
<1>4. CASE TakePerk
  <2>1. PICK sample \in Samples :
          LET k == Chosen(Offered(sample)) IN
          IF k = NoChoice
          THEN done' = TRUE /\ UNCHANGED << policy, pool, counts, wave, stacks, timeline >>
          ELSE Take(k)
    BY <1>4 DEF TakePerk
  <2> DEFINE k == Chosen(Offered(sample))
  <2>2. k \in Perk /\ k # NoChoice
    BY <1>4, ChosenFacts DEF TakePerk, WaveInv
  <2>3. Take(k)
    BY <2>1, <2>2
  <2> HIDE DEF k
  <2>4. DueInTime
    BY <1>4 DEF TakePerk
  <2> QED
    BY <1>1, <2>2, <2>3, <2>4, TakeKeepsWaves DEF WaveInv
<1>5. CASE Finish
  BY <1>2, <1>5 DEF Finish
<1>6. CASE Returned \/ UNCHANGED vars
  BY <1>2, <1>3, <1>6 DEF Returned, vars
<1> QED
  BY <1>4, <1>5, <1>6 DEF Next

LEMMA WaveInvAlways == Spec => []WaveInv
BY WaveInit, WaveNext, PTL DEF Spec

(* The state keeps its types, and no perk is taken beyond the target wave. *)
THEOREM TypesHold == Spec => []TypeOK
<1>1. WaveInv => TypeOK
  BY DEF WaveInv, WaveTypes, PicksInv, CountsOK, PicksLegal, PoolOpen, Eligible, TypeOK, RowType
<1> QED
  BY <1>1, WaveInvAlways, PTL

(* Perks come in wave order and when they are due, however often the       *)
(* requirement perk moves the later ones into the past: for any sections   *)
(* and any policy.                                                         *)
THEOREM PerksComeWhenDue == Spec => []DueInOrder
<1>1. WaveInv => DueInOrder
  <2> SUFFICES ASSUME WaveInv PROVE WavesOrdered
    BY DEF WaveInv, DueInOrder
  <2>1. timeline \in Seq(RowType) /\ AllOrdered
    BY DEF WaveInv, WaveTypes
  <2>2. Len(timeline) \in Nat /\ DOMAIN timeline = 1 .. Len(timeline)
    BY <2>1
  <2>3. \A i \in 1 .. Len(timeline) : i > 1 => i - 1 \in 1 .. Len(timeline) /\ i - 1 <= i
    BY <2>2
  <2> QED
    BY <2>1, <2>2, <2>3 DEF AllOrdered, WavesOrdered
<1> QED
  BY <1>1, WaveInvAlways, PTL

-----------------------------------------------------------------------------
(* The readers                                                             *)
-----------------------------------------------------------------------------

(* The rows up to the last one of the latest wave reached are those at or  *)
(* before the wave asked for.                                              *)
LEMMA ReadersSeeTheSame ==
  ASSUME WaveInv, NEW w \in Nat
  PROVE  ScheduledAt(w) = CountsAt(w)
<1> DEFINE n == Len(timeline)
           reached == { timeline[i].wave : i \in DOMAIN timeline } \cap 0 .. w
           upTo(k) == { i \in DOMAIN timeline : timeline[i].perk = k /\ timeline[i].wave <= w }
<1>1. n \in Nat /\ DOMAIN timeline = 1 .. n
  BY DEF WaveInv, WaveTypes
<1>2. \A i \in 1 .. n : timeline[i].wave \in Nat
  <2>1. \A i \in 1 .. n : timeline[i] \in RowType
    BY <1>1 DEF WaveInv, WaveTypes
  <2> QED
    BY <2>1 DEF RowType
<1>3. \A i, j \in 1 .. n : i <= j => timeline[i].wave <= timeline[j].wave
  BY <1>1 DEF WaveInv, AllOrdered
<1>4. CountsAt(w) = [k \in Perk |-> Cardinality(upTo(k))]
  BY DEF CountsAt
<1>5. CASE reached = {}
  <2>1. \A i \in 1 .. n : ~ (timeline[i].wave <= w)
    <3>1. SUFFICES ASSUME NEW i \in 1 .. n, timeline[i].wave <= w
                   PROVE  FALSE
      OBVIOUS
    <3>2. timeline[i].wave \in reached
      BY <1>1, <1>2, <3>1
    <3> QED
      BY <1>5, <3>2
  <2>2. \A k \in Perk : upTo(k) = {}
    BY <1>1, <2>1
  <2>3. \A k \in Perk : Cardinality(upTo(k)) = 0
    BY <2>2, FS_EmptySet
  <2>4. ScheduledAt(w) = [k \in Perk |-> 0]
    BY <1>5 DEF ScheduledAt
  <2> HIDE DEF upTo
  <2> QED
    BY <1>4, <2>3, <2>4
<1>6. CASE reached # {}
  <2> DEFINE m == Max(reached)
             L == { i \in DOMAIN timeline : timeline[i].wave = m }
             last == Max(L)
  <2>1. reached \in SUBSET Nat /\ \A v \in reached : v <= w
    OBVIOUS
  <2>2. m \in reached /\ \A v \in reached : v <= m
    <3> HIDE DEF reached
    <3> QED
      BY <1>6, <2>1, MaxOfNaturals
  <2>3. L # {} /\ m <= w /\ m \in Nat
    BY <2>1, <2>2
  <2>4. L \in SUBSET Nat /\ \A i \in L : i <= n
    BY <1>1
  <2>5. last \in L /\ \A i \in L : i <= last
    <3> HIDE DEF L
    <3> QED
      BY <1>1, <2>3, <2>4, MaxOfNaturals
  <2>6. last \in 1 .. n /\ timeline[last].wave = m /\ \A i \in 1 .. n : timeline[i].wave = m => i <= last
    BY <1>1, <2>5
  <2>7. \A i \in 1 .. n : timeline[i].wave <= w => timeline[i].wave <= m
    <3>1. SUFFICES ASSUME NEW i \in 1 .. n, timeline[i].wave <= w
                   PROVE  timeline[i].wave \in reached
      BY <2>2
    <3> QED
      BY <1>1, <1>2, <3>1
  <2>8. ScheduledAt(w) = [k \in Perk |-> Cardinality({ i \in 1 .. last : timeline[i].perk = k })]
    <3>1. ScheduledAt(w) = ScheduleOf(m)
      BY <1>6 DEF ScheduledAt
    <3>2. ScheduleOf(m) = [k \in Perk |-> Cardinality({ i \in 1 .. last : timeline[i].perk = k })]
      BY DEF ScheduleOf
    <3> QED
      BY <3>1, <3>2
  <2> HIDE DEF n, reached, m, L, last
  <2>9. \A i \in 1 .. n : timeline[i].wave <= w <=> i <= last
    <3>1. ASSUME NEW i \in 1 .. n, timeline[i].wave <= w, ~ (i <= last)
          PROVE  FALSE
      <4>1. timeline[i].wave <= m /\ m <= timeline[i].wave
        BY <1>1, <1>3, <2>6, <2>7, <3>1
      <4> QED
        BY <1>2, <2>3, <2>6, <3>1, <4>1
    <3>2. ASSUME NEW i \in 1 .. n, i <= last
          PROVE  timeline[i].wave <= w
      BY <1>2, <1>3, <2>3, <2>6, <3>2
    <3> QED
      BY <3>1, <3>2
  <2>10. ASSUME NEW k \in Perk
         PROVE  { i \in 1 .. last : timeline[i].perk = k } = upTo(k)
    BY <1>1, <2>6, <2>9
  <2> HIDE DEF upTo
  <2> QED
    BY <1>4, <2>8, <2>10
<1> QED
  BY <1>5, <1>6

(* The two readers of a timeline, one of which counts rows while the other *)
(* keeps an entry per wave, see the same perks at every wave.              *)
THEOREM BothReadersAgree == Spec => []ReadersAgree
<1>1. WaveInv => ReadersAgree
  <2>1. policy.target \in Int => \A w \in 0 .. policy.target : w \in Nat
    OBVIOUS
  <2> QED
    BY <2>1, ReadersSeeTheSame, PoliciesAssumption DEF WaveInv, PicksInv, ReadersAgree
<1> QED
  BY <1>1, WaveInvAlways, PTL
=============================================================================
