-------------------------- MODULE BossWaves_proofs --------------------------
(***************************************************************************)
(* Proofs about the search for the wave a run gets to: for every length of *)
(* a run, every verdict of its rows and every ladder of end waves, neither *)
(* early exit changes the answer, and the answer is backed by its rows.    *)
(* And about the matrix built from such answers, for every set of tiers,   *)
(* categories, presets and terminal limits.                                *)
(*                                                                         *)
(* First the grid of checkpoint waves, then what the stages of the summary *)
(* do to its fields, then that a prefix of a run and the whole run are     *)
(* summed up alike once the prefix shows a failure, then the invariant of  *)
(* the search: the rows kept are a prefix of the run, and it says why the  *)
(* scan of the payload ended.  Last what a full answer says of its limits, *)
(* and the invariant of the matrix, which keeps that of each of its cells. *)
(***************************************************************************)
EXTENDS BossWaveSearch, MilestoneMatrix, DataLemmas

-----------------------------------------------------------------------------
(* The grid of checkpoint waves                                            *)
-----------------------------------------------------------------------------

(* Flooring by a positive unit.                                            *)
LEMMA DivMod ==
  ASSUME NEW a \in Nat, NEW b \in Nat \ {0}
  PROVE  /\ a \div b \in Nat
         /\ (a \div b) * b <= a /\ a < (a \div b) * b + b
OBVIOUS

LEMMA ProductGrows ==
  ASSUME NEW a \in Nat, NEW b \in Nat, NEW c \in Nat, a < b
  PROVE  a * c + c <= b * c
OBVIOUS

LEMMA GridConstants == Interval \in Nat \ {0} /\ Stride \in Nat \ {0}
BY GridAssumption

(* The wave of a row: a number that grows from row to row.                 *)
LEMMA WaveType ==
  ASSUME NEW k \in Nat
  PROVE  Wave(k) \in Nat /\ (k = 0 <=> Wave(k) = 0)
<1>1. k # 0 => (k - 1) * Stride \in Nat
  BY GridConstants
<1> QED
  BY <1>1, GridConstants DEF Wave

LEMMA WaveGrows ==
  ASSUME NEW j \in Nat, NEW k \in Nat, j < k
  PROVE  Wave(j) < Wave(k)
<1>1. CASE j = 0
  BY <1>1, WaveType
<1>2. CASE j # 0
  <2>1. (j - 1) * Stride + Stride <= (k - 1) * Stride
    BY <1>2, GridConstants, ProductGrows
  <2>2. (j - 1) * Stride \in Nat /\ (k - 1) * Stride \in Nat
    BY <1>2, GridConstants
  <2> QED
    BY <1>2, <2>1, <2>2, GridConstants DEF Wave
<1> QED
  BY <1>1, <1>2

LEMMA RowCountType ==
  ASSUME NEW w \in Nat
  PROVE  RowCount(w) \in Nat /\ (Interval <= w => RowCount(w) >= 1)
<1>1. Interval <= w => (w - Interval) \div Stride \in Nat
  BY GridConstants, DivMod
<1> QED
  BY <1>1, GridConstants DEF RowCount

(* A row is counted exactly when its wave is not past the end wave.        *)
LEMMA RowCountIsGrid ==
  ASSUME NEW w \in Nat, NEW k \in Nat
  PROVE  k <= RowCount(w) <=> Wave(k) <= w
<1>1. CASE k = 0
  BY <1>1, WaveType, RowCountType
<1>2. CASE k # 0 /\ w < Interval
  <2>1. (k - 1) * Stride \in Nat
    BY <1>2, GridConstants
  <2> QED
    BY <1>2, <2>1, GridConstants DEF RowCount, Wave
<1>3. CASE k # 0 /\ Interval <= w
  <2> DEFINE q == (w - Interval) \div Stride
  <2>1. q \in Nat /\ q * Stride <= w - Interval /\ w - Interval < q * Stride + Stride
    BY <1>3, GridConstants, DivMod
  <2>2. RowCount(w) = q + 1 /\ Wave(k) = Interval + (k - 1) * Stride
    BY <1>3, GridConstants DEF RowCount, Wave
  <2>3. (k - 1) * Stride \in Nat /\ q * Stride \in Nat
    BY <1>3, <2>1, GridConstants
  <2> HIDE DEF q
  <2>4. CASE k - 1 < q
    <3>1. (k - 1) * Stride + Stride <= q * Stride
      BY <1>3, <2>1, <2>4, GridConstants, ProductGrows
    <3> QED
      BY <1>3, <2>1, <2>2, <2>3, <2>4, <3>1, GridConstants
  <2>5. CASE k - 1 = q
    BY <1>3, <2>1, <2>2, <2>3, <2>5, GridConstants
  <2>6. CASE q < k - 1
    <3>1. q * Stride + Stride <= (k - 1) * Stride
      BY <1>3, <2>1, <2>6, GridConstants, ProductGrows
    <3> QED
      BY <1>3, <2>1, <2>2, <2>3, <2>6, <3>1, GridConstants
  <2> QED
    BY <1>3, <2>1, <2>4, <2>5, <2>6
<1> QED
  BY <1>1, <1>2, <1>3, GridConstants

LEMMA RowCountMonotone ==
  ASSUME NEW v \in Nat, NEW w \in Nat, v <= w
  PROVE  RowCount(v) <= RowCount(w)
<1>1. Wave(RowCount(v)) <= v /\ Wave(RowCount(v)) \in Nat
  BY RowCountType, RowCountIsGrid, WaveType
<1> QED
  BY <1>1, RowCountType, RowCountIsGrid

(* No more rows than j up to the wave of row j.                            *)
LEMMA RowsUpTo ==
  ASSUME NEW j \in Nat, NEW w \in Nat, w <= Wave(j)
  PROVE  RowCount(w) <= j
<1>1. j + 1 \in Nat /\ Wave(j) < Wave(j + 1) /\ Wave(j) \in Nat /\ Wave(j + 1) \in Nat
  BY WaveGrows, WaveType
<1>2. ~ (j + 1 <= RowCount(w))
  BY <1>1, RowCountIsGrid
<1> QED
  BY <1>2, RowCountType

-----------------------------------------------------------------------------
(* The stages of a summary                                                 *)
-----------------------------------------------------------------------------

(* The fields the answer is read from.                                     *)
FieldsOK(s) ==
  /\ DOMAIN s = { "max", "failed", "independent", "envelopeMax", "terminal", "throughEnd",
                  "limiter", "aligned", "uncapped", "status", "truncated" }
  /\ s.max \in Nat /\ s.failed \in Nat /\ s.terminal \in Nat

(* The part of a request the stages read.                                  *)
LimitsOK(r) == r.limits \in SUBSET Nat /\ r.open \in BOOLEAN /\ r.reference \in Nat

Hit == "hit_by_hit"

(* Rows of verdicts, as they are summed up.                                *)
LEMMA PartsOfRows ==
  ASSUME NEW rs \in Seq(Verdict), NEW lane \in Lane
  PROVE  /\ Failing(lane, rs) \in SUBSET (1 .. Len(rs))
         /\ Failing(lane, rs) \in SUBSET Nat
         /\ Failing(lane, rs) # {} =>
              /\ Min(Failing(lane, rs)) \in Failing(lane, rs)
              /\ Min(Failing(lane, rs)) \in 1 .. Len(rs)
              /\ \A k \in Failing(lane, rs) : Min(Failing(lane, rs)) <= k
<1>1. /\ Failing(lane, rs) \in SUBSET (1 .. Len(rs))
  BY DEF Failing
<1>2. Failing(lane, rs) \in SUBSET Nat
  BY <1>1
<1> QED
  BY <1>1, <1>2, MinOfNaturals

LEMMA WavesOfRows ==
  ASSUME NEW rs \in Seq(Verdict), NEW lane \in Lane
  PROVE  /\ FirstFailed(lane, rs) \in Nat /\ LastContiguous(lane, rs) \in Nat
         /\ Failing(lane, rs) = {} =>
              FirstFailed(lane, rs) = 0 /\ LastContiguous(lane, rs) = Wave(Len(rs))
         /\ Failing(lane, rs) # {} =>
              /\ FirstFailed(lane, rs) = Wave(Min(Failing(lane, rs)))
              /\ LastContiguous(lane, rs) = Wave(Min(Failing(lane, rs)) - 1)
              /\ FirstFailed(lane, rs) > 0
<1>1. Len(rs) \in Nat /\ Wave(Len(rs)) \in Nat
  BY WaveType
<1>2. CASE Failing(lane, rs) = {}
  BY <1>1, <1>2 DEF FirstFailed, LastContiguous
<1>3. CASE Failing(lane, rs) # {}
  <2> DEFINE m == Min(Failing(lane, rs))
  <2>1. m \in 1 .. Len(rs)
    BY <1>3, PartsOfRows
  <2> HIDE DEF m
  <2>2. m \in Nat /\ m - 1 \in Nat /\ m # 0
    BY <2>1
  <2>3. Wave(m) \in Nat /\ Wave(m) # 0 /\ Wave(m - 1) \in Nat
    BY <2>2, WaveType
  <2> QED
    BY <1>3, <2>3 DEF FirstFailed, LastContiguous, m
<1> QED
  BY <1>2, <1>3

LEMMA OfRowsFields ==
  ASSUME NEW rs \in Seq(Verdict)
  PROVE  /\ FieldsOK(OfRows(rs))
         /\ OfRows(rs).max = LastContiguous(Hit, rs)
         /\ OfRows(rs).failed = FirstFailed(Hit, rs)
         /\ OfRows(rs).terminal = Wave(Len(rs))
         /\ OfRows(rs).limiter = "none" /\ OfRows(rs).aligned = "none"
         /\ OfRows(rs).status = "unset"
<1>1. "hit_by_hit" \in Lane /\ "contact_envelope" \in Lane
  BY DEF Lane
<1>2. Wave(Len(rs)) \in Nat
  BY WaveType
<1> QED
  BY <1>1, <1>2, WavesOfRows DEF OfRows, FieldsOK, Hit

(* The lowest explicit limit cuts, or the summary is left as it is.        *)
LEMMA LimitedFields ==
  ASSUME NEW r, LimitsOK(r), NEW s, FieldsOK(s)
  PROVE  LET l == Limited(r, s)
         IN /\ FieldsOK(l)
            /\ l.terminal = s.terminal /\ l.aligned = s.aligned /\ l.status = s.status
            /\ \/ /\ l = s
                  /\ \A x \in r.limits : s.max <= x \/ s.max <= 0
               \/ /\ r.limits # {} /\ l.max = Min(r.limits) /\ l.failed = l.max + 1
                  /\ l.max < s.max /\ l.limiter = "explicit"
                  /\ \A x \in r.limits : l.max <= x
<1>1. CASE r.limits = {}
  BY <1>1 DEF Limited
<1>2. CASE r.limits # {}
  <2>1. Min(r.limits) \in Nat /\ \A x \in r.limits : Min(r.limits) <= x /\ x \in Nat
    BY <1>2, MinOfNaturals DEF LimitsOK
  <2>2. CASE s.max <= 0 \/ Min(r.limits) >= s.max
    <3>1. Limited(r, s) = s
      BY <2>2 DEF Limited
    <3>2. s.max \in Nat
      BY DEF FieldsOK
    <3>3. \A x \in r.limits : s.max <= x \/ s.max <= 0
      BY <2>1, <2>2, <3>2
    <3> QED BY <3>1, <3>3
  <2>3. CASE ~ (s.max <= 0 \/ Min(r.limits) >= s.max)
    <3>1. Limited(r, s) = CutAt(s, Min(r.limits), "explicit")
      BY <1>2, <2>3 DEF Limited
    <3>3. Min(r.limits) < s.max
      BY <2>1, <2>3 DEF FieldsOK
    <3> QED
      BY <1>2, <2>1, <3>1, <3>3 DEF CutAt, FieldsOK
  <2> QED
    BY <2>2, <2>3
<1> QED
  BY <1>1, <1>2

(* How a result is aligned to its reference.                               *)
LEMMA AlignedFields ==
  ASSUME NEW r, LimitsOK(r), NEW s, FieldsOK(s)
  PROVE  LET a == Aligned(r, s)
         IN /\ FieldsOK(a)
            /\ a.terminal = s.terminal
            /\ IF r.open /\ r.reference = 0
               THEN /\ a.max = 0 /\ a.failed = 0 /\ a.status = "incomplete"
                    /\ a.aligned = s.aligned
               ELSE /\ a.status = s.status
                    /\ IF ~ r.open \/ s.max = 0
                       THEN a.max = s.max /\ a.failed = s.failed /\ a.aligned = s.aligned
                       ELSE /\ a.max = r.reference
                            /\ \/ s.max = r.reference /\ a.failed = s.failed /\ a.aligned = "at"
                               \/ s.max > r.reference /\ a.failed = a.max + 1 /\ a.aligned = "capped"
                               \/ s.max < r.reference /\ a.failed = a.max + 1 /\ a.aligned = "raised"
<1>1. r.open \in BOOLEAN /\ r.reference \in Nat /\ s.max \in Nat 
  BY DEF LimitsOK, FieldsOK
<1>2. CASE ~ r.open
  BY <1>1, <1>2 DEF Aligned, FieldsOK
<1>3. CASE r.open /\ r.reference = 0
  BY <1>1, <1>3 DEF Aligned, Blocked, FieldsOK
<1>4. CASE r.open /\ r.reference # 0 /\ s.max = 0
  BY <1>1, <1>4 DEF Aligned
<1>5. CASE r.open /\ r.reference # 0 /\ s.max # 0 /\ s.max = r.reference
  BY <1>1, <1>5 DEF Aligned, FieldsOK
<1>6. CASE r.open /\ r.reference # 0 /\ s.max # 0 /\ s.max > r.reference
  <2>1. Aligned(r, s) = Capped(s, r.reference)
    BY <1>1, <1>6 DEF Aligned
  <2> QED
    BY <1>1, <1>6, <2>1 DEF Capped, CutAt, FieldsOK
<1>7. CASE r.open /\ r.reference # 0 /\ s.max # 0 /\ s.max < r.reference
  <2>1. Aligned(r, s) = Raised(s, r.reference)
    BY <1>1, <1>7 DEF Aligned
  <2> QED
    BY <1>1, <1>7, <2>1 DEF Raised, FieldsOK
<1> QED
  BY <1>1, <1>2, <1>3, <1>4, <1>5, <1>6, <1>7

(* An ambiguity only decides the status.                                   *)
LEMMA MergedFields ==
  ASSUME NEW s, FieldsOK(s), NEW failure, NEW wave \in Nat
  PROVE  LET t == Merged(s, failure, wave)
         IN /\ FieldsOK(t)
            /\ t.max = s.max /\ t.failed = s.failed /\ t.aligned = s.aligned
            /\ t.terminal = s.terminal
            /\ ~ failure => t.status = IF s.status = "unset" THEN "complete" ELSE s.status
            /\ failure => /\ t.status \in {"complete", "incomplete"}
                          /\ t.status = "complete" => s.failed > 0 /\ wave > s.failed
BY DEF Merged, FieldsOK

-----------------------------------------------------------------------------
(* A prefix of a run and the whole run                                     *)
-----------------------------------------------------------------------------

Staged(r, s) == Aligned(r, Limited(r, s))

Fresh(s) == FieldsOK(s) /\ s.aligned = "none" /\ s.status = "unset"

LEMMA LimitedPair ==
  ASSUME NEW r, LimitsOK(r), NEW s, Fresh(s), NEW t, Fresh(t)
  PROVE  LET l == Limited(r, s)
             m == Limited(r, t)
         IN /\ Fresh(l) /\ Fresh(m)
            /\ s.max = t.max /\ s.failed = t.failed => l.max = m.max /\ l.failed = m.failed
            /\ s.max > 0 /\ t.max >= s.max =>
                 \/ l.max = s.max /\ l.failed = s.failed /\ m.max >= l.max
                 \/ l.max = m.max /\ l.failed = m.failed /\ l.failed = l.max + 1
<1> DEFINE l == Limited(r, s)
           m == Limited(r, t)
<1>1. r.limits # {} => Min(r.limits) \in r.limits /\ Min(r.limits) \in Nat
  BY MinOfNaturals DEF LimitsOK
<1>2. /\ Fresh(l)
      /\ \/ l = s /\ \A x \in r.limits : s.max <= x \/ s.max <= 0
         \/ /\ r.limits # {} /\ l.max = Min(r.limits) /\ l.failed = l.max + 1 /\ l.max < s.max
            /\ \A x \in r.limits : l.max <= x
  BY LimitedFields DEF Fresh
<1>3. /\ Fresh(m)
      /\ \/ m = t /\ \A x \in r.limits : t.max <= x \/ t.max <= 0
         \/ /\ r.limits # {} /\ m.max = Min(r.limits) /\ m.failed = m.max + 1 /\ m.max < t.max
            /\ \A x \in r.limits : m.max <= x
  BY LimitedFields DEF Fresh
<1>4. { s.max, t.max, l.max, m.max } \subseteq Nat
  BY <1>2, <1>3 DEF Fresh, FieldsOK
<1> HIDE DEF l, m
<1>5. s.max = t.max /\ s.failed = t.failed => l.max = m.max /\ l.failed = m.failed
  BY <1>1, <1>2, <1>3, <1>4
<1>6. s.max > 0 /\ t.max >= s.max =>
        \/ l.max = s.max /\ l.failed = s.failed /\ m.max >= l.max
        \/ l.max = m.max /\ l.failed = m.failed /\ l.failed = l.max + 1
  BY <1>1, <1>2, <1>3, <1>4
<1> QED
  BY <1>2, <1>3, <1>5, <1>6 DEF l, m

(* Summaries that agree on the wave reached and on the first failing wave  *)
(* are staged alike.                                                       *)
LEMMA StagedAlike ==
  ASSUME NEW r, LimitsOK(r), NEW s, Fresh(s), NEW t, Fresh(t),
         s.max = t.max, s.failed = t.failed
  PROVE  SameWaves(Staged(r, s), Staged(r, t)) /\ Staged(r, s).status = Staged(r, t).status
<1> DEFINE l == Limited(r, s)
           m == Limited(r, t)
<1>1. Fresh(l) /\ Fresh(m) /\ l.max = m.max /\ l.failed = m.failed
  BY LimitedPair
<1> HIDE DEF l, m
<1>2. l.max \in Nat /\ m.max \in Nat /\ r.reference \in Nat /\ FieldsOK(l) /\ FieldsOK(m)
  BY <1>1 DEF Fresh, FieldsOK, LimitsOK
<1>3. SameWaves(Aligned(r, l), Aligned(r, m)) /\ Aligned(r, l).status = Aligned(r, m).status
  BY <1>1, <1>2, AlignedFields DEF SameWaves, Fresh
<1> QED
  BY <1>3 DEF Staged, l, m

(* A run that survives a prefix gets at least as far.  If the stages find  *)
(* a failure, or nothing complete, in the summary of the prefix, they find *)
(* the same in that of the run.                                            *)
LEMMA StagedOnward ==
  ASSUME NEW r, LimitsOK(r), NEW s, Fresh(s), NEW t, Fresh(t),
         s.failed = 0, s.max > 0, t.max >= s.max,
         \/ Staged(r, s).status = "incomplete" \/ Staged(r, s).failed # 0
         \/ Staged(r, s).max < s.max
  PROVE  SameWaves(Staged(r, s), Staged(r, t)) /\ Staged(r, s).status = Staged(r, t).status
<1> DEFINE l == Limited(r, s)
           m == Limited(r, t)
           a == Aligned(r, l)
           b == Aligned(r, m)
<1>1. /\ Fresh(l) /\ Fresh(m)
      /\ \/ l.max = s.max /\ l.failed = s.failed /\ m.max >= l.max
         \/ l.max = m.max /\ l.failed = m.failed /\ l.failed = l.max + 1
  BY LimitedPair
<1>2. a.status = "incomplete" \/ a.failed # 0 \/ a.max < s.max
  BY DEF Staged
<1> HIDE DEF l, m
<1>3. /\ { s.max, l.max, m.max, r.reference } \subseteq Nat /\ FieldsOK(l) /\ FieldsOK(m)
      /\ r.open \in BOOLEAN
  BY <1>1 DEF Fresh, FieldsOK, LimitsOK
<1>4. SameWaves(a, b) /\ a.status = b.status
  <2>1. CASE l.max = m.max /\ l.failed = m.failed
    BY <1>1, <1>3, <2>1, AlignedFields DEF SameWaves, Fresh
  <2>2. CASE l.max = s.max /\ l.failed = s.failed /\ m.max >= l.max
    <3>1. CASE r.open /\ r.reference = 0
      BY <1>1, <1>3, <3>1, AlignedFields DEF SameWaves, Fresh
    <3>2. CASE ~ r.open
      <4>1. a.status = l.status /\ a.max = l.max /\ a.failed = l.failed
        BY <1>1, <1>3, <3>2, AlignedFields
      <4> QED
        BY <1>1, <1>2, <1>3, <2>2, <4>1 DEF Fresh
    <3>3. CASE r.open /\ r.reference # 0
      <4> HIDE DEF a, b
      <4>1. /\ a.status = l.status /\ a.max = r.reference
            /\ \/ l.max = r.reference /\ a.failed = l.failed /\ a.aligned = "at"
               \/ l.max > r.reference /\ a.failed = a.max + 1 /\ a.aligned = "capped"
               \/ l.max < r.reference /\ a.failed = a.max + 1 /\ a.aligned = "raised"
        BY <1>1, <1>3, <2>2, <3>3, AlignedFields DEF a
      <4>2. /\ b.status = m.status /\ b.max = r.reference
            /\ \/ m.max = r.reference /\ b.failed = m.failed /\ b.aligned = "at"
               \/ m.max > r.reference /\ b.failed = b.max + 1 /\ b.aligned = "capped"
               \/ m.max < r.reference /\ b.failed = b.max + 1 /\ b.aligned = "raised"
        BY <1>1, <1>3, <2>2, <3>3, AlignedFields DEF b
      <4>3. a.aligned # "at"
        BY <1>1, <1>2, <1>3, <2>2, <4>1 DEF Fresh
      <4> QED
        BY <1>1, <1>3, <4>1, <4>2, <4>3 DEF SameWaves, Fresh
    <3> QED
      BY <1>3, <3>1, <3>2, <3>3
  <2> QED
    BY <1>1, <2>1, <2>2
<1> QED
  BY <1>4 DEF Staged, l, m

(* The summary of a prefix and of the run itself, before any stage.        *)
LEMMA PrefixOfRun ==
  ASSUME NEW rs \in Seq(Verdict), NEW fs \in Seq(Verdict), Len(rs) <= Len(fs),
         \A k \in 1 .. Len(rs) : rs[k] = fs[k]
  PROVE  /\ Failing(Hit, rs) # {} =>
              OfRows(rs).max = OfRows(fs).max /\ OfRows(rs).failed = OfRows(fs).failed
         /\ Failing(Hit, rs) = {} =>
              /\ OfRows(rs).failed = 0 /\ OfRows(rs).max = OfRows(rs).terminal
              /\ OfRows(fs).max >= OfRows(rs).max
<1>0. Hit \in Lane
  BY DEF Hit, Lane
<1>1. Len(rs) \in Nat /\ Len(fs) \in Nat
  OBVIOUS
<1>2. \A k \in 1 .. Len(rs) : k \in Failing(Hit, rs) <=> k \in Failing(Hit, fs)
  BY <1>1 DEF Failing
<1>3. CASE Failing(Hit, rs) # {}
  <2> DEFINE m == Min(Failing(Hit, rs))
             n == Min(Failing(Hit, fs))
  <2>1. /\ m \in Failing(Hit, rs) /\ m \in 1 .. Len(rs)
        /\ \A k \in Failing(Hit, rs) : m <= k
    BY <1>0, <1>3, PartsOfRows
  <2>2. m \in Failing(Hit, fs)
    BY <1>2, <2>1
  <2>3. /\ n \in Failing(Hit, fs) /\ n \in 1 .. Len(fs)
        /\ \A k \in Failing(Hit, fs) : n <= k
    BY <1>0, <2>2, PartsOfRows
  <2> HIDE DEF m, n
  <2>4. m = n
    BY <1>1, <1>2, <2>1, <2>2, <2>3
  <2> QED
    BY <1>0, <1>3, <2>2, <2>4, WavesOfRows, OfRowsFields DEF m, n
<1>4. CASE Failing(Hit, rs) = {}
  <2>1. OfRows(rs).failed = 0 /\ OfRows(rs).max = Wave(Len(rs)) /\ OfRows(rs).terminal = Wave(Len(rs))
    BY <1>0, <1>4, WavesOfRows, OfRowsFields
  <2>2. PICK j \in Nat : OfRows(fs).max = Wave(j) /\ Len(rs) <= j
    <3>1. CASE Failing(Hit, fs) = {}
      BY <1>0, <1>1, <3>1, WavesOfRows, OfRowsFields
    <3>2. CASE Failing(Hit, fs) # {}
      <4> DEFINE n == Min(Failing(Hit, fs))
      <4>1. n \in Failing(Hit, fs) /\ n \in 1 .. Len(fs)
        BY <1>0, <3>2, PartsOfRows
      <4>2. OfRows(fs).max = Wave(n - 1)
        BY <1>0, <3>2, WavesOfRows, OfRowsFields
      <4> HIDE DEF n
      <4>3. ~ (n <= Len(rs))
        BY <1>1, <1>2, <1>4, <4>1
      <4> QED
        BY <1>1, <4>1, <4>2, <4>3
    <3> QED
      BY <3>1, <3>2
  <2>3. Wave(Len(rs)) <= Wave(j)
    <3>1. CASE Len(rs) = j
      BY <1>1, <3>1, WaveType
    <3>2. CASE Len(rs) < j
      BY <1>1, <3>2, WaveGrows, WaveType
    <3> QED
      BY <1>1, <2>2, <3>1, <3>2
  <2> QED
    BY <1>4, <2>1, <2>2, <2>3, WaveType, <1>1
<1> QED
  BY <1>3, <1>4

-----------------------------------------------------------------------------
(* The rows one payload over the whole run keeps                           *)
-----------------------------------------------------------------------------

(* What the assumption on the requests says of one of them, with or        *)
(* without the early exit of its scan.                                     *)
RequestOK(r) ==
  /\ r.verdict \in Seq(Verdict) /\ r.end \in Int
  /\ r.stop \in BOOLEAN /\ r.contact \in BOOLEAN
  /\ LimitsOK(r)
  /\ FinalEnd(r) \in Nat \ {0} /\ RowCount(FinalEnd(r)) \in Nat
  /\ RowCount(FinalEnd(r)) <= Len(r.verdict)

Unstopped(r) == [ r EXCEPT !.stop = FALSE ]

LEMMA RequestsOK ==
  ASSUME NEW r \in Requests
  PROVE  /\ RequestOK(r) /\ RequestOK(Unstopped(r))
         /\ LET q == Unstopped(r)
            IN /\ ~ q.stop /\ q.verdict = r.verdict /\ q.end = r.end /\ q.contact = r.contact
               /\ q.limits = r.limits /\ q.open = r.open /\ q.reference = r.reference
<1> DEFINE q == Unstopped(r)
<1>1. /\ r \in [ verdict : Seq(Verdict), end : Int, stop : BOOLEAN, highTier : BOOLEAN,
                 defense : BOOLEAN, contact : BOOLEAN, limits : SUBSET Nat, open : BOOLEAN,
                 reference : Nat ]
      /\ RowCount(FinalEnd(r)) <= Len(r.verdict)
  BY RequestAssumption DEF OfWholeRun, RequestType
<1>2. /\ q.stop = FALSE /\ q.verdict = r.verdict /\ q.end = r.end /\ q.contact = r.contact
      /\ q.limits = r.limits /\ q.open = r.open /\ q.reference = r.reference
  BY <1>1 DEF Unstopped
<1>3. FinalEnd(r) \in Nat \ {0} /\ FinalEnd(q) = FinalEnd(r)
  BY <1>1, <1>2 DEF FinalEnd
<1>4. RowCount(FinalEnd(r)) \in Nat
  BY <1>3, RowCountType
<1> HIDE DEF q
<1> QED
  BY <1>1, <1>2, <1>3, <1>4 DEF RequestOK, LimitsOK, q

LEMMA EndingIsLeast ==
  ASSUME NEW r, RequestOK(r)
  PROVE  /\ Ending(r) \subseteq 1 .. RowCount(FinalEnd(r))
         /\ Ending(r) # {} =>
              /\ Min(Ending(r)) \in Ending(r) /\ Min(Ending(r)) \in 1 .. RowCount(FinalEnd(r))
              /\ \A k \in Ending(r) : Min(Ending(r)) <= k
<1>1. Ending(r) \subseteq 1 .. RowCount(FinalEnd(r)) /\ Ending(r) \in SUBSET Nat
  BY DEF Ending, RequestOK
<1> QED
  BY <1>1, MinOfNaturals

(* The full scan keeps the rows up to the one that ends it.                *)
LEMMA RowsOfRun ==
  ASSUME NEW r, RequestOK(r), r.contact
  PROVE  /\ FullRows(r) \in Seq(Verdict)
         /\ Len(FullRows(r)) <= RowCount(FinalEnd(r))
         /\ \A k \in 1 .. Len(FullRows(r)) : FullRows(r)[k] = r.verdict[k]
         /\ Ending(r) = {} => Len(FullRows(r)) = RowCount(FinalEnd(r))
         /\ Ending(r) # {} =>
              Len(FullRows(r)) = IF AmbiguousEnd(r) THEN Min(Ending(r)) - 1 ELSE Min(Ending(r))
<1> DEFINE count == IF Ending(r) = {} THEN RowCount(FinalEnd(r))
                    ELSE IF AmbiguousEnd(r) THEN Min(Ending(r)) - 1 ELSE Min(Ending(r))
<1>1. count \in Nat /\ count <= RowCount(FinalEnd(r))
  <2> DEFINE m == Min(Ending(r))
  <2>1. Ending(r) # {} => m \in 1 .. RowCount(FinalEnd(r))
    BY EndingIsLeast
  <2>2. RowCount(FinalEnd(r)) \in Nat
    BY DEF RequestOK
  <2> HIDE DEF m
  <2>3. Ending(r) # {} => m \in Nat /\ m - 1 \in Nat /\ m <= RowCount(FinalEnd(r))
    BY <2>1, <2>2
  <2> QED
    BY <2>2, <2>3 DEF m
<1>2. FullRows(r) = [ k \in 1 .. count |-> r.verdict[k] ]
  BY DEF FullRows
<1> HIDE DEF count
<1>3. \A k \in 1 .. count : r.verdict[k] \in Verdict
  BY <1>1 DEF RequestOK
<1>4. /\ FullRows(r) \in Seq(Verdict) /\ Len(FullRows(r)) = count
      /\ \A k \in 1 .. count : FullRows(r)[k] = r.verdict[k]
  BY <1>1, <1>2, <1>3
<1> QED
  BY <1>1, <1>4 DEF count

(* Rows whose last one at most ends the scan, and not by an ambiguity, are *)
(* a prefix of what the full scan keeps.                                   *)
LEMMA PrefixOfFull ==
  ASSUME NEW r, RequestOK(r), r.contact, NEW rs \in Seq(Verdict),
         Len(rs) <= RowCount(FinalEnd(r)),
         \A k \in 1 .. Len(rs) : rs[k] = r.verdict[k],
         \A k \in 1 .. Len(rs) : k \in Ending(r) => k = Len(rs) /\ r.verdict[k] # "ambiguous"
  PROVE  /\ Len(rs) <= Len(FullRows(r))
         /\ \A k \in 1 .. Len(rs) : rs[k] = FullRows(r)[k]
         /\ Len(rs) = RowCount(FinalEnd(r)) => FullRows(r) = rs
<1>1. Len(rs) \in Nat /\ RowCount(FinalEnd(r)) \in Nat
  BY DEF RequestOK
<1>2. /\ FullRows(r) \in Seq(Verdict) /\ Len(FullRows(r)) \in Nat
      /\ Len(FullRows(r)) <= RowCount(FinalEnd(r))
      /\ \A k \in 1 .. Len(FullRows(r)) : FullRows(r)[k] = r.verdict[k]
  BY RowsOfRun
<1>3. Len(rs) <= Len(FullRows(r))
  <2>1. CASE Ending(r) = {}
    BY <2>1, RowsOfRun
  <2>2. CASE Ending(r) # {}
    <3> DEFINE m == Min(Ending(r))
    <3>1. m \in Ending(r) /\ m \in 1 .. RowCount(FinalEnd(r))
      BY <2>2, EndingIsLeast
    <3>2. Len(FullRows(r)) = IF AmbiguousEnd(r) THEN m - 1 ELSE m
      BY <2>2, RowsOfRun
    <3>3. AmbiguousEnd(r) <=> r.verdict[m] = "ambiguous"
      BY <2>2 DEF AmbiguousEnd
    <3> HIDE DEF m
    <3>4. m <= Len(rs) => m = Len(rs) /\ ~ AmbiguousEnd(r)
      BY <1>1, <3>1, <3>3
    <3> QED
      BY <1>1, <3>1, <3>2, <3>4
  <2> QED
    BY <2>1, <2>2
<1>4. \A k \in 1 .. Len(rs) : rs[k] = FullRows(r)[k]
  BY <1>1, <1>2, <1>3
<1>5. Len(rs) = RowCount(FinalEnd(r)) => FullRows(r) = rs
  BY <1>1, <1>2, <1>3, <1>4
<1> QED
  BY <1>3, <1>4, <1>5

-----------------------------------------------------------------------------
(* The invariant                                                           *)
-----------------------------------------------------------------------------

(* The end waves a request may be tried with: early ones only under the    *)
(* early exit, and each with a row.                                        *)
EndWaves(r) ==
  { h \in 1 .. FinalEnd(r) : h = FinalEnd(r) \/ (r.stop /\ Interval <= h) }

HorizonsOK ==
  /\ horizons \subseteq EndWaves(request)
  /\ pc = "search" => FinalEnd(request) \in horizons
  /\ pc # "search" =>
       /\ end \in EndWaves(request)
       /\ end = FinalEnd(request) \/ FinalEnd(request) \in horizons

RowsOK ==
  /\ rows \in Seq(Verdict) /\ Len(rows) <= RowCount(end)
  /\ \A k \in 1 .. Len(rows) : rows[k] = request.verdict[k] /\ rows[k] # "ambiguous"
  /\ request.contact \/ rows = << >>

(* None of the first n rows would have ended the scan.                     *)
GoesOn(n) == request.stop => \A k \in 1 .. n : rows[k] # "fails"

Unfailed == request.contact /\ ~ ambiguous /\ unresolved = 0

AtEnd == Unfailed /\ Len(rows) = RowCount(end) /\ GoesOn(Len(rows))
AtFailure ==
  /\ Unfailed /\ request.stop
  /\ rows # << >> /\ rows[Len(rows)] = "fails" /\ GoesOn(Len(rows) - 1)

NextIsAmbiguous ==
  Len(rows) < RowCount(end) /\ request.verdict[Len(rows) + 1] = "ambiguous"

AtAmbiguity ==
  /\ request.contact /\ ~ request.stop /\ ambiguous
  /\ NextIsAmbiguous /\ unresolved = Wave(Len(rows) + 1)
WithoutContact ==
  /\ ~ request.contact /\ ~ request.stop /\ ambiguous
  /\ unresolved = IF RowCount(end) > 0 THEN Wave(1) ELSE 0

(* Why the scan of the payload ended.                                      *)
EndedBy == AtEnd \/ AtFailure \/ AtAmbiguity \/ WithoutContact

Scanned ==
  /\ pc = "scan" => Unfailed /\ GoesOn(Len(rows))
  /\ pc \in {"summarise", "returned"} => EndedBy
  /\ pc = "raised" =>
       request.stop /\ (~ request.contact \/ (NextIsAmbiguous /\ GoesOn(Len(rows))))

Answer ==
  pc = "returned" =>
    /\ summary = Summary(request, rows, ambiguous, unresolved)
    /\ ~ NeedsMoreHorizon(summary) \/ horizons = {}

SearchInv ==
  /\ request \in Requests
  /\ pc \in {"search", "scan", "summarise", "returned", "raised"}
  /\ HorizonsOK
  /\ pc # "search" => RowsOK
  /\ Scanned /\ Answer

(* The candidate end waves are end waves, and the whole run is one.        *)
LEMMA CandidatesAreEndWaves ==
  ASSUME NEW r \in Requests
  PROVE  CandidateEndWaves(r) \subseteq EndWaves(r) /\ FinalEnd(r) \in CandidateEndWaves(r)
<1>1. /\ FinalEnd(r) \in Nat \ {0} /\ r.stop \in BOOLEAN
      /\ Interval \in Nat \ {0}
      /\ FirstHorizon \in Nat /\ SecondHorizon \in Nat /\ WideHorizon \in Nat
      /\ Interval <= FirstHorizon /\ Interval <= SecondHorizon /\ Interval <= WideHorizon
  BY RequestsOK, HorizonAssumption, GridAssumption DEF RequestOK
<1>2. FinalEnd(r) \in EndWaves(r)
  BY <1>1 DEF EndWaves
<1>3. CASE ~ Progressive(r)
  BY <1>2, <1>3 DEF CandidateEndWaves
<1>4. CASE Progressive(r) /\ r.defense
  <2>1. CandidateEndWaves(r) = Ladder(FinalEnd(r)) /\ r.stop
    BY <1>4 DEF CandidateEndWaves, Progressive
  <2> QED
    BY <1>1, <1>2, <2>1 DEF Ladder, EndWaves
<1>5. CASE Progressive(r) /\ ~ r.defense
  <2>1. CandidateEndWaves(r) = { h \in { WideHorizon, FinalEnd(r) } : h <= FinalEnd(r) } /\ r.stop
    BY <1>5 DEF CandidateEndWaves, Progressive
  <2> QED
    BY <1>1, <1>2, <2>1 DEF EndWaves
<1> QED
  BY <1>3, <1>4, <1>5

LEMMA SearchInit == Init => SearchInv
<1> SUFFICES ASSUME Init PROVE SearchInv
  OBVIOUS
<1>1. HorizonsOK
  BY CandidatesAreEndWaves DEF Init, HorizonsOK
<1> QED
  BY <1>1 DEF Init, SearchInv, Scanned, Answer

LEMMA EndIsNatural ==
  ASSUME SearchInv, pc # "search"
  PROVE  /\ end \in Nat \ {0} /\ end <= FinalEnd(request)
         /\ RowCount(end) \in Nat /\ RowCount(end) <= RowCount(FinalEnd(request))
<1>1. end \in Nat \ {0} /\ FinalEnd(request) \in Nat /\ end <= FinalEnd(request)
  BY RequestsOK DEF SearchInv, HorizonsOK, EndWaves, RequestOK
<1> QED
  BY <1>1, RowCountType, RowCountMonotone

LEMMA SearchNext == SearchInv /\ [Next]_vars => SearchInv'
<1> SUFFICES ASSUME SearchInv, [Next]_vars PROVE SearchInv'
  OBVIOUS
<1>0. request \in Requests /\ RequestOK(request)
  BY RequestsOK DEF SearchInv
<1>1. CASE BeginPayload
  <2>1. /\ request' = request /\ pc = "search" /\ FinalEnd(request) \in horizons
        /\ horizons \subseteq EndWaves(request)
    BY <1>1 DEF BeginPayload, SearchInv, HorizonsOK
  <2>2. horizons \in SUBSET Nat
    BY <1>0, <2>1 DEF EndWaves, RequestOK
  <2>3. end' \in horizons
    BY <1>1, <2>1, <2>2, MinOfNaturals DEF BeginPayload
  <2>4. horizons' = horizons \ {end'} /\ pc' \in {"scan", "raised", "summarise"}
    BY <1>1 DEF BeginPayload
  <2>5. HorizonsOK'
    BY <2>1, <2>3, <2>4 DEF HorizonsOK, EndWaves, FinalEnd
  <2>6. RowCount(end') \in Nat
    BY <2>2, <2>3, RowCountType
  <2>7. RowsOK'
    BY <1>1, <2>6 DEF BeginPayload, RowsOK
  <2>8. Scanned'
    <3>1. /\ rows' = << >> /\ ambiguous' = (~ request.contact /\ ~ request.stop)
          /\ unresolved' = IF ambiguous' /\ RowCount(end') > 0 THEN Wave(1) ELSE 0
          /\ pc' = IF request.contact THEN "scan" ELSE IF request.stop THEN "raised" ELSE "summarise"
      BY <1>1 DEF BeginPayload
    <3>2. CASE request.contact
      <4>1. pc' = "scan" /\ ~ ambiguous' /\ unresolved' = 0 /\ Len(rows') = 0
        BY <3>1, <3>2
      <4> QED
        BY <2>1, <3>2, <4>1 DEF Scanned, Unfailed, GoesOn
    <3>3. CASE ~ request.contact /\ request.stop
      <4>1. pc' = "raised"
        BY <3>1, <3>3
      <4> QED
        BY <2>1, <3>3, <4>1 DEF Scanned
    <3>4. CASE ~ request.contact /\ ~ request.stop
      <4>1. pc' = "summarise" /\ ambiguous' /\ unresolved' = IF RowCount(end') > 0 THEN Wave(1) ELSE 0
        BY <3>1, <3>4
      <4> QED
        BY <2>1, <3>4, <4>1 DEF Scanned, EndedBy, WithoutContact
    <3> QED
      BY <3>2, <3>3, <3>4
  <2> QED
    BY <1>0, <2>1, <2>4, <2>5, <2>7, <2>8 DEF SearchInv, Answer
<1>2. CASE EvaluateRow
  <2>1. /\ pc = "scan" /\ RowsOK /\ Unfailed /\ GoesOn(Len(rows))
        /\ Len(rows) < RowCount(end) /\ NextVerdict # "ambiguous" /\ rows' = Append(rows, NextVerdict)
        /\ UNCHANGED << request, horizons, end, unresolved, ambiguous, summary >>
        /\ pc' = IF request.stop /\ NextVerdict = "fails" THEN "summarise" ELSE pc
    BY <1>2 DEF EvaluateRow, Kept, SearchInv, Scanned
  <2>2. HorizonsOK'
    BY <2>1 DEF SearchInv, HorizonsOK, EndWaves, FinalEnd
  <2>3. RowCount(end) \in Nat /\ RowCount(end) <= Len(request.verdict)
    BY <1>0, <2>1, EndIsNatural DEF RequestOK
  <2>4. NextVerdict = request.verdict[Len(rows) + 1] /\ NextVerdict \in Verdict
    BY <1>0, <2>1, <2>3 DEF NextVerdict, RequestOK, RowsOK
  <2>5. /\ rows' \in Seq(Verdict) /\ Len(rows') = Len(rows) + 1 /\ Len(rows) \in Nat
        /\ rows'[Len(rows) + 1] = NextVerdict
        /\ \A k \in 1 .. Len(rows) : rows'[k] = rows[k]
    BY <2>1, <2>4 DEF RowsOK
  <2>6. RowsOK'
    BY <2>1, <2>3, <2>4, <2>5 DEF RowsOK, Unfailed
  <2>8. request.stop => \A k \in 1 .. Len(rows) : rows'[k] # "fails"
    BY <2>1, <2>5 DEF GoesOn
  <2>9. CASE request.stop /\ NextVerdict = "fails"
    <3>1. AtFailure'
      BY <2>1, <2>5, <2>8, <2>9 DEF AtFailure, Unfailed, GoesOn
    <3> QED
      BY <1>0, <2>1, <2>2, <2>6, <2>9, <3>1 DEF SearchInv, Scanned, EndedBy, Answer
  <2>10. CASE ~ (request.stop /\ NextVerdict = "fails")
    <3>1. Unfailed' /\ GoesOn(Len(rows))'
      BY <2>1, <2>5, <2>8, <2>10 DEF Unfailed, GoesOn
    <3> QED
      BY <1>0, <2>1, <2>2, <2>6, <2>10, <3>1 DEF SearchInv, Scanned, Answer
  <2> QED
    BY <2>9, <2>10
<1>3. CASE AmbiguousRow
  <2>1. /\ pc = "scan" /\ RowsOK /\ Unfailed /\ GoesOn(Len(rows)) /\ HorizonsOK
        /\ NextIsAmbiguous /\ UNCHANGED << request, horizons, end, rows, summary >>
    BY <1>3 DEF AmbiguousRow, SearchInv, Scanned, NextIsAmbiguous, NextVerdict
  <2>2. HorizonsOK' /\ RowsOK' /\ pc' \in {"raised", "summarise"}
    BY <1>3, <2>1 DEF AmbiguousRow, HorizonsOK, RowsOK
  <2>3. Scanned'
    BY <1>3, <2>1 DEF AmbiguousRow, Scanned, EndedBy, AtAmbiguity, Unfailed, NextIsAmbiguous, GoesOn
  <2> QED
    BY <1>0, <2>1, <2>2, <2>3 DEF SearchInv, Answer
<1>4. CASE EndOfTable
  <2>1. /\ pc = "scan" /\ RowsOK /\ Unfailed /\ GoesOn(Len(rows)) /\ HorizonsOK
        /\ Len(rows) = RowCount(end) /\ pc' = "summarise"
        /\ UNCHANGED << request, horizons, end, rows, unresolved, ambiguous, summary >>
    BY <1>4 DEF EndOfTable, SearchInv, Scanned
  <2>2. HorizonsOK' /\ RowsOK' /\ AtEnd'
    BY <2>1 DEF HorizonsOK, RowsOK, AtEnd, Unfailed, GoesOn
  <2> QED
    BY <1>0, <2>1, <2>2 DEF SearchInv, Scanned, EndedBy, Answer
<1>5. CASE Summarise
  <2>1. /\ pc = "summarise" /\ RowsOK /\ EndedBy /\ HorizonsOK
        /\ summary' = Summary(request, rows, ambiguous, unresolved)
        /\ UNCHANGED << request, horizons, end, rows, unresolved, ambiguous >>
        /\ pc' = IF NeedsMoreHorizon(summary') /\ horizons # {} THEN "search" ELSE "returned"
    BY <1>5 DEF Summarise, SearchInv, Scanned
  <2>2. RowsOK' /\ EndedBy'
    BY <2>1 DEF RowsOK, EndedBy, AtEnd, AtFailure, AtAmbiguity, WithoutContact, Unfailed, GoesOn,
       NextIsAmbiguous
  <2>3. NeedsMoreHorizon(summary') => end # FinalEnd(request)
    BY <1>0, <2>1, EndIsNatural DEF NeedsMoreHorizon, FinalEnd, RequestOK
  <2>4. HorizonsOK'
    BY <2>1, <2>3 DEF HorizonsOK
  <2>5. Answer'
    BY <2>1 DEF Answer, NeedsMoreHorizon
  <2> QED
    BY <1>0, <2>1, <2>2, <2>4, <2>5 DEF SearchInv, Scanned
<1>6. CASE Answered \/ UNCHANGED vars
  BY <1>6 DEF Answered, vars, SearchInv, HorizonsOK, RowsOK, Scanned, EndedBy, AtEnd, AtFailure,
     AtAmbiguity, WithoutContact, Unfailed, GoesOn, NextIsAmbiguous, Answer, NeedsMoreHorizon
<1> QED
  BY <1>1, <1>2, <1>3, <1>4, <1>5, <1>6 DEF Next

-----------------------------------------------------------------------------
(* What is answered                                                        *)
-----------------------------------------------------------------------------

LEMMA RowsAreFresh ==
  ASSUME NEW rs \in Seq(Verdict)
  PROVE  Fresh(OfRows(rs))
BY OfRowsFields DEF Fresh

(* What is returned is the staged summary of the rows kept; an ambiguity   *)
(* only decides its status.                                                *)
LEMMA AnswerFields ==
  ASSUME SearchInv, pc = "returned"
  PROVE  LET a == Staged(request, OfRows(rows))
         IN /\ Fresh(OfRows(rows)) /\ FieldsOK(a) /\ LimitsOK(request)
            /\ a.status \in {"unset", "incomplete"}
            /\ summary.max = a.max /\ summary.failed = a.failed /\ summary.aligned = a.aligned
            /\ summary.terminal = OfRows(rows).terminal
            /\ ~ ambiguous =>
                 summary.status = IF a.status = "unset" THEN "complete" ELSE a.status
            /\ ambiguous => /\ summary.status \in {"complete", "incomplete"}
                            /\ summary.status = "complete" => a.failed > 0 /\ unresolved > a.failed
<1> DEFINE s == OfRows(rows)
           a == Staged(request, s)
<1>1. rows \in Seq(Verdict) /\ EndedBy /\ summary = Summary(request, rows, ambiguous, unresolved)
  BY DEF SearchInv, RowsOK, Scanned, Answer
<1>2. LimitsOK(request) /\ Fresh(s)
  BY <1>1, RequestsOK, RowsAreFresh DEF SearchInv, RequestOK
<1>3. unresolved \in Nat
  BY <1>1, WaveType DEF EndedBy, AtEnd, AtFailure, AtAmbiguity, WithoutContact, Unfailed
<1>4. LET l == Limited(request, s)
      IN FieldsOK(l) /\ l.terminal = s.terminal /\ l.status = "unset"
  BY <1>2, LimitedFields DEF Fresh
<1>5. FieldsOK(a) /\ a.terminal = s.terminal /\ a.status \in {"unset", "incomplete"}
  BY <1>2, <1>4, AlignedFields DEF Staged
<1>6. summary = Merged(a, ambiguous, unresolved)
  BY <1>1 DEF Summary, Staged
<1> HIDE DEF a, s
<1> QED
  BY <1>2, <1>3, <1>5, <1>6, MergedFields DEF a, s

(* Unless raised, the stages only lower the wave, and below every limit.   *)
LEMMA StagedIsLower ==
  ASSUME NEW r, LimitsOK(r), NEW s, Fresh(s), Staged(r, s).aligned # "raised"
  PROVE  /\ Staged(r, s).max <= s.max
         /\ \A x \in r.limits : Staged(r, s).max <= x
<1> DEFINE l == Limited(r, s)
           a == Aligned(r, l)
<1>1. /\ FieldsOK(l)
      /\ \/ l = s /\ \A x \in r.limits : s.max <= x \/ s.max <= 0
         \/ l.max < s.max /\ \A x \in r.limits : l.max <= x
  BY LimitedFields DEF Fresh
<1>2. s.max \in Nat /\ l.max \in Nat /\ \A x \in r.limits : x \in Nat
  BY <1>1 DEF Fresh, FieldsOK, LimitsOK
<1> HIDE DEF l
<1>3. a.max \in Nat /\ a.max <= l.max
  BY <1>1, <1>2, AlignedFields DEF Staged, FieldsOK, LimitsOK, l
<1> HIDE DEF a
<1>4. a.max <= s.max /\ \A x \in r.limits : a.max <= x
  BY <1>1, <1>2, <1>3
<1> QED
  BY <1>4 DEF Staged, a, l

(* The wave of a summary of rows: all rows up to it survived.              *)
LEMMA SurvivedUpTo ==
  ASSUME NEW rs \in Seq(Verdict)
  PROVE  \E j \in 0 .. Len(rs) :
           OfRows(rs).max = Wave(j) /\ \A k \in 1 .. j : rs[k] = "survives"
<1>0. Hit \in Lane /\ Len(rs) \in Nat
  BY DEF Hit, Lane
<1>1. CASE Failing(Hit, rs) = {}
  <2>1. OfRows(rs).max = Wave(Len(rs))
    BY <1>0, <1>1, WavesOfRows, OfRowsFields
  <2>2. \A k \in 1 .. Len(rs) : rs[k] = "survives"
    BY <1>0, <1>1 DEF Failing, Passes, Hit
  <2> QED
    BY <1>0, <2>1, <2>2
<1>2. CASE Failing(Hit, rs) # {}
  <2> DEFINE m == Min(Failing(Hit, rs))
  <2>1. /\ m \in Failing(Hit, rs) /\ m \in 1 .. Len(rs)
        /\ \A k \in Failing(Hit, rs) : m <= k
    BY <1>0, <1>2, PartsOfRows
  <2>2. OfRows(rs).max = Wave(m - 1)
    BY <1>0, <1>2, WavesOfRows, OfRowsFields
  <2> HIDE DEF m
  <2>3. \A k \in 1 .. m - 1 : k \in DOMAIN rs /\ ~ (k \in Failing(Hit, rs))
    BY <1>0, <2>1
  <2>4. \A k \in 1 .. m - 1 : rs[k] = "survives"
    BY <2>3 DEF Failing, Passes, Hit
  <2> QED
    BY <1>0, <2>1, <2>2, <2>4
<1> QED
  BY <1>1, <1>2

LEMMA InvBacks == SearchInv => AnswerIsBacked
<1> SUFFICES ASSUME SearchInv PROVE AnswerIsBacked
  OBVIOUS
<1> SUFFICES ASSUME pc = "returned" PROVE AnswerIsBacked
  BY DEF AnswerIsBacked, SelectedIsBacked, CompleteIsResolved, MissingReferenceBlocks, LimitsHold
<1> DEFINE s == OfRows(rows)
           l == Limited(request, s)
           a == Staged(request, s)
<1>1. rows \in Seq(Verdict) /\ Len(rows) \in Nat /\ EndedBy /\ RequestOK(request)
  BY RequestsOK DEF SearchInv, RowsOK, Scanned
<1>2. /\ Fresh(s) /\ FieldsOK(a) /\ LimitsOK(request) /\ a.status \in {"unset", "incomplete"}
      /\ summary.max = a.max /\ summary.failed = a.failed /\ summary.aligned = a.aligned
      /\ summary.terminal = s.terminal
      /\ ~ ambiguous => summary.status = IF a.status = "unset" THEN "complete" ELSE a.status
      /\ ambiguous => /\ summary.status \in {"complete", "incomplete"}
                      /\ summary.status = "complete" => a.failed > 0 /\ unresolved > a.failed
  BY AnswerFields
<1>3. { s.max, s.failed, a.max, a.failed } \subseteq Nat
  BY <1>2 DEF Fresh, FieldsOK
<1>4. SelectedIsBacked
  <2> SUFFICES ASSUME a.aligned # "raised",
                      NEW k \in 1 .. RowCount(a.max)
               PROVE  k <= Len(rows) /\ rows[k] = "survives"
    BY <1>2 DEF SelectedIsBacked
  <2>1. PICK j \in 0 .. Len(rows) : s.max = Wave(j) /\ \A n \in 1 .. j : rows[n] = "survives"
    BY <1>1, SurvivedUpTo
  <2>2. a.max <= Wave(j)
    BY <1>2, <2>1, StagedIsLower
  <2>3. RowCount(a.max) <= j /\ RowCount(a.max) \in Nat
    <3>1. j \in Nat /\ a.max \in Nat
      BY <1>1, <1>3, <2>1
    <3> HIDE DEF a
    <3> QED
      BY <2>2, <3>1, RowsUpTo, RowCountType
  <2> QED
    BY <1>1, <2>1, <2>3
<1>5. LimitsHold
  BY <1>2, StagedIsLower DEF LimitsHold
<1>6. FieldsOK(l) /\ Fresh(l)
  BY <1>2, LimitedFields DEF Fresh
<1>7. MissingReferenceBlocks
  <2> SUFFICES ASSUME request.open, request.reference = 0
               PROVE  summary.status = "incomplete" /\ summary.max = 0
    BY DEF MissingReferenceBlocks
  <2>1. a.max = 0 /\ a.failed = 0 /\ a.status = "incomplete"
    BY <1>2, <1>6, AlignedFields DEF Staged
  <2> HIDE DEF a
  <2> QED
    BY <1>2, <2>1
<1>8. CompleteIsResolved
  <2> SUFFICES ASSUME summary.status = "complete"
               PROVE  /\ a.failed = 0 /\ a.max > 0 => Len(rows) = RowCount(FinalEnd(request))
                      /\ ambiguous => unresolved > a.failed
    BY <1>2 DEF CompleteIsResolved
  <2>1. ambiguous => unresolved > a.failed
    BY <1>2
  <2>2. ASSUME a.failed = 0, a.max > 0
        PROVE  Len(rows) = RowCount(FinalEnd(request))
    <3>1. l.failed = 0 /\ a.max = l.max
      <4>1. l.max \in Nat /\ request.reference \in Nat
        BY <1>6, <1>2 DEF FieldsOK, LimitsOK
      <4>2. a = Aligned(request, l)
        BY DEF Staged
      <4> HIDE DEF a, l
      <4> QED
        BY <1>2, <1>3, <1>6, <2>2, <4>1, <4>2, AlignedFields
    <3>2. l = s
      <4>1. l.failed = l.max + 1 => l.failed # 0
        BY <1>6 DEF FieldsOK
      <4> QED
        BY <1>2, <3>1, <4>1, LimitedFields DEF Fresh
    <3>3. s.failed = 0 /\ a.max = s.max
      BY <3>1, <3>2
    <3>4. Hit \in Lane
      BY DEF Hit, Lane
    <3>5. Failing(Hit, rows) = {}
      BY <1>1, <3>3, <3>4, WavesOfRows, OfRowsFields
    <3>6. ~ ambiguous
      BY <1>2, <1>3, <2>2
    <3>7. ~ AtFailure
      BY <1>1, <3>5 DEF AtFailure, Failing, Passes, Hit
    <3>8. AtEnd
      BY <1>1, <3>6, <3>7 DEF EndedBy, AtAmbiguity, WithoutContact
    <3>9. s.max = s.terminal
      BY <1>1, <3>4, <3>5, WavesOfRows, OfRowsFields
    <3>10. CASE end = FinalEnd(request)
      BY <3>8, <3>10 DEF AtEnd
    <3>11. CASE end # FinalEnd(request)
      <4>1. end \in Nat /\ end < FinalEnd(request) /\ request.end \in Int /\ end >= 1
        BY <1>1, <3>11, EndIsNatural DEF RequestOK
      <4>2. end < request.end
        BY <4>1 DEF FinalEnd
      <4>3. horizons # {} /\ ~ NeedsMoreHorizon(summary)
        BY <3>11 DEF SearchInv, HorizonsOK, Answer
      <4> HIDE DEF a, s
      <4>4. NeedsMoreHorizon(summary)
        BY <1>2, <1>3, <2>2, <3>3, <3>9, <4>2 DEF NeedsMoreHorizon
      <4> QED
        BY <4>3, <4>4
    <3> QED
      BY <3>10, <3>11
  <2> QED
    BY <2>1, <2>2
<1> QED
  BY <1>4, <1>5, <1>7, <1>8 DEF AnswerIsBacked

-----------------------------------------------------------------------------
(* Neither early exit changes the answer                                   *)
-----------------------------------------------------------------------------

(* When the scan was not cut by an ambiguity, any longer run is staged     *)
(* like the rows kept: either they show a failure, or the search ended     *)
(* with the whole run, or a stage brought the failure that ended it.       *)
LEMMA OnwardAgrees ==
  ASSUME SearchInv, pc = "returned", AtEnd \/ AtFailure,
         NEW fs \in Seq(Verdict), Len(rows) <= Len(fs),
         \A k \in 1 .. Len(rows) : rows[k] = fs[k],
         AtEnd /\ end = FinalEnd(request) => fs = rows
  PROVE  /\ SameWaves(Staged(request, OfRows(rows)), Staged(request, OfRows(fs)))
         /\ Staged(request, OfRows(rows)).status = Staged(request, OfRows(fs)).status
<1> DEFINE s == OfRows(rows)
           f == OfRows(fs)
           a == Staged(request, s)
<1>1. rows \in Seq(Verdict) /\ Len(rows) \in Nat /\ RequestOK(request)
  BY RequestsOK DEF SearchInv, RowsOK
<1>2. /\ Fresh(s) /\ Fresh(f) /\ LimitsOK(request) /\ FieldsOK(a)
      /\ a.status \in {"unset", "incomplete"}
      /\ summary.max = a.max /\ summary.failed = a.failed /\ summary.terminal = s.terminal
      /\ summary.status = IF a.status = "unset" THEN "complete" ELSE a.status
  BY <1>1, AnswerFields, RowsAreFresh DEF AtEnd, AtFailure, Unfailed
<1>3. CASE Failing(Hit, rows) # {}
  <2>1. s.max = f.max /\ s.failed = f.failed
    BY <1>1, <1>3, PrefixOfRun
  <2> QED
    BY <1>2, <2>1, StagedAlike
<1>4. CASE Failing(Hit, rows) = {} /\ end = FinalEnd(request)
  <2>1. ~ AtFailure
    BY <1>1, <1>4 DEF AtFailure, Failing, Passes, Hit
  <2> QED
    BY <1>2, <1>4, <2>1, StagedAlike
<1>5. CASE Failing(Hit, rows) = {} /\ end # FinalEnd(request)
  <2>1. AtEnd
    BY <1>1, <1>5 DEF AtFailure, Failing, Passes, Hit
  <2>2. s.failed = 0 /\ s.max = s.terminal /\ f.max >= s.max
    BY <1>1, <1>5, PrefixOfRun
  <2>3. /\ end \in Nat /\ end >= 1 /\ end < FinalEnd(request) /\ request.end \in Int
        /\ Interval <= end
    <3>1. end \in EndWaves(request)
      BY DEF SearchInv, HorizonsOK
    <3> QED
      BY <1>1, <1>5, <3>1, EndIsNatural DEF EndWaves, RequestOK
  <2>4. end < request.end
    BY <2>3 DEF FinalEnd
  <2>5. s.max > 0
    <3>1. Len(rows) # 0
      BY <1>1, <2>1, <2>3, RowCountType DEF AtEnd
    <3>2. s.terminal = Wave(Len(rows))
      BY <1>1, OfRowsFields
    <3> QED
      BY <1>1, <2>2, <3>1, <3>2, WaveType
  <2>6. ~ NeedsMoreHorizon(summary)
    BY <1>5 DEF SearchInv, HorizonsOK, Answer
  <2>7. { s.max, s.terminal, f.max, a.max, a.failed } \subseteq Nat
    BY <1>2 DEF Fresh, FieldsOK
  <2>8. a.status = "incomplete" \/ a.failed # 0 \/ a.max < s.max
    <3> HIDE DEF a, s
    <3> QED
      BY <1>2, <2>2, <2>4, <2>5, <2>6, <2>7 DEF NeedsMoreHorizon
  <2> QED
    BY <1>2, <2>2, <2>5, <2>8, StagedOnward
<1> QED
  BY <1>3, <1>4, <1>5

(* The stages read of a request only what both scans have in common.       *)
LEMMA StagedUnstopped ==
  ASSUME NEW r \in Requests, NEW s
  PROVE  Staged(Unstopped(r), s) = Staged(r, s)
<1> DEFINE q == Unstopped(r)
<1>1. q.limits = r.limits /\ q.open = r.open /\ q.reference = r.reference
  BY RequestsOK
<1> HIDE DEF q
<1>2. Limited(q, s) = Limited(r, s)
  BY <1>1 DEF Limited
<1>3. \A l : Aligned(q, l) = Aligned(r, l)
  BY <1>1 DEF Aligned
<1> QED
  BY <1>2, <1>3 DEF Staged, q

LEMMA InvSearchAgrees == SearchInv => SearchAgreesWithFull
<1> SUFFICES ASSUME SearchInv PROVE SearchAgreesWithFull
  OBVIOUS
<1>0. request \in Requests /\ RequestOK(request)
  BY RequestsOK DEF SearchInv
<1>1. ASSUME pc = "raised" PROVE FullRaises(request)
  <2>1. /\ request.stop /\ RowsOK
        /\ ~ request.contact \/ (NextIsAmbiguous /\ GoesOn(Len(rows)))
    BY <1>1 DEF SearchInv, Scanned
  <2>2. CASE request.contact
    <3> DEFINE n == Len(rows) + 1
    <3>1. n \in 1 .. RowCount(FinalEnd(request)) /\ request.verdict[n] = "ambiguous"
      BY <1>0, <1>1, <2>1, <2>2, EndIsNatural DEF NextIsAmbiguous, RowsOK, RequestOK
    <3>2. n \in Ending(request)
      BY <3>1 DEF Ending
    <3>3. \A k \in Ending(request) : n <= k
      <4>1. \A k \in 1 .. Len(rows) : request.verdict[k] # "ambiguous" /\ request.verdict[k] # "fails"
        BY <2>1, <2>2 DEF RowsOK, GoesOn
      <4>2. Ending(request) \subseteq 1 .. RowCount(FinalEnd(request))
        BY <1>0, EndingIsLeast
      <4>3. \A k \in Ending(request) : ~ (k \in 1 .. Len(rows))
        BY <4>1 DEF Ending
      <4> QED
        BY <1>0, <2>1, <4>2, <4>3 DEF RequestOK, RowsOK
    <3> HIDE DEF n
    <3>4. Min(Ending(request)) = n
      <4>1. /\ Min(Ending(request)) \in Ending(request)
            /\ Min(Ending(request)) \in 1 .. RowCount(FinalEnd(request))
            /\ Min(Ending(request)) <= n
        BY <1>0, <3>2, EndingIsLeast
      <4> QED
        BY <1>0, <3>1, <3>3, <4>1 DEF RequestOK
    <3> QED
      BY <2>1, <3>1, <3>2, <3>4 DEF FullRaises, AmbiguousEnd
  <2> QED
    BY <2>1, <2>2 DEF FullRaises
<1>2. ASSUME pc = "returned", ~ FullRaises(request)
      PROVE  /\ SameWaves(summary, FullSummary(request))
             /\ summary.status = FullSummary(request).status
  <2>1. rows \in Seq(Verdict) /\ Len(rows) \in Nat /\ RowsOK /\ EndedBy
    BY <1>2 DEF SearchInv, RowsOK, Scanned
  <2>2. Len(rows) <= RowCount(FinalEnd(request)) /\ RowCount(FinalEnd(request)) \in Nat
    BY <1>0, <1>2, <2>1, EndIsNatural DEF RowsOK, RequestOK
  <2>3. CASE AtEnd \/ AtFailure
    <3>1. request.contact /\ ~ ambiguous /\ unresolved = 0
      BY <2>3 DEF AtEnd, AtFailure, Unfailed
    <3>2. \A k \in 1 .. Len(rows) :
             k \in Ending(request) => k = Len(rows) /\ request.verdict[k] # "ambiguous"
      BY <2>1, <2>3 DEF AtEnd, AtFailure, RowsOK, GoesOn, Ending
    <3>3. /\ Len(rows) <= Len(FullRows(request))
          /\ \A k \in 1 .. Len(rows) : rows[k] = FullRows(request)[k]
          /\ Len(rows) = RowCount(FinalEnd(request)) => FullRows(request) = rows
      BY <1>0, <2>1, <2>2, <3>1, <3>2, PrefixOfFull DEF RowsOK
    <3>4. FullRows(request) \in Seq(Verdict)
      BY <1>0, <3>1, RowsOfRun
    <3> DEFINE a == Staged(request, OfRows(rows))
               b == Staged(request, OfRows(FullRows(request)))
    <3>5. SameWaves(a, b) /\ a.status = b.status
      BY <1>2, <2>3, <3>3, <3>4, OnwardAgrees DEF AtEnd
    <3>6. ~ AmbiguousEnd(request)
      <4>1. CASE request.stop
        BY <1>2, <4>1 DEF FullRaises
      <4>2. CASE ~ request.stop
        <5>1. end = FinalEnd(request) /\ AtEnd
          BY <1>2, <2>3, <4>2 DEF SearchInv, HorizonsOK, EndWaves, AtFailure
        <5>2. \A k \in 1 .. RowCount(FinalEnd(request)) : ~ (k \in Ending(request))
          BY <2>1, <4>2, <5>1 DEF AtEnd, RowsOK, Ending
        <5> QED
          BY <1>0, <5>2, EndingIsLeast DEF AmbiguousEnd
      <4> QED
        BY <4>1, <4>2
    <3>7. summary = Merged(a, FALSE, 0)
      <4>1. summary = Summary(request, rows, FALSE, 0)
        BY <1>2, <3>1 DEF SearchInv, Answer, Summary, Merged
      <4> QED
        BY <4>1 DEF Summary, Staged
    <3>8. FullSummary(request) = Merged(b, FALSE, 0)
      BY <3>1, <3>6 DEF FullSummary, Summary, Staged
    <3>9. FieldsOK(a) /\ FieldsOK(b)
      <4>1. \A rs \in Seq(Verdict) : FieldsOK(Staged(request, OfRows(rs)))
        BY <1>0, RowsAreFresh, LimitedFields, AlignedFields DEF Staged, RequestOK, Fresh
      <4> QED
        BY <2>1, <3>4, <4>1
    <3> HIDE DEF a, b
    <3>10. /\ summary.max = a.max /\ summary.failed = a.failed /\ summary.aligned = a.aligned
           /\ summary.status = IF a.status = "unset" THEN "complete" ELSE a.status
      BY <3>7, <3>9 DEF Merged, FieldsOK
    <3>11. LET f == FullSummary(request)
           IN /\ f.max = b.max /\ f.failed = b.failed /\ f.aligned = b.aligned
              /\ f.status = IF b.status = "unset" THEN "complete" ELSE b.status
      BY <3>8, <3>9 DEF Merged, FieldsOK
    <3> QED
      BY <3>5, <3>10, <3>11 DEF SameWaves
  <2>4. CASE AtAmbiguity
    <3> DEFINE n == Len(rows) + 1
    <3>1. end = FinalEnd(request) /\ request.contact /\ ~ request.stop /\ ambiguous
      BY <1>2, <2>4 DEF AtAmbiguity, SearchInv, HorizonsOK, EndWaves
    <3>2. /\ n \in 1 .. RowCount(FinalEnd(request)) /\ request.verdict[n] = "ambiguous"
          /\ unresolved = Wave(n)
      BY <2>1, <2>2, <2>4, <3>1 DEF AtAmbiguity, NextIsAmbiguous
    <3>3. n \in Ending(request) /\ \A k \in Ending(request) : n <= k
      <4>1. n \in Ending(request)
        BY <3>2 DEF Ending
      <4>2. \A k \in Ending(request) : k \in Nat /\ ~ (k \in 1 .. Len(rows)) /\ k >= 1
        BY <1>0, <2>1, <2>2, <3>1, EndingIsLeast DEF RowsOK, Ending
      <4> QED
        BY <2>1, <4>1, <4>2
    <3> HIDE DEF n
    <3>4. Min(Ending(request)) = n /\ AmbiguousEnd(request)
      <4>1. /\ Min(Ending(request)) \in Ending(request)
            /\ Min(Ending(request)) \in 1 .. RowCount(FinalEnd(request))
            /\ Min(Ending(request)) <= n
        BY <1>0, <3>3, EndingIsLeast
      <4>2. Min(Ending(request)) = n
        BY <2>2, <3>2, <3>3, <4>1
      <4> QED
        BY <3>2, <3>3, <4>2 DEF AmbiguousEnd
    <3>5. /\ FullRows(request) \in Seq(Verdict) /\ Len(FullRows(request)) = n - 1
          /\ \A k \in 1 .. n - 1 : FullRows(request)[k] = request.verdict[k]
      BY <1>0, <3>1, <3>3, <3>4, RowsOfRun
    <3>6. FullRows(request) = rows
      BY <2>1, <3>5 DEF RowsOK, n
    <3>7. RowCount(FinalEnd(request)) > 0 /\ Len(rows) + 1 = n
      BY <2>2, <3>2 DEF n
    <3>8. FullSummary(request) = Summary(request, rows, TRUE, Wave(n))
      BY <3>1, <3>4, <3>6, <3>7 DEF FullSummary
    <3>9. summary = Summary(request, rows, TRUE, Wave(n))
      BY <1>2, <3>1, <3>2 DEF SearchInv, Answer, Summary, Merged
    <3> QED
      BY <3>8, <3>9 DEF SameWaves
  <2>5. CASE WithoutContact
    <3>1. /\ end = FinalEnd(request) /\ ~ request.contact /\ ambiguous /\ rows = << >>
          /\ unresolved = IF RowCount(end) > 0 THEN Wave(1) ELSE 0
      BY <1>2, <2>1, <2>5 DEF WithoutContact, SearchInv, HorizonsOK, EndWaves, RowsOK
    <3>2. FullRows(request) = << >>
      BY <3>1 DEF FullRows
    <3>3. FullSummary(request) = Summary(request, << >>, TRUE, unresolved)
      <4>1. Len(FullRows(request)) + 1 = 1
        BY <3>2
      <4>2. (~ request.contact \/ AmbiguousEnd(request)) = TRUE
        BY <3>1
      <4> QED
        BY <3>1, <3>2, <4>1, <4>2 DEF FullSummary
    <3>4. summary = Summary(request, << >>, TRUE, unresolved)
      BY <1>2, <3>1 DEF SearchInv, Answer, Summary, Merged
    <3> QED
      BY <3>3, <3>4 DEF SameWaves
  <2> QED
    BY <2>1, <2>3, <2>4, <2>5 DEF EndedBy
<1> QED
  BY <1>1, <1>2 DEF SearchAgreesWithFull

LEMMA InvStopLosesNothing == SearchInv => StopLosesNothing
<1> SUFFICES ASSUME SearchInv, pc = "returned", request.stop
             PROVE  SameWaves(summary, FullSummary(Unstopped(request)))
  BY DEF StopLosesNothing, Unstopped
<1> DEFINE q == Unstopped(request)
           fs == FullRows(q)
           a == Staged(request, OfRows(rows))
           b == Staged(q, OfRows(fs))
<1>1. /\ RequestOK(request) /\ RequestOK(q) /\ ~ q.stop
      /\ q.verdict = request.verdict /\ q.end = request.end /\ q.contact = request.contact
  BY RequestsOK DEF SearchInv
<1>2. /\ rows \in Seq(Verdict) /\ Len(rows) \in Nat /\ RowsOK
      /\ AtEnd \/ AtFailure
      /\ request.contact /\ ~ ambiguous
  BY DEF SearchInv, RowsOK, Scanned, EndedBy, AtEnd, AtFailure, AtAmbiguity, WithoutContact, Unfailed
<1>3. FinalEnd(q) = FinalEnd(request)
  BY <1>1 DEF FinalEnd
<1> HIDE DEF q
<1>4. Len(rows) <= RowCount(FinalEnd(q)) /\ RowCount(FinalEnd(q)) \in Nat
  BY <1>1, <1>2, <1>3, EndIsNatural DEF RowsOK, RequestOK
<1>5. \A k \in 1 .. Len(rows) : ~ (k \in Ending(q))
  BY <1>1, <1>2 DEF RowsOK, Ending
<1>6. /\ fs \in Seq(Verdict) /\ Len(rows) <= Len(fs)
      /\ \A k \in 1 .. Len(rows) : rows[k] = fs[k]
      /\ Len(rows) = RowCount(FinalEnd(q)) => fs = rows
  <2>1. q.contact /\ \A k \in 1 .. Len(rows) : rows[k] = q.verdict[k]
    BY <1>1, <1>2 DEF RowsOK
  <2>2. FullRows(q) \in Seq(Verdict)
    BY <1>1, <2>1, RowsOfRun
  <2>3. /\ Len(rows) <= Len(FullRows(q))
        /\ \A k \in 1 .. Len(rows) : rows[k] = FullRows(q)[k]
        /\ Len(rows) = RowCount(FinalEnd(q)) => FullRows(q) = rows
    BY <1>1, <1>2, <1>4, <1>5, <2>1, PrefixOfFull
  <2> QED
    BY <2>2, <2>3
<1>7. SameWaves(a, Staged(request, OfRows(fs)))
  BY <1>2, <1>3, <1>6, OnwardAgrees DEF AtEnd
<1>8. Staged(request, OfRows(fs)) = b
  BY StagedUnstopped DEF SearchInv, q
<1>9. summary.max = a.max /\ summary.failed = a.failed /\ summary.aligned = a.aligned
  BY AnswerFields
<1>10. LET t == FullSummary(q)
       IN t.max = b.max /\ t.failed = b.failed /\ t.aligned = b.aligned
  <2> DEFINE failure == ~ q.contact \/ AmbiguousEnd(q)
             wave == IF failure /\ RowCount(FinalEnd(q)) > 0 THEN Wave(Len(fs) + 1) ELSE 0
  <2>1. Len(fs) + 1 \in Nat
    BY <1>6
  <2>2. wave \in Nat
    <3>1. Wave(Len(fs) + 1) \in Nat
      BY <2>1, WaveType
    <3> QED
      BY <3>1
  <2>3. FullSummary(q) = Merged(b, failure, wave)
    BY DEF FullSummary, Summary, Staged
  <2>4. FieldsOK(b)
    BY <1>1, <1>6, RowsAreFresh, LimitedFields, AlignedFields DEF Staged, RequestOK, Fresh
  <2> HIDE DEF b, failure, wave
  <2> QED
    BY <2>2, <2>3, <2>4, MergedFields
<1> HIDE DEF a, b
<1> QED
  BY <1>7, <1>8, <1>9, <1>10 DEF SameWaves, q

-----------------------------------------------------------------------------
(* Types                                                                   *)
-----------------------------------------------------------------------------

(* A set of positions in a sequence has a maximum: mirrored, it has a      *)
(* minimum.                                                                *)
LEMMA MaxOfPositions ==
  ASSUME NEW n \in Nat, NEW S \in SUBSET (1 .. n), S # {}
  PROVE  Max(S) \in S
BY MaxOfNaturals

Numbers(s) ==
  FieldsOK(s) /\ s.independent \in Nat /\ s.envelopeMax \in Nat /\ s.uncapped \in Nat

LEMMA OfRowsNumbers ==
  ASSUME NEW rs \in Seq(Verdict)
  PROVE  Numbers(OfRows(rs))
<1>1. Hit \in Lane /\ "contact_envelope" \in Lane /\ Len(rs) \in Nat
  BY DEF Lane, Hit
<1>2. MaxIndependent(Hit, rs) \in Nat
  <2>1. CASE Passing(Hit, rs) # {}
    <3>1. Passing(Hit, rs) \in SUBSET (1 .. Len(rs))
      BY DEF Passing
    <3>2. Max(Passing(Hit, rs)) \in 1 .. Len(rs)
      BY <1>1, <2>1, <3>1, MaxOfPositions
    <3>3. Max(Passing(Hit, rs)) \in Nat
      BY <1>1, <3>2
    <3> QED
      BY <2>1, <3>3, WaveType DEF MaxIndependent
  <2> QED
    BY <2>1 DEF MaxIndependent
<1>3. LastContiguous("contact_envelope", rs) \in Nat
  BY <1>1, WavesOfRows
<1> QED
  BY <1>2, <1>3, OfRowsFields DEF Numbers, OfRows, Hit

LEMMA LimitedNumbers ==
  ASSUME NEW r, LimitsOK(r), NEW s, Numbers(s)
  PROVE  Numbers(Limited(r, s))
<1>1. FieldsOK(Limited(r, s))
  BY LimitedFields DEF Numbers
<1>2. CASE r.limits = {} \/ s.max <= 0 \/ Min(r.limits) >= s.max
  BY <1>2 DEF Limited
<1>3. CASE ~ (r.limits = {} \/ s.max <= 0 \/ Min(r.limits) >= s.max)
  <2>1. Min(r.limits) \in Nat
    BY <1>3, MinOfNaturals DEF LimitsOK
  <2>2. Limited(r, s) = CutAt(s, Min(r.limits), "explicit")
    BY <1>3 DEF Limited
  <2> QED
    BY <1>1, <2>1, <2>2 DEF CutAt, Smaller, Numbers, FieldsOK
<1> QED
  BY <1>2, <1>3

LEMMA AlignedNumbers ==
  ASSUME NEW r, LimitsOK(r), NEW s, Numbers(s)
  PROVE  Numbers(Aligned(r, s))
<1>1. FieldsOK(Aligned(r, s)) /\ r.reference \in Nat
  BY AlignedFields DEF Numbers, LimitsOK
<1> QED
  BY <1>1 DEF Aligned, Blocked, Capped, Raised, CutAt, Smaller, Larger, Numbers, FieldsOK

LEMMA MergedNumbers ==
  ASSUME NEW s, Numbers(s), NEW failure, NEW wave \in Nat
  PROVE  Numbers(Merged(s, failure, wave))
BY DEF Merged, Numbers, FieldsOK

LEMMA TypeInit == Init => TypeOK
<1> SUFFICES ASSUME Init PROVE TypeOK
  OBVIOUS
<1>1. Numbers(summary)
  <2>1. << >> \in Seq(Verdict) /\ summary = OfRows(<< >>)
    BY DEF Init
  <2> QED
    BY <2>1, OfRowsNumbers
<1>2. horizons \subseteq Nat
  BY CandidatesAreEndWaves, RequestsOK DEF Init, EndWaves, RequestOK
<1>3. RowCount(0) \in Nat
  BY RowCountType
<1>4. /\ end = 0 /\ pc = "search" /\ unresolved = 0 /\ ambiguous = FALSE
      /\ rows \in Seq(Verdict \ {"ambiguous"}) /\ Len(rows) <= RowCount(end)
  BY <1>3 DEF Init
<1> QED
  BY <1>1, <1>2, <1>4 DEF TypeOK, Numbers, FieldsOK

LEMMA TypeNext == TypeOK /\ SearchInv /\ SearchInv' /\ [Next]_vars => TypeOK'
<1> SUFFICES ASSUME TypeOK, SearchInv, SearchInv', [Next]_vars PROVE TypeOK'
  OBVIOUS
<1>1. CASE BeginPayload
  <2>1. horizons \in SUBSET Nat /\ horizons # {}
    BY <1>1 DEF BeginPayload, TypeOK, SearchInv, HorizonsOK
  <2>2. end' \in Nat /\ horizons' \subseteq Nat
    BY <1>1, <2>1, MinOfNaturals DEF BeginPayload
  <2>3. unresolved' \in Nat /\ ambiguous' \in BOOLEAN /\ pc' \in {"scan", "raised", "summarise"}
    <3>1. Wave(1) \in Nat
      BY WaveType
    <3> QED
      BY <1>1, <3>1 DEF BeginPayload
  <2>4. RowCount(end') \in Nat
    BY <2>2, RowCountType
  <2> QED
    BY <1>1, <2>2, <2>3, <2>4 DEF BeginPayload, TypeOK
<1>2. CASE EvaluateRow
  <2>1. RowsOK' /\ pc' \in {"scan", "summarise"}
    BY <1>2 DEF EvaluateRow, SearchInv
  <2>2. rows' \in Seq(Verdict \ {"ambiguous"}) /\ Len(rows') <= RowCount(end')
    BY <2>1 DEF RowsOK
  <2> QED
    BY <1>2, <2>1, <2>2 DEF EvaluateRow, TypeOK
<1>3. CASE AmbiguousRow
  <2>1. Wave(Len(rows) + 1) \in Nat
    <3>1. Len(rows) + 1 \in Nat
      BY DEF TypeOK
    <3> QED
      BY <3>1, WaveType
  <2> QED
    BY <1>3, <2>1 DEF AmbiguousRow, TypeOK
<1>4. CASE EndOfTable
  BY <1>4 DEF EndOfTable, TypeOK
<1>5. CASE Summarise
  <2>1. /\ summary' = Summary(request, rows, ambiguous, unresolved)
        /\ UNCHANGED << request, horizons, end, rows, unresolved, ambiguous >>
        /\ pc = "summarise" /\ pc' \in {"search", "returned"}
    BY <1>5 DEF Summarise
  <2>2. rows \in Seq(Verdict) /\ unresolved \in Nat /\ LimitsOK(request)
    BY <2>1, RequestsOK DEF TypeOK, SearchInv, RowsOK, RequestOK
  <2>3. Numbers(summary')
    BY <2>1, <2>2, OfRowsNumbers, LimitedNumbers, AlignedNumbers, MergedNumbers DEF Summary
  <2>4. pc' = "returned" => summary'.status \in {"complete", "incomplete"}
    <3>1. ASSUME pc' = "returned"
          PROVE  summary'.status \in {"complete", "incomplete"}
      <4>1. LET a == Staged(request, OfRows(rows))
            IN FieldsOK(a) /\ a.status \in {"unset", "incomplete"}
        BY <2>2, RowsAreFresh, LimitedFields, AlignedFields DEF Staged, Fresh
      <4> QED
        BY <2>1, <2>2, <4>1, MergedFields DEF Summary, Staged
    <3> QED
      BY <3>1
  <2> QED
    BY <2>1, <2>3, <2>4 DEF TypeOK, Numbers, FieldsOK
<1>6. CASE Answered \/ UNCHANGED vars
  BY <1>6 DEF Answered, vars, TypeOK
<1> QED
  BY <1>1, <1>2, <1>3, <1>4, <1>5, <1>6 DEF Next

-----------------------------------------------------------------------------
(* The results                                                             *)
-----------------------------------------------------------------------------

(* The rows kept are a prefix of the run and the scan ended for one of     *)
(* four reasons, in every reachable state.                                 *)
THEOREM SearchStays == Spec => []SearchInv
<1>1. Init => SearchInv
  BY SearchInit
<1>2. SearchInv /\ [Next]_vars => SearchInv'
  BY SearchNext
<1> QED
  BY <1>1, <1>2, PTL DEF Spec

(* Every field the stages rewrite keeps its type.                          *)
THEOREM TypesStay == Spec => []TypeOK
<1>1. Init => TypeOK
  BY TypeInit
<1>2. TypeOK /\ SearchInv /\ SearchInv' /\ [Next]_vars => TypeOK'
  BY TypeNext
<1> QED
  BY <1>1, <1>2, SearchStays, PTL DEF Spec

(* Stopping the search at an early end wave, and the scan at its first     *)
(* failing row, never changes the wave reached, the first failing wave or  *)
(* the status: for runs of any length and any limits and references.       *)
THEOREM ExitsChangeNothing == Spec => []EarlyExitsAgree
<1>1. SearchInv => EarlyExitsAgree
  BY InvSearchAgrees, InvStopLosesNothing DEF EarlyExitsAgree
<1> QED
  BY <1>1, SearchStays, PTL

(* What is answered survived row by row up to the wave it names, keeps     *)
(* within every explicit limit, and is complete only when it is resolved.  *)
THEOREM AnswersAreBacked == Spec => []AnswerIsBacked
<1>1. SearchInv => AnswerIsBacked
  BY InvBacks
<1> QED
  BY <1>1, SearchStays, PTL

-----------------------------------------------------------------------------
(* What a payload over the whole run answers                               *)
-----------------------------------------------------------------------------

(* An answer that an explicit limit cut, and that no reference raised      *)
(* since, is within every limit.                                           *)
LEMMA FullAnswer ==
  ASSUME NEW r, RequestOK(r)
  PROVE  LET s == FullSummary(r)
         IN /\ s.max \in Nat /\ s.status \in {"complete", "incomplete"}
            /\ s.limiter \in {"none", "explicit", "reference", "missing_reference"}
            /\ s.limiter = "explicit" /\ s.aligned # "raised" => \A x \in r.limits : s.max <= x
<1> DEFINE rs == FullRows(r)
           failure == ~ r.contact \/ AmbiguousEnd(r)
           wave == IF failure /\ RowCount(FinalEnd(r)) > 0 THEN Wave(Len(rs) + 1) ELSE 0
<1>1. rs \in Seq(Verdict)
  <2>1. CASE r.contact
    BY <2>1, RowsOfRun
  <2>2. CASE ~ r.contact
    <3>1. rs = [ k \in 1 .. 0 |-> r.verdict[k] ]
      BY <2>2 DEF FullRows
    <3> QED
      BY <3>1
  <2> QED
    BY <2>1, <2>2
<1>2. wave \in Nat
  <2>1. Len(rs) + 1 \in Nat
    BY <1>1
  <2>2. Wave(Len(rs) + 1) \in Nat
    <3> HIDE DEF rs
    <3> QED BY <2>1, WaveType
  <2> QED
    BY <2>2
<1>3. FullSummary(r) = Merged(Aligned(r, Limited(r, OfRows(rs))), failure, wave)
  BY DEF FullSummary, Summary
<1> HIDE DEF rs, failure, wave
<1> DEFINE o == OfRows(rs)
           l == Limited(r, o)
           a == Aligned(r, l)
           s == Merged(a, failure, wave)
<1>4. FieldsOK(o) /\ o.limiter = "none" /\ o.aligned = "none" /\ o.status = "unset"
  BY <1>1, OfRowsFields
<1>5. LimitsOK(r)
  BY DEF RequestOK
<1> HIDE DEF o
<1>6. /\ FieldsOK(l) /\ l.status = "unset" /\ l.aligned = "none"
      /\ l.limiter \in {"none", "explicit"}
      /\ l.limiter = "explicit" => \A x \in r.limits : l.max <= x
  BY <1>4, <1>5, LimitedFields
<1> HIDE DEF l
<1>7. FieldsOK(a) /\ a.status \in {"unset", "incomplete"}
  BY <1>5, <1>6, AlignedFields
<1>8. /\ a.limiter \in {"none", "explicit", "reference", "missing_reference"}
      /\ a.limiter = "explicit" /\ a.aligned # "raised" => l.limiter = "explicit" /\ a.max = l.max
  BY <1>5, <1>6 DEF Aligned, Blocked, Capped, Raised, CutAt, FieldsOK, LimitsOK
<1> HIDE DEF a
<1>9. s.max = a.max /\ s.aligned = a.aligned /\ s.status \in {"complete", "incomplete"}
  BY <1>2, <1>7, MergedFields
<1>10. s.limiter = a.limiter
  BY <1>7 DEF Merged, FieldsOK
<1> HIDE DEF s
<1>11. a.max \in Nat
  BY <1>7 DEF FieldsOK
<1>12. FullSummary(r) = s
  BY <1>3 DEF s, a, l, o
<1> QED
  BY <1>6, <1>8, <1>9, <1>10, <1>11, <1>12

-----------------------------------------------------------------------------
(* The candidates of a cell                                                *)
-----------------------------------------------------------------------------

Limiters == {"none", "explicit", "reference", "missing_reference"}
ClosureType == [ closed : BOOLEAN, exact : BOOLEAN, factor : BOOLEAN,
                 mode : {"not_required", "explicit", "factor", "missing"} ]
CandidateType ==
  [ preset : STRING, max : Nat, status : {"complete", "incomplete"}, limiter : Limiters,
    raised : BOOLEAN, unsupported : SUBSET DOMAIN FieldsOf,
    blockers : SUBSET {"pressure", "boss_damage"}, closure : ClosureType ]

(* What a candidate says of the limits and the pressures of its cell.      *)
CandidateOK(c) ==
  /\ c \in CandidateType
  /\ c.limiter = "explicit" /\ ~ c.raised => \A f \in Supplied : c.max <= call.terminal[f]
  /\ "pressure" \in c.blockers <=> c.unsupported # {} /\ ~ c.closure.closed
  /\ c.unsupported = {} <=> c.closure.mode = "not_required"

(* The position of a cell in the matrix.                                   *)
LEMMA CellPosition ==
  ASSUME NEW a \in Nat, NEW b \in Nat \ {0}, NEW n \in Nat, n < a * b
  PROVE  (n \div b) + 1 \in 1 .. a /\ (n % b) + 1 \in 1 .. b
<1>1. n \div b \in Nat /\ (n \div b) * b <= n
  BY DivMod
<1>2. n % b \in 0 .. b - 1
  BY Division
<1>3. n \div b < a
  <2>1. SUFFICES ASSUME n \div b >= a PROVE FALSE
    BY <1>1
  <2>2. PICK q \in Nat : q = n \div b
    BY <1>1
  <2>3. a * b <= q * b
    <3>1. q >= a
      BY <2>1, <2>2
    <3>2. CASE q = a
      BY <3>2
    <3>3. CASE q > a
      <4>1. a * b + b <= q * b /\ a * b \in Nat /\ q * b \in Nat
        BY <3>3, <2>2, ProductGrows
      <4> QED
        BY <4>1
    <3> QED
      BY <3>1, <3>2, <3>3
  <2>4. a * b \in Nat /\ q * b \in Nat
    BY <2>2
  <2> QED
    BY <1>1, <2>2, <2>3, <2>4
<1> QED
  BY <1>1, <1>2, <1>3

LEMMA CallFields ==
  ASSUME call \in Calls
  PROVE  /\ call.terminal \in [Fields -> Nat] /\ call.factor \in BOOLEAN
         /\ call.bridge \in BOOLEAN /\ call.stop \in BOOLEAN /\ call.align \in BOOLEAN
         /\ call.reference \in [ToSet(Tiers) \X ToSet(Categories) -> Nat]
         /\ call.pressures \in [ToSet(Tiers) -> SUBSET DOMAIN FieldsOf]
BY CallsAssumption

(* The tier and category of the cell under construction.                   *)
LEMMA CellPlace ==
  ASSUME Len(cells) \in Nat, Len(cells) < CellCount
  PROVE  CellTier \in ToSet(Tiers) /\ CellCategory \in ToSet(Categories)
<1>1. /\ Tiers \in Seq(Nat) /\ Categories \in Seq(STRING)
      /\ Len(Tiers) \in Nat /\ Len(Categories) \in Nat \ {0}
  BY MatrixAssumption
<1> DEFINE i == (Len(cells) \div Len(Categories)) + 1
           j == (Len(cells) % Len(Categories)) + 1
<1>2. i \in 1 .. Len(Tiers) /\ j \in 1 .. Len(Categories)
  BY <1>1, CellPosition DEF CellCount
<1>3. CellTier = Tiers[i] /\ CellCategory = Categories[j]
  BY DEF CellTier, CellCategory
<1> HIDE DEF i, j
<1> QED
  BY <1>1, <1>2, <1>3 DEF ToSet

LEMMA ClosureFacts ==
  ASSUME call \in Calls, NEW open
  PROVE  /\ Closure(open) \in ClosureType
         /\ open = {} <=> Closure(open).mode = "not_required"
<1> DEFINE exact == ExactlyClosed(open)
           factor == open # {} /\ call.factor /\ ~ exact
<1>1. exact \in BOOLEAN
  BY DEF ExactlyClosed
<1>2. Closure(open) =
        [ closed |-> exact \/ factor, exact |-> exact, factor |-> factor,
          mode |-> IF open = {} THEN "not_required" ELSE IF exact THEN "explicit"
                   ELSE IF factor THEN "factor" ELSE "missing" ]
  BY DEF Closure
<1> HIDE DEF exact
<1>3. factor \in BOOLEAN /\ (exact \/ factor) \in BOOLEAN
  OBVIOUS
<1> HIDE DEF factor
<1>4. Closure(open) \in ClosureType
  BY <1>1, <1>2, <1>3 DEF ClosureType
<1>5. open = {} <=> Closure(open).mode = "not_required"
  BY <1>2
<1> QED
  BY <1>4, <1>5

LEMMA AskedOK ==
  ASSUME call \in Calls, Len(cells) \in Nat, Len(cells) < CellCount, NEW v \in Verdicts
  PROVE  RequestOK(Asked(v)) /\ Asked(v).limits = { call.terminal[f] : f \in Supplied }
<1> DEFINE r == Asked(v)
<1>1. /\ r.verdict = v /\ r.end = EndWave /\ r.stop = call.stop /\ r.contact = TRUE
      /\ r.limits = { call.terminal[f] : f \in Supplied }
      /\ r.open = (Pressures(CellTier) # {} /\ ~ Closure(Pressures(CellTier)).closed)
      /\ r.reference = Reference(CellTier, CellCategory)
  BY DEF Asked
<1>2. r.limits \in SUBSET Nat
  BY <1>1, CallFields DEF Supplied
<1>3. r.reference \in Nat
  BY <1>1, CallFields, CellPlace DEF Reference
<1>4. r.open \in BOOLEAN
  BY <1>1
<1>5. EndWave \in Int /\ v \in Seq(Verdict) /\ RowCount(FinalEnd([end |-> EndWave])) <= Len(v)
  BY MatrixAssumption
<1>6. FinalEnd(r) = FinalEnd([end |-> EndWave]) /\ FinalEnd(r) \in Nat \ {0}
  BY <1>1, <1>5 DEF FinalEnd
<1>7. RowCount(FinalEnd(r)) \in Nat
  BY <1>6, RowCountType
<1> HIDE DEF r
<1>8. RequestOK(r)
  BY <1>1, <1>2, <1>3, <1>4, <1>5, <1>6, <1>7, CallFields DEF RequestOK, LimitsOK
<1> QED
  BY <1>1, <1>8 DEF r

(* The answer for one preset, resolved or ambiguous.                       *)
LEMMA CandidateFacts ==
  ASSUME call \in Calls, Len(cells) \in Nat, Len(cells) < CellCount,
         NEW p \in STRING, NEW v \in Verdicts
  PROVE  CandidateOK(Candidate(p, v))
<1> DEFINE c == Candidate(p, v)
           open == Pressures(CellTier)
<1>1. CASE FullRaises(Asked(v))
  <2>1. c = [ preset |-> p, max |-> 0, status |-> "incomplete", limiter |-> "none",
              raised |-> FALSE, unsupported |-> {}, blockers |-> BaseBlockers,
              closure |-> Closure({}) ]
    BY <1>1 DEF Candidate, Ambiguous
  <2>2. Closure({}) \in ClosureType /\ Closure({}).mode = "not_required"
    BY ClosureFacts
  <2>3. BaseBlockers \in SUBSET {"pressure", "boss_damage"} /\ "pressure" \notin BaseBlockers
    BY DEF BaseBlockers
  <2> HIDE DEF c
  <2>4. c \in CandidateType
    BY <2>1, <2>2, <2>3 DEF CandidateType, Limiters
  <2>5. c.limiter = "none" /\ c.unsupported = {} /\ c.blockers = BaseBlockers /\ c.closure = Closure({})
    BY <2>1
  <2> QED
    BY <2>2, <2>3, <2>4, <2>5 DEF CandidateOK, c
<1>2. CASE ~ FullRaises(Asked(v))
  <2> DEFINE s == FullSummary(Asked(v))
  <2>1. c = [ preset |-> p, max |-> s.max, status |-> s.status, limiter |-> s.limiter,
              raised |-> s.aligned = "raised", unsupported |-> open, blockers |-> Blockers(open),
              closure |-> Closure(open) ]
    BY <1>2 DEF Candidate, Resolved
  <2>2. /\ s.max \in Nat /\ s.status \in {"complete", "incomplete"} /\ s.limiter \in Limiters
        /\ s.limiter = "explicit" /\ s.aligned # "raised" =>
             \A x \in { call.terminal[f] : f \in Supplied } : s.max <= x
    BY AskedOK, FullAnswer DEF Limiters
  <2>3. open \in SUBSET DOMAIN FieldsOf
    BY CallFields, CellPlace DEF Pressures
  <2>4. Closure(open) \in ClosureType /\ (open = {} <=> Closure(open).mode = "not_required")
    BY ClosureFacts
  <2>5. /\ Blockers(open) \in SUBSET {"pressure", "boss_damage"}
        /\ "pressure" \in Blockers(open) <=> open # {} /\ ~ Closure(open).closed
    BY DEF Blockers
  <2> HIDE DEF c, s, open
  <2>6. c \in CandidateType
    BY <2>1, <2>2, <2>3, <2>4, <2>5 DEF CandidateType
  <2>7. /\ c.max = s.max /\ c.limiter = s.limiter /\ c.raised = (s.aligned = "raised")
        /\ c.unsupported = open /\ c.blockers = Blockers(open) /\ c.closure = Closure(open)
    BY <2>1
  <2>8. c.limiter = "explicit" /\ ~ c.raised => \A f \in Supplied : c.max <= call.terminal[f]
    BY <2>2, <2>7
  <2> QED
    BY <2>4, <2>5, <2>6, <2>7, <2>8 DEF CandidateOK, c
<1> QED
  BY <1>1, <1>2

-----------------------------------------------------------------------------
(* The best candidate                                                      *)
-----------------------------------------------------------------------------

(* The selection rank is total: complete before incomplete, then by the    *)
(* wave reached, then by the order of the presets.                         *)
LEMMA BestExists ==
  ASSUME candidates \in Seq(CandidateType), candidates # << >>
  PROVE  \E i \in DOMAIN candidates : \A j \in DOMAIN candidates \ {i} : Outranks(i, j)
<1> DEFINE D == 1 .. Len(candidates)
           C == { i \in D : candidates[i].status = "complete" }
           G == IF C # {} THEN C ELSE D
           N == { 0 - candidates[i].max : i \in G }
<1>1. Len(candidates) \in Nat \ {0} /\ DOMAIN candidates = D
  OBVIOUS
<1>2. \A i \in D : candidates[i].max \in Nat /\ candidates[i].status \in {"complete", "incomplete"}
  <2>1. \A i \in D : candidates[i] \in CandidateType
    BY <1>1
  <2> QED
    BY <2>1 DEF CandidateType
<1>3. G \in SUBSET D /\ G # {} /\ D \in SUBSET Nat
  BY <1>1
<1>4. IsFiniteSet(G)
  <2>1. IsFiniteSet(D)
    BY <1>1, FS_Interval
  <2> HIDE DEF G, D
  <2> QED
    BY <1>3, <2>1, FS_Subset
<1>5. N \in SUBSET Int /\ N # {}
  BY <1>2, <1>3
<1>6. IsFiniteSet(N)
  <2> HIDE DEF G
  <2>1. [ i \in G |-> 0 - candidates[i].max ] \in Surjection(G, N)
    BY DEF Surjection
  <2> QED
    BY <1>4, <2>1, FS_Surjection
<1>7. Min(N) \in N /\ \A n \in N : Min(N) <= n
  <2> HIDE DEF N
  <2> QED BY <1>5, <1>6, MinOfIntegers
<1>8. PICK b \in G : Min(N) = 0 - candidates[b].max
  BY <1>7
<1>9. \A i \in G : candidates[i].max <= candidates[b].max
  <2> SUFFICES ASSUME NEW i \in G PROVE candidates[i].max <= candidates[b].max
    OBVIOUS
  <2>1. 0 - candidates[b].max <= 0 - candidates[i].max
    BY <1>7, <1>8
  <2> QED
    BY <1>2, <1>3, <2>1
<1> DEFINE W == { i \in G : candidates[i].max = candidates[b].max }
<1>10. W \in SUBSET Nat /\ b \in W
  BY <1>3
<1>11. PICK m \in W : \A i \in W : m <= i
  <2> HIDE DEF W
  <2> QED BY <1>10, LeastOfNaturals
<1>12. m \in G /\ m \in D /\ candidates[m].max = candidates[b].max
  BY <1>3
<1>13. ASSUME NEW j \in D, j # m PROVE Outranks(m, j)
  <2>1. CASE j \in G
    <3>1. candidates[j].status = candidates[m].status
      BY <1>2, <1>12, <2>1
    <3>2. candidates[j].max <= candidates[m].max
      BY <1>9, <1>12, <2>1
    <3>3. candidates[j].max = candidates[m].max => m < j
      <4>1. candidates[j].max = candidates[m].max => j \in W
        BY <1>12, <2>1
      <4>2. j \in Nat /\ m \in Nat
        BY <1>3, <1>12
      <4> HIDE DEF W
      <4> QED
        BY <1>11, <1>13, <4>1, <4>2
    <3>4. candidates[j].max \in Nat /\ candidates[m].max \in Nat
      BY <1>2, <1>12
    <3> HIDE DEF G, D, W
    <3> QED
      BY <3>1, <3>2, <3>3, <3>4 DEF Outranks
  <2>2. CASE j \notin G
    <3>1. candidates[j].status # "complete" /\ candidates[m].status = "complete"
      BY <1>12, <2>2
    <3> HIDE DEF G, D, W
    <3> QED
      BY <3>1 DEF Outranks
  <2> QED
    BY <2>1, <2>2
<1> HIDE DEF W, G
<1> QED
  BY <1>1, <1>12, <1>13

(* It is complete if any is, and then no complete one gets further.        *)
LEMMA BestFirst ==
  ASSUME candidates \in Seq(CandidateType), candidates # << >>
  PROVE  /\ \E i \in DOMAIN candidates : Best = candidates[i]
         /\ \A c \in ToSet(candidates) :
              c.status = "complete" => Best.status = "complete" /\ c.max <= Best.max
<1> DEFINE i == CHOOSE i \in DOMAIN candidates : \A j \in DOMAIN candidates \ {i} : Outranks(i, j)
<1>1. i \in DOMAIN candidates /\ \A j \in DOMAIN candidates \ {i} : Outranks(i, j)
  BY BestExists
<1>2. Best = candidates[i]
  BY DEF Best
<1> HIDE DEF i
<1>3. \A j \in DOMAIN candidates : candidates[j].max \in Nat
  <2>1. \A j \in DOMAIN candidates : candidates[j] \in CandidateType
    OBVIOUS
  <2> QED
    BY <2>1 DEF CandidateType
<1>4. ASSUME NEW c \in ToSet(candidates), c.status = "complete"
      PROVE  candidates[i].status = "complete" /\ c.max <= candidates[i].max
  <2>1. PICK j \in DOMAIN candidates : c = candidates[j]
    BY DEF ToSet
  <2>2. CASE j = i
    BY <1>3, <1>4, <2>1, <2>2
  <2>3. CASE j # i
    <3>1. Outranks(i, j)
      BY <1>1, <2>3
    <3> QED
      BY <1>1, <1>3, <1>4, <2>1, <3>1 DEF Outranks
  <2> QED
    BY <2>2, <2>3
<1> QED
  BY <1>1, <1>2, <1>4

-----------------------------------------------------------------------------
(* The matrix                                                              *)
-----------------------------------------------------------------------------

CellOK(r) ==
  /\ CandidateOK(r.best)
  /\ r.aligned \in BOOLEAN /\ r.wave \in Nat
  /\ r.aligned => r.best.limiter = "none"
  /\ ~ r.aligned => r.wave = r.best.max

CellType ==
  [ tier : ToSet(Tiers), category : ToSet(Categories), best : CandidateType,
    aligned : BOOLEAN, wave : Nat ]

(* What is built so far: the cells published, the candidates of the next   *)
(* one, and once returned a certification of the cells.                    *)
MatrixInv ==
  /\ call \in Calls
  /\ stage \in {"cells", "certify", "returned"}
  /\ cells \in Seq(CellType) /\ \A i \in 1 .. Len(cells) : CellOK(cells[i])
  /\ candidates \in Seq(CandidateType) /\ Len(candidates) <= Len(Presets)
  /\ \A i \in 1 .. Len(candidates) : CandidateOK(candidates[i])
  /\ Len(cells) <= CellCount /\ (stage = "cells" => Len(cells) < CellCount)
  /\ cert.effective \in BOOLEAN /\ cert.blockers \subseteq {"pressure", "boss_damage"}
  /\ EffectiveIsEveryRow /\ ClosedHasNoBlockedCell

LEMMA MatrixStarts == MatrixInit => MatrixInv
<1> SUFFICES ASSUME MatrixInit PROVE MatrixInv
  OBVIOUS
<1>1. Len(Tiers) \in Nat \ {0} /\ Len(Categories) \in Nat \ {0} /\ Len(Presets) \in Nat \ {0}
  BY MatrixAssumption
<1>2. Len(cells) = 0 /\ Len(candidates) = 0 /\ cells = << >> /\ candidates = << >>
  BY DEF MatrixInit
<1>3. 0 < CellCount
  BY <1>1 DEF CellCount
<1>4. cert.effective = FALSE /\ cert.blockers = BaseBlockers
  BY DEF MatrixInit
<1>5. BaseBlockers \subseteq {"pressure", "boss_damage"}
  BY DEF BaseBlockers
<1>6. stage = "cells" /\ call \in Calls
  BY DEF MatrixInit
<1>7. EffectiveIsEveryRow /\ ClosedHasNoBlockedCell
  BY <1>6 DEF EffectiveIsEveryRow, ClosedHasNoBlockedCell
<1>8. CellCount \in Nat
  BY <1>1 DEF CellCount
<1>9. cells \in Seq(CellType) /\ \A i \in 1 .. Len(cells) : CellOK(cells[i])
  BY <1>2
<1>10. candidates \in Seq(CandidateType) /\ \A i \in 1 .. Len(candidates) : CandidateOK(candidates[i])
  BY <1>2
<1>11. Len(candidates) <= Len(Presets) /\ Len(cells) <= CellCount /\ Len(cells) < CellCount
  BY <1>1, <1>2, <1>3, <1>8
<1> QED
  BY <1>4, <1>5, <1>6, <1>7, <1>9, <1>10, <1>11 DEF MatrixInv

(* What stays as the call stays.                                           *)
LEMMA CallStays ==
  ASSUME call' = call
  PROVE  /\ \A c : CandidateOK(c)' <=> CandidateOK(c)
         /\ \A r : CellOK(r)' <=> CellOK(r)
<1>1. Supplied' = Supplied
  BY DEF Supplied
<1>2. \A c : CandidateOK(c)' <=> CandidateOK(c)
  BY <1>1 DEF CandidateOK
<1> QED
  BY <1>2 DEF CellOK

LEMMA BuildKeeps ==
  ASSUME MatrixInv, BuildCandidate
  PROVE  MatrixInv'
<1>1. /\ call' = call /\ cells' = cells /\ cert' = cert /\ stage' = stage
      /\ stage = "cells" /\ Len(candidates) < Len(Presets)
  BY DEF BuildCandidate
<1>2. PICK v \in Verdicts :
        candidates' = Append(candidates, Candidate(Presets[Len(candidates) + 1], v))
  BY DEF BuildCandidate
<1> DEFINE p == Presets[Len(candidates) + 1]
           c == Candidate(p, v)
<1>3. /\ candidates \in Seq(CandidateType) /\ call \in Calls /\ cells \in Seq(CellType)
      /\ Len(cells) < CellCount /\ \A i \in 1 .. Len(candidates) : CandidateOK(candidates[i])
  BY <1>1 DEF MatrixInv
<1>4. p \in STRING
  <2>1. Presets \in Seq(STRING) /\ Len(candidates) + 1 \in 1 .. Len(Presets)
    BY <1>1, <1>3, MatrixAssumption
  <2> QED
    BY <2>1
<1>5. CandidateOK(c)
  <2> HIDE DEF p
  <2>1. Len(cells) \in Nat
    BY <1>3
  <2> QED
    BY <1>3, <1>4, <2>1, CandidateFacts
<1> HIDE DEF c
<1>6. c \in CandidateType
  BY <1>5 DEF CandidateOK
<1>7. /\ candidates' \in Seq(CandidateType) /\ Len(candidates') = Len(candidates) + 1
      /\ \A i \in 1 .. Len(candidates) : candidates'[i] = candidates[i]
      /\ candidates'[Len(candidates) + 1] = c
  BY <1>2, <1>3, <1>6, AppendTyped DEF c
<1>8. \A i \in 1 .. Len(candidates') : CandidateOK(candidates'[i])
  <2>1. \A i \in 1 .. Len(candidates') : i \in 1 .. Len(candidates) \/ i = Len(candidates) + 1
    BY <1>3, <1>7
  <2> QED
    BY <1>3, <1>5, <1>7, <2>1
<1>9. \A i \in 1 .. Len(candidates') : CandidateOK(candidates[i])'
  <2> SUFFICES ASSUME NEW i \in 1 .. Len(candidates') PROVE CandidateOK(candidates[i])'
    OBVIOUS
  <2>1. PICK d : d = candidates'[i]
    OBVIOUS
  <2>2. CandidateOK(d)'
    BY <1>1, <1>8, <2>1, CallStays
  <2> QED
    BY <2>1, <2>2
<1>10. Len(candidates') <= Len(Presets)
  <2>1. Len(Presets) \in Nat /\ Len(candidates) \in Nat
    BY <1>3, MatrixAssumption
  <2> QED
    BY <1>1, <1>7, <2>1
<1>11. \A i \in 1 .. Len(cells') : CellOK(cells[i])'
  BY <1>1, CallStays DEF MatrixInv
<1>12. EffectiveIsEveryRow' /\ ClosedHasNoBlockedCell'
  BY <1>1 DEF EffectiveIsEveryRow, ClosedHasNoBlockedCell
<1> QED
  BY <1>1, <1>7, <1>9, <1>10, <1>11, <1>12 DEF MatrixInv, CellCount

(* The cell that is published.                                             *)
LEMMA CellFacts ==
  ASSUME MatrixInv, stage = "cells", Len(candidates) = Len(Presets)
  PROVE  /\ candidates # << >>
         /\ Cell(Best) \in CellType /\ CellOK(Cell(Best)) /\ Cell(Best).best = Best
<1>1. /\ candidates \in Seq(CandidateType) /\ call \in Calls /\ cells \in Seq(CellType)
      /\ Len(cells) \in Nat /\ Len(cells) < CellCount
      /\ \A i \in 1 .. Len(candidates) : CandidateOK(candidates[i])
  BY DEF MatrixInv
<1>2. candidates # << >>
  BY MatrixAssumption
<1>3. CandidateOK(Best)
  BY <1>1, <1>2, BestFirst
<1>4. Best \in CandidateType /\ Best.max \in Nat
  BY <1>3 DEF CandidateOK, CandidateType
<1>5. CellTier \in ToSet(Tiers) /\ CellCategory \in ToSet(Categories)
  BY <1>1, CellPlace
<1>6. Reference(CellTier, CellCategory) \in Nat
  BY <1>1, <1>5, CallFields DEF Reference
<1>7. Clean(Best) \in BOOLEAN /\ (Clean(Best) => Best.limiter = "none")
  BY DEF Clean
<1> DEFINE r == Cell(Best)
<1>8. r = [ tier |-> CellTier, category |-> CellCategory, best |-> Best, aligned |-> Clean(Best),
            wave |-> IF Clean(Best) THEN Reference(CellTier, CellCategory) ELSE Best.max ]
  BY DEF Cell
<1>9. (IF Clean(Best) THEN Reference(CellTier, CellCategory) ELSE Best.max) \in Nat
  BY <1>4, <1>6
<1> HIDE DEF r
<1>10. r \in CellType
  BY <1>4, <1>5, <1>7, <1>8, <1>9 DEF CellType
<1>11. /\ r.best = Best /\ r.aligned = Clean(Best) /\ r.wave \in Nat
       /\ ~ Clean(Best) => r.wave = Best.max
  BY <1>8, <1>9
<1>12. CellOK(r)
  BY <1>3, <1>7, <1>11 DEF CellOK
<1> QED
  BY <1>2, <1>10, <1>11, <1>12 DEF r

LEMMA PublishKeeps ==
  ASSUME MatrixInv, PublishCell
  PROVE  MatrixInv'
<1>1. /\ call' = call /\ cert' = cert /\ candidates' = << >> /\ cells' = Append(cells, Cell(Best))
      /\ stage = "cells" /\ Len(candidates) = Len(Presets)
      /\ stage' = IF Len(cells') = CellCount THEN "certify" ELSE stage
  BY DEF PublishCell
<1> DEFINE c == Cell(Best)
<1>2. c \in CellType /\ CellOK(c)
  BY <1>1, CellFacts
<1>3. /\ cells \in Seq(CellType) /\ Len(cells) < CellCount /\ Len(cells) \in Nat
      /\ \A i \in 1 .. Len(cells) : CellOK(cells[i])
  BY <1>1 DEF MatrixInv
<1> HIDE DEF c
<1>4. /\ cells' \in Seq(CellType) /\ Len(cells') = Len(cells) + 1
      /\ \A i \in 1 .. Len(cells) : cells'[i] = cells[i]
      /\ cells'[Len(cells) + 1] = c
  BY <1>1, <1>2, <1>3, AppendTyped DEF c
<1>5. \A i \in 1 .. Len(cells') : CellOK(cells'[i])
  <2>1. \A i \in 1 .. Len(cells') : i \in 1 .. Len(cells) \/ i = Len(cells) + 1
    BY <1>3, <1>4
  <2> QED
    BY <1>2, <1>3, <1>4, <2>1
<1>6. \A i \in 1 .. Len(cells') : CellOK(cells[i])'
  <2> SUFFICES ASSUME NEW i \in 1 .. Len(cells') PROVE CellOK(cells[i])'
    OBVIOUS
  <2>1. PICK d : d = cells'[i]
    OBVIOUS
  <2>2. CellOK(d)'
    BY <1>1, <1>5, <2>1, CallStays
  <2> QED
    BY <2>1, <2>2
<1>7. /\ Len(candidates') = 0 /\ candidates' \in Seq(CandidateType) /\ Len(Presets) \in Nat
      /\ CellCount' = CellCount /\ CellCount \in Nat
  BY <1>1, MatrixAssumption DEF CellCount
<1>8. /\ Len(cells') <= CellCount /\ (stage' = "cells" => Len(cells') < CellCount)
      /\ stage' \in {"cells", "certify"}
  BY <1>1, <1>3, <1>4, <1>7
<1>9. EffectiveIsEveryRow' /\ ClosedHasNoBlockedCell'
  BY <1>8 DEF EffectiveIsEveryRow, ClosedHasNoBlockedCell
<1> QED
  BY <1>1, <1>4, <1>6, <1>7, <1>8, <1>9 DEF MatrixInv

(* What is certified: pressure is effectively closed when it is closed in  *)
(* every cell that lists one, and blockers are those of the cells.         *)
LEMMA CertificationFacts ==
  ASSUME MatrixInv
  PROVE  /\ Certification.effective \in BOOLEAN
         /\ Certification.blockers = MatrixBlockers
         /\ MatrixBlockers \subseteq {"pressure", "boss_damage"}
         /\ Certification.effective <=>
              \A r \in PublishedCells : r.best.unsupported # {} => r.best.closure.closed
         /\ ~ Certification.status.blocked => \A r \in PublishedCells : r.best.blockers = {}
<1> DEFINE overridden == IF MatrixPressures # {} THEN AllRowsClosed ELSE Closure({}).closed
<1>1. /\ Certification.effective = ("pressure" \notin MatrixBlockers \/ overridden)
      /\ Certification.blockers = MatrixBlockers
      /\ Certification.status = ClosureStatus(MatrixBlockers, MatrixClosure(MatrixPressures # {}))
  BY DEF Certification
<1>2. \A i \in DOMAIN cells : CandidateOK(cells[i].best)
  BY DEF MatrixInv, CellOK
<1>3. \A i \in DOMAIN cells :
        /\ cells[i].best.blockers \subseteq {"pressure", "boss_damage"}
        /\ "pressure" \in cells[i].best.blockers <=>
             cells[i].best.unsupported # {} /\ ~ cells[i].best.closure.closed
        /\ cells[i].best.unsupported = {} <=> cells[i].best.closure.mode = "not_required"
  BY <1>2 DEF CandidateOK, CandidateType
<1>4. MatrixBlockers \subseteq {"pressure", "boss_damage"}
  BY <1>3 DEF MatrixBlockers
<1>5. "pressure" \in MatrixBlockers <=>
        \E i \in DOMAIN cells : cells[i].best.unsupported # {} /\ ~ cells[i].best.closure.closed
  BY <1>3 DEF MatrixBlockers
<1>6. ASSUME NEW i \in DOMAIN cells,
             cells[i].best.unsupported # {}, ~ cells[i].best.closure.closed
      PROVE  ~ overridden
  <2>1. MatrixPressures # {}
    BY <1>6 DEF MatrixPressures
  <2>2. DOMAIN PublishedClosures = DOMAIN cells /\ PublishedClosures[i] = cells[i].best.closure
    BY DEF PublishedClosures
  <2>3. cells[i].best.closure \in ToSet(PublishedClosures)
    BY <2>2 DEF ToSet
  <2>4. ~ AllRowsClosed
    BY <1>3, <1>6, <2>3 DEF AllRowsClosed
  <2> QED
    BY <2>1, <2>4
<1>7. Certification.effective <=>
        \A i \in DOMAIN cells : cells[i].best.unsupported # {} => cells[i].best.closure.closed
  <2> HIDE DEF overridden
  <2> QED
    BY <1>1, <1>5, <1>6
<1>8. Certification.effective \in BOOLEAN
  BY <1>1
<1>9. (\A r \in PublishedCells : r.best.unsupported # {} => r.best.closure.closed)
        <=> \A i \in DOMAIN cells : cells[i].best.unsupported # {} => cells[i].best.closure.closed
  BY DEF PublishedCells
<1>10. Certification.status.blocked = (MatrixBlockers # {})
  BY <1>1 DEF ClosureStatus
<1>11. MatrixBlockers = {} => \A r \in PublishedCells : r.best.blockers = {}
  BY DEF MatrixBlockers, PublishedCells
<1> QED
  BY <1>1, <1>4, <1>7, <1>8, <1>9, <1>10, <1>11

LEMMA CertifyKeeps ==
  ASSUME MatrixInv, Certify
  PROVE  MatrixInv'
<1>1. /\ call' = call /\ cells' = cells /\ candidates' = candidates
      /\ cert' = Certification /\ stage' = "returned"
  BY DEF Certify
<1>2. \A i \in 1 .. Len(cells') : CellOK(cells[i])'
  BY <1>1, CallStays DEF MatrixInv
<1>3. \A i \in 1 .. Len(candidates') : CandidateOK(candidates[i])'
  BY <1>1, CallStays DEF MatrixInv
<1>4. PublishedCells' = PublishedCells
  BY <1>1 DEF PublishedCells
<1>5. EffectiveIsEveryRow' /\ ClosedHasNoBlockedCell'
  BY <1>1, <1>4, CertificationFacts DEF EffectiveIsEveryRow, ClosedHasNoBlockedCell
<1>6. cert'.effective \in BOOLEAN /\ cert'.blockers \subseteq {"pressure", "boss_damage"}
  BY <1>1, CertificationFacts
<1> QED
  BY <1>1, <1>2, <1>3, <1>5, <1>6 DEF MatrixInv, CellCount

LEMMA MatrixStays == MatrixInv /\ [MatrixNext]_matrix => MatrixInv'
<1> SUFFICES ASSUME MatrixInv, [MatrixNext]_matrix PROVE MatrixInv'
  OBVIOUS
<1>1. CASE UNCHANGED matrix
  <2>1. UNCHANGED << call, cells, candidates, cert, stage >>
    BY <1>1 DEF matrix
  <2>2. \A i \in 1 .. Len(cells') : CellOK(cells[i])'
    BY <2>1, CallStays DEF MatrixInv
  <2>3. \A i \in 1 .. Len(candidates') : CandidateOK(candidates[i])'
    BY <2>1, CallStays DEF MatrixInv
  <2>4. EffectiveIsEveryRow' /\ ClosedHasNoBlockedCell'
    BY <2>1 DEF MatrixInv, EffectiveIsEveryRow, ClosedHasNoBlockedCell, PublishedCells
  <2> QED
    BY <2>1, <2>2, <2>3, <2>4 DEF MatrixInv, CellCount
<1> QED
  BY <1>1, BuildKeeps, PublishKeeps, CertifyKeeps DEF MatrixNext, Returned

(* What the matrix certifies holds of each of its cells: explicit limits   *)
(* reach the cell through the alignment, pressure is effectively closed    *)
(* exactly when every cell that lists one closes it, and a matrix that is  *)
(* reported closed has no cell with a blocker                              *)
(* (build_boss_wave_milestone_matrix).                                     *)
THEOREM MatrixCertifiesItsCells == MatrixSpec => []CertificationSound
<1>1. MatrixInv => CertificationSound
  <2> SUFFICES ASSUME MatrixInv PROVE CertificationSound
    OBVIOUS
  <2>1. \A r \in PublishedCells : CellOK(r)
    BY DEF MatrixInv, PublishedCells
  <2>2. CellsTypeOK
    <3>1. \A r \in PublishedCells :
            /\ r.wave \in Nat /\ r.aligned \in BOOLEAN
            /\ r.best.status \in {"complete", "incomplete"} /\ r.best.max \in Nat
      BY <2>1 DEF CellOK, CandidateOK, CandidateType
    <3> QED
      BY <3>1 DEF CellsTypeOK, MatrixInv
  <2>3. LimitsReachTheCell
    <3> SUFFICES ASSUME NEW r \in PublishedCells, r.best.limiter = "explicit", ~ r.best.raised,
                        NEW f \in Supplied
                 PROVE  r.wave <= call.terminal[f]
      BY DEF LimitsReachTheCell
    <3>1. r.wave = r.best.max
      BY <2>1 DEF CellOK
    <3> QED
      BY <2>1, <3>1 DEF CellOK, CandidateOK
  <2> QED
    BY <2>2, <2>3 DEF CertificationSound, MatrixInv
<1> QED
  BY <1>1, MatrixStarts, MatrixStays, PTL DEF MatrixSpec

LEMMA PublishesTheBest ==
  MatrixInv /\ [MatrixNext]_matrix =>
    (cells' # cells =>
       \A c \in ToSet(candidates) :
         c.status = "complete" => Chosen.status = "complete" /\ c.max <= Chosen.max)
<1> SUFFICES ASSUME MatrixInv, [MatrixNext]_matrix, cells' # cells
             PROVE  \A c \in ToSet(candidates) :
                      c.status = "complete" => Chosen.status = "complete" /\ c.max <= Chosen.max
  OBVIOUS
<1>1. PublishCell
  BY DEF MatrixNext, BuildCandidate, Certify, Returned, matrix
<1>2. /\ stage = "cells" /\ Len(candidates) = Len(Presets) /\ cells' = Append(cells, Cell(Best))
      /\ cells \in Seq(CellType) /\ candidates \in Seq(CandidateType)
  BY <1>1 DEF PublishCell, MatrixInv
<1> DEFINE c == Cell(Best)
<1>3. c \in CellType /\ c.best = Best /\ candidates # << >>
  BY <1>2, CellFacts
<1> HIDE DEF c
<1>4. cells'[Len(cells')] = c
  BY <1>2, <1>3, AppendTyped DEF c
<1>5. Chosen = Best
  BY <1>3, <1>4 DEF Chosen
<1> QED
  BY <1>2, <1>3, <1>5, BestFirst

(* A cell is published incomplete only when no preset gave a complete      *)
(* answer, and no complete answer goes further than the published one      *)
(* (_boss_wave_milestone_matrix_selection_rank).                           *)
THEOREM CompleteComesFirst == MatrixSpec => CompleteFirst
<1>1. MatrixSpec => []MatrixInv
  BY MatrixStarts, MatrixStays, PTL DEF MatrixSpec
<1> QED
  BY <1>1, PublishesTheBest, PTL DEF MatrixSpec, CompleteFirst
=============================================================================
