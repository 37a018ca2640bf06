----------------------------- MODULE WaveSummary ----------------------------
(***************************************************************************)
(* How the rows of a Boss Waves run are summed up (app/pipeline.py): the   *)
(* wave it gets to, limited by explicit terminal pressures, aligned to an  *)
(* empirical reference wave and marked with an ambiguity; and what one     *)
(* payload over the whole run answers.                                     *)
(***************************************************************************)
EXTENDS Integers, Sequences, FiniteSets, FiniteSetsExt

CONSTANTS
  Interval,   \* waves between two bosses, 10: the first row
  Stride      \* waves between two checkpoint rows, 10 bosses

ASSUME GridAssumption == { Interval, Stride } \subseteq Nat \ {0}

Verdict == {"survives", "envelope", "fails", "ambiguous"}

Wave(k) == IF k = 0 THEN 0 ELSE Interval + (k - 1) * Stride
RowCount(last) == IF last < Interval THEN 0 ELSE (last - Interval) \div Stride + 1

(* _boss_wave_matrix_candidate_end_waves                                   *)
FinalEnd(r) == IF r.end < 1 THEN 1 ELSE r.end

(* What a request is: verdicts for every row of its run, explicit terminal *)
(* limits, and a reference wave, 0 when the account has none.              *)
RequestType ==
  [ verdict : Seq(Verdict), end : Int, stop : BOOLEAN, highTier : BOOLEAN,
    defense : BOOLEAN, contact : BOOLEAN, limits : SUBSET Nat, open : BOOLEAN,
    reference : Nat ]
OfWholeRun(r) == r \in RequestType /\ RowCount(FinalEnd(r)) <= Len(r.verdict)

-----------------------------------------------------------------------------
(* The summary: of rows of verdicts, for a request                         *)

Lane == {"hit_by_hit", "contact_envelope"}

Passes(lane, v) == v = "survives" \/ (lane = "contact_envelope" /\ v = "envelope")

(* _summary_wave_fields                                                    *)
Failing(lane, rs) == { k \in DOMAIN rs : ~ Passes(lane, rs[k]) }
Passing(lane, rs) == DOMAIN rs \ Failing(lane, rs)

FirstFailed(lane, rs) == IF Failing(lane, rs) = {} THEN 0 ELSE Wave(Min(Failing(lane, rs)))
MaxIndependent(lane, rs) ==
  IF Passing(lane, rs) = {} THEN 0 ELSE Wave(Max(Passing(lane, rs)))

LastContiguous(lane, rs) ==
  IF Failing(lane, rs) = {} THEN Wave(Len(rs)) ELSE Wave(Min(Failing(lane, rs)) - 1)

(* _replacement_summary_from_operator_rows                                 *)
OfRows(rs) ==
  [ max |-> LastContiguous("hit_by_hit", rs), failed |-> FirstFailed("hit_by_hit", rs),
    independent |-> MaxIndependent("hit_by_hit", rs),
    envelopeMax |-> LastContiguous("contact_envelope", rs),
    terminal |-> Wave(Len(rs)), throughEnd |-> rs # << >> /\ FirstFailed("hit_by_hit", rs) = 0,
    limiter |-> "none", aligned |-> "none", uncapped |-> 0,
    status |-> "unset", truncated |-> FALSE ]

Smaller(a, b) == IF a <= b THEN a ELSE b
Larger(a, b) == IF a >= b THEN a ELSE b

CutAt(s, wave, limiter) ==
  [ s EXCEPT !.max = wave, !.failed = wave + 1, !.independent = Smaller(@, wave),
             !.limiter = limiter ]

(* Mutant: the weakest of the explicit limits counts.                      *)
LimitedByWeakest(r, s) ==
  IF r.limits = {} \/ s.max <= 0 \/ Max(r.limits) >= s.max THEN s
  ELSE CutAt(s, Max(r.limits), "explicit")

(* _apply_terminal_pressure_limits: the lowest explicit limit cuts.        *)
Limited(r, s) ==
  IF r.limits = {} \/ s.max <= 0 \/ Min(r.limits) >= s.max THEN s
  ELSE CutAt(s, Min(r.limits), "explicit")

(* No empirical reference for a pressure no formula covers.                *)
Blocked(s) ==
  [ s EXCEPT !.max = 0, !.failed = 0, !.independent = 0, !.limiter = "missing_reference",
             !.uncapped = s.max, !.status = "incomplete" ]

Raised(s, wave) ==
  [ s EXCEPT !.max = wave, !.failed = wave + 1, !.independent = Larger(@, wave),
             !.aligned = "raised", !.uncapped = s.max ]

Capped(s, wave) == [ CutAt(s, wave, "reference") EXCEPT !.aligned = "capped", !.uncapped = s.max ]

(* _apply_unsupported_terminal_pressure_reference_limit                    *)
Aligned(r, s) ==
  IF ~ r.open THEN [ s EXCEPT !.uncapped = s.max ]
  ELSE IF r.reference = 0 THEN Blocked(s)
  ELSE IF s.max <= 0 THEN s
  ELSE IF s.max = r.reference THEN [ s EXCEPT !.aligned = "at", !.uncapped = s.max ]
  ELSE IF s.max > r.reference THEN Capped(s, r.reference)
  ELSE Raised(s, r.reference)

(* Mutant: a summary without an ambiguity is complete, whatever it said.   *)
MergedOver(s, failure, wave) ==
  IF ~ failure THEN [ s EXCEPT !.status = "complete" ]
  ELSE IF s.failed > 0 /\ wave > s.failed
  THEN [ s EXCEPT !.status = "complete", !.truncated = TRUE ]
  ELSE [ s EXCEPT !.status = "incomplete" ]

(* Mutant: an ambiguous row is always past the failure.                    *)
MergedAsTruncation(s, failure, wave) ==
  IF failure /\ s.status # "incomplete"
  THEN [ s EXCEPT !.status = "complete", !.truncated = TRUE ]
  ELSE [ s EXCEPT !.status = IF @ = "unset" THEN "complete" ELSE @ ]

(* Mutant: a table without an ambiguity leaves the status out.             *)
MergedWithoutDefault(s, failure, wave) ==
  IF ~ failure THEN s
  ELSE IF s.failed > 0 /\ wave > s.failed
  THEN [ s EXCEPT !.status = "complete", !.truncated = TRUE ]
  ELSE [ s EXCEPT !.status = "incomplete" ]

(* An ambiguous row past the first failing wave only truncates the table.  *)
Merged(s, failure, wave) ==
  IF ~ failure THEN [ s EXCEPT !.status = IF @ = "unset" THEN "complete" ELSE @ ]
  ELSE IF s.failed > 0 /\ wave > s.failed
  THEN [ s EXCEPT !.status = "complete", !.truncated = TRUE ]
  ELSE [ s EXCEPT !.status = "incomplete" ]

Summary(r, rs, failure, wave) == Merged(Aligned(r, Limited(r, OfRows(rs))), failure, wave)

-----------------------------------------------------------------------------
(* What a single payload for the whole run answers                         *)

(* The first row, if any, that ends a scan of the whole run.               *)
Ending(r) ==
  { k \in 1 .. RowCount(FinalEnd(r)) :
      r.verdict[k] = "ambiguous" \/ (r.stop /\ r.verdict[k] = "fails") }

AmbiguousEnd(r) == Ending(r) # {} /\ r.verdict[Min(Ending(r))] = "ambiguous"

FullRows(r) ==
  LET count == IF ~ r.contact THEN 0
               ELSE IF Ending(r) = {} THEN RowCount(FinalEnd(r))
               ELSE IF AmbiguousEnd(r) THEN Min(Ending(r)) - 1 ELSE Min(Ending(r))
  IN [k \in 1 .. count |-> r.verdict[k]]

FullRaises(r) == r.stop /\ (~ r.contact \/ AmbiguousEnd(r))

FullSummary(r) ==
  LET failure == ~ r.contact \/ AmbiguousEnd(r)
  IN Summary(r, FullRows(r), failure,
             IF failure /\ RowCount(FinalEnd(r)) > 0 THEN Wave(Len(FullRows(r)) + 1) ELSE 0)
=============================================================================
