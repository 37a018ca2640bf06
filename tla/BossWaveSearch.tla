--------------------------- MODULE BossWaveSearch --------------------------
(***************************************************************************)
(* How far a run gets: one candidate of the milestone matrix               *)
(* (app/pipeline.py).  The candidate end waves are tried one after the     *)
(* other until one shows a failing boss; for each, the rows of Table 1 are *)
(* evaluated until a row is ambiguous or, when the caller asks for it,     *)
(* fails both verdicts; and the rows are summed up (WaveSummary).          *)
(*                                                                         *)
(* A row's evaluation is the subject of BossFight: here it is one of       *)
(* four verdicts, the same for every end wave, since a shorter Table 1 is  *)
(* a prefix of a longer one.  A row that survives hit by hit survives the  *)
(* contact envelope as well (SurvivesThenEnvelope there).                  *)
(***************************************************************************)
EXTENDS WaveSummary

CONSTANTS
  FirstHorizon, SecondHorizon,   \* 1000, 3000
  WideHorizon,                   \* 6000
  Requests                       \* what a caller may ask

(* Every early end wave has a row: otherwise its payload would be empty,   *)
(* and the search would stop there with nothing reached.                   *)
ASSUME HorizonAssumption ==
  \A h \in { FirstHorizon, SecondHorizon, WideHorizon } : h \in Nat /\ Interval <= h

ASSUME RequestAssumption == \A r \in Requests : OfWholeRun(r)

VARIABLES
  request,    \* the inputs; never change
  horizons,   \* candidate end waves still to try
  end,        \* end wave of the payload under construction
  pc,
  rows,       \* operator_rows, as verdicts
  unresolved, \* kernel_failure: its first unresolved wave, 0 when unknown
  ambiguous,  \* kernel_failure is set
  summary

vars == << request, horizons, end, pc, rows, unresolved, ambiguous, summary >>

-----------------------------------------------------------------------------
Progressive(r) ==
  r.stop /\ FinalEnd(r) > FirstHorizon /\ (r.highTier \/ r.defense)

Doubling(h) == \E n \in 0 .. h : h = WideHorizon * 2^n

Ladder(last) ==
  { h \in {FirstHorizon, SecondHorizon} : h < last }
    \cup { h \in WideHorizon .. last - 1 : Doubling(h) } \cup {last}

CandidateEndWaves(r) ==
  IF ~ Progressive(r) THEN { FinalEnd(r) }
  ELSE IF r.defense THEN Ladder(FinalEnd(r))
  ELSE { h \in { WideHorizon, FinalEnd(r) } : h <= FinalEnd(r) }

-----------------------------------------------------------------------------
Init ==
  /\ request \in Requests
  /\ horizons = CandidateEndWaves(request)
  /\ end = 0 /\ pc = "search"
  /\ rows = << >> /\ unresolved = 0 /\ ambiguous = FALSE
  /\ summary = OfRows(<< >>)

(* build_boss_wave_payload is called for the next end wave.  Without a     *)
(* contact time no row can be evaluated.                                   *)
BeginPayload ==
  /\ pc = "search"
  /\ end' = Min(horizons) /\ horizons' = horizons \ {end'}
  /\ rows' = << >>
  /\ ambiguous' = (~ request.contact /\ ~ request.stop)
  /\ unresolved' = IF ambiguous' /\ RowCount(end') > 0 THEN Wave(1) ELSE 0
  /\ pc' = IF request.contact THEN "scan" ELSE IF request.stop THEN "raised" ELSE "summarise"
  /\ UNCHANGED << request, summary >>

NextVerdict == request.verdict[Len(rows) + 1]

(* Mutant: the row that ends the scan is not kept.                         *)
KeptButLast == IF request.stop /\ NextVerdict = "fails" THEN rows ELSE Append(rows, NextVerdict)

Kept == Append(rows, NextVerdict)

(* One row of Table 1 is evaluated and kept.                               *)
EvaluateRow ==
  /\ pc = "scan" /\ Len(rows) < RowCount(end)
  /\ NextVerdict # "ambiguous"
  /\ rows' = Kept
  /\ pc' = IF request.stop /\ NextVerdict = "fails" THEN "summarise" ELSE pc
  /\ UNCHANGED << request, horizons, end, unresolved, ambiguous, summary >>

(* KernelAmbiguityError: raised to the caller, or recorded.                *)
AmbiguousRow ==
  /\ pc = "scan" /\ Len(rows) < RowCount(end)
  /\ NextVerdict = "ambiguous"
  /\ IF request.stop
     THEN pc' = "raised" /\ UNCHANGED << unresolved, ambiguous >>
     ELSE /\ pc' = "summarise"
          /\ ambiguous' = TRUE /\ unresolved' = Wave(Len(rows) + 1)
  /\ UNCHANGED << request, horizons, end, rows, summary >>

EndOfTable ==
  /\ pc = "scan" /\ Len(rows) = RowCount(end)
  /\ pc' = "summarise"
  /\ UNCHANGED << request, horizons, end, rows, unresolved, ambiguous, summary >>

(* Mutant: survival of the whole table is taken for the answer.            *)
NeverNeedsMore(s) == s.max > s.terminal

(* _boss_wave_matrix_payload_needs_more_horizon                            *)
NeedsMoreHorizon(s) ==
  /\ end < request.end
  /\ s.status = "complete" /\ s.failed = 0
  /\ s.max > 0 /\ s.max >= s.terminal

Summarise ==
  /\ pc = "summarise"
  /\ summary' = Summary(request, rows, ambiguous, unresolved)
  /\ pc' = IF NeedsMoreHorizon(summary') /\ horizons # {} THEN "search" ELSE "returned"
  /\ UNCHANGED << request, horizons, end, rows, unresolved, ambiguous >>

Answered == pc \in {"returned", "raised"} /\ UNCHANGED vars

Next ==
  \/ BeginPayload \/ EvaluateRow \/ AmbiguousRow \/ EndOfTable \/ Summarise
  \/ Answered

Spec == Init /\ [][Next]_vars

-----------------------------------------------------------------------------
(* Same wave reached and same first failing wave.  A result that happens   *)
(* to be at its reference keeps the failing wave of its rows; one raised   *)
(* or capped to it names the wave after it.                                *)
SameWaves(s, t) ==
  /\ s.max = t.max
  /\ (s.aligned = "at") = (t.aligned = "at") => s.failed = t.failed

-----------------------------------------------------------------------------
(* Properties                                                              *)

(* The state keeps its types.                                              *)
TypeOK ==
  /\ pc \in {"search", "scan", "summarise", "returned", "raised"}
  /\ horizons \subseteq Nat /\ end \in Nat
  /\ rows \in Seq(Verdict \ {"ambiguous"}) /\ Len(rows) <= RowCount(end)
  /\ unresolved \in Nat /\ ambiguous \in BOOLEAN
  /\ { summary.max, summary.failed, summary.independent, summary.envelopeMax,
       summary.terminal, summary.uncapped } \subseteq Nat
  /\ pc = "returned" => summary.status \in {"complete", "incomplete"}

(* Stopping at an early end wave does not change the answer: the wave      *)
(* reached, the first failing wave and the status are those of one payload *)
(* for the whole run, whatever limits and references are applied on top.   *)
SearchAgreesWithFull ==
  /\ pc = "returned" /\ ~ FullRaises(request) =>
       SameWaves(summary, FullSummary(request)) /\ summary.status = FullSummary(request).status
  /\ pc = "raised" => FullRaises(request)

(* Stopping the scan at the first row that fails both verdicts does not    *)
(* change the wave reached, although the unstopped scan goes on past it.   *)
StopLosesNothing ==
  pc = "returned" /\ request.stop =>
    SameWaves(summary, FullSummary([request EXCEPT !.stop = FALSE]))

(* Unless raised to the reference, the selected wave is backed by rows:    *)
(* every checkpoint up to it has been evaluated and survived.              *)
SelectedIsBacked ==
  pc = "returned" /\ summary.aligned # "raised" =>
    \A k \in 1 .. RowCount(summary.max) : k <= Len(rows) /\ rows[k] = "survives"

(* A complete answer rests on resolved rows up to the first failure it     *)
(* names; one without a failure, on all rows of the run.                   *)
CompleteIsResolved ==
  pc = "returned" /\ summary.status = "complete" =>
    /\ summary.failed = 0 /\ summary.max > 0 => Len(rows) = RowCount(FinalEnd(request))
    /\ ambiguous => unresolved > summary.failed

(* A pressure without formula and without reference is never reported as   *)
(* a complete result.                                                      *)
MissingReferenceBlocks ==
  pc = "returned" /\ request.open /\ request.reference = 0 =>
    summary.status = "incomplete" /\ summary.max = 0

(* No answer goes past an explicit terminal limit, unless raised.          *)
LimitsHold ==
  pc = "returned" /\ summary.aligned # "raised" => \A l \in request.limits : summary.max <= l

(* Neither of the two early exits, of the search and of the scan, changes  *)
(* the answer.                                                             *)
EarlyExitsAgree == SearchAgreesWithFull /\ StopLosesNothing

(* What is answered is backed by rows and keeps within every limit,        *)
(* although four stages rewrite the same fields one after the other.       *)
AnswerIsBacked ==
  SelectedIsBacked /\ CompleteIsResolved /\ MissingReferenceBlocks /\ LimitsHold

(* The regression test of the search: all fields a wide row publishes, not *)
(* only its answer, are those of the full run.                             *)
Published(s) == << s.max, s.status, s.envelopeMax, s.uncapped, s.limiter, s.aligned >>
ProgressiveMatchesFull ==
  pc = "returned" /\ ~ FullRaises(request) => Published(summary) = Published(FullSummary(request))

(* Truncation after a failing row is kept apart from completeness: a row   *)
(* that cannot be resolved past the first failing boss is no ambiguity of  *)
(* the result.                                                             *)
FailedBefore == FirstFailed("hit_by_hit", rows) > 0
TruncationIsSeparate ==
  /\ pc = "raised" => ~ FailedBefore
  /\ pc = "returned" /\ ambiguous /\ FailedBefore /\ summary.limiter # "missing_reference"
       => summary.status = "complete"
=============================================================================
