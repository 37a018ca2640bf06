--------------------------- MODULE MilestoneMatrix --------------------------
(***************************************************************************)
(* build_boss_wave_milestone_matrix (app/pipeline.py).  For every tier and *)
(* dissonance category each named loadout preset is a candidate; the best  *)
(* one becomes the cell, a clean cell is aligned to its empirical          *)
(* reference wave, and the certification of the matrix is drawn from the   *)
(* published cells.                                                        *)
(*                                                                         *)
(* A candidate is answered by BossWaveSearch.  Since SearchAgreesWithFull  *)
(* holds there, what one payload over the whole run answers stands for the *)
(* answer here: the tier and the category no longer choose end waves.      *)
(***************************************************************************)
EXTENDS WaveSummary, SequencesExt

CONSTANTS
  Tiers,      \* sequence of the tiers asked for
  Categories, \* sequence of the dissonance categories; "none" is the regular run
  Presets,    \* sequence of the loadout presets
  EndWave,    \* end wave of the matrix
  CapWave,    \* _BOSS_WAVE_DISSONANCE_PB_BONUS_CAP_WAVE, 5000
  Fields,     \* the explicit terminal max-wave inputs
  FieldsOf,   \* pressure -> inputs that close it; {} when none is mapped
  Verdicts,   \* verdicts of the rows of a run, for any candidate
  Calls       \* what a caller may ask of which account

ASSUME MatrixAssumption ==
  /\ Tiers \in Seq(Nat) \ {<< >>} /\ Categories \in Seq(STRING) \ {<< >>}
  /\ Presets \in Seq(STRING) \ {<< >>}
  /\ EndWave \in Int /\ CapWave \in Nat
  /\ FieldsOf \in [DOMAIN FieldsOf -> SUBSET Fields]
  /\ \A v \in Verdicts :
       v \in Seq(Verdict) /\ RowCount(FinalEnd([end |-> EndWave])) <= Len(v)

(* A call has explicit limits, 0 when not supplied, reference waves and    *)
(* the pressures of each tier that no formula covers.                      *)
ASSUME CallsAssumption ==
  \A c \in Calls :
    c \in [ terminal : [Fields -> Nat], factor : BOOLEAN, bridge : BOOLEAN, stop : BOOLEAN,
             align : BOOLEAN, reference : [ToSet(Tiers) \X ToSet(Categories) -> Nat],
             pressures : [ToSet(Tiers) -> SUBSET DOMAIN FieldsOf] ]

VARIABLES
  call,       \* inputs and account facts; never change
  cells,      \* published cells
  candidates, \* candidate results of the cell under construction
  cert,       \* certification of the matrix
  stage

matrix == << call, cells, candidates, cert, stage >>

-----------------------------------------------------------------------------
(* The cell under construction.                                            *)
CellCount == Len(Tiers) * Len(Categories)
CellTier == Tiers[(Len(cells) \div Len(Categories)) + 1]
CellCategory == Categories[(Len(cells) % Len(Categories)) + 1]

(* _boss_wave_milestone_alignment: the active reference of a cell, 0 when  *)
(* the account has none.                                                   *)
Reference(t, c) == call.reference[<< t, c >>]

(* The terminal pressures of a tier that no formula covers.                *)
Pressures(t) == call.pressures[t]

(* The explicit terminal inputs of the call that are positive.             *)
Supplied == { f \in Fields : call.terminal[f] > 0 }

(* _boss_wave_terminal_pressure_runtime_override_status                    *)
ExactlyClosed(open) ==
  IF open = {} THEN Supplied = Fields
  ELSE \A p \in open : FieldsOf[p] # {} /\ FieldsOf[p] \subseteq Supplied

(* _boss_wave_model_certification_payload of an ordinary milestone run:    *)
(* decay magnitudes are for tournaments, and the unified model needs no    *)
(* boss damage bridge.                                                     *)
Closure(open) ==
  LET exact == ExactlyClosed(open)
      factor == open # {} /\ call.factor /\ ~ exact
  IN [ closed |-> exact \/ factor, exact |-> exact, factor |-> factor,
       mode |-> IF open = {} THEN "not_required" ELSE IF exact THEN "explicit"
                ELSE IF factor THEN "factor" ELSE "missing" ]

Blockers(open) == IF open # {} /\ ~ Closure(open).closed THEN { "pressure" } ELSE {}

(* The certification of the matrix before any row is known.                *)
BaseBlockers == IF call.bridge THEN {} ELSE { "boss_damage" }

-----------------------------------------------------------------------------
(* Candidates                                                              *)

(* The request the search answers.                                         *)
Asked(v) ==
  [ verdict |-> v, end |-> EndWave, stop |-> call.stop, highTier |-> FALSE, defense |-> FALSE,
    contact |-> TRUE, limits |-> { call.terminal[f] : f \in Supplied },
    open |-> Pressures(CellTier) # {} /\ ~ Closure(Pressures(CellTier)).closed,
    reference |-> Reference(CellTier, CellCategory) ]

Resolved(p, v) ==
  LET s == FullSummary(Asked(v))
      open == Pressures(CellTier)
  IN [ preset |-> p, max |-> s.max, status |-> s.status, limiter |-> s.limiter,
       raised |-> s.aligned = "raised", unsupported |-> open, blockers |-> Blockers(open),
       closure |-> Closure(open) ]

(* A KernelAmbiguityError: the certification of the matrix is published    *)
(* for the candidate, and no pressure is listed.                           *)
Ambiguous(p) ==
  [ preset |-> p, max |-> 0, status |-> "incomplete", limiter |-> "none", raised |-> FALSE,
    unsupported |-> {}, blockers |-> BaseBlockers, closure |-> Closure({}) ]

Candidate(p, v) == IF FullRaises(Asked(v)) THEN Ambiguous(p) ELSE Resolved(p, v)

(* Mutant: the highest wave wins, complete or not.                         *)
OutranksByWave(i, j) ==
  LET a == candidates[i]
      b == candidates[j]
  IN a.max > b.max \/ (a.max = b.max /\ i < j)

(* _boss_wave_milestone_matrix_selection_rank: i is ranked before j.       *)
Outranks(i, j) ==
  LET a == candidates[i]
      b == candidates[j]
      rank(x) == IF x.status = "complete" THEN 1 ELSE 0
  IN \/ rank(a) > rank(b)
     \/ rank(a) = rank(b) /\ (a.max > b.max \/ (a.max = b.max /\ i < j))

Best == candidates[CHOOSE i \in DOMAIN candidates : \A j \in DOMAIN candidates \ {i} : Outranks(i, j)]

(* Mutant: a row cut by an explicit limit counts as clean.                 *)
CleanThoughLimited(best) ==
  /\ call.align
  /\ Reference(CellTier, CellCategory) \in 1 .. EndWave
  /\ CellCategory = "none" \/ Reference(CellTier, CellCategory) < CapWave
  /\ best.blockers = {} /\ best.unsupported = {}

(* _boss_wave_clean_reference_alignment applies                            *)
Clean(best) ==
  /\ call.align
  /\ Reference(CellTier, CellCategory) \in 1 .. EndWave
  /\ CellCategory = "none" \/ Reference(CellTier, CellCategory) < CapWave
  /\ best.blockers = {} /\ best.unsupported = {} /\ best.limiter = "none"

Cell(best) ==
  [ tier |-> CellTier, category |-> CellCategory, best |-> best, aligned |-> Clean(best),
    wave |-> IF Clean(best) THEN Reference(CellTier, CellCategory) ELSE best.max ]

-----------------------------------------------------------------------------
(* _boss_wave_matrix_certification_from_selected_rows                      *)

PublishedClosures == [ i \in DOMAIN cells |-> cells[i].best.closure ]

(* The published closure is that of the first row with a factor, then of   *)
(* the first row with explicit inputs.                                     *)
MatrixClosure(required) ==
  LET some(P(_)) == { i \in DOMAIN cells : P(cells[i].best.closure) }
      byFactor(c) == c.factor
      byInputs(c) == c.exact
  IN IF some(byFactor) # {} THEN PublishedClosures[Min(some(byFactor))]
     ELSE IF some(byInputs) # {} THEN PublishedClosures[Min(some(byInputs))]
     ELSE [ closed |-> FALSE, exact |-> FALSE, factor |-> FALSE,
            mode |-> IF required THEN "missing" ELSE "not_required" ]

(* Mutant: one closed row closes the requirement for the matrix.           *)
AnyRowClosed ==
  \E c \in ToSet(PublishedClosures) : c.mode # "not_required" /\ c.closed

AllRowsClosed ==
  /\ \E c \in ToSet(PublishedClosures) : c.mode # "not_required"
  /\ \A c \in ToSet(PublishedClosures) : c.mode # "not_required" => c.closed

MatrixBlockers == UNION { cells[i].best.blockers : i \in DOMAIN cells }
MatrixPressures == UNION { cells[i].best.unsupported : i \in DOMAIN cells }

(* Mutant: the status is that of the published closure alone.              *)
StatusOfClosure(blockers, closure) ==
  [ blocked |-> blockers # {} /\ ~ closure.closed,
    by |-> IF closure.factor THEN "factor" ELSE IF closure.exact THEN "explicit" ELSE "none" ]

(* _boss_wave_model_closure_status: partial or closed, and by what.        *)
ClosureStatus(blockers, closure) ==
  [ blocked |-> blockers # {},
    by |-> IF closure.factor THEN "factor" ELSE IF closure.exact THEN "explicit" ELSE "none" ]

Certification ==
  LET closure == MatrixClosure(MatrixPressures # {})
      overridden == IF MatrixPressures # {} THEN AllRowsClosed ELSE Closure({}).closed
  IN [ blockers |-> MatrixBlockers, closure |-> closure,
       effective |-> "pressure" \notin MatrixBlockers \/ overridden,
       status |-> ClosureStatus(MatrixBlockers, closure) ]

-----------------------------------------------------------------------------
MatrixInit ==
  /\ call \in Calls
  /\ cells = << >> /\ candidates = << >>
  /\ cert = [ blockers |-> BaseBlockers, closure |-> Closure({}), effective |-> FALSE,
              status |-> ClosureStatus(BaseBlockers, Closure({})) ]
  /\ stage = "cells"

(* The next preset of the cell is evaluated; its rows may turn out in any  *)
(* of the ways of Verdicts.                                                *)
BuildCandidate ==
  /\ stage = "cells" /\ Len(candidates) < Len(Presets)
  /\ \E v \in Verdicts : candidates' = Append(candidates, Candidate(Presets[Len(candidates) + 1], v))
  /\ UNCHANGED << call, cells, cert, stage >>

PublishCell ==
  /\ stage = "cells" /\ Len(candidates) = Len(Presets)
  /\ cells' = Append(cells, Cell(Best))
  /\ candidates' = << >>
  /\ stage' = IF Len(cells') = CellCount THEN "certify" ELSE stage
  /\ UNCHANGED << call, cert >>

Certify ==
  /\ stage = "certify"
  /\ cert' = Certification
  /\ stage' = "returned"
  /\ UNCHANGED << call, cells, candidates >>

Returned == stage = "returned" /\ UNCHANGED matrix

MatrixNext == BuildCandidate \/ PublishCell \/ Certify \/ Returned

MatrixSpec == MatrixInit /\ [][MatrixNext]_matrix

-----------------------------------------------------------------------------
(* Properties                                                              *)

PublishedCells == { cells[i] : i \in DOMAIN cells }

(* The state keeps its types.                                              *)
CellsTypeOK ==
  /\ stage \in {"cells", "certify", "returned"}
  /\ Len(cells) <= CellCount /\ Len(candidates) <= Len(Presets)
  /\ \A r \in PublishedCells :
       /\ r.wave \in Nat /\ r.aligned \in BOOLEAN
       /\ r.best.status \in {"complete", "incomplete"} /\ r.best.max \in Nat
  /\ cert.effective \in BOOLEAN /\ cert.blockers \subseteq {"pressure", "boss_damage"}

(* The contract's selection policy, complete candidates first: a cell is   *)
(* incomplete only when no preset gave a complete answer, and no complete  *)
(* answer goes further than the published one.                             *)
Chosen == cells'[Len(cells')].best
CompleteFirst ==
  [][ cells' # cells =>
        \A c \in ToSet(candidates) :
          c.status = "complete" => Chosen.status = "complete" /\ c.max <= Chosen.max ]_matrix

(* An explicit terminal limit that cut the best candidate still holds in   *)
(* the cell: alignment to the reference, a later stage, does not undo it.  *)
LimitsReachTheCell ==
  \A r \in PublishedCells :
    r.best.limiter = "explicit" /\ ~ r.best.raised =>
      \A f \in Supplied : r.wave <= call.terminal[f]

(* The matrix says that terminal pressure is effectively closed exactly    *)
(* when it is closed in every cell that lists one.                         *)
EffectiveIsEveryRow ==
  stage = "returned" =>
    (cert.effective <=> \A r \in PublishedCells : r.best.unsupported # {} => r.best.closure.closed)

(* A matrix reported as closed has no cell with a blocker of its own.      *)
ClosedHasNoBlockedCell ==
  stage = "returned" /\ ~ cert.status.blocked => \A r \in PublishedCells : r.best.blockers = {}

(* What the matrix certifies is what holds of each of its cells, after all *)
(* the stages a cell goes through.                                         *)
CertificationSound ==
  CellsTypeOK /\ LimitsReachTheCell /\ EffectiveIsEveryRow /\ ClosedHasNoBlockedCell

(* ACTIVE_TRANCHE.md: certification requires the input mapped to each      *)
(* active pressure.  The closure the matrix publishes as closed closes the *)
(* pressures of all its cells.                                             *)
ClosureCoversEveryCell ==
  stage = "returned" /\ cert.closure.closed =>
    \A r \in PublishedCells : r.best.unsupported = {} \/ r.best.closure.closed

(* ACTIVE_TRANCHE.md: rows with unsupported pressure keep the blocker      *)
(* visible unless explicit inputs or a factor close it.                    *)
OpenPressureIsVisible ==
  \A r \in PublishedCells :
    Pressures(r.tier) # {} /\ ~ Closure(Pressures(r.tier)).closed => "pressure" \in r.best.blockers
=============================================================================
