--------------------------- MODULE OutputDirectory ---------------------------
(***************************************************************************)
(* The output directory two pipelines write into (app/pipeline.py and      *)
(* app/publication.py).  The run-stats pipeline removes the files of both  *)
(* and writes its own, diagnostics.json last.  The full pipeline removes   *)
(* next to nothing, writes diagnostics.json first and, run by              *)
(* execute_pipeline, pipeline_trace.json last, and stamps its diagnostics  *)
(* into a run_stats.json it finds.  Files are written in place, so a       *)
(* process that dies leaves the file it was writing torn and the rest of   *)
(* two runs side by side.                                                  *)
(*                                                                         *)
(* Files that are always written and removed one after the other share a   *)
(* name here: the two query plans, the five geometry files, and so on.     *)
(***************************************************************************)
EXTENDS Naturals, Sequences

CONSTANT MaxRuns        \* bound: runs in the life of the directory

ASSUME RunsAssumption == MaxRuns \in Nat

VARIABLES dir,          \* file |-> what lies there
          asked,        \* the requests so far; a run is its place in it
          job,          \* the run in progress
          outcome       \* how the last run ended

dirVars == <<dir, asked, job, outcome>>

\* app/run_analysis.py calls run_analysis_pipeline itself: it has no option for
\* a matrix, and nobody writes a trace.
AnalysisRequests == [kind : {"full"}, matrix : {FALSE}, residue : BOOLEAN, trace : {FALSE}]

Requests == [kind : {"stats"}, matrix : BOOLEAN, residue : {FALSE}, trace : {FALSE}]
            \union [kind : {"full"}, matrix : BOOLEAN, residue : BOOLEAN, trace : {TRUE}]
            \union AnalysisRequests

\* What run_stats declares in diagnostics.json as its output contract.
StatsSupport == <<"diagnostics", "input_dashboard", "module_card_payloads", "geometry">>
StatsBaseline == <<"account_state", "run_stats", "stats_dashboard", "query_plans", "query_rows">>

\* FULL_PIPELINE_PUBLICATION_ARTIFACTS, the part run_stats does not write too.
FullOnly == <<"statbooks", "verification">>

FilesOf(s) == {s[i] : i \in 1..Len(s)}
StatsContract == FilesOf(StatsSupport \o StatsBaseline)
FullContract == FilesOf(FullOnly) \union
  {"diagnostics", "account_state", "input_dashboard", "stats_dashboard", "query_rows"}
Artifacts == StatsContract \union FullContract
         \union {"trace", "matrix", "residue_reports", "perk_diagnostics"}

Absent == [there |-> FALSE]
Torn == [there |-> TRUE, whole |-> FALSE]
\* A whole file: the run its payload is from and, for run_stats.json, the run
\* of the diagnostics inside.
Payload(k, d) == [there |-> TRUE, whole |-> TRUE, run |-> k, diag |-> d]
Whole(f) == dir[f].there /\ dir[f].whole

----------------------------------------------------------------------------
(* The two pipelines, as the operations they perform on the directory.     *)

Ops(op, files) == [i \in 1..Len(files) |-> [op |-> op, file |-> files[i]]]
Compute == <<[op |-> "compute"]>>

(* Mutants: the baseline goes before the diagnostics that vouch for it; the *)
(* files of the full pipeline, or its trace, are left.                     *)
RemovalsBaselineFirst == StatsBaseline \o StatsSupport \o FullOnly \o <<"trace", "perk_diagnostics">>
RemovalsOwnOnly == StatsSupport \o StatsBaseline \o <<"trace", "perk_diagnostics">>
RemovalsKeepTrace == StatsSupport \o StatsBaseline \o FullOnly \o <<"perk_diagnostics">>

\* _remove_run_stats_current_outputs
Removals == StatsSupport \o StatsBaseline \o FullOnly \o <<"trace", "perk_diagnostics">>

\* RunStatsSession.execute
StatsProgram(q) ==
  Ops("remove", Removals)
  \o Compute
  \o Ops("write", <<"account_state", "module_card_payloads", "input_dashboard", "query_plans",
                    "query_rows", "stats_dashboard", "geometry">>)
  \o (IF q.matrix THEN Compute \o Ops("write", <<"matrix">>) ELSE <<>>)
  \o Ops("write", <<"run_stats", "diagnostics">>)

\* The end of a full run; it is execute_pipeline that writes the trace.
LastFiles(q) == IF q.trace THEN <<"module_card_payloads", "trace">> ELSE <<"module_card_payloads">>

(* Mutants: the diagnostics come after the files they describe; an old      *)
(* matrix stays.                                                           *)
FullProgramDiagnosticsLate(q) ==
  Compute
  \o (IF q.matrix THEN Compute ELSE Ops("remove", <<"matrix">>))
  \o Ops("write", <<"account_state", "input_dashboard", "stats_dashboard", "statbooks",
                    "query_rows", "verification", "diagnostics">>)
  \o (IF q.residue THEN Ops("write", <<"residue_reports">>) ELSE <<>>)
  \o Ops("restamp", <<"run_stats">>)
  \o (IF q.matrix THEN Ops("write", <<"matrix">>) ELSE <<>>)
  \o Ops("write", LastFiles(q))
FullProgramKeepsMatrix(q) ==
  Compute
  \o Ops("write", <<"diagnostics", "account_state", "input_dashboard", "stats_dashboard",
                    "statbooks", "query_rows", "verification">>)
  \o (IF q.residue THEN Ops("write", <<"residue_reports">>) ELSE <<>>)
  \o Ops("restamp", <<"run_stats">>)
  \o (IF q.matrix THEN Ops("write", <<"matrix">>) ELSE <<>>)
  \o Ops("write", LastFiles(q))

\* run_analysis_pipeline, write_core_outputs and execute_pipeline
FullProgram(q) ==
  Compute
  \o (IF q.matrix THEN Compute ELSE Ops("remove", <<"matrix">>))
  \o Ops("write", <<"diagnostics", "account_state", "input_dashboard", "stats_dashboard",
                    "statbooks", "query_rows", "verification">>)
  \o (IF q.residue THEN Ops("write", <<"residue_reports">>) ELSE <<>>)
  \o Ops("restamp", <<"run_stats">>)
  \o (IF q.matrix THEN Ops("write", <<"matrix">>) ELSE <<>>)
  \o Ops("write", LastFiles(q))

Program(q) == IF q.kind = "stats" THEN StatsProgram(q) ELSE FullProgram(q)

----------------------------------------------------------------------------

NoJob == [todo |-> <<>>, open |-> FALSE]
latest == Len(asked)                     \* the run in progress, or the last one
Now(op) == /\ outcome = "running"
           /\ job.todo # <<>>
           /\ Head(job.todo).op = op

DirInit ==
  /\ dir = [f \in Artifacts |-> Absent]
  /\ asked = <<>>
  /\ job = NoJob
  /\ outcome = "none"

Start(q) ==
  /\ outcome # "running"
  /\ latest < MaxRuns
  /\ asked' = Append(asked, q)
  /\ job' = [todo |-> Program(q), open |-> FALSE]
  /\ outcome' = "running"
  /\ UNCHANGED dir

Done == job' = [todo |-> Tail(job.todo), open |-> FALSE]

RemoveFile ==
  /\ Now("remove")
  /\ dir' = [dir EXCEPT ![Head(job.todo).file] = Absent]
  /\ Done
  /\ UNCHANGED <<asked, outcome>>

\* Building the state writes the perk diagnostics, if it generates a timeline
\* and no cache has it.
PerksMaybe == dir' \in {dir, [dir EXCEPT !["perk_diagnostics"] = Payload(latest, latest)]}

ComputeArtifacts ==
  /\ Now("compute")
  /\ PerksMaybe
  /\ Done
  /\ UNCHANGED <<asked, outcome>>

\* A computation that raises ends the run where it stands.
Raise ==
  /\ Now("compute")
  /\ PerksMaybe
  /\ job' = NoJob
  /\ outcome' = "failed"
  /\ UNCHANGED asked

\* write_text opens the file, which empties it, and then writes.
OpenFile ==
  /\ Now("write")
  /\ ~job.open
  /\ dir' = [dir EXCEPT ![Head(job.todo).file] = Torn]
  /\ job' = [job EXCEPT !.open = TRUE]
  /\ UNCHANGED <<asked, outcome>>

WriteFile ==
  /\ Now("write")
  /\ job.open
  /\ dir' = [dir EXCEPT ![Head(job.todo).file] = Payload(latest, latest)]
  /\ Done
  /\ UNCHANGED <<asked, outcome>>

\* run_stats.json is loaded, if there is one (what cannot be read is empty),
\* and written back with this run's diagnostics.
SkipRestamp ==
  /\ Now("restamp")
  /\ ~job.open
  /\ ~dir["run_stats"].there
  /\ Done
  /\ UNCHANGED <<dir, asked, outcome>>

LoadRunStats ==
  /\ Now("restamp")
  /\ ~job.open
  /\ dir["run_stats"].there
  /\ job' = [todo |-> job.todo, open |-> TRUE,
             loaded |-> IF Whole("run_stats") THEN dir["run_stats"].run ELSE 0]
  /\ dir' = [dir EXCEPT !["run_stats"] = Torn]
  /\ UNCHANGED <<asked, outcome>>

StampRunStats ==
  /\ Now("restamp")
  /\ job.open
  /\ dir' = [dir EXCEPT !["run_stats"] = Payload(job.loaded, latest)]
  /\ Done
  /\ UNCHANGED <<asked, outcome>>

Finish ==
  /\ outcome = "running"
  /\ job.todo = <<>>
  /\ outcome' = "done"
  /\ UNCHANGED <<dir, asked, job>>

\* The process is killed.
Crash ==
  /\ outcome = "running"
  /\ job' = NoJob
  /\ outcome' = "crashed"
  /\ UNCHANGED <<dir, asked>>

DirNext ==
  \/ \E q \in Requests : Start(q)
  \/ RemoveFile
  \/ ComputeArtifacts
  \/ Raise
  \/ OpenFile
  \/ WriteFile
  \/ SkipRestamp
  \/ LoadRunStats
  \/ StampRunStats
  \/ Finish
  \/ Crash

DirSpec == DirInit /\ [][DirNext]_dirVars

----------------------------------------------------------------------------

DirTypeOK ==
  /\ \A f \in Artifacts : dir[f] = Absent \/ dir[f] = Torn \/ dir[f].run \in 0..latest
  /\ asked \in Seq(Requests) /\ latest <= MaxRuns
  /\ outcome \in {"none", "running", "done", "failed", "crashed"}
  /\ outcome # "running" => job.todo = <<>>

FromRun(f, k) == Whole(f) /\ dir[f].run = k /\ dir[f].diag = k

\* A reader who finds the diagnostics of a run-stats run finds every file of
\* the output contract in them, whole and of that run, whatever died or raised
\* before and since.
StatsContractKept ==
  (Whole("diagnostics") /\ asked[dir["diagnostics"].run].kind = "stats")
     => \A f \in StatsContract : FromRun(f, dir["diagnostics"].run)

\* A trace and diagnostics of one run vouch for the whole publication of it.
TraceVouches ==
  (Whole("trace") /\ Whole("diagnostics") /\ dir["trace"].run = dir["diagnostics"].run)
     => \A f \in FullContract : FromRun(f, dir["trace"].run)

\* A run-stats run that returned leaves nothing of an earlier run behind, but
\* for the matrix, which it keeps on purpose, and the residue reports, which
\* no list names.
NothingOfOldRuns ==
  (outcome = "done" /\ asked[latest].kind = "stats")
     => \A f \in Artifacts \ {"matrix", "residue_reports"} : dir[f].there => FromRun(f, latest)

\* A full run that returned has a matrix exactly if it was asked for one.
MatrixFollowsRequest ==
  (outcome = "done" /\ asked[latest].kind = "full")
     => IF asked[latest].matrix THEN FromRun("matrix", latest) ELSE ~dir["matrix"].there

\* Whatever was cut short and wherever, what the last-written files vouch for is
\* there, a run-stats run that returned left nothing older but what it keeps, and
\* a full one a matrix exactly if it was asked for one.
DirectoryVouched ==
  DirTypeOK /\ StatsContractKept /\ TraceVouches /\ NothingOfOldRuns /\ MatrixFollowsRequest

\* The inspector makes its next request from the preset in diagnostics.json and
\* the input paths in pipeline_trace.json.  A run that returned leaves its own
\* diagnostics, and no trace but its own, unless it was an analysis run, which
\* leaves an older trace beside them.  Whatever was cut short, a trace is never
\* younger than the diagnostics, and none lies beside those of run_stats.
ReopenedRequestAges ==
  /\ outcome = "done" => FromRun("diagnostics", latest)
  /\ Whole("trace") /\ Whole("diagnostics") =>
       /\ dir["trace"].run <= dir["diagnostics"].run
       /\ asked[dir["diagnostics"].run].kind = "full"
       /\ outcome = "done" /\ asked[latest] \notin AnalysisRequests => dir["trace"].run = latest

\* ARCHITECTURE.md:333 "`run_stats.json` is the deterministic product artifact
\* in that baseline": what it holds is of one run, not of what happened to lie
\* in the directory.
ProductIsOneRun ==
  (outcome = "done" /\ Whole("run_stats")) => dir["run_stats"].run = dir["run_stats"].diag
=============================================================================
