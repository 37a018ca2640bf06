--------------------------- MODULE CheckpointDelta ---------------------------
(***************************************************************************)
(* Snapshots of one checkpoint after another                               *)
(* (simulators/snapshot_resolver.py, qe/routing.py): a snapshot is         *)
(* resolved in full, or as a delta to an earlier one, where only the       *)
(* surfaces downstream of the named workshop tracks are resolved again and *)
(* the other rows are taken over.                                          *)
(*                                                                         *)
(* What a surface is worth is not computed: its row is the levels of the   *)
(* tracks it depends on, directly or through other surfaces, so two rows   *)
(* are equal when no change of levels can tell them apart.  Contributors   *)
(* and trace go with the row.  The closure of the ledger is the least one, *)
(* which is what DependencyRegistry shows of closure_downstream.           *)
(***************************************************************************)
EXTENDS Integers, Sequences

CONSTANTS
  Track,        \* workshop tracks
  Source,       \* track |-> its node in the dependency graph
  Triggers,     \* the tracks with a mutation trigger in the ledger
  Node,         \* nodes of the graph, surfaces among them
  LedgerEdges,        \* edges of the ledger, upstream to downstream
  Reads,        \* the reads of the resolver, in the same direction
  Required,     \* surfaces of the consumer bundle
  Optional,     \* surfaces it may ask for besides
  Account,      \* the levels of the account
  MaxLevel,     \* track |-> its last level
  MaxSnapshots  \* bound: snapshots taken

Levels == [Track -> Nat]

ASSUME GraphAssumption ==
  /\ Source \in [Track -> Node] /\ Triggers \subseteq Track
  /\ LedgerEdges \subseteq Node \X Node /\ Reads \subseteq Node \X Node
  /\ Required \subseteq Node /\ Optional \subseteq Node
  /\ Account \in Levels /\ MaxLevel \in Levels
  /\ MaxSnapshots \in Nat

(* The ledger lists every read; its trigger of a track names its node.     *)
ASSUME ReadsAssumption == Reads \subseteq LedgerEdges

VARIABLE snapshots   \* the snapshots so far, oldest first

-----------------------------------------------------------------------------
(* The graph and the values that follow it.                                *)

ClosedAlong(C, E) == \A e \in E : e[1] \in C => e[2] \in C

\* closure_downstream: the least set that holds S and is closed under E.
Closure(S, E) == { n \in Node : \A C \in SUBSET Node : S \subseteq C /\ ClosedAlong(C, E) => n \in C }

\* The tracks a surface depends on, and its row at some levels.
DependsOn == [s \in Node |-> { t \in Track : s \in Closure({Source[t]}, Reads) }]
Row(levels, s) == [t \in DependsOn[s] |-> levels[t]]

\* resolve_surfaces over freshly compiled inputs.
Fresh(levels, surfaces) == [s \in surfaces |-> Row(levels, s)]

\* apply_workshop_levels: tracks that are not named keep the account's level.
Patched(request) == [t \in Track |-> IF t \in DOMAIN request THEN request[t] ELSE Account[t]]

LevelRequests ==
  UNION { { r \in [T -> UNION { 0 .. MaxLevel[t] : t \in T }] : \A t \in T : r[t] <= MaxLevel[t] } :
            T \in SUBSET Track }

-----------------------------------------------------------------------------
(* The plan and the merge of a delta.                                      *)

(* Mutant: only the surfaces next to a track are downstream of it.         *)
DirtyOneStep ==
  [T \in SUBSET Track |->
     { n \in Node : \E t \in T, e \in LedgerEdges : e[1] = Source[t] /\ e[2] = n }]

\* What a mutation of some tracks makes dirty.
Dirty == [T \in SUBSET Track |-> Closure({ Source[t] : t \in T }, LedgerEdges)]

(* Mutant: a trigger that is not known is skipped.                         *)
PlanSkipsUnknown(triggers) == [fallback |-> FALSE, dirty |-> Dirty[triggers \cap Triggers]]

\* _plan_checkpoint_overlay_mutation
Plan(triggers) ==
  IF triggers \subseteq Triggers THEN [fallback |-> FALSE, dirty |-> Dirty[triggers]]
                                ELSE [fallback |-> TRUE, dirty |-> {}]

(* Mutant: the rows that are not impacted are left out.                    *)
MergedImpacted(base, levels, impacted, bundle) == Fresh(levels, impacted)

\* _delta_statbook_from_response: a surface of the bundle without a row in
\* the base and out of reach of the change has no row in the answer.
Merged(base, levels, impacted, bundle) ==
  [s \in impacted \union (bundle \cap DOMAIN base.rows) |->
     IF s \in impacted THEN Row(levels, s) ELSE base.rows[s]]

\* resolve_checkpoint_consumer_bundle_delta
DeltaRows(base, levels, triggers, bundle) ==
  LET plan == Plan(triggers)
      impacted == plan.dirty \cap bundle
  IN IF plan.fallback \/ impacted = {} THEN Fresh(levels, bundle)
                                       ELSE Merged(base, levels, impacted, bundle)

-----------------------------------------------------------------------------
\* resolve_consumer_bundle: the required surfaces and the optional ones asked for.
Bundles == { Required \union O : O \in SUBSET Optional }

TakenAt(levels, rows, bundle) == [levels |-> levels, rows |-> rows, bundle |-> bundle]

DeltaInit == snapshots = <<>>

\* resolve_wave_row_snapshot
Full ==
  /\ Len(snapshots) < MaxSnapshots
  /\ \E request \in LevelRequests, bundle \in Bundles :
       snapshots' = Append(snapshots, TakenAt(Patched(request), Fresh(Patched(request), bundle), bundle))

Changed(base, levels) == { t \in Track : base.levels[t] # levels[t] }

\* resolve_wave_row_snapshot_delta on an earlier snapshot; the caller names at
\* least the tracks on which the two differ.
Delta ==
  /\ Len(snapshots) < MaxSnapshots
  /\ \E i \in DOMAIN snapshots, request \in LevelRequests, bundle \in Bundles,
        triggers \in SUBSET Track :
       /\ Changed(snapshots[i], Patched(request)) \subseteq triggers
       /\ snapshots' = Append(snapshots,
            TakenAt(Patched(request), DeltaRows(snapshots[i], Patched(request), triggers, bundle), bundle))

DeltaNext == Full \/ Delta
DeltaSpec == DeltaInit /\ [][DeltaNext]_snapshots

-----------------------------------------------------------------------------
(* A snapshot has levels for every track, a bundle, and rows of it.        *)
SnapshotTypeOK ==
  \A i \in DOMAIN snapshots :
    LET sn == snapshots[i] IN
    sn.levels \in Levels /\ sn.bundle \in Bundles /\ DOMAIN sn.rows \subseteq sn.bundle

(* Every row of every snapshot, whether resolved in full, as a delta or as *)
(* a delta to a delta, is the row a full resolution at its own levels has. *)
DeltaIsFull ==
  \A i \in DOMAIN snapshots :
    \A s \in DOMAIN snapshots[i].rows : snapshots[i].rows[s] = Row(snapshots[i].levels, s)

(* No chain of deltas loses a required surface.                            *)
RequiredAnswered == \A i \in DOMAIN snapshots : Required \subseteq DOMAIN snapshots[i].rows

(* A snapshot misses a row of its bundle only if it is an optional surface *)
(* that an earlier snapshot had not been asked for, or had missed as well. *)
OnlyOptionalMissed ==
  \A i \in DOMAIN snapshots :
    \A s \in snapshots[i].bundle \ DOMAIN snapshots[i].rows :
      s \in Optional /\ \E j \in 1 .. i - 1 : s \notin DOMAIN snapshots[j].rows

(* A delta, and a delta to a delta, answers as a full resolution would, but *)
(* for optional surfaces its base was never asked for.                     *)
DeltaAgrees == SnapshotTypeOK /\ DeltaIsFull /\ RequiredAnswered /\ OnlyOptionalMissed
=============================================================================
