-------------------------- MODULE AccountStateCaches --------------------------
(***************************************************************************)
(* The process-wide caches a query passes through (app/pipeline.py and     *)
(* qe/models.py).  Input files are named by a stamp (path, mtime, size),   *)
(* built account states are kept for the life of the process by two bundle *)
(* caches, and three further caches are keyed by the ADDRESS of an account *)
(* state, id(account_state): the compiled stat inputs of the run-stats     *)
(* session, the LRU of replacement primitives of Boss Waves, and the       *)
(* account snapshot ids.  None of the three holds a reference to the state,*)
(* so a state that dies leaves its address to the next one.                *)
(*                                                                         *)
(* The process is single-threaded; the files are edited by someone else at *)
(* any time.  Each edit gives a new stamp, so a stamp is modelled by the   *)
(* number of edits.                                                        *)
(***************************************************************************)
EXTENDS Naturals, Sequences

CONSTANTS Queries,    \* [kind, mode, patch, view]: the calls of the process
          Addrs,      \* addresses an account state can be given
          MaxEdits,   \* bound: edits of the two input files together
          LruSize     \* _BOSS_WAVE_REPLACEMENT_PRIMITIVES_CACHE_MAX_SIZE

VARIABLES version,    \* file |-> number of its edits so far
          heap,       \* address |-> the account state alive there, or Freed
          bundles,    \* account-state bundles: {[owner, stamps, mode, addr]}
          compiled,   \* _stat_inputs_cache: {[addr, view, value]}
          primitives, \* _BOSS_WAVE_REPLACEMENT_PRIMITIVES_CACHE, oldest first
          snapshots,  \* _ACCOUNT_SNAPSHOT_ID_CACHE: address |-> id, or NoId
          call,       \* the call being served
          reply,      \* the answer to the last query
          published   \* the account_snapshot_id published with it, or NoId

vars == <<version, heap, bundles, compiled, primitives, snapshots, call, reply, published>>

Unpatched == "none"
Kinds == {"stats", "boss", "checkpoint"}

\* Only Boss Waves borrows the cards of another profile.
ASSUME QueriesAssumption ==
  \A q \in Queries : /\ q \in [kind : Kinds, mode : STRING, patch : STRING, view : STRING]
                     /\ q.kind # "boss" => q.patch = Unpatched
ASSUME SizeAssumption == LruSize \in Nat \ {0}
ASSUME EditsAssumption == MaxEdits \in Nat

Files == {"ids", "manual"}
Freed == [live |-> FALSE]
NoId == [id |-> FALSE]
NoReply == [kind |-> "none"]
Failure == [kind |-> "error"]
Idle == [pc |-> "idle"]

Retaining == {"stats", "boss"}          \* the callers that keep their states

\* An account state: the file contents it was built from, the perk mode, and
\* the card profile a derived copy carries.
State(i, m, mode, patch) == [live |-> TRUE, ids |-> i, manual |-> m, mode |-> mode, patch |-> patch]

\* What a query computes from a state.
Value(s, view) ==
  [kind |-> "value", ids |-> s.ids, manual |-> s.manual, mode |-> s.mode, patch |-> s.patch, view |-> view]

\* _fingerprint_id('acct', ..): a digest of the account content.  The card
\* presets are left to the loadout id.
Fingerprint(s) == [id |-> TRUE, ids |-> s.ids, manual |-> s.manual, mode |-> s.mode]

\* bind_state_identity: the id cached at the address, else a new fingerprint.
BoundId(a, s) == IF snapshots[a] # NoId THEN snapshots[a] ELSE Fingerprint(s)

\* Where the allocator may put the next state: any free address.  Those no
\* cache knows anything of are alike, and one of them stands for all.
FreeAddrs == {a \in Addrs : heap[a] = Freed}
Unknown == {a \in FreeAddrs : snapshots[a] = NoId}
Offered ==
  IF Unknown = {} THEN FreeAddrs
  ELSE {a \in FreeAddrs : snapshots[a] # NoId \/ a = CHOOSE u \in Unknown : TRUE}

Init ==
  /\ version = [f \in Files |-> 0]
  /\ heap = [a \in Addrs |-> Freed]
  /\ bundles = {}
  /\ compiled = {}
  /\ primitives = <<>>
  /\ snapshots = [a \in Addrs |-> NoId]
  /\ call = Idle
  /\ reply = NoReply
  /\ published = NoId

\* Someone edits an input file; its stamp is new.
Edit(f) ==
  /\ version["ids"] + version["manual"] < MaxEdits
  /\ version' = [version EXCEPT ![f] = @ + 1]
  /\ UNCHANGED <<heap, bundles, compiled, primitives, snapshots, call, reply, published>>

(* Mutant: the key leaves out the stamp of the manual inputs.              *)
HitsForExportOnly(q) ==
  {b \in bundles : b.owner = q.kind /\ b.stamps["ids"] = version["ids"] /\ b.mode = q.mode}

\* The bundle under the key of query q, were it asked now.
HitsFor(q) == {b \in bundles : b.owner = q.kind /\ b.stamps = version /\ b.mode = q.mode}

\* get_account_state_bundle / _get_boss_wave_account_state_bundle: compute the
\* key from the stamps and look it up.
AskHit(q) ==
  /\ call = Idle
  /\ \E b \in HitsFor(q) :
        call' = [pc |-> "resolve", query |-> q, stamps |-> version, addr |-> b.addr]
  /\ reply' = NoReply
  /\ published' = NoId
  /\ UNCHANGED <<version, heap, bundles, compiled, primitives, snapshots>>

AskMiss(q) ==
  /\ call = Idle
  /\ HitsFor(q) = {}
  /\ call' = [pc |-> "ids", query |-> q, stamps |-> version]
  /\ reply' = NoReply
  /\ published' = NoId
  /\ UNCHANGED <<version, heap, bundles, compiled, primitives, snapshots>>

\* load_inputs reads the export first and the manual inputs after it.
ReadIds ==
  /\ call.pc = "ids"
  /\ call' = [pc |-> "manual", query |-> call.query, stamps |-> call.stamps, ids |-> version["ids"]]
  /\ UNCHANGED <<version, heap, bundles, compiled, primitives, snapshots, reply, published>>

ReadManual ==
  /\ call.pc = "manual"
  /\ call' = [pc |-> "build", query |-> call.query, stamps |-> call.stamps,
              ids |-> call.ids, manual |-> version["manual"]]
  /\ UNCHANGED <<version, heap, bundles, compiled, primitives, snapshots, reply, published>>

\* A load or a build that raises leaves every cache as it was.
Reject ==
  /\ call.pc \in {"ids", "manual", "build"}
  /\ call' = Idle
  /\ reply' = Failure
  /\ UNCHANGED <<version, heap, bundles, compiled, primitives, snapshots, published>>

(* Mutant: the key is computed when the state is stored.                   *)
BuildKeyedLate(a) ==
  /\ call.pc = "build"
  /\ heap' = [heap EXCEPT ![a] = State(call.ids, call.manual, call.query.mode, Unpatched)]
  /\ bundles' = IF call.query.kind \in Retaining
                THEN bundles \union {[owner |-> call.query.kind, stamps |-> version,
                                      mode |-> call.query.mode, addr |-> a]}
                ELSE bundles
  /\ call' = [pc |-> "resolve", query |-> call.query, stamps |-> call.stamps, addr |-> a]
  /\ UNCHANGED <<version, compiled, primitives, snapshots, reply, published>>

\* build_runtime_state, and the store under the key computed before the read.
Build(a) ==
  /\ call.pc = "build"
  /\ heap' = [heap EXCEPT ![a] = State(call.ids, call.manual, call.query.mode, Unpatched)]
  /\ bundles' = IF call.query.kind \in Retaining
                THEN bundles \union {[owner |-> call.query.kind, stamps |-> call.stamps,
                                      mode |-> call.query.mode, addr |-> a]}
                ELSE bundles
  /\ call' = [pc |-> "resolve", query |-> call.query, stamps |-> call.stamps, addr |-> a]
  /\ UNCHANGED <<version, compiled, primitives, snapshots, reply, published>>

\* bind_state_identity publishes the id it bound and keeps it under the address.
Bind(a) ==
  /\ snapshots' = [snapshots EXCEPT ![a] = BoundId(a, heap[a])]
  /\ published' = BoundId(a, heap[a])

At(pc, kind) == call.pc = pc /\ call.query.kind = kind

CompiledFor(a, view) == {e \in compiled : e.addr = a /\ e.view = view}

\* _compile_stat_inputs_cached of the session, then bind_state_identity.
StatsHit ==
  /\ At("resolve", "stats")
  /\ \E e \in CompiledFor(call.addr, call.query.view) : reply' = e.value
  /\ Bind(call.addr)
  /\ call' = Idle
  /\ UNCHANGED <<version, heap, bundles, compiled, primitives>>

(* Mutant: only the last context is kept.                                  *)
StatsMissLastOnly ==
  /\ At("resolve", "stats")
  /\ CompiledFor(call.addr, call.query.view) = {}
  /\ LET value == Value(heap[call.addr], call.query.view)
     IN /\ compiled' = {[addr |-> call.addr, view |-> call.query.view, value |-> value]}
        /\ reply' = value
  /\ Bind(call.addr)
  /\ call' = Idle
  /\ UNCHANGED <<version, heap, bundles, primitives>>

StatsMiss ==
  /\ At("resolve", "stats")
  /\ CompiledFor(call.addr, call.query.view) = {}
  /\ LET value == Value(heap[call.addr], call.query.view)
     IN /\ compiled' = compiled \union {[addr |-> call.addr, view |-> call.query.view, value |-> value]}
        /\ reply' = value
  /\ Bind(call.addr)
  /\ call' = Idle
  /\ UNCHANGED <<version, heap, bundles, primitives>>

\* resolve_fast_checkpoint: its state is a local, freed on return.
Checkpoint ==
  /\ At("resolve", "checkpoint")
  /\ reply' = Value(heap[call.addr], call.query.view)
  /\ Bind(call.addr)
  /\ heap' = [heap EXCEPT ![call.addr] = Freed]
  /\ call' = Idle
  /\ UNCHANGED <<version, bundles, compiled, primitives>>

(* Mutant: the key forgets the card profile.                               *)
SameKeyAnyCards(e, a, q) == e.addr = a /\ e.view = q.view

\* The key of the replacement primitives: the address of the bundle's state
\* and the card profile and scenario asked for.
SameKey(e, a, q) == e.addr = a /\ e.patch = q.patch /\ e.view = q.view

(* Mutant: the used entry is put at the end and left where it was.         *)
MoveToEndTwice(s, i) == Append(Tail(s), s[i])

MoveToEnd(s, i) ==
  [j \in 1..Len(s) |-> IF j < i THEN s[j] ELSE IF j < Len(s) THEN s[j + 1] ELSE s[i]]

(* Mutants: no bound; the newest entry makes room.                         *)
InsertUnbounded(s, e) == Append(s, e)
InsertOverNewest(s, e) == IF Len(s) < LruSize THEN Append(s, e) ELSE Append(SubSeq(s, 1, Len(s) - 1), e)

\* The insertion, and popitem(last=False) while the cache is over its size.
Insert(s, e) == IF Len(s) < LruSize THEN Append(s, e) ELSE Append(Tail(s), e)

BossHit ==
  /\ At("resolve", "boss")
  /\ \E i \in 1..Len(primitives) :
        /\ SameKey(primitives[i], call.addr, call.query)
        /\ primitives' = MoveToEnd(primitives, i)
        /\ reply' = primitives[i].value
  /\ call' = Idle
  /\ UNCHANGED <<version, heap, bundles, compiled, snapshots, published>>

BossMisses ==
  /\ At("resolve", "boss")
  /\ \A i \in 1..Len(primitives) : ~SameKey(primitives[i], call.addr, call.query)

\* Resolve the primitives of the state at a and keep them under the key.
StorePrimitives(base, a) ==
  LET value == Value(heap[a], call.query.view)
  IN /\ primitives' = Insert(primitives, [addr |-> base, patch |-> call.query.patch,
                                          view |-> call.query.view, value |-> value])
     /\ reply' = value
     /\ Bind(a)
     /\ call' = Idle

BossPlain ==
  /\ BossMisses
  /\ call.query.patch = Unpatched
  /\ StorePrimitives(call.addr, call.addr)
  /\ UNCHANGED <<version, heap, bundles, compiled>>

\* _boss_wave_account_state_with_card_profile: another profile's cards make a
\* copy of the state.
Derive(a) ==
  /\ BossMisses
  /\ call.query.patch # Unpatched
  /\ heap' = [heap EXCEPT ![a] = [heap[call.addr] EXCEPT !.patch = call.query.patch]]
  /\ call' = [pc |-> "derived", query |-> call.query, stamps |-> call.stamps,
              base |-> call.addr, addr |-> a]
  /\ UNCHANGED <<version, bundles, compiled, primitives, snapshots, reply, published>>

(* Mutant: the key names the copy instead of the bundle's state.           *)
BossDerivedOwnKey ==
  /\ call.pc = "derived"
  /\ StorePrimitives(call.addr, call.addr)
  /\ heap' = [heap EXCEPT ![call.addr] = Freed]
  /\ UNCHANGED <<version, bundles, compiled>>

\* The copy is freed when the primitives are returned.
BossDerived ==
  /\ call.pc = "derived"
  /\ StorePrimitives(call.base, call.addr)
  /\ heap' = [heap EXCEPT ![call.addr] = Freed]
  /\ UNCHANGED <<version, bundles, compiled>>

Step ==
  \/ ReadIds
  \/ ReadManual
  \/ Reject
  \/ \E a \in Offered : Build(a)
  \/ StatsHit
  \/ StatsMiss
  \/ Checkpoint
  \/ BossHit
  \/ BossPlain
  \/ \E a \in Offered : Derive(a)
  \/ BossDerived

Next ==
  \/ \E f \in Files : Edit(f)
  \/ \E q \in Queries : AskHit(q) \/ AskMiss(q)
  \/ Step

\* A call, once made, runs to its end; nobody has to make one or edit a file.
Spec == Init /\ [][Next]_vars /\ WF_vars(Step)

----------------------------------------------------------------------------

\* The value of an entry is what its key's state gives, and that state is alive.
Holds(e, patch) ==
  /\ heap[e.addr].live
  /\ e.value = Value([heap[e.addr] EXCEPT !.patch = patch], e.view)

Kept == {b.addr : b \in bundles}

TypeOK ==
  /\ version \in [Files -> 0..MaxEdits]
  /\ \A a \in Addrs : heap[a] = Freed \/ heap[a].live
  /\ \A b \in bundles : b.owner \in Retaining /\ b.addr \in Addrs
  /\ \A e \in compiled : e.addr \in Addrs
  /\ Len(primitives) \in 0..LruSize
  /\ \A a \in Addrs : snapshots[a] = NoId \/ snapshots[a].id
  /\ call.pc \in {"idle", "ids", "manual", "build", "resolve", "derived"}

\* An entry keyed by an address is about the state that is alive at that
\* address now.  Nothing in the three id-keyed dictionaries sees to it: it
\* holds because the bundle caches never let a state go that was used in a key.
EntriesDescribeLiveStates ==
  /\ \A e \in compiled : e.addr \in Kept /\ Holds(e, Unpatched)
  /\ \A i \in 1..Len(primitives) : primitives[i].addr \in Kept /\ Holds(primitives[i], primitives[i].patch)

\* A key is present once in each cache, and eviction keeps the primitives
\* within their bound while entries are moved about.
KeysAreUnique ==
  /\ \A e, g \in compiled : (e.addr = g.addr /\ e.view = g.view) => e = g
  /\ \A i, j \in 1..Len(primitives) : SameKey(primitives[i], primitives[j].addr, primitives[j]) => i = j
  /\ \A b, c \in bundles : (b.owner = c.owner /\ b.stamps = c.stamps /\ b.mode = c.mode) => b = c

\* A bundle is never older than the stamps in its key, whatever was edited
\* between the computation of the key and the two reads.
BundlesNotOlderThanKey ==
  \A b \in bundles :
    /\ b.stamps["ids"] <= heap[b.addr].ids /\ heap[b.addr].ids <= version["ids"]
    /\ b.stamps["manual"] <= heap[b.addr].manual /\ heap[b.addr].manual <= version["manual"]

\* The compiled inputs of a warm session are computed once per context.
CompiledOnce == [][compiled \subseteq compiled']_vars

\* The least recently used entry goes first: the entry a Boss Waves call was
\* answered from is the newest when the call ends, and no step removes another
\* entry than the oldest.
LeastRecentGoesFirst ==
  [][/\ \A i \in 2..Len(primitives) : \E j \in 1..Len(primitives') : primitives'[j] = primitives[i]
     /\ (call # Idle /\ call' = Idle /\ call.query.kind = "boss" /\ reply' # Failure)
           => primitives'[Len(primitives')].value = reply']_vars

\* What a cache serves is about the state it was asked about, is of contents no
\* older than its key, and is kept once.
CachesSound == EntriesDescribeLiveStates /\ KeysAreUnique /\ BundlesNotOlderThanKey

\* What is computed once is not computed again while it is kept, and what has to
\* go is what was used longest ago.
CachesKeep == CompiledOnce /\ LeastRecentGoesFirst

\* All the caches together answer as if there were none.
Promise == INSTANCE InputPromise WITH
  open <- IF call = Idle THEN [open |-> FALSE]
          ELSE [open |-> TRUE, query |-> call.query, since |-> call.stamps]
AnswersAreFresh == Promise!PSpec

\* kb/global-rules/contracts/stat-query-state-identity.yaml: the
\* account_snapshot_id owns the account's workshop, labs, relics and inventory.
\* An id published for a state is the fingerprint of that state.
IdentityTracksContent ==
  [][(published = NoId /\ published' # NoId) => published' = Fingerprint(heap[call.addr])]_vars
=============================================================================
