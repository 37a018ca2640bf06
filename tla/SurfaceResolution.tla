------------------------- MODULE SurfaceResolution -------------------------
(***************************************************************************)
(* One query of the stat kernel (qe/kernel.py, resolve_surfaces): the      *)
(* requested surfaces and everything upstream of them are attempted in     *)
(* passes until a pass settles nothing, the rest is finalised as it        *)
(* stands, and the rows asked for are published.                           *)
(*                                                                         *)
(* A row carries the surfaces whose own contributors its value is made of: *)
(* no part is the number zero, and a row that is not resolved has no       *)
(* value (None).  The order of topo_publishable_subset is any order that   *)
(* puts upstream first: DependencyRegistry gives one of them.              *)
(***************************************************************************)
EXTENDS Integers, Sequences, FiniteSets

CONSTANTS
  Id,          \* surface ids, in any spelling
  Worlds,      \* what a query may find
  Requests     \* requested_surface_ids of a call

(* What the own contributors of a surface come to: a number, zero, nothing *)
(* the resolver accepts, all of them inactive, or mixed value types.       *)
Own == {"number", "zero", "none", "inactive", "mixed"}

(* A world has the surfaces of the contributor map, the other spellings of *)
(* an id in the order they are tried, the registry, and for a surface the  *)
(* rows its resolver looks at: a row that may lock it, one it mirrors, one *)
(* it takes when it is there.                                              *)
WorldType ==
  [ available : SUBSET Id, spellings : [Id -> Seq(Id)],
    publishable : SUBSET Id, upstream : [Id -> SUBSET Id],
    own : [Id -> Own],
    unlock : [Id -> SUBSET Id], mirrors : [Id -> SUBSET Id], uses : [Id -> SUBSET Id] ]

ASSUME IdAssumption == IsFiniteSet(Id)
ASSUME RequestAssumption == Requests \subseteq Seq(Id)
ASSUME WorldAssumption == Worlds \subseteq WorldType

VARIABLES
  world, request,      \* the call; never change
  phase,
  queue,               \* ordered_resolution
  at, progress,        \* the pass under way
  pending,
  attempts,            \* resolution_attempts
  rows,                \* resolved_rows_by_surface
  reply                \* resolved_surface_rows

call == << world, request >>
pass == << at, progress >>
vars == << call, phase, queue, pass, pending, attempts, rows, reply >>

-----------------------------------------------------------------------------
(* The spellings of an id that the map holds, in the order of candidates.  *)
Candidates(id) == << id >> \o world.spellings[id]
Hits(id) == { k \in DOMAIN Candidates(id) : Candidates(id)[k] \in world.available }
Covered(id) == Hits(id) # {}
Available(id) == Candidates(id)[CHOOSE k \in Hits(id) : \A h \in Hits(id) : k <= h]

(* Mutant: only what is asked for is resolved.                             *)
ClosureOfSeeds(seeds) == seeds

(* closure_upstream of the seeds: the least set that holds them and what   *)
(* is upstream of it.                                                      *)
UpstreamClosed(S) == \A n \in S : world.upstream[n] \subseteq S
Closure(seeds) ==
  { n \in Id : \A S \in SUBSET Id : seeds \subseteq S /\ UpstreamClosed(S) => n \in S }

Seeds == { Available(request[k]) : k \in DOMAIN request }
ToResolve ==
  { Available(n) : n \in { m \in Closure(Seeds) : Covered(m) } } \cap world.available

Publishable(s) == \E n \in world.publishable : Covered(n) /\ Available(n) = s

(* A publishable edge between the surfaces of two nodes.                   *)
Declared(r, s) ==
  /\ s \in world.publishable
  /\ \E n \in world.upstream[s] \cap world.publishable : Covered(n) /\ Available(n) = r

Before(q, r, s) == \E i, j \in DOMAIN q : i < j /\ q[i] = r /\ q[j] = s

(* Mutant: the registry's order is not used.                               *)
AnyOrder(q, S) == \A s \in S : \E i \in DOMAIN q : q[i] = s

(* The publishable surfaces in dependency order, then the others, each of  *)
(* them once.                                                              *)
InOrder(q, S) ==
  /\ S = { q[i] : i \in DOMAIN q }
  /\ \A i, j \in DOMAIN q : q[i] = q[j] => i = j
  /\ \A r, s \in S : r # s =>
       /\ Declared(r, s) => Before(q, r, s)
       /\ Publishable(r) /\ ~ Publishable(s) => Before(q, r, s)

-----------------------------------------------------------------------------
Row(status, parts) == [ status |-> status, parts |-> parts ]
Rows == [ status : {"resolved", "gated_off", "mapped_not_resolved"}, parts : SUBSET Id ]
NoRows == [ s \in {} |-> Row("resolved", {}) ]

HasValue(r, known) == r \in DOMAIN known /\ known[r].status = "resolved"

(* An unlock row counts as locked when its value is zero or None.          *)
Locked(s, known) == \E g \in world.unlock[s] \cap DOMAIN known : known[g].parts = {}

Zero(s, known) == Locked(s, known) \/ world.own[s] = "zero"

Unresolved(s, known) ==
  world.own[s] = "none" \/ \E r \in world.mirrors[s] : ~ HasValue(r, known)

(* A mirror is the mirrored value; a used row enters the formula.          *)
Parts(s, known) ==
  IF world.mirrors[s] # {}
  THEN UNION { known[r].parts : r \in world.mirrors[s] }
  ELSE {s} \cup UNION { known[r].parts : r \in { u \in world.uses[s] : HasValue(u, known) } }

(* _resolve_bucket: inactive, locked, unresolved, or a value, in this      *)
(* order.                                                                  *)
Resolve(s, known) ==
  IF world.own[s] = "inactive" THEN Row("gated_off", {})
  ELSE IF Zero(s, known) THEN Row("resolved", {})
  ELSE IF Unresolved(s, known) THEN Row("mapped_not_resolved", {})
  ELSE Row("resolved", Parts(s, known))

-----------------------------------------------------------------------------
(* What the shipped registry and resolver metadata keep to: a row that is  *)
(* taken when it is there reads nothing itself and is declared upstream.   *)
UsesDeclared ==
  \A s \in Id : \A u \in world.uses[s] \cap world.available :
    /\ world.mirrors[u] = {} /\ world.unlock[u] = {}
    /\ u # s /\ Declared(u, s)

(* An unlock row reads nothing and has a value, and the compiler has       *)
(* zeroed the surfaces that it locks; the registry does not declare it.    *)
UnlocksAgree ==
  \A s \in Id : \A g \in world.unlock[s] \cap world.available :
    /\ world.mirrors[g] = {} /\ world.unlock[g] = {}
    /\ world.own[g] \in {"number", "zero", "inactive"}
    /\ world.own[g] # "number" => world.own[s] \in {"zero", "inactive"}

Init ==
  /\ world \in Worlds /\ request \in Requests
  /\ UsesDeclared /\ UnlocksAgree
  /\ phase = "asked"
  /\ queue = << >> /\ at = 1 /\ progress = FALSE
  /\ pending = {} /\ attempts = [s \in Id |-> 0]
  /\ rows = NoRows /\ reply = << >>

AllCovered == \A k \in DOMAIN request : Covered(request[k])

(* The requested ids are looked up, and the surfaces put in order.         *)
Begin ==
  /\ phase = "asked"
  /\ AllCovered
  /\ \E S \in { ToResolve } :
       /\ \E q \in [1 .. Cardinality(S) -> S] : InOrder(q, S) /\ queue' = q
       /\ pending' = S
  /\ phase' = "passes"
  /\ UNCHANGED << call, pass, attempts, rows, reply >>

(* A requested surface that the family does not cover: ValueError.         *)
Refuse ==
  /\ phase = "asked"
  /\ ~ AllCovered
  /\ phase' = "raised"
  /\ UNCHANGED << call, queue, pass, pending, attempts, rows, reply >>

(* publish_lookup: of two requested ids of one surface the later one.      *)
Askers(s) == { k \in DOMAIN request : Available(request[k]) = s }
Published(s) == request[CHOOSE k \in Askers(s) : \A h \in Askers(s) : h <= k]

(* Mutant: a row is kept under the published id.                           *)
SettlePublished(s, row) ==
  LET id == IF Askers(s) = {} THEN s ELSE Published(s)
  IN /\ rows' = [ r \in DOMAIN rows \cup {id} |-> IF r = id THEN row ELSE rows[r] ]
     /\ pending' = pending \ {s}

Settle(s, row) ==
  /\ rows' = [ r \in DOMAIN rows \cup {s} |-> IF r = s THEN row ELSE rows[r] ]
  /\ pending' = pending \ {s}

(* The count of attempts only feeds the trace of a query: it is kept up to *)
(* a bound above what FewAttempts allows, so that a query that went on for *)
(* ever would come back to a state it has been in.                         *)
AttemptBound == Len(queue) + 3

Count(s) ==
  attempts' = [attempts EXCEPT ![s] = IF @ < AttemptBound THEN @ + 1 ELSE @]

(* Direct composition refuses contributors of mixed value types.           *)
RaiseMixed(s) ==
  /\ world.own[s] = "mixed"
  /\ Count(s)
  /\ phase' = "raised"
  /\ UNCHANGED << call, queue, pass, pending, rows, reply >>

InPass == phase = "passes" /\ at <= Len(queue)

(* An attempt in a pass: settled, or deferred to the next pass.            *)
Attempt ==
  /\ InPass /\ queue[at] \in pending
  /\ world.own[queue[at]] # "mixed"
  /\ Count(queue[at])
  /\ LET row == Resolve(queue[at], rows)
     IN IF row.status = "mapped_not_resolved"
        THEN UNCHANGED << rows, pending, progress >>
        ELSE Settle(queue[at], row) /\ progress' = TRUE
  /\ at' = at + 1
  /\ UNCHANGED << call, phase, queue, reply >>

AttemptMixed == InPass /\ queue[at] \in pending /\ RaiseMixed(queue[at])

SkipSettled ==
  /\ InPass /\ queue[at] \notin pending
  /\ at' = at + 1
  /\ UNCHANGED << call, phase, queue, progress, pending, attempts, rows, reply >>

(* Mutant: a pass that settles nothing is followed by another one.         *)
StalledNever == FALSE

Stalled == ~ progress

(* The end of a pass: another one, finalisation when it settled nothing,   *)
(* or the answer.                                                          *)
EndPass ==
  /\ phase = "passes" /\ at > Len(queue)
  /\ at' = 1 /\ progress' = FALSE
  /\ phase' = IF pending = {} THEN "answer" ELSE IF Stalled THEN "finalise" ELSE "passes"
  /\ UNCHANGED << call, queue, pending, attempts, rows, reply >>

(* list(pending): in no particular order.                                  *)
Finalise(s) ==
  /\ phase = "finalise"
  /\ s \in pending
  /\ world.own[s] # "mixed"
  /\ Count(s)
  /\ Settle(s, Resolve(s, rows))
  /\ phase' = IF pending = {s} THEN "answer" ELSE "finalise"
  /\ UNCHANGED << call, queue, pass, reply >>

(* Mutant: rows are published under the id of the contributor map.         *)
ReplyRaw(id) == [ id |-> Available(id), row |-> rows[Available(id)] ]

Reply(id) == [ id |-> Published(Available(id)), row |-> rows[Available(id)] ]

Answer ==
  /\ phase = "answer"
  /\ reply' = [ k \in DOMAIN request |-> Reply(request[k]) ]
  /\ phase' = "done"
  /\ UNCHANGED << call, queue, pass, pending, attempts, rows >>

Finished == phase \in {"done", "raised"} /\ UNCHANGED vars

Step ==
  \/ Begin \/ Refuse
  \/ Attempt \/ AttemptMixed \/ SkipSettled \/ EndPass
  \/ \E s \in pending : Finalise(s)
  \/ Answer

Next == Step \/ Finished

(* A call runs to its end.                                                 *)
Spec == Init /\ [][Next]_vars /\ WF_vars(Step)

-----------------------------------------------------------------------------
(* Properties                                                              *)

(* The state keeps its types.                                              *)
TypeOK ==
  /\ world \in WorldType /\ request \in Seq(Id)
  /\ phase \in {"asked", "passes", "finalise", "answer", "done", "raised"}
  /\ queue \in Seq(Id) /\ at \in 1 .. Len(queue) + 1 /\ progress \in BOOLEAN
  /\ pending \subseteq { queue[k] : k \in DOMAIN queue }
  /\ attempts \in [Id -> Nat]
  /\ DOMAIN rows \subseteq { queue[k] : k \in DOMAIN queue }
  /\ \A s \in DOMAIN rows : rows[s] \in Rows
  /\ phase = "asked" => queue = << >> /\ at = 1
  /\ phase # "done" => reply = << >>

(* No row has been computed from less than is known now: resolving it      *)
(* again changes nothing, whichever pass settled it and in whatever order  *)
(* the rest was finalised.                                                 *)
RowsAreCurrent == \A s \in DOMAIN rows : rows[s] = Resolve(s, rows)

(* A surface resolved by itself, from the rows it reads.                   *)
Reads(s) == (world.unlock[s] \cup world.mirrors[s] \cup world.uses[s]) \cap world.available
Meaning[s \in Id] == Resolve(s, [ r \in Reads(s) |-> Meaning[r] ])

MirrorsDeclared ==
  \A s \in Id : \A r \in world.mirrors[s] \cap world.available : r # s /\ Declared(r, s)

(* A surface has its upstream under every spelling of its id.              *)
SpellingsAgree ==
  \A n \in Id : Covered(n) => world.upstream[Available(n)] \subseteq world.upstream[n]

(* What a surface resolves to does not depend on which other surfaces are  *)
(* asked for with it.                                                      *)
RequestIndependent ==
  phase = "done" /\ MirrorsDeclared /\ SpellingsAgree =>
    \A s \in DOMAIN rows : rows[s] = Meaning[s]

(* Only what can change is attempted again: the second attempt of a        *)
(* surface in dependency order settles nothing, and the third finalises.   *)
FewAttempts ==
  /\ MirrorsDeclared => \A s \in Id : attempts[s] <= 3
  /\ \A s \in Id : attempts[s] <= Len(queue) + 2

(* A call that returns has a row for every requested id, in order, and     *)
(* under that id unless two of them are spellings of one surface.          *)
DistinctSurfaces ==
  \A j, k \in DOMAIN request : Available(request[j]) = Available(request[k]) => j = k
RequestAnswered ==
  phase = "done" =>
    /\ Len(reply) = Len(request)
    /\ \A k \in DOMAIN request :
         /\ reply[k].row = rows[Available(request[k])]
         /\ DistinctSurfaces => reply[k].id = request[k]

(* A query answers what was asked, as it would if nothing else had been, and *)
(* without attempting again what cannot have changed.                      *)
QueryAnswered == RequestIndependent /\ RequestAnswered /\ FewAttempts

(* Every call answers or raises.                                           *)
Terminates == <>(phase \in {"done", "raised"})

(* stat-query-api-contract.yaml, error_model: a dependency that the family *)
(* covers and that cannot be resolved fails the query.                     *)
DependenciesResolved ==
  phase = "done" =>
    \A r, s \in DOMAIN rows : Declared(r, s) => rows[r].status # "mapped_not_resolved"

(* stat-query-api-contract.yaml, rules: lineage metadata for each          *)
(* requested surface, hence every requested id names a row.                *)
EachRequestNamed ==
  phase = "done" => \A k \in DOMAIN request : \E j \in DOMAIN reply : reply[j].id = request[k]
=============================================================================
