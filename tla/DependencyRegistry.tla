------------------------- MODULE DependencyRegistry ------------------------
(***************************************************************************)
(* The dependency graph of published surfaces (qe/dependency_registry.py): *)
(* loading it from the ledger, the closure of a set of surfaces along its  *)
(* edges, and the order in which publishable surfaces are resolved.        *)
(*                                                                         *)
(* Surface ids are numbers, since only their sorting order matters.  The   *)
(* worklist of a closure is kept as a set: a second copy of an id on the   *)
(* stack is popped and skipped, and the order of pops is left open.  The   *)
(* same holds for the sorted list of ready nodes, popped at its least id.  *)
(***************************************************************************)
EXTENDS Integers, Sequences, FiniteSets

CONSTANTS
  Id,          \* surface ids, of the ledger and of callers
  Ledgers      \* ledgers that may be loaded

(* A ledger names nodes, some of them publishable, the surfaces that the   *)
(* consumer bundles ask for, and a list of edges, upstream to downstream.  *)
LedgerType ==
  [ node : SUBSET Id, publishable : SUBSET Id, bundle : SUBSET Id, edges : Seq(Id \X Id) ]

ASSUME IdAssumption == Id \subseteq Nat /\ IsFiniteSet(Id)
ASSUME LedgerAssumption ==
  Ledgers \subseteq LedgerType /\ \A l \in Ledgers : l.publishable \subseteq l.node

VARIABLES
  ledger,      \* the registry; never changes
  phase,
  loaded,      \* _load_default_registry has returned
  direction,   \* of the closure asked for
  seeds,       \* of the closure asked for
  todo, seen,  \* closure_downstream, closure_upstream
  selected, indegree, ready, order   \* topo_publishable_subset

registry == << ledger, loaded >>
closing == << direction, seeds, todo, seen >>
sorting == << selected, indegree, ready, order >>
vars == << registry, phase, closing, sorting >>

-----------------------------------------------------------------------------
Up(e) == ledger.edges[e][1]
Down(e) == ledger.edges[e][2]
Edges == DOMAIN ledger.edges

Downstream(n) == { Down(e) : e \in { f \in Edges : Up(f) = n } }
Upstream(n) == { Up(e) : e \in { f \in Edges : Down(f) = n } }
Neighbours(n) == IF direction = "downstream" THEN Downstream(n) ELSE Upstream(n)

Taken == { order[k] : k \in DOMAIN order }

(* The edges of a node from a set of others; one in the list twice counts  *)
(* twice.                                                                  *)
EdgesFrom(S, n) == { e \in Edges : Down(e) = n /\ Up(e) \in S }

NoNodes == [n \in {} |-> 0]

-----------------------------------------------------------------------------
Init ==
  /\ ledger \in Ledgers
  /\ phase = "load" /\ loaded = FALSE
  /\ direction = "downstream" /\ seeds = {} /\ todo = {} /\ seen = {}
  /\ selected = {} /\ indegree = NoNodes /\ ready = {} /\ order = << >>

(* assert_contract_integrity, before the order is computed.                *)
Declared ==
  /\ \A e \in Edges : {Up(e), Down(e)} \subseteq ledger.node
  /\ ledger.bundle \subseteq ledger.node
  /\ \A n \in ledger.bundle : Upstream(n) # {} \/ Downstream(n) # {}

(* Mutant: nodes that are not publishable are ordered as well.             *)
BeginSortEvery(nodes) ==
  /\ selected' = nodes
  /\ indegree' = [n \in selected' |-> Cardinality(EdgesFrom(selected', n))]
  /\ ready' = { n \in selected' : indegree'[n] = 0 }
  /\ order' = << >>
  /\ phase' = "sort"

(* Mutant: edges from outside the selection hold a node back.              *)
BeginSortAll(nodes) ==
  /\ selected' = nodes \cap ledger.publishable
  /\ indegree' = [n \in selected' |-> Cardinality(EdgesFrom(Id, n))]
  /\ ready' = { n \in selected' : indegree'[n] = 0 }
  /\ order' = << >>
  /\ phase' = "sort"

(* topo_publishable_subset, up to its loop.                                *)
BeginSort(nodes) ==
  /\ selected' = nodes \cap ledger.publishable
  /\ indegree' = [n \in selected' |-> Cardinality(EdgesFrom(selected', n))]
  /\ ready' = { n \in selected' : indegree'[n] = 0 }
  /\ order' = << >>
  /\ phase' = "sort"

(* Mutant: the order of all publishable nodes is not tried at load time.   *)
LoadUnsorted ==
  /\ phase = "load"
  /\ phase' = IF Declared THEN "idle" ELSE "raised"
  /\ loaded' = Declared
  /\ UNCHANGED << ledger, sorting, closing >>

Load ==
  /\ phase = "load"
  /\ IF Declared
     THEN BeginSort(ledger.node)
     ELSE phase' = "raised" /\ UNCHANGED sorting
  /\ UNCHANGED << registry, closing >>

(* A caller asks for a closure and orders its publishable part, as         *)
(* resolve_surfaces does upstream and resolve_stats_delta downstream.      *)
Ask(S, d) ==
  /\ phase = "idle"
  /\ direction' = d /\ seeds' = S
  /\ todo' = S /\ seen' = {}
  /\ phase' = "close"
  /\ UNCHANGED << registry, sorting >>

(* Mutant: a node is expanded only when nothing else is waiting.           *)
PopLazily(n) ==
  /\ todo' = (todo \ {n}) \cup (IF n \in seen \/ todo # {n} THEN {} ELSE Neighbours(n))
  /\ seen' = seen \cup {n}

(* Mutant: a node already seen is expanded again.                          *)
PopAgain(n) ==
  /\ todo' = (todo \ {n}) \cup Neighbours(n)
  /\ seen' = seen \cup {n}

(* One pass of the worklist loop.                                          *)
Pop(n) ==
  /\ todo' = (todo \ {n}) \cup (IF n \in seen THEN {} ELSE Neighbours(n))
  /\ seen' = seen \cup {n}

Close ==
  /\ phase = "close"
  /\ \E n \in todo : Pop(n)
  /\ UNCHANGED << registry, phase, direction, seeds, sorting >>

Closed ==
  /\ phase = "close" /\ todo = {}
  /\ BeginSort(seen)
  /\ direction' = "downstream" /\ seeds' = {} /\ todo' = {} /\ seen' = {}
  /\ UNCHANGED registry

(* Mutant: a node is ready when its first upstream is taken.               *)
TakeEager(n) ==
  /\ order' = Append(order, n)
  /\ indegree' =
       [m \in selected |-> indegree[m] - Cardinality(EdgesFrom({n}, m))]
  /\ ready' = (ready \ {n}) \cup
       { m \in selected : EdgesFrom({n}, m) # {} /\ m \notin Taken \cup {n} }

(* ready.pop(0), and its downstream nodes lose the edges from it.          *)
Take(n) ==
  /\ order' = Append(order, n)
  /\ indegree' =
       [m \in selected |-> indegree[m] - Cardinality(EdgesFrom({n}, m))]
  /\ ready' = (ready \ {n}) \cup
       { m \in selected : EdgesFrom({n}, m) # {} /\ indegree'[m] = 0 }

(* Mutant: a list of ready nodes that is sorted once, or not at all.       *)
Unsorted(n) == n \in ready

Least(n) == n \in ready /\ \A m \in ready : n <= m

SortStep ==
  /\ phase = "sort"
  /\ \E n \in ready : Least(n) /\ Take(n)
  /\ UNCHANGED << registry, phase, closing, selected >>

Complete == selected \subseteq Taken

(* The order is complete, or some of the selected nodes remain.            *)
Sorted ==
  /\ phase = "sort" /\ ready = {}
  /\ phase' = IF Complete THEN "idle" ELSE "raised"
  /\ loaded' = (loaded \/ Complete)
  /\ selected' = {} /\ indegree' = NoNodes /\ ready' = {} /\ order' = << >>
  /\ UNCHANGED << ledger, closing >>

Raised == phase = "raised" /\ UNCHANGED vars

Step == Load \/ Close \/ Closed \/ SortStep \/ Sorted

Next ==
  \/ Step
  \/ \E S \in SUBSET Id, d \in {"upstream", "downstream"} : Ask(S, d)
  \/ Raised

(* A call runs to its end; whether there is another is up to the callers.  *)
Spec == Init /\ [][Next]_vars /\ WF_vars(Step)

-----------------------------------------------------------------------------
(* Properties                                                              *)

(* The state keeps its types.                                              *)
TypeOK ==
  /\ ledger \in Ledgers
  /\ phase \in {"load", "idle", "close", "sort", "raised"} /\ loaded \in BOOLEAN
  /\ direction \in {"upstream", "downstream"}
  /\ {seeds, todo, seen} \subseteq SUBSET Id
  /\ selected \subseteq ledger.publishable /\ ready \subseteq selected
  /\ indegree \in [selected -> Int]
  /\ order \in Seq(selected)

ClosedUnder(S) == \A n \in S : Neighbours(n) \subseteq S

(* The closure is the least set that holds the seeds and, with a surface,  *)
(* all its neighbours: nothing that must be recomputed is left out, and    *)
(* nothing else is recomputed.                                             *)
ClosureIsLeast ==
  /\ phase = "close" /\ todo = {} => seeds \subseteq seen /\ ClosedUnder(seen)
  /\ phase = "close" =>
       \A S \in SUBSET Id : seeds \subseteq S /\ ClosedUnder(S) => seen \subseteq S

(* A surface is resolved once, and after every selected surface it depends *)
(* on.                                                                     *)
OrderRespectsEdges ==
  \A i, j \in DOMAIN order :
    /\ order[i] = order[j] => i = j
    /\ order[i] \in Upstream(order[j]) => i < j

(* The order is a function of the set: at each place stands the least id   *)
(* of those whose upstream has been placed.                                *)
Placed(k) == { order[i] : i \in 1 .. k - 1 }
Waiting(k) == selected \ Placed(k)
OrderIsCanonical ==
  \A k \in DOMAIN order : \A n \in Waiting(k) :
    Upstream(n) \cap Waiting(k) = {} => order[k] <= n

(* A set of surfaces none of which can be the first.                       *)
Cyclic(C) == C # {} /\ \A n \in C : Upstream(n) \cap C # {}

(* Sorting fails exactly on a cycle among the selected surfaces.           *)
RaisesOnCycle ==
  phase = "sort" /\ ready = {} =>
    (Complete <=> \A C \in SUBSET selected : ~ Cyclic(C))

(* Loading has sorted all publishable surfaces, so no later query can fail *)
(* half-way through a recomputation.                                       *)
LoadedNeverRaises == phase = "raised" => ~ loaded

(* Sorting gives the one order that respects the edges and prefers small   *)
(* ids, fails on cycles alone, and never after the registry has loaded.    *)
OrderSound ==
  OrderRespectsEdges /\ OrderIsCanonical /\ RaisesOnCycle /\ LoadedNeverRaises

(* Every call returns or raises.                                           *)
Terminates == phase \in {"load", "close", "sort"} ~> phase \in {"idle", "raised"}
=============================================================================
