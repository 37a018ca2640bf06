---------------------- MODULE DependencyRegistry_proofs --------------------
(***************************************************************************)
(* Proofs about the dependency registry, for every ledger.  The closure    *)
(* rests on three facts about its worklist, ClosureInv; the order on what  *)
(* the indegrees count, SortInv: the edges from nodes not yet placed.      *)
(* That a cycle is the only reason to fail follows from the latter, and    *)
(* that a loaded registry never fails from what loading has tried.         *)
(***************************************************************************)
EXTENDS DependencyRegistry, CheckpointDelta, DataLemmas

-----------------------------------------------------------------------------
(* Edges                                                                   *)
-----------------------------------------------------------------------------

LEMMA LedgerTypes ==
  ASSUME ledger \in Ledgers
  PROVE  /\ ledger.edges \in Seq(Id \X Id)
         /\ ledger.publishable \subseteq ledger.node /\ ledger.node \subseteq Id
         /\ IsFiniteSet(Edges)
         /\ \A e \in Edges : Up(e) \in Id /\ Down(e) \in Id
<1>1. ledger \in LedgerType /\ ledger.publishable \subseteq ledger.node
  BY LedgerAssumption
<1>2. ledger.edges \in Seq(Id \X Id) /\ ledger.node \subseteq Id
  BY <1>1 DEF LedgerType
<1>3. Edges = 1 .. Len(ledger.edges) /\ Len(ledger.edges) \in Nat
  BY <1>2 DEF Edges
<1>4. IsFiniteSet(Edges)
  BY <1>3, FS_Interval
<1>5. \A e \in Edges : ledger.edges[e] \in Id \X Id
  BY <1>2, <1>3
<1> QED
  BY <1>1, <1>2, <1>4, <1>5 DEF Up, Down

LEMMA NeighbourTypes ==
  ASSUME ledger \in Ledgers, NEW n
  PROVE  Neighbours(n) \subseteq Id /\ Upstream(n) \subseteq Id
BY LedgerTypes DEF Neighbours, Upstream, Downstream

LEMMA CountType ==
  ASSUME ledger \in Ledgers, NEW S, NEW n
  PROVE  IsFiniteSet(EdgesFrom(S, n)) /\ Cardinality(EdgesFrom(S, n)) \in Nat
<1>1. EdgesFrom(S, n) \in SUBSET Edges
  BY DEF EdgesFrom
<1> QED
  BY <1>1, LedgerTypes, FS_Subset, FS_CardinalityType

(* No edge is counted exactly when no node of the set is upstream.         *)
LEMMA CountZero ==
  ASSUME ledger \in Ledgers, NEW S, NEW n
  PROVE  Cardinality(EdgesFrom(S, n)) = 0 <=> Upstream(n) \cap S = {}
<1>1. Cardinality(EdgesFrom(S, n)) = 0 <=> EdgesFrom(S, n) = {}
  BY CountType, FS_EmptySet
<1>2. EdgesFrom(S, n) = {} <=> Upstream(n) \cap S = {}
  BY DEF EdgesFrom, Upstream
<1> QED
  BY <1>1, <1>2

(* Taking a node out of a set takes its edges off the count.               *)
LEMMA CountLeft ==
  ASSUME ledger \in Ledgers, NEW W, NEW n \in W, NEW m
  PROVE  Cardinality(EdgesFrom(W \ {n}, m))
           = Cardinality(EdgesFrom(W, m)) - Cardinality(EdgesFrom({n}, m))
<1>1. EdgesFrom(W \ {n}, m) = EdgesFrom(W, m) \ EdgesFrom({n}, m)
  BY DEF EdgesFrom
<1>2. EdgesFrom(W, m) \cap EdgesFrom({n}, m) = EdgesFrom({n}, m)
  BY DEF EdgesFrom
<1> QED
  BY <1>1, <1>2, CountType, FS_Difference

-----------------------------------------------------------------------------
(* Types                                                                   *)
-----------------------------------------------------------------------------

LEMMA BeginSortTypes ==
  ASSUME TypeOK, NEW S \in SUBSET Id, BeginSort(S), UNCHANGED ledger
  PROVE  /\ selected' \subseteq ledger.publishable /\ ready' \subseteq selected'
         /\ indegree' \in [selected' -> Int] /\ order' \in Seq(selected')
         /\ phase' = "sort"
<1>1. ledger \in Ledgers
  BY DEF TypeOK
<1>2. \A n \in selected' : Cardinality(EdgesFrom(selected', n)) \in Int
  BY <1>1, CountType
<1>3. selected' \subseteq ledger.publishable /\ ready' \subseteq selected' /\ phase' = "sort"
  BY DEF BeginSort
<1>4. indegree' \in [selected' -> Int]
  BY <1>2 DEF BeginSort
<1>5. order' \in Seq(selected')
  BY DEF BeginSort
<1> QED
  BY <1>3, <1>4, <1>5

LEMMA TakeTypes ==
  ASSUME TypeOK, NEW n \in ready, Take(n)
  PROVE  /\ ready' \subseteq selected /\ indegree' \in [selected -> Int]
         /\ order' \in Seq(selected)
<1>1. ledger \in Ledgers /\ n \in selected /\ order \in Seq(selected)
      /\ indegree \in [selected -> Int] /\ ready \subseteq selected
  BY DEF TypeOK
<1>2. \A m \in selected : Cardinality(EdgesFrom({n}, m)) \in Int
  BY <1>1, CountType
<1>3. indegree' \in [selected -> Int]
  <2>1. indegree' = [m \in selected |-> indegree[m] - Cardinality(EdgesFrom({n}, m))]
    BY DEF Take
  <2>2. ASSUME NEW m \in selected
        PROVE  indegree[m] - Cardinality(EdgesFrom({n}, m)) \in Int
    <3>1. indegree[m] \in Int
      BY <1>1
    <3>2. Cardinality(EdgesFrom({n}, m)) \in Int
      BY <1>2
    <3> QED
      BY <3>1, <3>2
  <2> QED
    BY <2>1, <2>2
<1>4. order' \in Seq(selected)
  BY <1>1 DEF Take
<1>5. ready' \subseteq selected
  BY <1>1 DEF Take
<1> QED
  BY <1>3, <1>4, <1>5

LEMMA InitTypes == Init => TypeOK
<1> SUFFICES ASSUME Init PROVE TypeOK
  OBVIOUS
<1>1. NoNodes \in [{} -> Int]
  BY DEF NoNodes
<1>2. indegree \in [selected -> Int] /\ selected = {} /\ ready = {}
  BY <1>1 DEF Init
<1>3. order \in Seq(selected)
  BY DEF Init
<1> QED
  BY <1>2, <1>3 DEF Init, TypeOK

LEMMA NextTypes == TypeOK /\ [Next]_vars => TypeOK'
<1> SUFFICES ASSUME TypeOK, [Next]_vars PROVE TypeOK'
  OBVIOUS
<1>1. CASE Load
  <2>1. ledger.node \in SUBSET Id
    BY LedgerTypes DEF TypeOK
  <2>2. CASE Declared
    <3>1. BeginSort(ledger.node) /\ UNCHANGED << registry, closing >>
      BY <1>1, <2>2 DEF Load
    <3> QED
      BY <2>1, <3>1, BeginSortTypes DEF TypeOK, registry, closing
  <2>3. CASE ~ Declared
    BY <1>1, <2>3 DEF Load, TypeOK, registry, closing, sorting
  <2> QED
    BY <2>2, <2>3
<1>2. CASE Close
  BY <1>2, NeighbourTypes DEF Close, Pop, TypeOK, registry, sorting
<1>3. CASE Closed
  <2>1. seen \in SUBSET Id /\ BeginSort(seen) /\ UNCHANGED registry
    BY <1>3 DEF Closed, TypeOK
  <2> QED
    BY <1>3, <2>1, BeginSortTypes DEF Closed, TypeOK, registry
<1>4. CASE SortStep
  <2>1. PICK n \in ready : Take(n)
    BY <1>4 DEF SortStep, Least
  <2> QED
    BY <1>4, <2>1, TakeTypes DEF SortStep, TypeOK, registry, closing
<1>5. CASE Sorted
  <2>1. NoNodes \in [{} -> Int]
    BY DEF NoNodes
  <2> QED
    BY <1>5, <2>1 DEF Sorted, TypeOK, closing
<1>6. ASSUME NEW S \in SUBSET Id, NEW d \in {"upstream", "downstream"}, Ask(S, d)
      PROVE  TypeOK'
  BY <1>6 DEF Ask, TypeOK, registry, sorting
<1>7. CASE Raised \/ UNCHANGED vars
  BY <1>7 DEF Raised, TypeOK, vars, registry, closing, sorting
<1> QED
  BY <1>1, <1>2, <1>3, <1>4, <1>5, <1>6, <1>7 DEF Next, Step

(* The state keeps its types, for every ledger.                            *)
THEOREM TypesHold == Spec => []TypeOK
BY InitTypes, NextTypes, PTL DEF Spec

-----------------------------------------------------------------------------
(* The closure                                                             *)
-----------------------------------------------------------------------------

(* What the worklist still holds: the seeds are seen or waiting, so are    *)
(* the neighbours of whatever is seen, and nothing outside a closed set    *)
(* that has the seeds is ever touched.                                     *)
ClosureInv ==
  phase = "close" =>
    /\ seeds \subseteq seen \cup todo
    /\ \A n \in seen : Neighbours(n) \subseteq seen \cup todo
    /\ \A S \in SUBSET Id : seeds \subseteq S /\ ClosedUnder(S) => seen \cup todo \subseteq S

LEMMA ClosureStep == TypeOK /\ ClosureInv /\ [Next]_vars => ClosureInv'
<1> SUFFICES ASSUME TypeOK, ClosureInv, [Next]_vars, phase' = "close"
             PROVE  ClosureInv'
  BY DEF ClosureInv
<1>1. CASE Close
  <2> USE <1>1
  <2>1. PICK n \in todo : Pop(n)
    BY DEF Close
  <2>2. /\ phase = "close" /\ seeds' = seeds
        /\ \A m : Neighbours(m)' = Neighbours(m)
        /\ \A S : ClosedUnder(S)' <=> ClosedUnder(S)
    BY DEF Close, registry, Neighbours, Upstream, Downstream, Up, Down, Edges, ClosedUnder
  <2>3. seeds \subseteq seen' \cup todo'
    BY <2>1, <2>2 DEF ClosureInv, Pop
  <2>4. \A m \in seen' : Neighbours(m) \subseteq seen' \cup todo'
    BY <2>1, <2>2 DEF ClosureInv, Pop
  <2>5. ASSUME NEW S \in SUBSET Id, seeds \subseteq S, ClosedUnder(S)
        PROVE  seen' \cup todo' \subseteq S
    <3>1. seen \cup todo \subseteq S
      BY <2>2, <2>5 DEF ClosureInv
    <3>2. Neighbours(n) \subseteq S
      BY <2>5, <3>1 DEF ClosedUnder
    <3> QED
      BY <2>1, <3>1, <3>2 DEF Pop
  <2> QED
    BY <2>2, <2>3, <2>4, <2>5 DEF ClosureInv
<1>2. ASSUME NEW S \in SUBSET Id, NEW d \in {"upstream", "downstream"}, Ask(S, d)
      PROVE  ClosureInv'
  BY <1>2 DEF Ask, ClosureInv
<1>3. CASE UNCHANGED vars
  BY <1>3 DEF vars, registry, closing, ClosureInv, Neighbours, Upstream, Downstream, Up, Down,
              Edges, ClosedUnder
<1> QED
  BY <1>1, <1>2, <1>3 DEF Next, Step, Load, Closed, SortStep, Sorted, Raised, BeginSort

LEMMA ClosureInvHolds == Spec => []ClosureInv
<1>1. Init => ClosureInv
  BY DEF Init, ClosureInv
<1> QED
  BY <1>1, ClosureStep, TypesHold, PTL DEF Spec

(* A closure holds all surfaces reached from its seeds and no other,       *)
(* whatever the graph and in whatever order the worklist is popped.        *)
THEOREM ClosureHolds == Spec => []ClosureIsLeast
<1>1. ClosureInv => ClosureIsLeast
  BY DEF ClosureInv, ClosureIsLeast, ClosedUnder
<1> QED
  BY <1>1, ClosureInvHolds, PTL

-----------------------------------------------------------------------------
(* The order                                                               *)
-----------------------------------------------------------------------------

(* An indegree counts the edges from nodes not yet placed, the ready nodes *)
(* are those with none, and what is placed was ready at its place.         *)
SortInv ==
  phase = "sort" =>
    /\ \A m \in selected : indegree[m] = Cardinality(EdgesFrom(selected \ Taken, m))
    /\ ready = { m \in selected \ Taken : indegree[m] = 0 }
    /\ \A i, j \in DOMAIN order : order[i] = order[j] => i = j
    /\ \A j \in DOMAIN order, m \in selected :
         order[j] = m => Upstream(m) \cap selected \subseteq Placed(j)
    /\ OrderIsCanonical

(* No edge from outside the nodes still waiting reaches a ready one.       *)
LEMMA ReadyIsFree ==
  ASSUME TypeOK, SortInv, phase = "sort", NEW n \in selected \ Taken
  PROVE  n \in ready <=> Upstream(n) \cap (selected \ Taken) = {}
BY CountZero DEF SortInv, TypeOK

LEMMA BeginSortInv ==
  ASSUME TypeOK, NEW S \in SUBSET Id, BeginSort(S), UNCHANGED ledger
  PROVE  SortInv'
<1>1. Taken' = {} /\ DOMAIN order' = {} /\ selected' \ Taken' = selected'
  BY DEF BeginSort, Taken
<1>2. ASSUME NEW m \in selected'
      PROVE  indegree'[m] = Cardinality(EdgesFrom(selected \ Taken, m))'
  <2>1. EdgesFrom(selected \ Taken, m)' = EdgesFrom(selected, m)'
    BY <1>1 DEF EdgesFrom
  <2>2. indegree'[m] = Cardinality(EdgesFrom(selected', m))
    BY DEF BeginSort
  <2>3. EdgesFrom(selected, m)' = EdgesFrom(selected', m)
    BY DEF EdgesFrom, Edges, Up, Down
  <2> QED
    BY <2>1, <2>2, <2>3
<1>3. ready' = { m \in selected' \ Taken' : indegree'[m] = 0 }
  BY <1>1 DEF BeginSort
<1> QED
  BY <1>1, <1>2, <1>3 DEF SortInv, OrderIsCanonical

(* The step that places the least ready node.                              *)
LEMMA TakeInv ==
  ASSUME TypeOK, SortInv, phase = "sort", phase' = "sort",
         UNCHANGED << ledger, selected >>, NEW n \in ready, Least(n), Take(n)
  PROVE  SortInv'
<1> DEFINE Left == selected \ Taken
           After == Left \ {n}
<1>1. /\ ledger \in Ledgers /\ order \in Seq(selected) /\ n \in Left
      /\ indegree \in [selected -> Int] /\ selected \subseteq Nat
  BY LedgerTypes, IdAssumption DEF TypeOK, SortInv
<1>0. PICK last \in Nat : last = Len(order)
  BY <1>1
<1>2. /\ order' = Append(order, n)
      /\ DOMAIN order = 1 .. last
      /\ DOMAIN order' = 1 .. last + 1
      /\ order'[last + 1] = n
      /\ \A k \in 1 .. last : order'[k] = order[k]
  BY <1>0, <1>1 DEF Take
<1>3. Taken' = Taken \cup {n} /\ (selected \ Taken)' = After
  BY <1>2 DEF Taken
<1>4. \A S, m : EdgesFrom(S, m) = { e \in DOMAIN ledger'.edges :
                                    ledger'.edges[e][2] = m /\ ledger'.edges[e][1] \in S }
  BY DEF EdgesFrom, Edges, Up, Down
<1>5. \A m : Upstream(m)' = Upstream(m)
  BY DEF Upstream, Edges, Up, Down
<1>6. ASSUME NEW m \in selected
      PROVE  /\ indegree'[m] = Cardinality(EdgesFrom(After, m))
             /\ indegree'[m] = Cardinality(EdgesFrom(selected \ Taken, m))'
  <2>1. indegree[m] = Cardinality(EdgesFrom(Left, m))
    BY DEF SortInv
  <2>2. indegree'[m] = indegree[m] - Cardinality(EdgesFrom({n}, m))
    BY DEF Take
  <2>3. indegree'[m] = Cardinality(EdgesFrom(After, m))
    <3>1. Cardinality(EdgesFrom(Left \ {n}, m))
            = Cardinality(EdgesFrom(Left, m)) - Cardinality(EdgesFrom({n}, m))
      BY <1>1, CountLeft
    <3> QED
      BY <2>1, <2>2, <3>1
  <2>4. EdgesFrom(selected \ Taken, m)' = EdgesFrom(After, m)
    BY <1>3 DEF EdgesFrom, Edges, Up, Down
  <2> QED
    BY <2>3, <2>4
<1>7. ready' = { m \in After : indegree'[m] = 0 }
  <2>1. ready' = (ready \ {n}) \cup
                 { m \in selected : EdgesFrom({n}, m) # {} /\ indegree'[m] = 0 }
    BY DEF Take
  <2>2. ASSUME NEW m \in ready \ {n}
        PROVE  m \in After /\ indegree'[m] = 0
    <3>1. m \in After /\ m \in selected
      BY DEF SortInv
    <3>2. Upstream(m) \cap Left = {}
      BY <3>1, ReadyIsFree
    <3>3. Upstream(m) \cap After = {}
      BY <3>2
    <3> QED
      BY <1>1, <1>6, <3>1, <3>3, CountZero
  <2>3. ASSUME NEW m \in selected, EdgesFrom({n}, m) # {}, indegree'[m] = 0
        PROVE  m \in After
    <3>1. n \in Upstream(m)
      BY <2>3 DEF EdgesFrom, Upstream
    <3>2. m # n
      BY <1>1, <3>1, ReadyIsFree
    <3>3. m \notin Taken
      <4>1. SUFFICES ASSUME NEW j \in DOMAIN order, order[j] = m PROVE FALSE
        BY DEF Taken
      <4>2. n \in Placed(j)
        BY <1>1, <3>1, <4>1 DEF SortInv
      <4> QED
        <5>1. PICK i \in 1 .. j - 1 : n = order[i]
          BY <4>2 DEF Placed
        <5>2. i \in DOMAIN order
          BY <1>2, <5>1
        <5> QED
          BY <1>1, <5>1, <5>2 DEF Taken
    <3> QED
      BY <3>2, <3>3
  <2>4. ASSUME NEW m \in After, indegree'[m] = 0
        PROVE  m \in ready'
    <3>1. CASE EdgesFrom({n}, m) # {}
      BY <2>1, <2>4, <3>1
    <3>2. CASE EdgesFrom({n}, m) = {}
      <4>1. Upstream(m) \cap After = {}
        BY <1>1, <1>6, <2>4, CountZero
      <4>2. n \notin Upstream(m)
        BY <3>2 DEF EdgesFrom, Upstream
      <4>3. m \in ready
        BY <4>1, <4>2, ReadyIsFree
      <4> QED
        BY <2>1, <4>3
    <3> QED
      BY <3>1, <3>2
  <2> QED
    BY <2>1, <2>2, <2>3, <2>4
<1>8. \A k \in 1 .. last : Placed(k)' = Placed(k)
  BY <1>2 DEF Placed
<1>9. Placed(last + 1)' = Taken
  <2>1. 1 .. (last + 1) - 1 = 1 .. last
    BY <1>2
  <2>2. Placed(last + 1)' = { order'[i] : i \in 1 .. last }
    BY <1>2, <2>1 DEF Placed
  <2> QED
    BY <1>2, <2>2 DEF Taken
<1>10. \A i, j \in DOMAIN order' : order'[i] = order'[j] => i = j
  BY <1>1, <1>2 DEF SortInv, Taken
<1>11. \A j \in DOMAIN order', m \in selected :
         order'[j] = m => Upstream(m) \cap selected \subseteq Placed(j)'
  <2>1. Upstream(n) \cap selected \subseteq Taken
    BY <1>1, ReadyIsFree
  <2>2. ASSUME NEW j \in 1 .. last, NEW m \in selected, order'[j] = m
        PROVE  Upstream(m) \cap selected \subseteq Placed(j)'
    <3>1. j \in DOMAIN order /\ order[j] = m
      BY <1>2, <2>2
    <3> QED
      BY <1>8, <3>1 DEF SortInv
  <2>3. \A m \in selected : order'[last + 1] = m =>
          Upstream(m) \cap selected \subseteq Placed(last + 1)'
    BY <1>2, <1>9, <2>1
  <2>4. \A j \in DOMAIN order' : j \in 1 .. last \/ j = last + 1
    BY <1>2
  <2> QED
    BY <2>2, <2>3, <2>4
<1>12. OrderIsCanonical'
  <2>1. ASSUME NEW m \in Left, Upstream(m) \cap Left = {}
        PROVE  n <= m
    BY <2>1, ReadyIsFree DEF Least
  <2>2. /\ \A k \in 1 .. last : Waiting(k)' = Waiting(k)
        /\ Waiting(last + 1)' = Left
    BY <1>8, <1>9 DEF Waiting
  <2>3. ASSUME NEW k \in 1 .. last, NEW m \in Waiting(k),
               Upstream(m) \cap Waiting(k) = {}
        PROVE  order'[k] <= m
    BY <1>2, <2>3 DEF OrderIsCanonical, SortInv
  <2>4. \A k \in DOMAIN order' : k \in 1 .. last \/ k = last + 1
    BY <1>2
  <2>5. SUFFICES ASSUME NEW k \in DOMAIN order', NEW m \in Waiting(k)',
                        Upstream(m) \cap Waiting(k)' = {}
                 PROVE  order'[k] <= m
    BY <1>5 DEF OrderIsCanonical
  <2>6. CASE k \in 1 .. last
    BY <2>2, <2>3, <2>5, <2>6
  <2>7. CASE k = last + 1
    BY <1>2, <2>1, <2>2, <2>5, <2>7
  <2> QED
    BY <2>4, <2>6, <2>7
<1>13. ready' = { m \in (selected \ Taken)' : indegree'[m] = 0 }
  BY <1>3, <1>7
<1>14. \A m \in selected' : indegree'[m] = Cardinality(EdgesFrom(selected \ Taken, m))'
  BY <1>6
<1>15. \A j \in DOMAIN order', m \in selected' :
          order'[j] = m => Upstream(m)' \cap selected' \subseteq Placed(j)'
  BY <1>5, <1>11
<1> QED
  BY <1>10, <1>12, <1>13, <1>14, <1>15 DEF SortInv

LEMMA SortingStep == TypeOK /\ SortInv /\ [Next]_vars => SortInv'
<1> SUFFICES ASSUME TypeOK, SortInv, [Next]_vars, phase' = "sort" PROVE SortInv'
  BY DEF SortInv
<1>1. CASE Load
  <2>1. BeginSort(ledger.node) /\ UNCHANGED ledger
    BY <1>1 DEF Load, registry
  <2>2. ledger.node \in SUBSET Id
    BY LedgerTypes DEF TypeOK
  <2> QED
    BY <2>1, <2>2, BeginSortInv
<1>2. CASE Closed
  <2>1. BeginSort(seen) /\ UNCHANGED ledger
    BY <1>2 DEF Closed, registry
  <2>2. seen \in SUBSET Id
    BY DEF TypeOK
  <2> QED
    BY <2>1, <2>2, BeginSortInv
<1>3. CASE SortStep
  <2>1. PICK n \in ready : Least(n) /\ Take(n)
    BY <1>3 DEF SortStep, Least
  <2>2. phase = "sort" /\ UNCHANGED << ledger, selected >>
    BY <1>3 DEF SortStep, registry
  <2> QED
    BY <2>1, <2>2, TakeInv
<1>4. CASE UNCHANGED vars
  <2>1. /\ Taken' = Taken /\ OrderIsCanonical' = OrderIsCanonical
        /\ \A m : Upstream(m)' = Upstream(m)
        /\ \A k : Placed(k)' = Placed(k)
        /\ \A S, m : EdgesFrom(S, m)' = EdgesFrom(S, m)
        /\ EdgesFrom(selected \ Taken, 0)' = EdgesFrom(selected \ Taken, 0)
    BY <1>4 DEF vars, registry, sorting, Taken, OrderIsCanonical, Waiting, Placed, Upstream,
                EdgesFrom, Edges, Up, Down
  <2>2. \A m : EdgesFrom(selected \ Taken, m)' = EdgesFrom(selected \ Taken, m)
    BY <1>4 DEF vars, registry, sorting, Taken, EdgesFrom, Edges, Up, Down
  <2> QED
    BY <1>4, <2>1, <2>2 DEF vars, sorting, SortInv
<1> QED
  BY <1>1, <1>2, <1>3, <1>4 DEF Next, Step, Close, Ask, Sorted, Raised

LEMMA SortInvHolds == Spec => []SortInv
<1>1. Init => SortInv
  BY DEF Init, SortInv
<1> QED
  BY <1>1, SortingStep, TypesHold, PTL DEF Spec

(* Outside a sort the order is empty.                                      *)
OrderLocal == phase # "sort" => order = << >>

LEMMA OrderLocalHolds == Spec => []OrderLocal
<1>1. Init => OrderLocal
  BY DEF Init, OrderLocal
<1>2. OrderLocal /\ [Next]_vars => OrderLocal'
  BY DEF OrderLocal, Next, Step, Load, Ask, Close, Closed, SortStep, Sorted, Raised, BeginSort,
         vars, sorting
<1> QED
  BY <1>1, <1>2, PTL DEF Spec

(* A surface is resolved once and after everything it depends on, however  *)
(* often an edge is written in the ledger.                                 *)
THEOREM OrderHolds == Spec => []OrderRespectsEdges
<1>1. TypeOK /\ SortInv /\ OrderLocal => OrderRespectsEdges
  <2> SUFFICES ASSUME TypeOK, SortInv, OrderLocal, NEW i \in DOMAIN order, NEW j \in DOMAIN order
               PROVE  /\ order[i] = order[j] => i = j
                      /\ order[i] \in Upstream(order[j]) => i < j
    BY DEF OrderRespectsEdges
  <2>1. phase = "sort"
    BY DEF OrderLocal
  <2>2. order \in Seq(selected) /\ DOMAIN order = 1 .. Len(order) /\ Len(order) \in Nat
        /\ order[i] \in selected /\ order[j] \in selected
    BY DEF TypeOK
  <2>3. order[i] = order[j] => i = j
    BY <2>1 DEF SortInv
  <2>4. ASSUME order[i] \in Upstream(order[j]) PROVE i < j
    <3>1. order[i] \in Placed(j)
      BY <2>1, <2>2, <2>4 DEF SortInv
    <3>2. PICK k \in 1 .. j - 1 : order[i] = order[k]
      BY <3>1 DEF Placed
    <3>3. k \in DOMAIN order /\ k < j
      BY <2>2, <3>2
    <3> QED
      BY <2>1, <3>2, <3>3 DEF SortInv
  <2> QED
    BY <2>3, <2>4
<1> QED
  BY <1>1, TypesHold, SortInvHolds, OrderLocalHolds, PTL

(* The order depends on the set of surfaces and on nothing else: not on    *)
(* how they were found nor on the order of the ledger.                     *)
THEOREM CanonicalHolds == Spec => []OrderIsCanonical
<1>1. SortInv /\ OrderLocal => OrderIsCanonical
  BY DEF SortInv, OrderLocal, OrderIsCanonical
<1> QED
  BY <1>1, SortInvHolds, OrderLocalHolds, PTL

-----------------------------------------------------------------------------
(* Failure                                                                 *)
-----------------------------------------------------------------------------

LEMMA CompleteIsAcyclic ==
  ASSUME TypeOK, SortInv, phase = "sort", Complete, NEW C \in SUBSET selected, Cyclic(C)
  PROVE  FALSE
<1>1. order \in Seq(selected) /\ DOMAIN order = 1 .. Len(order) /\ Len(order) \in Nat
  BY DEF TypeOK
<1> DEFINE Places == { k \in DOMAIN order : order[k] \in C }
<1>2. Places \in SUBSET Nat /\ Places # {}
  BY <1>1 DEF Complete, Taken, Cyclic
<1>3. PICK j \in Places : \A k \in Places : j <= k
  BY <1>2, LeastOfNaturals
<1>4. PICK n \in C : n \in Upstream(order[j])
  BY <1>3 DEF Cyclic
<1>5. order[j] \in selected /\ n \in selected /\ j \in DOMAIN order
  BY <1>3, <1>4
<1>6. n \in Placed(j)
  BY <1>4, <1>5 DEF SortInv
<1>7. PICK k \in 1 .. j - 1 : n = order[k]
  BY <1>6 DEF Placed
<1>8. k \in Places /\ k < j /\ k \in Nat /\ j \in Nat
  BY <1>1, <1>4, <1>5, <1>7
<1> QED
  BY <1>3, <1>8

LEMMA FailureIsCyclic ==
  ASSUME TypeOK, SortInv, phase = "sort", ready = {}, ~ Complete
  PROVE  Cyclic(selected \ Taken)
BY ReadyIsFree DEF Complete, Cyclic

(* A query fails exactly when some of its surfaces wait for each other.    *)
THEOREM CycleIsTheOnlyFailure == Spec => []RaisesOnCycle
<1>1. TypeOK /\ SortInv => RaisesOnCycle
  BY CompleteIsAcyclic, FailureIsCyclic DEF RaisesOnCycle
<1> QED
  BY <1>1, TypesHold, SortInvHolds, PTL

(* What loading has tried: without a cycle among the publishable nodes     *)
(* there is none among fewer of them.                                      *)
LoadInv ==
  /\ loaded => \A C \in SUBSET ledger.publishable : ~ Cyclic(C)
  /\ phase \in {"idle", "close"} => loaded
  /\ phase = "sort" /\ ~ loaded => selected = ledger.publishable
  /\ phase \in {"load", "raised"} => ~ loaded

LEMMA LoadStep == TypeOK /\ SortInv /\ LoadInv /\ [Next]_vars => LoadInv'
<1> SUFFICES ASSUME TypeOK, SortInv, LoadInv, [Next]_vars PROVE LoadInv'
  OBVIOUS
<1>1. ledger' = ledger /\ \A C : Cyclic(C)' <=> Cyclic(C)
  BY DEF Next, Step, Load, Ask, Close, Closed, SortStep, Sorted, Raised, vars, registry, closing,
         sorting, Cyclic, Upstream, Edges, Up, Down
<1>2. CASE Sorted
  <2>1. selected \subseteq ledger.publishable
    BY DEF TypeOK
  <2>2. CASE Complete
    <3>1. loaded' /\ phase' = "idle" /\ phase = "sort"
      BY <1>2, <2>2 DEF Sorted
    <3>2. CASE loaded
      BY <1>1, <3>1, <3>2 DEF LoadInv
    <3>3. CASE ~ loaded
      <4>1. selected = ledger.publishable
        BY <3>1, <3>3 DEF LoadInv
      <4>2. \A C \in SUBSET selected : ~ Cyclic(C)
        BY <2>2, <3>1, CompleteIsAcyclic
      <4> QED
        BY <1>1, <3>1, <4>1, <4>2 DEF LoadInv
    <3> QED
      BY <3>2, <3>3
  <2>3. CASE ~ Complete
    <3>1. phase = "sort" /\ ready = {} /\ loaded' = loaded /\ phase' = "raised"
      BY <1>2, <2>3 DEF Sorted, LoadInv, TypeOK
    <3>2. Cyclic(selected \ Taken) /\ selected \ Taken \in SUBSET ledger.publishable
      BY <2>1, <2>3, <3>1, FailureIsCyclic
    <3>3. ~ loaded
      BY <3>2 DEF LoadInv
    <3> QED
      BY <1>1, <3>1, <3>3 DEF LoadInv
  <2> QED
    BY <2>2, <2>3
<1>3. CASE Load
  <2>1. ledger.publishable \subseteq ledger.node
    BY LedgerTypes DEF TypeOK
  <2> QED
    BY <1>1, <1>3, <2>1 DEF Load, BeginSort, LoadInv, registry
<1>4. CASE Close \/ SortStep \/ Raised \/ UNCHANGED vars
  BY <1>1, <1>4 DEF Close, SortStep, Raised, vars, registry, sorting, LoadInv
<1>5. CASE Closed
  BY <1>1, <1>5 DEF Closed, BeginSort, registry, LoadInv
<1>6. ASSUME NEW S \in SUBSET Id, NEW d \in {"upstream", "downstream"}, Ask(S, d)
      PROVE  LoadInv'
  BY <1>1, <1>6 DEF Ask, registry, LoadInv
<1> QED
  BY <1>2, <1>3, <1>4, <1>5, <1>6 DEF Next, Step

(* Once the registry is loaded no query of it can fail.                    *)
THEOREM LoadedRegistryHolds == Spec => []LoadedNeverRaises
<1>1. Init => LoadInv
  BY DEF Init, LoadInv
<1>2. LoadInv => LoadedNeverRaises
  BY DEF LoadInv, LoadedNeverRaises
<1> QED
  BY <1>1, <1>2, LoadStep, TypesHold, SortInvHolds, PTL DEF Spec

\* The order of topo_publishable_subset is sound: it respects the edges, is a
\* function of the set, fails on cycles only, and never after loading.
THEOREM OrderStaysSound == Spec => []OrderSound
BY OrderHolds, CanonicalHolds, CycleIsTheOnlyFailure, LoadedRegistryHolds, PTL DEF OrderSound

-----------------------------------------------------------------------------
(* Deltas over the registry                                                *)
(*                                                                         *)
(* CheckpointDelta takes its rows along the closure of a ledger, which is  *)
(* the one that the registry computes.  A delta answers what a full        *)
(* resolution would, for every graph whose ledger lists the reads of the   *)
(* resolver, and for every chain of deltas.                                *)
-----------------------------------------------------------------------------

(* When its worklist is empty, closure_downstream has computed the closure *)
(* that the delta of a checkpoint is planned with.                         *)
EdgePairs == { ledger.edges[e] : e \in Edges }

ClosureIsPlanned ==
  phase = "close" /\ direction = "downstream" /\ todo = {} =>
    seen = Closure(seeds, EdgePairs)

LEMMA ClosedAlike ==
  ASSUME ledger \in Ledgers, direction = "downstream", NEW C
  PROVE  ClosedUnder(C) <=> ClosedAlong(C, EdgePairs)
<1>1. \A e \in Edges : ledger.edges[e] = << Up(e), Down(e) >>
  <2> TAKE e \in Edges
  <2>1. ledger.edges \in Seq(Id \X Id)
    BY LedgerTypes
  <2>2. ledger.edges[e] \in Id \X Id
    BY <2>1 DEF Edges
  <2> QED
    BY <2>2 DEF Up, Down
<1>2. ClosedUnder(C) <=> \A e \in Edges : Up(e) \in C => Down(e) \in C
  BY DEF ClosedUnder, Neighbours, Downstream
<1>3. ClosedAlong(C, EdgePairs)
        <=> \A e \in Edges : ledger.edges[e][1] \in C => ledger.edges[e][2] \in C
  BY DEF ClosedAlong, EdgePairs
<1> QED
  BY <1>2, <1>3 DEF Up, Down

(* The two specifications speak of the same closure, when the nodes of the *)
(* graph are the surface ids of the registry.                              *)
THEOREM RegistryComputesTheClosure ==
  Node = Id => (Spec => []ClosureIsPlanned)
<1> SUFFICES ASSUME Node = Id PROVE Spec => []ClosureIsPlanned
  OBVIOUS
<1>1. TypeOK /\ ClosureIsLeast => ClosureIsPlanned
  <2> SUFFICES ASSUME TypeOK, ClosureIsLeast, phase = "close",
                      direction = "downstream", todo = {}
               PROVE  seen = Closure(seeds, EdgePairs)
    BY DEF ClosureIsPlanned
  <2>1. ledger \in Ledgers /\ seen \in SUBSET Id /\ seeds \in SUBSET Id
    BY DEF TypeOK
  <2>2. \A C : ClosedUnder(C) <=> ClosedAlong(C, EdgePairs)
    BY <2>1, ClosedAlike
  <2>3. seeds \subseteq seen /\ ClosedAlong(seen, EdgePairs)
    BY <2>2 DEF ClosureIsLeast
  <2>4. \A C \in SUBSET Id :
          seeds \subseteq C /\ ClosedAlong(C, EdgePairs) => seen \subseteq C
    BY <2>2 DEF ClosureIsLeast
  <2>5. Closure(seeds, EdgePairs)
          = { n \in Id : \A C \in SUBSET Id :
                seeds \subseteq C /\ ClosedAlong(C, EdgePairs) => n \in C }
    BY DEF Closure
  <2> QED
    BY <2>1, <2>3, <2>4, <2>5
<1> QED
  BY <1>1, TypesHold, ClosureHolds, PTL

(* A graph with more edges reaches more.                                   *)
LEMMA ClosureMonotone ==
  ASSUME NEW S, NEW T, S \subseteq T, NEW E, NEW F, E \subseteq F
  PROVE  Closure(S, E) \subseteq Closure(T, F)
<1>1. SUFFICES ASSUME NEW n \in Closure(S, E),
                      NEW C \in SUBSET Node, T \subseteq C, ClosedAlong(C, F)
               PROVE  n \in C
  BY DEF Closure
<1>2. S \subseteq C /\ ClosedAlong(C, E)
  BY <1>1 DEF ClosedAlong
<1>3. QED
  BY <1>1, <1>2 DEF Closure

(* A surface that a mutation does not make dirty depends on none of the    *)
(* tracks that were named.                                                 *)
LEMMA CleanIsIndependent ==
  ASSUME NEW triggers \in SUBSET Track, NEW s \in Node, s \notin Dirty[triggers],
         NEW t \in DependsOn[s]
  PROVE  t \notin triggers
<1>1. SUFFICES ASSUME t \in triggers
               PROVE  FALSE
  OBVIOUS
<1>2. s \in Closure({Source[t]}, Reads)
  BY DEF DependsOn
<1>3. {Source[t]} \subseteq { Source[x] : x \in triggers }
  BY <1>1
<1>4. Closure({Source[t]}, Reads) \subseteq Closure({ Source[x] : x \in triggers }, LedgerEdges)
  BY <1>3, ClosureMonotone, ReadsAssumption
<1>5. QED
  BY <1>2, <1>4 DEF Dirty

(* Two levels that agree outside the named tracks give such a surface the  *)
(* same row.                                                               *)
LEMMA CleanRowStands ==
  ASSUME NEW base, NEW levels, NEW triggers \in SUBSET Track,
         Changed(base, levels) \subseteq triggers,
         NEW s \in Node, s \notin Dirty[triggers]
  PROVE  Row(base.levels, s) = Row(levels, s)
<1>1. ASSUME NEW t \in DependsOn[s]
      PROVE  base.levels[t] = levels[t]
  <2>1. t \in Track
    BY DEF DependsOn
  <2>2. t \notin triggers
    BY CleanIsIndependent
  <2>3. QED
    BY <2>1, <2>2 DEF Changed
<1>2. QED
  BY <1>1 DEF Row

-----------------------------------------------------------------------------
(* What is known of a snapshot.                                            *)
RowType == UNION { [B -> Nat] : B \in SUBSET Track }
RowsType == UNION { [D -> RowType] : D \in SUBSET Node }
Snapshot == [levels : Levels, rows : RowsType, bundle : Bundles]

Sound(sn) ==
  /\ DOMAIN sn.rows \subseteq sn.bundle
  /\ Required \subseteq DOMAIN sn.rows
  /\ \A s \in DOMAIN sn.rows : sn.rows[s] = Row(sn.levels, s)

SnapshotInv == snapshots \in Seq(Snapshot) /\ \A i \in DOMAIN snapshots : Sound(snapshots[i])

LEMMA BundleOfNodes == ASSUME NEW b \in Bundles PROVE b \subseteq Node /\ Required \subseteq b
BY GraphAssumption DEF Bundles

LEMMA RowTyped ==
  ASSUME NEW levels \in Levels, NEW s \in Node
  PROVE  Row(levels, s) \in RowType
<1>1. DependsOn[s] \in SUBSET Track
  BY DEF DependsOn
<1>2. Row(levels, s) \in [DependsOn[s] -> Nat]
  BY <1>1 DEF Row, Levels
<1>3. QED
  BY <1>1, <1>2 DEF RowType

LEMMA PatchedTyped == ASSUME NEW r \in LevelRequests PROVE Patched(r) \in Levels
<1>1. PICK T \in SUBSET Track : r \in [T -> UNION { 0 .. MaxLevel[t] : t \in T }]
  BY DEF LevelRequests
<1>2. ASSUME NEW t \in T
      PROVE  r[t] \in Nat
  BY <1>1
<1>3. ASSUME NEW t \in Track
      PROVE  (IF t \in DOMAIN r THEN r[t] ELSE Account[t]) \in Nat
  BY <1>1, <1>2, GraphAssumption DEF Levels
<1>4. QED
  BY <1>3 DEF Patched, Levels

LEMMA RowsTyped ==
  ASSUME NEW D \in SUBSET Node, NEW f, f = [s \in D |-> f[s]],
         \A s \in D : f[s] \in RowType
  PROVE  f \in RowsType
<1>1. f \in [D -> RowType]
  OBVIOUS
<1>2. QED
  BY <1>1 DEF RowsType

(* A full resolution and a delta to a sound snapshot are sound.            *)
LEMMA FullIsSound ==
  ASSUME NEW levels \in Levels, NEW bundle \in Bundles
  PROVE  LET sn == TakenAt(levels, Fresh(levels, bundle), bundle)
         IN sn \in Snapshot /\ Sound(sn)
<1> DEFINE rows == Fresh(levels, bundle)
<1>1. DOMAIN rows = bundle /\ \A s \in bundle : rows[s] = Row(levels, s)
  BY DEF Fresh
<1>2. bundle \in SUBSET Node /\ Required \subseteq bundle
  BY BundleOfNodes
<1>3. rows = [s \in bundle |-> rows[s]]
  BY DEF Fresh
<1>4. \A s \in bundle : rows[s] \in RowType
  BY <1>1, <1>2, RowTyped
<1> HIDE DEF rows
<1>5. rows \in RowsType
  BY <1>2, <1>3, <1>4, RowsTyped
<1>6. QED
  BY <1>1, <1>2, <1>5 DEF TakenAt, Snapshot, Sound, rows

LEMMA DeltaIsSound ==
  ASSUME NEW base \in Snapshot, Sound(base), NEW levels \in Levels, NEW bundle \in Bundles,
         NEW triggers \in SUBSET Track, Changed(base, levels) \subseteq triggers
  PROVE  LET sn == TakenAt(levels, DeltaRows(base, levels, triggers, bundle), bundle)
         IN sn \in Snapshot /\ Sound(sn)
<1> DEFINE impacted == Plan(triggers).dirty \cap bundle
           rows == DeltaRows(base, levels, triggers, bundle)
<1>1. CASE Plan(triggers).fallback \/ impacted = {}
  <2>1. rows = Fresh(levels, bundle)
    BY <1>1 DEF DeltaRows
  <2>2. QED
    BY <2>1, FullIsSound
<1>2. CASE ~(Plan(triggers).fallback \/ impacted = {})
  <2> DEFINE D == impacted \union (bundle \cap DOMAIN base.rows)
  <2>1. rows = Merged(base, levels, impacted, bundle)
    BY <1>2 DEF DeltaRows
  <2>2. impacted = Dirty[triggers] \cap bundle
    BY <1>2 DEF Plan
  <2>3. bundle \in SUBSET Node /\ Required \subseteq bundle
    BY BundleOfNodes
  <2>4. D \in SUBSET Node /\ D \subseteq bundle /\ Required \subseteq D
    BY <2>3 DEF Sound
  <2>5. rows = [s \in D |-> IF s \in impacted THEN Row(levels, s) ELSE base.rows[s]]
    BY <2>1 DEF Merged
  <2>6. ASSUME NEW s \in D
        PROVE  rows[s] = Row(levels, s)
    <3>1. CASE s \in impacted
      BY <2>5, <3>1
    <3>2. CASE s \notin impacted
      <4>1. s \in DOMAIN base.rows /\ s \in Node /\ s \notin Dirty[triggers]
        BY <2>2, <2>3, <3>2
      <4>2. Row(base.levels, s) = Row(levels, s)
        BY <4>1, CleanRowStands
      <4>3. QED
        BY <2>5, <3>2, <4>1, <4>2 DEF Sound
    <3>3. QED
      BY <3>1, <3>2
  <2>7. DOMAIN rows = D /\ rows = [s \in D |-> rows[s]]
    BY <2>5
  <2>8. \A s \in D : rows[s] \in RowType
    BY <2>4, <2>6, RowTyped
  <2> HIDE DEF rows, D
  <2>9. rows \in RowsType
    BY <2>4, <2>7, <2>8, RowsTyped
  <2>10. QED
    BY <2>4, <2>6, <2>7, <2>9 DEF TakenAt, Snapshot, Sound, rows
<1>3. QED
  BY <1>1, <1>2

-----------------------------------------------------------------------------
LEMMA AppendKeeps ==
  ASSUME SnapshotInv, NEW sn \in Snapshot, Sound(sn), snapshots' = Append(snapshots, sn)
  PROVE  SnapshotInv'
<1>1. snapshots' \in Seq(Snapshot)
  BY DEF SnapshotInv
<1>2. ASSUME NEW i \in DOMAIN snapshots'
      PROVE  Sound(snapshots'[i])
  <2>1. CASE i \in DOMAIN snapshots
    <3>1. snapshots'[i] = snapshots[i]
      BY <2>1 DEF SnapshotInv
    <3>2. QED
      BY <2>1, <3>1 DEF SnapshotInv
  <2>2. CASE i \notin DOMAIN snapshots
    <3>1. snapshots'[i] = sn
      BY <1>2, <2>2 DEF SnapshotInv
    <3>2. QED
      BY <3>1
  <2>3. QED
    BY <2>1, <2>2
<1>3. QED
  BY <1>1, <1>2 DEF SnapshotInv

LEMMA SnapshotInvInit == ASSUME DeltaInit PROVE SnapshotInv
BY DEF DeltaInit, SnapshotInv

LEMMA SnapshotInvStep == ASSUME SnapshotInv, [DeltaNext]_snapshots PROVE SnapshotInv'
<1>1. CASE Full
  <2>1. PICK request \in LevelRequests, bundle \in Bundles :
          snapshots' = Append(snapshots,
            TakenAt(Patched(request), Fresh(Patched(request), bundle), bundle))
    BY <1>1 DEF Full
  <2>2. QED
    BY <2>1, PatchedTyped, FullIsSound, AppendKeeps
<1>2. CASE Delta
  <2>1. PICK i \in DOMAIN snapshots, request \in LevelRequests, bundle \in Bundles,
             triggers \in SUBSET Track :
          /\ Changed(snapshots[i], Patched(request)) \subseteq triggers
          /\ snapshots' = Append(snapshots,
               TakenAt(Patched(request),
                     DeltaRows(snapshots[i], Patched(request), triggers, bundle), bundle))
    BY <1>2 DEF Delta
  <2>2. snapshots[i] \in Snapshot /\ Sound(snapshots[i])
    BY DEF SnapshotInv
  <2>3. QED
    BY <2>1, <2>2, PatchedTyped, DeltaIsSound, AppendKeeps
<1>3. CASE UNCHANGED snapshots
  BY <1>3 DEF SnapshotInv
<1>4. QED
  BY <1>1, <1>2, <1>3 DEF DeltaNext

LEMMA SnapshotInvAlways == DeltaSpec => []SnapshotInv
BY SnapshotInvInit, SnapshotInvStep, PTL DEF DeltaSpec

(* Snapshots, bundles and rows are of their types.                         *)
THEOREM SnapshotTypes == DeltaSpec => []SnapshotTypeOK
<1>1. ASSUME SnapshotInv
      PROVE  SnapshotTypeOK
  <2>1. \A i \in DOMAIN snapshots : snapshots[i] \in Snapshot /\ Sound(snapshots[i])
    BY <1>1 DEF SnapshotInv
  <2>2. QED
    BY <2>1 DEF SnapshotTypeOK, Snapshot, Sound
<1>2. QED
  BY <1>1, SnapshotInvAlways, PTL

(* Every row of every snapshot is the row of a full resolution at its own  *)
(* levels: resolve_checkpoint_consumer_bundle_delta loses nothing, however *)
(* many deltas lie between a snapshot and the last full one.               *)
THEOREM DeltaIsFullAlways == DeltaSpec => []DeltaIsFull
<1>1. SnapshotInv => DeltaIsFull
  BY DEF SnapshotInv, Sound, DeltaIsFull
<1>2. QED
  BY <1>1, SnapshotInvAlways, PTL

(* No chain of deltas loses a required surface of the bundle.              *)
THEOREM RequiredAnsweredAlways == DeltaSpec => []RequiredAnswered
<1>1. SnapshotInv => RequiredAnswered
  BY DEF SnapshotInv, Sound, RequiredAnswered
<1>2. QED
  BY <1>1, SnapshotInvAlways, PTL

(* The rows a delta leaves out were left out by the snapshot it starts     *)
(* from.                                                                   *)
LEMMA MissedBefore ==
  ASSUME NEW base, NEW levels, NEW triggers, NEW bundle, NEW s \in bundle,
         s \notin DOMAIN DeltaRows(base, levels, triggers, bundle)
  PROVE  s \notin DOMAIN base.rows
<1>1. CASE Plan(triggers).fallback \/ Plan(triggers).dirty \cap bundle = {}
  BY <1>1 DEF DeltaRows, Fresh
<1>2. CASE ~(Plan(triggers).fallback \/ Plan(triggers).dirty \cap bundle = {})
  <2>1. DeltaRows(base, levels, triggers, bundle)
          = Merged(base, levels, Plan(triggers).dirty \cap bundle, bundle)
    BY <1>2 DEF DeltaRows
  <2>2. QED
    BY <2>1 DEF Merged
<1>3. QED
  BY <1>1, <1>2

LEMMA AppendKeepsMissed ==
  ASSUME SnapshotInv, OnlyOptionalMissed, NEW sn \in Snapshot, Sound(sn),
         snapshots' = Append(snapshots, sn),
         \A s \in sn.bundle \ DOMAIN sn.rows :
           \E j \in DOMAIN snapshots : s \notin DOMAIN snapshots[j].rows
  PROVE  OnlyOptionalMissed'
<1>1. snapshots \in Seq(Snapshot)
  BY DEF SnapshotInv
<1>2. SUFFICES ASSUME NEW i \in DOMAIN snapshots',
                      NEW s \in snapshots'[i].bundle \ DOMAIN snapshots'[i].rows
               PROVE  s \in Optional /\ \E j \in 1 .. i - 1 : s \notin DOMAIN snapshots'[j].rows
  BY DEF OnlyOptionalMissed
<1>3. \A j \in DOMAIN snapshots : snapshots'[j] = snapshots[j]
  BY <1>1
<1>4. CASE i \in DOMAIN snapshots
  <2>1. s \in Optional /\ \E j \in 1 .. i - 1 : s \notin DOMAIN snapshots[j].rows
    BY <1>2, <1>3, <1>4 DEF OnlyOptionalMissed
  <2>2. \A j \in 1 .. i - 1 : j \in DOMAIN snapshots
    BY <1>1, <1>4
  <2>3. QED
    BY <1>3, <2>1, <2>2
<1>5. CASE i \notin DOMAIN snapshots
  <2>1. i = Len(snapshots) + 1 /\ snapshots'[i] = sn
    BY <1>1, <1>2, <1>5
  <2>2. s \in Optional
    BY <1>2, <2>1, BundleOfNodes DEF Sound, Snapshot, Bundles
  <2>3. PICK j \in DOMAIN snapshots : s \notin DOMAIN snapshots[j].rows
    BY <1>2, <2>1
  <2>4. j \in 1 .. i - 1
    BY <1>1, <2>1
  <2>5. QED
    BY <1>3, <2>2, <2>3, <2>4
<1>6. QED
  BY <1>4, <1>5

(* A row of the bundle is missing only if it is an optional surface that   *)
(* an earlier snapshot misses: resolve_checkpoint_consumer_bundle_delta    *)
(* drops what its base statbook was never asked for.                       *)
THEOREM OnlyOptionalMissedAlways == DeltaSpec => []OnlyOptionalMissed
<1>1. DeltaInit => OnlyOptionalMissed
  BY DEF DeltaInit, OnlyOptionalMissed
<1>2. ASSUME SnapshotInv, OnlyOptionalMissed, [DeltaNext]_snapshots
      PROVE  OnlyOptionalMissed'
  <2>1. CASE Full
    <3>1. PICK request \in LevelRequests, bundle \in Bundles :
            snapshots' = Append(snapshots,
              TakenAt(Patched(request), Fresh(Patched(request), bundle), bundle))
      BY <2>1 DEF Full
    <3> DEFINE sn == TakenAt(Patched(request), Fresh(Patched(request), bundle), bundle)
    <3>2. sn \in Snapshot /\ Sound(sn)
      BY PatchedTyped, FullIsSound
    <3>3. sn.bundle \ DOMAIN sn.rows = {}
      BY DEF TakenAt, Fresh
    <3> HIDE DEF sn
    <3>4. QED
      BY <1>2, <3>1, <3>2, <3>3, AppendKeepsMissed DEF sn
  <2>2. CASE Delta
    <3>1. PICK i \in DOMAIN snapshots, request \in LevelRequests, bundle \in Bundles,
               triggers \in SUBSET Track :
            /\ Changed(snapshots[i], Patched(request)) \subseteq triggers
            /\ snapshots' = Append(snapshots,
                 TakenAt(Patched(request),
                       DeltaRows(snapshots[i], Patched(request), triggers, bundle), bundle))
      BY <2>2 DEF Delta
    <3> DEFINE sn == TakenAt(Patched(request),
                           DeltaRows(snapshots[i], Patched(request), triggers, bundle), bundle)
    <3>2. snapshots[i] \in Snapshot /\ Sound(snapshots[i])
      BY <1>2 DEF SnapshotInv
    <3>3. sn \in Snapshot /\ Sound(sn)
      BY <3>1, <3>2, PatchedTyped, DeltaIsSound
    <3>4. \A s \in sn.bundle \ DOMAIN sn.rows : s \notin DOMAIN snapshots[i].rows
      BY MissedBefore DEF TakenAt
    <3>5. \A s \in sn.bundle \ DOMAIN sn.rows :
            \E j \in DOMAIN snapshots : s \notin DOMAIN snapshots[j].rows
      BY <3>4
    <3> HIDE DEF sn
    <3>6. QED
      BY <1>2, <3>1, <3>3, <3>5, AppendKeepsMissed DEF sn
  <2>3. CASE UNCHANGED snapshots
    BY <1>2, <2>3 DEF OnlyOptionalMissed
  <2>4. QED
    BY <1>2, <2>1, <2>2, <2>3 DEF DeltaNext
<1>3. QED
  BY <1>1, <1>2, SnapshotInvAlways, PTL DEF DeltaSpec

\* A delta agrees with a full resolution in the rows it has, in the surfaces it
\* must have and in those it may miss.
THEOREM DeltasAgree == DeltaSpec => []DeltaAgrees
BY SnapshotTypes, DeltaIsFullAlways, RequiredAnsweredAlways, OnlyOptionalMissedAlways, PTL
   DEF DeltaAgrees
=============================================================================
