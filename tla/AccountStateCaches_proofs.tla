---------------------- MODULE AccountStateCaches_proofs ----------------------
(***************************************************************************)
(* What a process keeps in memory and what it leaves on disk.              *)
(*                                                                         *)
(* For any number of addresses, queries and edits and any size of the LRU: *)
(* the entries keyed by an address describe the state alive there, bundles *)
(* are no older than their keys, and the caches implement the promise that *)
(* knows of no cache; then their bounds, and what they never drop.         *)
(*                                                                         *)
(* For any number of runs of the two pipelines in one output directory,    *)
(* each cut short anywhere: first what the program of each pipeline does   *)
(* and in which order, put together from its parts, then an invariant of   *)
(* the directory and of what is left of the program in progress.           *)
(***************************************************************************)
EXTENDS AccountStateCaches, OutputDirectory, TLAPS

Patches == STRING \union {Unpatched}
Stamps == [Files -> Nat]
States == [live : {TRUE}, ids : Nat, manual : Nat, mode : STRING, patch : Patches]
Values == [kind : {"value"}, ids : Nat, manual : Nat, mode : STRING, patch : Patches, view : STRING]
Entries == [addr : Addrs, patch : Patches, view : STRING, value : Values]
Bundles == [owner : Retaining, stamps : Stamps, mode : STRING, addr : Addrs]

\* The state was read after the stamps were taken and before now.
Between(since, s) ==
  /\ since["ids"] <= s.ids /\ s.ids <= version["ids"]
  /\ since["manual"] <= s.manual /\ s.manual <= version["manual"]

----------------------------------------------------------------------------
(* The inductive invariant, by the variables it constrains.                *)

HeapInv ==
  /\ version \in Stamps
  /\ \A a \in Addrs : heap[a] = Freed \/ heap[a] \in States
  /\ DOMAIN heap = Addrs

BundleOk(b) ==
  /\ b \in Bundles
  /\ heap[b.addr] \in States
  /\ heap[b.addr].patch = Unpatched
  /\ heap[b.addr].mode = b.mode
  /\ Between(b.stamps, heap[b.addr])

BundlesInv == \A b \in bundles : BundleOk(b)

Compiles(e) == e.addr \in Kept /\ e.value = Value(heap[e.addr], e.view)

CompiledInv == \A e \in compiled : Compiles(e)

Described(e) == e.addr \in Kept /\ e.value = Value([heap[e.addr] EXCEPT !.patch = e.patch], e.view)

PrimitivesInv ==
  /\ primitives \in Seq(Entries)
  /\ \A i \in 1..Len(primitives) : Described(primitives[i])

\* What the call in progress knows.
AtIds == call \in [pc : {"ids"}, query : Queries, stamps : Stamps]
AtManual ==
  /\ call \in [pc : {"manual"}, query : Queries, stamps : Stamps, ids : Nat]
  /\ call.stamps["ids"] <= call.ids /\ call.ids <= version["ids"]
AtBuild ==
  /\ call \in [pc : {"build"}, query : Queries, stamps : Stamps, ids : Nat, manual : Nat]
  /\ call.stamps["ids"] <= call.ids /\ call.ids <= version["ids"]
  /\ call.stamps["manual"] <= call.manual /\ call.manual <= version["manual"]
AtResolve ==
  /\ call \in [pc : {"resolve"}, query : Queries, stamps : Stamps, addr : Addrs]
  /\ heap[call.addr] \in States
  /\ heap[call.addr].patch = Unpatched
  /\ heap[call.addr].mode = call.query.mode
  /\ Between(call.stamps, heap[call.addr])
  /\ call.addr \in Kept <=> call.query.kind \in Retaining
AtDerived ==
  /\ call \in [pc : {"derived"}, query : Queries, stamps : Stamps, base : Addrs, addr : Addrs]
  /\ call.query.kind = "boss"
  /\ call.base \in Kept
  /\ call.addr \notin Kept
  /\ heap[call.base] \in States
  /\ heap[call.base].mode = call.query.mode
  /\ Between(call.stamps, heap[call.base])
  /\ heap[call.addr] = [heap[call.base] EXCEPT !.patch = call.query.patch]

CallInv ==
  /\ \/ call = Idle \/ AtIds \/ AtManual \/ AtBuild \/ AtResolve \/ AtDerived
  /\ call # Idle => /\ call.stamps["ids"] <= version["ids"]
                    /\ call.stamps["manual"] <= version["manual"]

Inv == HeapInv /\ BundlesInv /\ CompiledInv /\ PrimitivesInv /\ CallInv

----------------------------------------------------------------------------
(* The operations of the LRU.                                              *)

LEMMA InsertKeeps ==
  ASSUME NEW T, NEW s \in Seq(T), NEW e \in T
  PROVE  /\ Insert(s, e) \in Seq(T)
         /\ \A i \in 1..Len(Insert(s, e)) :
               Insert(s, e)[i] = e \/ \E j \in 1..Len(s) : Insert(s, e)[i] = s[j]
<1>1. CASE Len(s) < LruSize
  <2>1. Insert(s, e) = Append(s, e)  BY <1>1 DEF Insert
  <2> QED  BY <2>1
<1>2. CASE ~(Len(s) < LruSize)
  <2>1. Insert(s, e) = Append(Tail(s), e)  BY <1>2 DEF Insert
  <2>2. s # <<>>  BY <1>2, SizeAssumption
  <2>3. /\ Tail(s) \in Seq(T)
        /\ Len(Tail(s)) = Len(s) - 1
        /\ \A i \in 1..Len(s) - 1 : Tail(s)[i] = s[i + 1]
    BY <2>2
  <2>4. \A i \in 1..Len(s) - 1 : i + 1 \in 1..Len(s)  OBVIOUS
  <2>5. Append(Tail(s), e) \in Seq(T) /\ Len(Append(Tail(s), e)) = Len(s)  BY <2>3
  <2>6. \A i \in 1..Len(s) - 1 : Append(Tail(s), e)[i] = s[i + 1]  BY <2>3
  <2>7. Append(Tail(s), e)[Len(s)] = e  BY <2>3
  <2>8. \A i \in 1..Len(s) : i = Len(s) \/ i \in 1..Len(s) - 1  OBVIOUS
  <2> QED  BY <2>1, <2>4, <2>5, <2>6, <2>7, <2>8
<1> QED  BY <1>1, <1>2

LEMMA MoveKeeps ==
  ASSUME NEW T, NEW s \in Seq(T), NEW k \in 1..Len(s)
  PROVE  /\ MoveToEnd(s, k) \in Seq(T)
         /\ Len(MoveToEnd(s, k)) = Len(s)
         /\ \A i \in 1..Len(s) : \E j \in 1..Len(s) : MoveToEnd(s, k)[i] = s[j]
<1>1. \A i \in 1..Len(s) : \E j \in 1..Len(s) : MoveToEnd(s, k)[i] = s[j]
  <2> SUFFICES ASSUME NEW i \in 1..Len(s) PROVE \E j \in 1..Len(s) : MoveToEnd(s, k)[i] = s[j]
    OBVIOUS
  <2>1. CASE i < k  BY <2>1 DEF MoveToEnd
  <2>2. CASE ~(i < k) /\ i < Len(s)
    <3>1. i + 1 \in 1..Len(s)  BY <2>2
    <3> QED  BY <2>2, <3>1 DEF MoveToEnd
  <2>3. CASE ~(i < k) /\ ~(i < Len(s))  BY <2>3 DEF MoveToEnd
  <2> QED  BY <2>1, <2>2, <2>3
<1>2. \A j \in 1..Len(s) : s[j] \in T  OBVIOUS
<1>3. DOMAIN MoveToEnd(s, k) = 1..Len(s) /\ Len(s) \in Nat  BY DEF MoveToEnd
<1>4. MoveToEnd(s, k) = [i \in 1..Len(s) |-> MoveToEnd(s, k)[i]]  BY DEF MoveToEnd
<1>5. MoveToEnd(s, k) \in [1..Len(s) -> T]  BY <1>1, <1>2, <1>4
<1>6. MoveToEnd(s, k) \in Seq(T)
  <2>1. \A n \in Nat : [1..n -> T] \subseteq Seq(T)  OBVIOUS
  <2> QED  BY <1>3, <1>5, <2>1
<1>7. Len(MoveToEnd(s, k)) = Len(s)  BY <1>3, <1>6
<1> QED  BY <1>1, <1>6, <1>7

----------------------------------------------------------------------------
(* Each action preserves the invariant.                                    *)

LEMMA InitInv == Init => Inv
<1> SUFFICES ASSUME Init PROVE Inv  OBVIOUS
<1>1. HeapInv  BY DEF Init, HeapInv, Stamps
<1>2. BundlesInv /\ CompiledInv  BY DEF Init, BundlesInv, CompiledInv
<1>3. PrimitivesInv  BY DEF Init, PrimitivesInv
<1>4. CallInv  BY DEF Init, CallInv
<1> QED  BY <1>1, <1>2, <1>3, <1>4 DEF Inv

LEMMA EditInv == ASSUME Inv, NEW f \in Files, Edit(f) PROVE Inv'
<1> USE DEF Inv, Edit
<1>1. /\ version' \in Stamps
      /\ version["ids"] <= version'["ids"] /\ version["manual"] <= version'["manual"]
      /\ version["ids"] \in Nat /\ version["manual"] \in Nat
      /\ version'["ids"] \in Nat /\ version'["manual"] \in Nat
  BY DEF HeapInv, Stamps, Files
<1>2. HeapInv'  BY <1>1 DEF HeapInv
<1>3. \A since \in Stamps, s \in States : Between(since, s) => Between(since, s)'
  <2> SUFFICES ASSUME NEW since \in Stamps, NEW s \in States, Between(since, s) PROVE Between(since, s)'
    OBVIOUS
  <2>1. s.ids \in Nat /\ s.manual \in Nat  BY DEF States
  <2> QED  BY <1>1, <2>1 DEF Between
<1>4. BundlesInv'
  <2> SUFFICES ASSUME NEW b \in bundles PROVE BundleOk(b)'
    BY DEF BundlesInv
  <2>1. BundleOk(b)  BY DEF BundlesInv
  <2>2. b.stamps \in Stamps  BY <2>1 DEF BundleOk, Bundles
  <2> QED  BY <1>3, <2>1, <2>2 DEF BundleOk
<1>5. CompiledInv'  BY DEF CompiledInv, Compiles, Kept
<1>6. PrimitivesInv'  BY DEF PrimitivesInv, Described, Kept
<1>7. CallInv'
  <2>1. (call # Idle => call.stamps["ids"] <= version["ids"] /\ call.stamps["manual"] <= version["manual"])'
    <3>1. CASE call = Idle  BY <3>1
    <3>2. CASE call # Idle
      <4>1. call.stamps \in Stamps  BY <3>2 DEF CallInv, AtIds, AtManual, AtBuild, AtResolve, AtDerived
      <4>2. call.stamps["ids"] \in Nat /\ call.stamps["manual"] \in Nat  BY <4>1 DEF Stamps, Files
      <4> QED  BY <1>1, <3>2, <4>2 DEF CallInv
    <3> QED  BY <3>1, <3>2
  <2>2. AtIds => AtIds'  BY DEF AtIds
  <2>3. AtManual => AtManual'  BY <1>1 DEF AtManual
  <2>4. AtBuild => AtBuild'  BY <1>1 DEF AtBuild
  <2>5. AtResolve => AtResolve'  BY <1>3 DEF AtResolve, Kept
  <2>6. AtDerived => AtDerived'  BY <1>3 DEF AtDerived, Kept
  <2> QED  BY <2>1, <2>2, <2>3, <2>4, <2>5, <2>6 DEF CallInv
<1> QED  BY <1>2, <1>4, <1>5, <1>6, <1>7

(* What survives a step that leaves the kept states where they are.        *)
LEMMA KeptStay ==
  ASSUME Inv, version' = version, bundles \subseteq bundles',
         \A x \in Kept : heap'[x] = heap[x]
  PROVE  /\ \A b \in bundles : BundleOk(b)'
         /\ \A e : Compiles(e) => Compiles(e)'
         /\ \A e : Described(e) => Described(e)'
<1>1. Kept \subseteq Kept'  BY DEF Kept
<1>2. ASSUME NEW b \in bundles PROVE BundleOk(b)'
  <2>1. b.addr \in Kept /\ BundleOk(b)  BY DEF Kept, Inv, BundlesInv
  <2> QED  BY <2>1 DEF BundleOk, Between
<1>3. ASSUME NEW e, Compiles(e) PROVE Compiles(e)'
  BY <1>1, <1>3 DEF Compiles
<1>4. ASSUME NEW e, Described(e) PROVE Described(e)'
  BY <1>1, <1>4 DEF Described
<1> QED  BY <1>2, <1>3, <1>4

(* A step that only moves the call on.                                     *)
LEMMA CallOnly ==
  ASSUME Inv, UNCHANGED <<version, heap, bundles, compiled, primitives>>
  PROVE  HeapInv' /\ BundlesInv' /\ CompiledInv' /\ PrimitivesInv'
<1>1. HeapInv'  BY DEF Inv, HeapInv
<1>2. \A x \in Kept : heap'[x] = heap[x]  OBVIOUS
<1>3. /\ \A b \in bundles : BundleOk(b)'
      /\ \A e : Compiles(e) => Compiles(e)'
      /\ \A e : Described(e) => Described(e)'
  BY <1>2, KeptStay
<1>4. BundlesInv'  BY <1>3 DEF BundlesInv
<1>5. CompiledInv'  BY <1>3 DEF Inv, CompiledInv
<1>6. PrimitivesInv'  BY <1>3 DEF Inv, PrimitivesInv
<1> QED  BY <1>1, <1>4, <1>5, <1>6

LEMMA IdleCall == ASSUME call' = Idle PROVE CallInv'
BY DEF CallInv

LEMMA Numbers ==
  ASSUME Inv
  PROVE  /\ version["ids"] \in Nat /\ version["manual"] \in Nat
         /\ \A st \in Stamps : st["ids"] \in Nat /\ st["manual"] \in Nat
BY DEF Inv, HeapInv, Stamps, Files

LEMMA AskHitInv == ASSUME Inv, NEW q \in Queries, AskHit(q) PROVE Inv'
<1>1. HeapInv' /\ BundlesInv' /\ CompiledInv' /\ PrimitivesInv'
  BY CallOnly DEF AskHit
<1>2. PICK b \in HitsFor(q) : call' = [pc |-> "resolve", query |-> q, stamps |-> version, addr |-> b.addr]
  BY DEF AskHit
<1>3. b \in bundles /\ b.stamps = version /\ b.mode = q.mode /\ b.owner = q.kind
  BY <1>2 DEF HitsFor
<1>4. BundleOk(b)  BY <1>3 DEF Inv, BundlesInv
<1>5. b.addr \in Kept /\ b.addr \in Addrs /\ q.kind \in Retaining  BY <1>3, <1>4 DEF Kept, BundleOk, Bundles
<1>6. version \in Stamps  BY DEF Inv, HeapInv
<1>7. AtResolve'
  <2>1. call' \in [pc : {"resolve"}, query : Queries, stamps : Stamps, addr : Addrs]  BY <1>2, <1>5, <1>6
  <2>2. call'.addr = b.addr /\ call'.query = q /\ call'.stamps = b.stamps  BY <1>2, <1>3
  <2>3. heap' = heap /\ version' = version /\ bundles' = bundles  BY DEF AskHit
  <2>4. Kept' = Kept  BY <2>3 DEF Kept
  <2> QED  BY <1>3, <1>4, <1>5, <2>1, <2>2, <2>3, <2>4 DEF AtResolve, BundleOk, Between
<1>8. call'.stamps["ids"] <= version'["ids"] /\ call'.stamps["manual"] <= version'["manual"]
  BY <1>2, Numbers DEF AskHit
<1> QED  BY <1>1, <1>7, <1>8 DEF Inv, CallInv

LEMMA AskMissInv == ASSUME Inv, NEW q \in Queries, AskMiss(q) PROVE Inv'
<1>1. HeapInv' /\ BundlesInv' /\ CompiledInv' /\ PrimitivesInv'
  BY CallOnly DEF AskMiss
<1>2. AtIds'  BY DEF AskMiss, AtIds, Inv, HeapInv
<1>3. call'.stamps["ids"] <= version'["ids"] /\ call'.stamps["manual"] <= version'["manual"]
  BY Numbers DEF AskMiss
<1> QED  BY <1>1, <1>2, <1>3 DEF Inv, CallInv

LEMMA ReadIdsInv == ASSUME Inv, ReadIds PROVE Inv'
<1>1. HeapInv' /\ BundlesInv' /\ CompiledInv' /\ PrimitivesInv'
  BY CallOnly DEF ReadIds
<1>2. AtIds /\ call # Idle
  BY DEF ReadIds, Inv, CallInv, AtManual, AtBuild, AtResolve, AtDerived, Idle
<1>3. call.stamps["ids"] <= version["ids"] /\ call.stamps["manual"] <= version["manual"]
  BY <1>2 DEF Inv, CallInv
<1>4. AtManual'
  BY <1>2, <1>3, Numbers DEF AtIds, AtManual, ReadIds
<1> QED  BY <1>1, <1>3, <1>4 DEF Inv, CallInv, ReadIds

LEMMA ReadManualInv == ASSUME Inv, ReadManual PROVE Inv'
<1>1. HeapInv' /\ BundlesInv' /\ CompiledInv' /\ PrimitivesInv'
  BY CallOnly DEF ReadManual
<1>2. AtManual /\ call # Idle
  BY DEF ReadManual, Inv, CallInv, AtIds, AtBuild, AtResolve, AtDerived, Idle
<1>3. call.stamps["ids"] <= version["ids"] /\ call.stamps["manual"] <= version["manual"]
  BY <1>2 DEF Inv, CallInv
<1>4. AtBuild'
  BY <1>2, <1>3, Numbers DEF AtManual, AtBuild, ReadManual
<1> QED  BY <1>1, <1>3, <1>4 DEF Inv, CallInv, ReadManual

LEMMA RejectInv == ASSUME Inv, Reject PROVE Inv'
<1>1. HeapInv' /\ BundlesInv' /\ CompiledInv' /\ PrimitivesInv'
  BY CallOnly DEF Reject
<1> QED  BY <1>1, IdleCall DEF Inv, Reject

LEMMA Resolves ==
  ASSUME Inv, call.pc = "resolve"
  PROVE  AtResolve /\ call # Idle
BY DEF Inv, CallInv, AtIds, AtManual, AtBuild, AtDerived, Idle

LEMMA FreeNotKept ==
  ASSUME Inv, NEW a \in FreeAddrs
  PROVE  a \in Addrs /\ a \notin Kept /\ heap[a] \notin States
<1>1. a \in Addrs /\ heap[a] = Freed  BY DEF FreeAddrs
<1>2. heap[a] \notin States
  <2>1. \A st \in States : st.live = TRUE  BY DEF States
  <2>2. Freed.live = FALSE  BY DEF Freed
  <2> QED  BY <1>1, <2>1, <2>2
<1>3. \A b \in bundles : heap[b.addr] \in States  BY DEF Inv, BundlesInv, BundleOk
<1> QED  BY <1>1, <1>2, <1>3 DEF Kept

LEMMA BuildInv == ASSUME Inv, NEW a \in FreeAddrs, Build(a) PROVE Inv'
<1>1. AtBuild /\ call # Idle
  BY DEF Build, Inv, CallInv, AtIds, AtManual, AtResolve, AtDerived, Idle
<1>2. a \in Addrs /\ a \notin Kept  BY FreeNotKept
<1> DEFINE st == State(call.ids, call.manual, call.query.mode, Unpatched)
<1>3. call.query \in Queries /\ call.query.mode \in STRING  BY <1>1, QueriesAssumption DEF Patches, AtBuild
<1>4. st \in States /\ st.patch = Unpatched /\ st.mode = call.query.mode
      /\ st.ids = call.ids /\ st.manual = call.manual
  <2>1. call.ids \in Nat /\ call.manual \in Nat  BY <1>1 DEF AtBuild
  <2>2. Unpatched \in Patches  BY DEF Patches
  <2>3. st = [live |-> TRUE, ids |-> call.ids, manual |-> call.manual,
              mode |-> call.query.mode, patch |-> Unpatched]
    BY DEF State
  <2> HIDE DEF st
  <2>4. st.live = TRUE  BY <2>3
  <2>5. st.ids = call.ids /\ st.manual = call.manual /\ st.mode = call.query.mode /\ st.patch = Unpatched
    BY <2>3
  <2>6. st \in States  BY <1>3, <2>1, <2>2, <2>3 DEF States
  <2> QED  BY <2>5, <2>6
<1>5. heap' = [heap EXCEPT ![a] = st]  BY DEF Build
<1> HIDE DEF st
<1>6. DOMAIN heap = Addrs  BY DEF Inv, HeapInv
<1>7. heap'[a] = st /\ \A x \in Addrs : x # a => heap'[x] = heap[x]  BY <1>2, <1>5, <1>6
<1>8. HeapInv'  BY <1>4, <1>5, <1>6, <1>7 DEF Inv, HeapInv, Build
<1>9. bundles \subseteq bundles' /\ version' = version  BY DEF Build
<1>10. Kept \subseteq Addrs  BY DEF Kept, Inv, BundlesInv, BundleOk, Bundles
<1>11. \A x \in Kept : heap'[x] = heap[x]  BY <1>2, <1>7, <1>10
<1>12. /\ \A b \in bundles : BundleOk(b)'
       /\ \A e : Compiles(e) => Compiles(e)'
       /\ \A e : Described(e) => Described(e)'
  BY <1>9, <1>11, KeptStay
<1>13. /\ call.stamps["ids"] <= st.ids /\ st.ids <= version'["ids"]
       /\ call.stamps["manual"] <= st.manual /\ st.manual <= version'["manual"]
  BY <1>1, <1>4, <1>9 DEF AtBuild
<1>14. BundlesInv'
  <2> SUFFICES ASSUME NEW b \in bundles', b \notin bundles PROVE BundleOk(b)'
    BY <1>12 DEF BundlesInv
  <2>1. /\ call.query.kind \in Retaining
        /\ b = [owner |-> call.query.kind, stamps |-> call.stamps, mode |-> call.query.mode, addr |-> a]
    BY DEF Build
  <2>2. b \in Bundles  BY <1>1, <1>2, <1>3, <2>1 DEF Bundles, AtBuild
  <2>3. b.addr = a /\ b.stamps = call.stamps /\ b.mode = call.query.mode  BY <2>1
  <2>4. heap'[b.addr] = st  BY <1>7, <2>3
  <2> QED  BY <1>4, <1>13, <2>2, <2>3, <2>4 DEF BundleOk, Between
<1>15. CompiledInv' /\ PrimitivesInv'
  BY <1>12 DEF Inv, CompiledInv, PrimitivesInv, Build
<1>16. call' = [pc |-> "resolve", query |-> call.query, stamps |-> call.stamps, addr |-> a]  BY DEF Build
<1>17. a \in Kept' <=> call.query.kind \in Retaining
  <2>1. CASE call.query.kind \in Retaining
    <3>1. [owner |-> call.query.kind, stamps |-> call.stamps, mode |-> call.query.mode, addr |-> a] \in bundles'
      BY <2>1 DEF Build
    <3> QED  BY <2>1, <3>1 DEF Kept
  <2>2. CASE call.query.kind \notin Retaining
    <3>1. bundles' = bundles  BY <2>2 DEF Build
    <3> QED  BY <1>2, <2>2, <3>1 DEF Kept
  <2> QED  BY <2>1, <2>2
<1>18. AtResolve'
  <2>1. call' \in [pc : {"resolve"}, query : Queries, stamps : Stamps, addr : Addrs]
    BY <1>1, <1>2, <1>16 DEF AtBuild
  <2>2. call'.addr = a /\ call'.query = call.query /\ call'.stamps = call.stamps  BY <1>16
  <2>3. heap'[call'.addr] = st  BY <1>7, <2>2
  <2> QED  BY <1>4, <1>13, <1>17, <2>1, <2>2, <2>3 DEF AtResolve, Between
<1>19. call'.stamps["ids"] <= version'["ids"] /\ call'.stamps["manual"] <= version'["manual"]
  BY <1>1, <1>9, <1>16 DEF Inv, CallInv
<1> QED  BY <1>8, <1>14, <1>15, <1>18, <1>19 DEF Inv, CallInv

LEMMA StatsHitInv == ASSUME Inv, StatsHit PROVE Inv'
<1>1. HeapInv' /\ BundlesInv' /\ CompiledInv' /\ PrimitivesInv'
  BY CallOnly DEF StatsHit
<1> QED  BY <1>1, IdleCall DEF Inv, StatsHit

LEMMA StatsMissInv == ASSUME Inv, StatsMiss PROVE Inv'
<1>1. AtResolve  BY Resolves DEF StatsMiss, At
<1>2. call.addr \in Kept  BY <1>1 DEF AtResolve, StatsMiss, At, Retaining
<1>3. HeapInv'  BY DEF Inv, HeapInv, StatsMiss
<1>4. /\ \A b \in bundles : BundleOk(b)'
      /\ \A e : Compiles(e) => Compiles(e)'
      /\ \A e : Described(e) => Described(e)'
  BY KeptStay DEF StatsMiss
<1>5. BundlesInv' /\ PrimitivesInv'  BY <1>4 DEF Inv, BundlesInv, PrimitivesInv, StatsMiss
<1>6. CompiledInv'
  <2> SUFFICES ASSUME NEW e \in compiled', e \notin compiled PROVE Compiles(e)'
    BY <1>4 DEF Inv, CompiledInv
  <2>1. e = [addr |-> call.addr, view |-> call.query.view, value |-> Value(heap[call.addr], call.query.view)]
    BY DEF StatsMiss
  <2>2. Compiles(e)  BY <1>2, <2>1 DEF Compiles
  <2> QED  BY <1>4, <2>2
<1> QED  BY <1>3, <1>5, <1>6, IdleCall DEF Inv, StatsMiss

LEMMA CheckpointInv == ASSUME Inv, Checkpoint PROVE Inv'
<1>1. AtResolve  BY Resolves DEF Checkpoint, At
<1>2. call.addr \notin Kept /\ call.addr \in Addrs  BY <1>1 DEF AtResolve, Checkpoint, At, Retaining
<1>3. HeapInv'  BY <1>2 DEF Inv, HeapInv, Checkpoint
<1>4. Kept \subseteq Addrs  BY DEF Kept, Inv, BundlesInv, BundleOk, Bundles
<1>5. \A x \in Kept : heap'[x] = heap[x]  BY <1>2, <1>4 DEF Checkpoint, Inv, HeapInv
<1>6. /\ \A b \in bundles : BundleOk(b)'
      /\ \A e : Compiles(e) => Compiles(e)'
      /\ \A e : Described(e) => Described(e)'
  BY <1>5, KeptStay DEF Checkpoint
<1>7. BundlesInv' /\ CompiledInv' /\ PrimitivesInv'
  BY <1>6 DEF Inv, BundlesInv, CompiledInv, PrimitivesInv, Checkpoint
<1> QED  BY <1>3, <1>7, IdleCall DEF Inv, Checkpoint

LEMMA BossHitInv == ASSUME Inv, BossHit PROVE Inv'
<1>1. HeapInv' /\ BundlesInv' /\ CompiledInv'
  <2>1. /\ \A b \in bundles : BundleOk(b)'
        /\ \A e : Compiles(e) => Compiles(e)'
    BY KeptStay DEF BossHit
  <2> QED  BY <2>1 DEF Inv, HeapInv, BundlesInv, CompiledInv, BossHit
<1>2. \A e : Described(e) => Described(e)'  BY KeptStay DEF BossHit
<1>3. PICK old : old = primitives  OBVIOUS
<1>4. old \in Seq(Entries)  BY <1>3 DEF Inv, PrimitivesInv
<1>5. /\ primitives' \in Seq(Entries)
      /\ Len(primitives') = Len(old)
      /\ \A i \in 1..Len(old) : \E j \in 1..Len(old) : primitives'[i] = old[j]
  <2>1. PICK k \in 1..Len(old) : primitives' = MoveToEnd(old, k)  BY <1>3 DEF BossHit
  <2>2. /\ MoveToEnd(old, k) \in Seq(Entries)
        /\ Len(MoveToEnd(old, k)) = Len(old)
        /\ \A i \in 1..Len(old) : \E j \in 1..Len(old) : MoveToEnd(old, k)[i] = old[j]
    BY <1>4, MoveKeeps
  <2> QED  BY <2>1, <2>2
<1>6. \A j \in 1..Len(old) : Described(old[j])  BY <1>3 DEF Inv, PrimitivesInv
<1>7. ASSUME NEW i \in 1..Len(primitives') PROVE Described(primitives[i])'
  <2>1. PICK j \in 1..Len(old) : primitives'[i] = old[j]  BY <1>5
  <2>2. PICK g : g = old[j]  OBVIOUS
  <2>3. Described(g)'  BY <1>2, <1>6, <2>2
  <2>4. primitives'[i] = g  BY <2>1, <2>2
  <2> QED  BY <2>3, <2>4
<1>8. PrimitivesInv'  BY <1>5, <1>7 DEF PrimitivesInv
<1> QED  BY <1>1, <1>8, IdleCall DEF Inv, BossHit

(* A described entry put into the primitives.                              *)
LEMMA InsertInv ==
  ASSUME Inv, NEW e \in Entries, Described(e)', primitives' = Insert(primitives, e),
         \A g : Described(g) => Described(g)'
  PROVE  PrimitivesInv'
<1>1. primitives \in Seq(Entries)  BY DEF Inv, PrimitivesInv
<1>2. PICK old : old = primitives  OBVIOUS
<1>3. /\ Insert(old, e) \in Seq(Entries)
      /\ \A i \in 1..Len(Insert(old, e)) : Insert(old, e)[i] = e \/ \E j \in 1..Len(old) : Insert(old, e)[i] = old[j]
  <2>1. old \in Seq(Entries)  BY <1>1, <1>2
  <2>2. Insert(old, e) \in Seq(Entries)  BY <2>1, InsertKeeps
  <2>3. ASSUME NEW i \in 1..Len(Insert(old, e))
        PROVE  Insert(old, e)[i] = e \/ \E j \in 1..Len(old) : Insert(old, e)[i] = old[j]
    BY <2>1, InsertKeeps
  <2> QED  BY <2>2, <2>3
<1>4. primitives' = Insert(old, e)  BY <1>2
<1>5. \A j \in 1..Len(old) : Described(old[j])  BY <1>2 DEF Inv, PrimitivesInv
<1>6. ASSUME NEW i \in 1..Len(primitives') PROVE Described(primitives[i])'
  <2>1. PICK g : g = primitives'[i]  OBVIOUS
  <2>2. CASE g = e  BY <2>1, <2>2
  <2>3. CASE g # e
    <3>1. PICK j \in 1..Len(old) : g = old[j]  BY <1>3, <1>4, <2>1, <2>3
    <3>2. Described(g)'  BY <1>5, <3>1
    <3> QED  BY <2>1, <3>2
  <2> QED  BY <2>2, <2>3
<1> QED  BY <1>3, <1>4, <1>6 DEF PrimitivesInv

LEMMA BossPlainInv == ASSUME Inv, BossPlain PROVE Inv'
<1>1. AtResolve  BY Resolves DEF BossPlain, BossMisses, At
<1>2. call.addr \in Kept /\ call.addr \in Addrs /\ heap[call.addr] \in States /\ heap[call.addr].patch = Unpatched
  BY <1>1 DEF AtResolve, BossPlain, BossMisses, At, Retaining
<1>3. /\ \A b \in bundles : BundleOk(b)'
      /\ \A e : Compiles(e) => Compiles(e)'
      /\ \A e : Described(e) => Described(e)'
  BY KeptStay DEF BossPlain
<1>4. HeapInv' /\ BundlesInv' /\ CompiledInv'
  BY <1>3 DEF Inv, HeapInv, BundlesInv, CompiledInv, BossPlain
<1> DEFINE e == [addr |-> call.addr, patch |-> call.query.patch, view |-> call.query.view,
                 value |-> Value(heap[call.addr], call.query.view)]
<1>5. primitives' = Insert(primitives, e)  BY DEF BossPlain, StorePrimitives
<1>6. call.query.view \in STRING /\ call.query.patch \in Patches /\ call.query.patch = Unpatched
  BY <1>1, QueriesAssumption DEF Patches, AtResolve, BossPlain
<1>7. e \in Entries  BY <1>2, <1>6 DEF Entries, Values, Value, States
<1>8. [heap[call.addr] EXCEPT !.patch = Unpatched] = heap[call.addr]  BY <1>2 DEF States
<1>9. Described(e)  BY <1>2, <1>6, <1>8 DEF Described
<1> HIDE DEF e
<1>10. PrimitivesInv'  BY <1>3, <1>5, <1>7, <1>9, InsertInv
<1> QED  BY <1>4, <1>10, IdleCall DEF Inv, BossPlain, StorePrimitives

LEMMA DeriveInv == ASSUME Inv, NEW a \in FreeAddrs, Derive(a) PROVE Inv'
<1>1. AtResolve /\ call # Idle  BY Resolves DEF Derive, BossMisses, At
<1>2. a \in Addrs /\ a \notin Kept /\ heap[a] \notin States  BY FreeNotKept
<1>3. call.query.kind = "boss" /\ call.addr \in Kept /\ call.addr \in Addrs /\ call.addr # a
  BY <1>1, <1>2 DEF AtResolve, Derive, BossMisses, At, Retaining
<1> DEFINE st == [heap[call.addr] EXCEPT !.patch = call.query.patch]
<1>4. call.query.patch \in Patches  BY <1>1, QueriesAssumption DEF Patches, AtResolve
<1>5. st \in States  BY <1>1, <1>4 DEF AtResolve, States
<1>6. heap' = [heap EXCEPT ![a] = st]  BY DEF Derive
<1> HIDE DEF st
<1>7. DOMAIN heap = Addrs  BY DEF Inv, HeapInv
<1>8. heap'[a] = st /\ \A x \in Addrs : x # a => heap'[x] = heap[x]  BY <1>2, <1>6, <1>7
<1>9. HeapInv'  BY <1>5, <1>6, <1>7, <1>8 DEF Inv, HeapInv, Derive
<1>10. Kept \subseteq Addrs  BY DEF Kept, Inv, BundlesInv, BundleOk, Bundles
<1>11. \A x \in Kept : heap'[x] = heap[x]  BY <1>2, <1>8, <1>10
<1>12. /\ \A b \in bundles : BundleOk(b)'
       /\ \A e : Compiles(e) => Compiles(e)'
       /\ \A e : Described(e) => Described(e)'
  BY <1>11, KeptStay DEF Derive
<1>13. BundlesInv' /\ CompiledInv' /\ PrimitivesInv'
  BY <1>12 DEF Inv, BundlesInv, CompiledInv, PrimitivesInv, Derive
<1>14. call' = [pc |-> "derived", query |-> call.query, stamps |-> call.stamps, base |-> call.addr, addr |-> a]
  BY DEF Derive
<1>15. AtDerived'
  <2>1. call' \in [pc : {"derived"}, query : Queries, stamps : Stamps, base : Addrs, addr : Addrs]
    BY <1>1, <1>2, <1>14 DEF AtResolve
  <2>2. /\ call'.addr = a /\ call'.base = call.addr /\ call'.query = call.query /\ call'.stamps = call.stamps
    BY <1>14
  <2>3. heap'[call.addr] = heap[call.addr]  BY <1>3, <1>11
  <2>4. Kept' = Kept /\ version' = version  BY DEF Derive, Kept
  <2>5. heap'[a] = [heap'[call.addr] EXCEPT !.patch = call.query.patch]  BY <1>8, <2>3 DEF st
  <2> QED  BY <1>1, <1>2, <1>3, <2>1, <2>2, <2>3, <2>4, <2>5 DEF AtDerived, AtResolve, Between
<1>16. call'.stamps["ids"] <= version'["ids"] /\ call'.stamps["manual"] <= version'["manual"]
  BY <1>1, <1>14 DEF Inv, CallInv, Derive
<1> QED  BY <1>9, <1>13, <1>15, <1>16 DEF Inv, CallInv

LEMMA BossDerivedInv == ASSUME Inv, BossDerived PROVE Inv'
<1>1. AtDerived
  BY DEF BossDerived, Inv, CallInv, AtIds, AtManual, AtBuild, AtResolve, Idle
<1>2. call.addr \notin Kept /\ call.addr \in Addrs /\ call.base \in Kept /\ call.base \in Addrs
  BY <1>1 DEF AtDerived
<1>3. HeapInv'  BY <1>2 DEF Inv, HeapInv, BossDerived
<1>4. Kept \subseteq Addrs  BY DEF Kept, Inv, BundlesInv, BundleOk, Bundles
<1>5. \A x \in Kept : heap'[x] = heap[x]  BY <1>2, <1>4 DEF BossDerived, Inv, HeapInv
<1>6. /\ \A b \in bundles : BundleOk(b)'
      /\ \A e : Compiles(e) => Compiles(e)'
      /\ \A e : Described(e) => Described(e)'
  BY <1>5, KeptStay DEF BossDerived
<1>7. BundlesInv' /\ CompiledInv'
  BY <1>6 DEF Inv, BundlesInv, CompiledInv, BossDerived
<1> DEFINE e == [addr |-> call.base, patch |-> call.query.patch, view |-> call.query.view,
                 value |-> Value(heap[call.addr], call.query.view)]
<1>8. primitives' = Insert(primitives, e)  BY DEF BossDerived, StorePrimitives
<1>9. call.query.view \in STRING /\ call.query.patch \in Patches
  BY <1>1, QueriesAssumption DEF Patches, AtDerived
<1>10. heap[call.addr] \in States  BY <1>1, <1>9 DEF AtDerived, States
<1>11. e \in Entries  BY <1>2, <1>9, <1>10 DEF Entries, Values, Value, States
<1>12. Described(e)  BY <1>1, <1>2 DEF Described, AtDerived
<1> HIDE DEF e
<1>13. PrimitivesInv'  BY <1>6, <1>8, <1>11, <1>12, InsertInv
<1> QED  BY <1>3, <1>7, <1>13, IdleCall DEF Inv, BossDerived, StorePrimitives

LEMMA NextInv == Inv /\ [Next]_vars => Inv'
<1> SUFFICES ASSUME Inv, [Next]_vars PROVE Inv'  OBVIOUS
<1>1. Offered \subseteq FreeAddrs  BY DEF Offered
<1>2. ASSUME NEW f \in Files, Edit(f) PROVE Inv'  BY <1>2, EditInv
<1>3. ASSUME NEW q \in Queries, AskHit(q) PROVE Inv'  BY <1>3, AskHitInv
<1>4. ASSUME NEW q \in Queries, AskMiss(q) PROVE Inv'  BY <1>4, AskMissInv
<1>5. CASE ReadIds  BY <1>5, ReadIdsInv
<1>6. CASE ReadManual  BY <1>6, ReadManualInv
<1>7. CASE Reject  BY <1>7, RejectInv
<1>8. ASSUME NEW a \in Offered, Build(a) PROVE Inv'  BY <1>1, <1>8, BuildInv
<1>9. CASE StatsHit  BY <1>9, StatsHitInv
<1>10. CASE StatsMiss  BY <1>10, StatsMissInv
<1>11. CASE Checkpoint  BY <1>11, CheckpointInv
<1>12. CASE BossHit  BY <1>12, BossHitInv
<1>13. CASE BossPlain  BY <1>13, BossPlainInv
<1>14. ASSUME NEW a \in Offered, Derive(a) PROVE Inv'  BY <1>1, <1>14, DeriveInv
<1>15. CASE BossDerived  BY <1>15, BossDerivedInv
<1>16. CASE UNCHANGED vars
  <2>1. HeapInv' /\ BundlesInv' /\ CompiledInv' /\ PrimitivesInv'  BY <1>16, CallOnly DEF vars
  <2>2. CallInv'
    BY <1>16 DEF Inv, CallInv, AtIds, AtManual, AtBuild, AtResolve, AtDerived, Between, Kept, vars
  <2> QED  BY <2>1, <2>2 DEF Inv
<1> QED
  BY <1>2, <1>3, <1>4, <1>5, <1>6, <1>7, <1>8, <1>9, <1>10, <1>11, <1>12, <1>13, <1>14, <1>15, <1>16
  DEF Next, Step

(* The invariant of the caches: types, what each entry describes, and what *)
(* the call in progress may rely on.                                       *)
THEOREM CachesInvariant == Spec => []Inv
<1> QED  BY InitInv, NextInv, PTL DEF Spec

----------------------------------------------------------------------------

LEMMA Unchanging == ASSUME NEW s \in States, s.patch = Unpatched PROVE [s EXCEPT !.patch = Unpatched] = s
BY DEF States

LEMMA KeptAlive ==
  ASSUME Inv, NEW a \in Kept
  PROVE  heap[a] \in States /\ heap[a].live /\ heap[a].patch = Unpatched
<1>1. PICK b \in bundles : b.addr = a  BY DEF Kept
<1>2. heap[a] \in States /\ heap[a].patch = Unpatched  BY <1>1 DEF Inv, BundlesInv, BundleOk
<1>3. \A st \in States : st.live = TRUE  BY DEF States
<1> QED  BY <1>2, <1>3

(* The three dictionaries keyed by id(account_state) hold no reference, so *)
(* a state that died would hand its entries to the next one at its address.*)
(* It never happens: every address in a key is that of a state a bundle    *)
(* keeps (app/pipeline.py:6393, 3260).                                     *)
THEOREM EntriesStayValid == Spec => []EntriesDescribeLiveStates
<1>1. Inv => EntriesDescribeLiveStates
  <2> SUFFICES ASSUME Inv PROVE EntriesDescribeLiveStates  OBVIOUS
  <2>1. ASSUME NEW e \in compiled PROVE e.addr \in Kept /\ Holds(e, Unpatched)
    <3>1. Compiles(e)  BY DEF Inv, CompiledInv
    <3>2. e.addr \in Kept /\ e.value = Value(heap[e.addr], e.view)  BY <3>1 DEF Compiles
    <3>3. heap[e.addr] \in States /\ heap[e.addr].live /\ heap[e.addr].patch = Unpatched
      BY <3>2, KeptAlive
    <3>4. [heap[e.addr] EXCEPT !.patch = Unpatched] = heap[e.addr]  BY <3>3, Unchanging
    <3> QED  BY <3>2, <3>3, <3>4 DEF Holds
  <2>2. ASSUME NEW i \in 1..Len(primitives)
        PROVE  primitives[i].addr \in Kept /\ Holds(primitives[i], primitives[i].patch)
    <3>1. Described(primitives[i])  BY DEF Inv, PrimitivesInv
    <3>2. heap[primitives[i].addr].live  BY <3>1, KeptAlive DEF Described
    <3> QED  BY <3>1, <3>2 DEF Described, Holds
  <2> QED  BY <2>1, <2>2 DEF EntriesDescribeLiveStates
<1> QED  BY <1>1, CachesInvariant, PTL

(* A bundle is stored under stamps taken before its files were read, and   *)
(* is still never older than they are (app/pipeline.py:11749-11772).       *)
THEOREM BundlesStayCurrent == Spec => []BundlesNotOlderThanKey
<1>1. Inv => BundlesNotOlderThanKey
  BY DEF Inv, BundlesInv, BundleOk, Between, BundlesNotOlderThanKey
<1> QED  BY <1>1, CachesInvariant, PTL

----------------------------------------------------------------------------
(* Keys are unique.  Between the lookup that missed and the store nothing  *)
(* is stored under the same key, since a process serves one call at a time.*)

Same(e, g) == e.addr = g.addr /\ e.patch = g.patch /\ e.view = g.view
Distinct(s) == \A i, j \in 1..Len(s) : Same(s[i], s[j]) => i = j

CompiledUnique == \A e, g \in compiled : (e.addr = g.addr /\ e.view = g.view) => e = g
BundlesUnique ==
  \A b, c \in bundles : (b.owner = c.owner /\ b.stamps = c.stamps /\ b.mode = c.mode) => b = c
StillMissing ==
  /\ call.pc \in {"ids", "manual", "build"} =>
        \A b \in bundles :
           ~(b.owner = call.query.kind /\ b.stamps = call.stamps /\ b.mode = call.query.mode)
  /\ call.pc = "derived" =>
        \A i \in 1..Len(primitives) : ~SameKey(primitives[i], call.base, call.query)
UniqueInv == CompiledUnique /\ BundlesUnique /\ Distinct(primitives) /\ StillMissing

LEMMA InsertDistinct ==
  ASSUME NEW s \in Seq(Entries), NEW e \in Entries, Distinct(s),
         \A i \in 1..Len(s) : ~Same(s[i], e)
  PROVE  Distinct(Insert(s, e))
<1>1. \A i \in 1..Len(s) : ~Same(e, s[i])  BY DEF Same
<1>2. CASE Len(s) < LruSize
  <2>1. Insert(s, e) = Append(s, e)  BY <1>2 DEF Insert
  <2>2. /\ Len(Append(s, e)) = Len(s) + 1
        /\ \A i \in 1..Len(s) : Append(s, e)[i] = s[i]
        /\ Append(s, e)[Len(s) + 1] = e
    OBVIOUS
  <2> DEFINE r == Append(s, e)
  <2>3. \A i \in 1..Len(r) : i \in 1..Len(s) \/ i = Len(s) + 1  BY <2>2
  <2> HIDE DEF r
  <2>4. ASSUME NEW i \in 1..Len(r), NEW j \in 1..Len(r), Same(r[i], r[j]) PROVE i = j
    <3>1. CASE i \in 1..Len(s) /\ j \in 1..Len(s)
      BY <2>2, <2>4, <3>1 DEF Distinct, r
    <3>2. CASE i \in 1..Len(s) /\ j = Len(s) + 1  BY <2>2, <2>4, <3>2 DEF r
    <3>3. CASE i = Len(s) + 1 /\ j \in 1..Len(s)  BY <1>1, <2>2, <2>4, <3>3 DEF r
    <3> QED  BY <2>3, <3>1, <3>2, <3>3
  <2> QED  BY <2>1, <2>4 DEF Distinct, r
<1>3. CASE ~(Len(s) < LruSize)
  <2>1. Insert(s, e) = Append(Tail(s), e)  BY <1>3 DEF Insert
  <2>2. s # <<>>  BY <1>3, SizeAssumption
  <2>3. /\ Tail(s) \in Seq(Entries)
        /\ Len(Tail(s)) = Len(s) - 1
        /\ \A i \in 1..Len(s) - 1 : Tail(s)[i] = s[i + 1]
    BY <2>2
  <2> DEFINE r == Append(Tail(s), e)
  <2>4. /\ Len(r) = Len(s)
        /\ \A i \in 1..Len(s) - 1 : r[i] = s[i + 1] /\ i + 1 \in 1..Len(s)
        /\ r[Len(s)] = e
    BY <2>3
  <2> HIDE DEF r
  <2>5. \A i \in 1..Len(r) : i \in 1..Len(s) - 1 \/ i = Len(s)  BY <2>4
  <2>6. ASSUME NEW i \in 1..Len(r), NEW j \in 1..Len(r), Same(r[i], r[j]) PROVE i = j
    <3>1. CASE i \in 1..Len(s) - 1 /\ j \in 1..Len(s) - 1
      <4>1. i + 1 = j + 1  BY <2>4, <2>6, <3>1 DEF Distinct
      <4> QED  BY <4>1
    <3>2. CASE i \in 1..Len(s) - 1 /\ j = Len(s)  BY <2>4, <2>6, <3>2
    <3>3. CASE i = Len(s) /\ j \in 1..Len(s) - 1  BY <1>1, <2>4, <2>6, <3>3
    <3> QED  BY <2>5, <3>1, <3>2, <3>3
  <2> QED  BY <2>1, <2>6 DEF Distinct, r
<1> QED  BY <1>2, <1>3

LEMMA MoveDistinct ==
  ASSUME NEW s \in Seq(Entries), NEW k \in 1..Len(s), Distinct(s)
  PROVE  Distinct(MoveToEnd(s, k))
<1> DEFINE p == [i \in 1..Len(s) |-> IF i < k THEN i ELSE IF i < Len(s) THEN i + 1 ELSE k]
<1>1. \A i \in 1..Len(s) : p[i] \in 1..Len(s)  OBVIOUS
<1>2. \A i, j \in 1..Len(s) : p[i] = p[j] => i = j  OBVIOUS
<1>3. \A i \in 1..Len(s) : MoveToEnd(s, k)[i] = s[p[i]]  BY DEF MoveToEnd
<1>4. Len(MoveToEnd(s, k)) = Len(s)  BY MoveKeeps
<1> HIDE DEF p
<1> QED  BY <1>1, <1>2, <1>3, <1>4 DEF Distinct

LEMMA CallHasPc ==
  ASSUME Inv
  PROVE  /\ call.pc = "idle" => call = Idle
         /\ call.pc = "ids" => AtIds
         /\ call.pc = "manual" => AtManual
         /\ call.pc = "build" => AtBuild
         /\ call.pc = "resolve" => AtResolve
         /\ call.pc = "derived" => AtDerived
BY DEF Inv, CallInv, AtIds, AtManual, AtBuild, AtResolve, AtDerived, Idle

LEMMA StoreDistinct ==
  ASSUME Inv, UniqueInv, NEW base \in Addrs, NEW a, heap[a] \in States,
         call.query \in Queries, StorePrimitives(base, a),
         \A i \in 1..Len(primitives) : ~SameKey(primitives[i], base, call.query)
  PROVE  Distinct(primitives')
<1> DEFINE e == [addr |-> base, patch |-> call.query.patch, view |-> call.query.view,
                 value |-> Value(heap[a], call.query.view)]
<1>1. call.query.view \in STRING /\ call.query.patch \in Patches  BY QueriesAssumption DEF Patches
<1>2. e \in Entries  BY <1>1 DEF Entries, Values, Value, States
<1>3. \A i \in 1..Len(primitives) : ~Same(primitives[i], e)  BY DEF Same, SameKey
<1>4. primitives' = Insert(primitives, e)  BY DEF StorePrimitives
<1>5. primitives \in Seq(Entries)  BY DEF Inv, PrimitivesInv
<1> HIDE DEF e
<1> QED  BY <1>2, <1>3, <1>4, <1>5, InsertDistinct DEF UniqueInv

LEMMA NextUnique == Inv /\ UniqueInv /\ [Next]_vars => UniqueInv'
<1> SUFFICES ASSUME Inv, UniqueInv, [Next]_vars PROVE UniqueInv'  OBVIOUS
<1> USE DEF UniqueInv
<1>1. ASSUME UNCHANGED <<compiled, bundles, primitives>>,
             \/ call' = call
             \/ call'.pc \in {"manual", "build"} /\ call.pc \in {"ids", "manual"}
                /\ call'.query = call.query /\ call'.stamps = call.stamps
             \/ call'.pc \in {"idle", "resolve"}
      PROVE  UniqueInv'
  <2>1. CompiledUnique' /\ BundlesUnique' /\ Distinct(primitives')
    BY <1>1 DEF CompiledUnique, BundlesUnique
  <2>2. StillMissing'
    <3>1. CASE call' = call  BY <1>1, <3>1 DEF StillMissing, SameKey
    <3>2. CASE call'.pc \in {"idle", "resolve"}  BY <3>2 DEF StillMissing
    <3>3. CASE /\ call'.pc \in {"manual", "build"} /\ call.pc \in {"ids", "manual"}
               /\ call'.query = call.query /\ call'.stamps = call.stamps
      BY <1>1, <3>3 DEF StillMissing
    <3> QED  BY <1>1, <3>1, <3>2, <3>3
  <2> QED  BY <2>1, <2>2
<1>2. ASSUME NEW f \in Files, Edit(f) PROVE UniqueInv'  BY <1>1, <1>2 DEF Edit
<1>3. ASSUME NEW q \in Queries, AskHit(q) PROVE UniqueInv'
  <2>1. call'.pc = "resolve"  BY <1>3 DEF AskHit
  <2> QED  BY <1>1, <1>3, <2>1 DEF AskHit
<1>4. ASSUME NEW q \in Queries, AskMiss(q) PROVE UniqueInv'
  <2>1. call' = [pc |-> "ids", query |-> q, stamps |-> version]
        /\ UNCHANGED <<compiled, bundles, primitives>>
    BY <1>4 DEF AskMiss
  <2>2. \A b \in bundles : ~(b.owner = q.kind /\ b.stamps = version /\ b.mode = q.mode)
    BY <1>4 DEF AskMiss, HitsFor
  <2>3. StillMissing'  BY <2>1, <2>2 DEF StillMissing
  <2> QED  BY <2>1, <2>3 DEF CompiledUnique, BundlesUnique
<1>5. CASE ReadIds
  <2>1. call'.pc = "manual" /\ call'.query = call.query /\ call'.stamps = call.stamps
    BY <1>5 DEF ReadIds
  <2> QED  BY <1>1, <1>5, <2>1 DEF ReadIds
<1>6. CASE ReadManual
  <2>1. call'.pc = "build" /\ call'.query = call.query /\ call'.stamps = call.stamps
    BY <1>6 DEF ReadManual
  <2> QED  BY <1>1, <1>6, <2>1 DEF ReadManual
<1>7. CASE Reject  BY <1>1, <1>7 DEF Reject, Idle
<1>8. ASSUME NEW a \in Offered, Build(a) PROVE UniqueInv'
  <2>1. call'.pc = "resolve" /\ UNCHANGED <<compiled, primitives>>  BY <1>8 DEF Build
  <2>2. StillMissing' /\ CompiledUnique' /\ Distinct(primitives')
    BY <2>1 DEF StillMissing, CompiledUnique
  <2> DEFINE new == [owner |-> call.query.kind, stamps |-> call.stamps, mode |-> call.query.mode, addr |-> a]
  <2>3. bundles' = bundles \/ bundles' = bundles \union {new}  BY <1>8 DEF Build
  <2>4. \A b \in bundles : ~(b.owner = new.owner /\ b.stamps = new.stamps /\ b.mode = new.mode)
    BY <1>8 DEF StillMissing, Build
  <2> HIDE DEF new
  <2>5. BundlesUnique'  BY <2>3, <2>4 DEF BundlesUnique
  <2> QED  BY <2>2, <2>5
<1>9. CASE StatsHit  BY <1>1, <1>9 DEF StatsHit, Idle
<1>10. CASE StatsMiss
  <2>1. call' = Idle /\ UNCHANGED <<bundles, primitives>>  BY <1>10 DEF StatsMiss
  <2>2. StillMissing' /\ BundlesUnique' /\ Distinct(primitives')
    BY <2>1 DEF StillMissing, BundlesUnique, Idle
  <2> DEFINE new == [addr |-> call.addr, view |-> call.query.view,
                     value |-> Value(heap[call.addr], call.query.view)]
  <2>3. compiled' = compiled \union {new}  BY <1>10 DEF StatsMiss
  <2>4. \A e \in compiled : ~(e.addr = new.addr /\ e.view = new.view)
    BY <1>10 DEF StatsMiss, CompiledFor
  <2> HIDE DEF new
  <2>5. CompiledUnique'  BY <2>3, <2>4 DEF CompiledUnique
  <2> QED  BY <2>2, <2>5
<1>11. CASE Checkpoint  BY <1>1, <1>11 DEF Checkpoint, Idle
<1>12. CASE BossHit
  <2>1. call' = Idle /\ UNCHANGED <<bundles, compiled>>  BY <1>12 DEF BossHit
  <2>2. StillMissing' /\ BundlesUnique' /\ CompiledUnique'
    BY <2>1 DEF StillMissing, BundlesUnique, CompiledUnique, Idle
  <2>3. PICK i \in 1..Len(primitives) : primitives' = MoveToEnd(primitives, i)  BY <1>12 DEF BossHit
  <2>4. primitives \in Seq(Entries)  BY DEF Inv, PrimitivesInv
  <2>5. Distinct(primitives')  BY <2>3, <2>4, MoveDistinct
  <2> QED  BY <2>2, <2>5
<1>13. CASE BossPlain
  <2>1. call' = Idle /\ UNCHANGED <<bundles, compiled>>  BY <1>13 DEF BossPlain, StorePrimitives
  <2>2. StillMissing' /\ BundlesUnique' /\ CompiledUnique'
    BY <2>1 DEF StillMissing, BundlesUnique, CompiledUnique, Idle
  <2>3. AtResolve  BY <1>13, CallHasPc DEF BossPlain, BossMisses, At
  <2>4. Distinct(primitives')  BY <1>13, <2>3, StoreDistinct DEF BossPlain, BossMisses, AtResolve
  <2> QED  BY <2>2, <2>4
<1>14. ASSUME NEW a \in Offered, Derive(a) PROVE UniqueInv'
  <2>1. /\ call' = [pc |-> "derived", query |-> call.query, stamps |-> call.stamps,
                    base |-> call.addr, addr |-> a]
        /\ UNCHANGED <<bundles, compiled, primitives>>
    BY <1>14 DEF Derive
  <2>2. \A i \in 1..Len(primitives) : ~SameKey(primitives[i], call.addr, call.query)
    BY <1>14 DEF Derive, BossMisses
  <2>3. StillMissing'  BY <2>1, <2>2 DEF StillMissing, SameKey
  <2> QED  BY <2>1, <2>3 DEF CompiledUnique, BundlesUnique
<1>15. CASE BossDerived
  <2>1. call' = Idle /\ UNCHANGED <<bundles, compiled>>  BY <1>15 DEF BossDerived, StorePrimitives
  <2>2. StillMissing' /\ BundlesUnique' /\ CompiledUnique'
    BY <2>1 DEF StillMissing, BundlesUnique, CompiledUnique, Idle
  <2>3. AtDerived  BY <1>15, CallHasPc DEF BossDerived
  <2>4. call.query.patch \in Patches  BY <2>3, QueriesAssumption DEF AtDerived, Patches
  <2>5. heap[call.addr] \in States  BY <2>3, <2>4 DEF AtDerived, States
  <2>6. \A i \in 1..Len(primitives) : ~SameKey(primitives[i], call.base, call.query)
    BY <1>15 DEF BossDerived, StillMissing
  <2>7. Distinct(primitives')  BY <1>15, <2>3, <2>5, <2>6, StoreDistinct DEF BossDerived, AtDerived
  <2> QED  BY <2>2, <2>7
<1>16. CASE UNCHANGED vars  BY <1>1, <1>16 DEF vars
<1> QED
  BY <1>2, <1>3, <1>4, <1>5, <1>6, <1>7, <1>8, <1>9, <1>10, <1>11, <1>12, <1>13, <1>14, <1>15, <1>16
  DEF Next, Step

(* No cache ever holds two entries under one key, whatever is evicted and  *)
(* moved in between (app/pipeline.py:6410-6427, 11764-11825).              *)
THEOREM KeysStayUnique == Spec => []KeysAreUnique
<1>1. Init => UniqueInv
  <2> SUFFICES ASSUME Init PROVE UniqueInv  OBVIOUS
  <2>1. Len(primitives) = 0  BY DEF Init
  <2>2. Distinct(primitives)  BY <2>1 DEF Distinct
  <2> QED  BY <2>2 DEF Init, UniqueInv, CompiledUnique, BundlesUnique, StillMissing, Idle
<1>2. UniqueInv => KeysAreUnique
  BY DEF UniqueInv, KeysAreUnique, CompiledUnique, BundlesUnique, Distinct, Same, SameKey
<1> QED  BY <1>1, <1>2, CachesInvariant, NextUnique, PTL DEF Spec

\* The caches are sound: entries describe live states, keys are unique, and a
\* bundle is never older than its key.
THEOREM CachesStaySound == Spec => []CachesSound
BY EntriesStayValid, KeysStayUnique, BundlesStayCurrent, PTL DEF CachesSound

----------------------------------------------------------------------------
(* The caches implement InputPromise.                                      *)

LEMMA Tells ==
  ASSUME Inv, call # Idle, call' = Idle, version' = version,
         NEW s \in States, Between(call.stamps, s),
         s.mode = call.query.mode, s.patch = call.query.patch,
         reply' = Value(s, call.query.view)
  PROVE  Promise!Tell
<1>1. s.ids \in Nat /\ s.manual \in Nat  BY DEF States
<1>2. call.stamps \in Stamps
  BY DEF Inv, CallInv, AtIds, AtManual, AtBuild, AtResolve, AtDerived
<1>3. s.ids \in call.stamps["ids"]..version["ids"] /\ s.manual \in call.stamps["manual"]..version["manual"]
  BY <1>1, <1>2, Numbers DEF Between
<1> DEFINE seen == [f \in Promise!Files |-> IF f = "ids" THEN s.ids ELSE s.manual]
<1>4. seen["ids"] = s.ids /\ seen["manual"] = s.manual  BY DEF Promise!Files
<1> HIDE DEF seen
<1>5. Promise!Answer(call.query, seen) = Value(s, call.query.view)
  BY <1>4 DEF Promise!Answer, Value
<1>6. reply' = Promise!Answer(call.query, [f \in Promise!Files |-> IF f = "ids" THEN s.ids ELSE s.manual])
  BY <1>5 DEF seen
<1>7. Promise!NoQuestion = [open |-> FALSE]  BY DEF Promise!NoQuestion
<1> DEFINE given == [open |-> TRUE, query |-> call.query, since |-> call.stamps]
<1>8. given # [open |-> FALSE]
  <2>1. given.open = TRUE /\ [open |-> FALSE].open = FALSE  OBVIOUS
  <2> QED  BY <2>1
<1>9. given.query = call.query /\ given.since = call.stamps  OBVIOUS
<1> HIDE DEF given
<1>10. (IF call = Idle THEN [open |-> FALSE]
        ELSE [open |-> TRUE, query |-> call.query, since |-> call.stamps]) = given
  BY DEF given
<1> QED  BY <1>3, <1>6, <1>7, <1>8, <1>9, <1>10 DEF Promise!Tell

Open == IF call = Idle THEN [open |-> FALSE]
        ELSE [open |-> TRUE, query |-> call.query, since |-> call.stamps]

(* Moving on within a call leaves the question, the answer and the files.  *)
LEMMA Stutters ==
  ASSUME call # Idle, call' # Idle, call'.query = call.query, call'.stamps = call.stamps,
         version' = version, reply' = reply
  PROVE  UNCHANGED Promise!pvars
<1>1. Open' = Open  BY DEF Open
<1> QED  BY <1>1 DEF Promise!pvars, Open

LEMMA Asks ==
  ASSUME NEW q \in Queries, call = Idle, call' # Idle, call'.query = q, call'.stamps = version,
         version' = version, reply' = NoReply
  PROVE  Promise!Ask(q)
BY DEF Promise!Ask, Promise!NoQuestion, Promise!NoReply, NoReply

LEMMA Kinded ==
  ASSUME Inv, call # Idle
  PROVE  /\ call.query \in Queries
         /\ call.query.kind # "boss" => call.query.patch = Unpatched
BY QueriesAssumption DEF Inv, CallInv, AtIds, AtManual, AtBuild, AtResolve, AtDerived

LEMMA StepImplements == Inv /\ [Next]_vars => [Promise!PNext]_(Promise!pvars)
<1> SUFFICES ASSUME Inv, [Next]_vars PROVE Promise!PNext \/ UNCHANGED Promise!pvars
  OBVIOUS
<1>1. ASSUME NEW f \in Files, Edit(f) PROVE Promise!Edit(f) /\ f \in Promise!Files
  BY <1>1 DEF Edit, Promise!Edit, Files, Promise!Files
<1>2. ASSUME NEW q \in Queries, AskHit(q) PROVE Promise!Ask(q)
  <2>1. PICK b \in HitsFor(q) : call' = [pc |-> "resolve", query |-> q, stamps |-> version, addr |-> b.addr]
    BY <1>2 DEF AskHit
  <2>2. call'.pc = "resolve" /\ Idle.pc = "idle"  BY <2>1 DEF Idle
  <2> QED  BY <1>2, <2>1, <2>2, Asks DEF AskHit
<1>3. ASSUME NEW q \in Queries, AskMiss(q) PROVE Promise!Ask(q)
  <2>1. call' = [pc |-> "ids", query |-> q, stamps |-> version]  BY <1>3 DEF AskMiss
  <2>2. call'.pc = "ids" /\ Idle.pc = "idle"  BY <2>1 DEF Idle
  <2> QED  BY <1>3, <2>1, <2>2, Asks DEF AskMiss
<1>4. CASE ReadIds
  <2>1. call # Idle /\ call' # Idle  BY <1>4 DEF ReadIds, Idle
  <2> QED  BY <1>4, <2>1, Stutters DEF ReadIds
<1>5. CASE ReadManual
  <2>1. call # Idle /\ call' # Idle  BY <1>5 DEF ReadManual, Idle
  <2> QED  BY <1>5, <2>1, Stutters DEF ReadManual
<1>6. CASE Reject
  <2>1. call # Idle /\ call' = Idle  BY <1>6 DEF Reject, Idle
  <2>2. Open # [open |-> FALSE] /\ Open' = [open |-> FALSE]
    <3>1. CASE Open = [open |-> FALSE]
      <4>1. Open.open = TRUE  BY <2>1 DEF Open
      <4> QED  BY <3>1, <4>1
    <3> QED  BY <2>1, <3>1 DEF Open
  <2>3. Promise!Fail
    BY <1>6, <2>2 DEF Reject, Promise!Fail, Promise!NoQuestion, Promise!Failure, Failure, Open
  <2> QED  BY <2>3 DEF Promise!PNext
<1>7. ASSUME NEW a \in Offered, Build(a) PROVE UNCHANGED Promise!pvars
  <2>1. call # Idle /\ call' # Idle  BY <1>7 DEF Build, Idle
  <2> QED  BY <1>7, <2>1, Stutters DEF Build
<1>8. ASSUME NEW a \in Offered, Derive(a) PROVE UNCHANGED Promise!pvars
  <2>1. call # Idle /\ call' # Idle  BY <1>8 DEF Derive, BossMisses, At, Idle
  <2> QED  BY <1>8, <2>1, Stutters DEF Derive
<1>9. CASE call.pc = "resolve" /\ (StatsMiss \/ Checkpoint \/ BossPlain)
  <2>1. AtResolve /\ call # Idle  BY <1>9, Resolves
  <2>2. heap[call.addr] \in States /\ Between(call.stamps, heap[call.addr])
        /\ heap[call.addr].mode = call.query.mode /\ heap[call.addr].patch = Unpatched
    BY <2>1 DEF AtResolve
  <2>3. call.query.patch = Unpatched  BY <1>9, <2>1, Kinded DEF StatsMiss, Checkpoint, BossPlain, At
  <2>4. call' = Idle /\ version' = version /\ reply' = Value(heap[call.addr], call.query.view)
    BY <1>9 DEF StatsMiss, Checkpoint, BossPlain, StorePrimitives
  <2>5. Promise!Tell  BY <2>1, <2>2, <2>3, <2>4, Tells
  <2> QED  BY <2>5 DEF Promise!PNext
<1>10. CASE StatsHit
  <2>1. AtResolve /\ call # Idle  BY <1>10, Resolves DEF StatsHit, At
  <2>2. heap[call.addr] \in States /\ Between(call.stamps, heap[call.addr])
        /\ heap[call.addr].mode = call.query.mode /\ heap[call.addr].patch = Unpatched
    BY <2>1 DEF AtResolve
  <2>3. call.query.patch = Unpatched  BY <1>10, <2>1, Kinded DEF StatsHit, At
  <2>4. PICK e \in CompiledFor(call.addr, call.query.view) : reply' = e.value  BY <1>10 DEF StatsHit
  <2>5. Compiles(e) /\ e.addr = call.addr /\ e.view = call.query.view
    BY <2>4 DEF Inv, CompiledInv, CompiledFor
  <2>6. reply' = Value(heap[call.addr], call.query.view)  BY <2>4, <2>5 DEF Compiles
  <2>7. call' = Idle /\ version' = version  BY <1>10 DEF StatsHit
  <2>8. Promise!Tell  BY <2>1, <2>2, <2>3, <2>6, <2>7, Tells
  <2> QED  BY <2>8 DEF Promise!PNext
<1>11. CASE BossHit
  <2>1. AtResolve /\ call # Idle  BY <1>11, Resolves DEF BossHit, At
  <2>2. PICK i \in 1..Len(primitives) :
           SameKey(primitives[i], call.addr, call.query) /\ reply' = primitives[i].value
    BY <1>11 DEF BossHit
  <2>3. Described(primitives[i])  BY DEF Inv, PrimitivesInv
  <2> DEFINE st == [heap[call.addr] EXCEPT !.patch = call.query.patch]
  <2>4. reply' = Value(st, call.query.view)  BY <2>2, <2>3 DEF Described, SameKey
  <2>5. call.query.patch \in Patches  BY <2>1, Kinded, QueriesAssumption DEF Patches
  <2>6. /\ st \in States /\ st.patch = call.query.patch /\ st.mode = call.query.mode
        /\ st.ids = heap[call.addr].ids /\ st.manual = heap[call.addr].manual
    BY <2>1, <2>5 DEF AtResolve, States
  <2> HIDE DEF st
  <2>7. Between(call.stamps, st)  BY <2>1, <2>6 DEF AtResolve, Between
  <2>8. call' = Idle /\ version' = version  BY <1>11 DEF BossHit
  <2>9. Promise!Tell  BY <2>1, <2>4, <2>6, <2>7, <2>8, Tells
  <2> QED  BY <2>9 DEF Promise!PNext
<1>12. CASE BossDerived
  <2>1. AtDerived /\ call # Idle
    BY <1>12 DEF BossDerived, Inv, CallInv, AtIds, AtManual, AtBuild, AtResolve, Idle
  <2> DEFINE st == [heap[call.base] EXCEPT !.patch = call.query.patch]
  <2>2. heap[call.addr] = st  BY <2>1 DEF AtDerived
  <2>3. reply' = Value(st, call.query.view) /\ call' = Idle /\ version' = version
    BY <1>12, <2>2 DEF BossDerived, StorePrimitives
  <2>4. call.query.patch \in Patches  BY <2>1, Kinded, QueriesAssumption DEF Patches
  <2>5. /\ st \in States /\ st.patch = call.query.patch /\ st.mode = call.query.mode
        /\ st.ids = heap[call.base].ids /\ st.manual = heap[call.base].manual
    BY <2>1, <2>4 DEF AtDerived, States
  <2> HIDE DEF st
  <2>6. Between(call.stamps, st)  BY <2>1, <2>5 DEF AtDerived, Between
  <2>7. Promise!Tell  BY <2>1, <2>3, <2>5, <2>6, Tells
  <2> QED  BY <2>7 DEF Promise!PNext
<1>13. CASE UNCHANGED vars
  BY <1>13 DEF vars, Promise!pvars
<1>14. (StatsMiss \/ Checkpoint \/ BossPlain) => call.pc = "resolve"
  BY DEF StatsMiss, Checkpoint, BossPlain, BossMisses, At
<1> QED
  BY <1>1, <1>2, <1>3, <1>4, <1>5, <1>6, <1>7, <1>8, <1>9, <1>10, <1>11, <1>12, <1>13, <1>14,
     Stutters
  DEF Next, Step, Promise!PNext

(* Step for step, the caches do what InputPromise allows: a query is       *)
(* answered from contents its files had between the question and the       *)
(* answer, whatever was cached before.  (That it is answered at all is     *)
(* left to TLC.)                                                           *)
THEOREM CachesImplementPromise ==
  Spec => Promise!PInit /\ [][Promise!PNext]_(Promise!pvars)
<1>1. Init => Promise!PInit
  BY DEF Init, Promise!PInit, Files, Promise!Files, Promise!NoQuestion, Promise!NoReply, NoReply
<1> QED  BY <1>1, InitInv, NextInv, StepImplements, PTL DEF Spec

----------------------------------------------------------------------------
(* The bounds of the state.                                                *)

BoundInv ==
  /\ version \in [Files -> 0..MaxEdits]
  /\ Len(primitives) \in 0..LruSize
  /\ snapshots \in [Addrs -> {NoId} \union [id : {TRUE}, ids : Nat, manual : Nat, mode : STRING]]

LEMMA InsertBounded ==
  ASSUME NEW T, NEW s \in Seq(T), NEW e \in T, Len(s) \in 0..LruSize
  PROVE  Len(Insert(s, e)) \in 0..LruSize
<1>1. LruSize \in Nat /\ LruSize # 0  BY SizeAssumption
<1>2. CASE Len(s) < LruSize
  <2>1. Insert(s, e) = Append(s, e)  BY <1>2 DEF Insert
  <2>2. Len(Append(s, e)) = Len(s) + 1  OBVIOUS
  <2> QED  BY <1>1, <1>2, <2>1, <2>2
<1>3. CASE ~(Len(s) < LruSize)
  <2>1. Insert(s, e) = Append(Tail(s), e)  BY <1>3 DEF Insert
  <2>2. s # <<>>  BY <1>1, <1>3
  <2>3. Tail(s) \in Seq(T) /\ Len(Tail(s)) = Len(s) - 1  BY <2>2
  <2>4. Len(Append(Tail(s), e)) = Len(s)  BY <2>3
  <2> QED  BY <2>1, <2>4
<1> QED  BY <1>2, <1>3

(* An id bound to a state that is alive is an id.                          *)
LEMMA BindBounded ==
  ASSUME BoundInv, NEW a \in Addrs, heap[a] \in States, Bind(a)
  PROVE  (snapshots \in [Addrs -> {NoId} \union [id : {TRUE}, ids : Nat, manual : Nat, mode : STRING]])'
<1> DEFINE P == {NoId} \union [id : {TRUE}, ids : Nat, manual : Nat, mode : STRING]
<1>1. Fingerprint(heap[a]) \in P  BY DEF Fingerprint, States
<1>2. snapshots \in [Addrs -> P]  BY DEF BoundInv
<1> HIDE DEF P
<1>3. BoundId(a, heap[a]) \in P  BY <1>1, <1>2 DEF BoundId
<1>4. snapshots' = [snapshots EXCEPT ![a] = BoundId(a, heap[a])]  BY DEF Bind
<1>5. snapshots' \in [Addrs -> P]  BY <1>2, <1>3, <1>4
<1> QED  BY <1>5 DEF P

(* What the primitives become when a value is stored.                      *)
LEMMA StoreInserts ==
  ASSUME Inv, NEW base \in Addrs, NEW a, heap[a] \in States, call.query \in Queries,
         StorePrimitives(base, a)
  PROVE  \E e \in Entries : primitives' = Insert(primitives, e) /\ e.value = reply'
<1> DEFINE e == [addr |-> base, patch |-> call.query.patch, view |-> call.query.view,
                 value |-> Value(heap[a], call.query.view)]
<1>1. call.query.view \in STRING /\ call.query.patch \in Patches  BY QueriesAssumption DEF Patches
<1>2. e \in Entries  BY <1>1 DEF Entries, Values, Value, States
<1>3. primitives' = Insert(primitives, e) /\ e.value = reply'  BY DEF StorePrimitives
<1> HIDE DEF e
<1> QED  BY <1>2, <1>3

LEMMA Storing ==
  ASSUME Inv, BossPlain \/ BossDerived
  PROVE  \E base \in Addrs, a \in Addrs :
           heap[a] \in States /\ call.query \in Queries /\ StorePrimitives(base, a)
<1>1. CASE BossPlain
  <2>1. AtResolve  BY <1>1, Resolves DEF BossPlain, BossMisses, At
  <2> QED  BY <1>1, <2>1 DEF AtResolve, BossPlain
<1>2. CASE BossDerived
  <2>1. AtDerived  BY <1>2, CallHasPc DEF BossDerived
  <2>2. call.query.patch \in Patches  BY <2>1, QueriesAssumption DEF Patches, AtDerived
  <2>3. heap[call.addr] \in States  BY <2>1, <2>2 DEF AtDerived, States
  <2> QED  BY <1>2, <2>1, <2>3 DEF AtDerived, BossDerived
<1> QED  BY <1>1, <1>2

LEMMA NextBounded == Inv /\ BoundInv /\ [Next]_vars => BoundInv'
<1> SUFFICES ASSUME Inv, BoundInv, [Next]_vars PROVE BoundInv'  OBVIOUS
<1>1. ASSUME UNCHANGED <<version, primitives, snapshots>> PROVE BoundInv'
  BY <1>1 DEF BoundInv
<1>2. ASSUME NEW f \in Files, Edit(f) PROVE BoundInv'
  <2>1. version \in [Files -> 0..MaxEdits] /\ MaxEdits \in Nat  BY EditsAssumption DEF BoundInv
  <2>2. version[f] + 1 \in 0..MaxEdits
    <3>1. version["ids"] \in 0..MaxEdits /\ version["manual"] \in 0..MaxEdits  BY <2>1 DEF Files
    <3>2. version["ids"] + version["manual"] < MaxEdits  BY <1>2 DEF Edit
    <3>3. f = "ids" \/ f = "manual"  BY DEF Files
    <3> QED  BY <2>1, <3>1, <3>2, <3>3
  <2>3. version' \in [Files -> 0..MaxEdits]  BY <1>2, <2>1, <2>2 DEF Edit
  <2> QED  BY <1>2, <2>3 DEF Edit, BoundInv
<1>3. ASSUME NEW q \in Queries, AskHit(q) \/ AskMiss(q) PROVE BoundInv'
  BY <1>1, <1>3 DEF AskHit, AskMiss
<1>4. CASE ReadIds \/ ReadManual \/ Reject
  BY <1>1, <1>4 DEF ReadIds, ReadManual, Reject
<1>5. ASSUME NEW a \in Offered, Build(a) \/ Derive(a) PROVE BoundInv'
  BY <1>1, <1>5 DEF Build, Derive
<1>6. CASE StatsHit \/ StatsMiss \/ Checkpoint
  <2>1. AtResolve  BY <1>6, Resolves DEF StatsHit, StatsMiss, Checkpoint, At
  <2>2. call.addr \in Addrs /\ heap[call.addr] \in States  BY <2>1 DEF AtResolve
  <2>3. Bind(call.addr) /\ UNCHANGED <<version, primitives>>
    BY <1>6 DEF StatsHit, StatsMiss, Checkpoint
  <2> QED  BY <2>2, <2>3, BindBounded DEF BoundInv
<1>7. CASE BossHit
  <2>1. primitives \in Seq(Entries)  BY DEF Inv, PrimitivesInv
  <2>2. Len(primitives') = Len(primitives)  BY <1>7, <2>1, MoveKeeps DEF BossHit
  <2> QED  BY <1>7, <2>2 DEF BossHit, BoundInv
<1>8. CASE BossPlain \/ BossDerived
  <2>1. PICK base \in Addrs, a \in Addrs :
          heap[a] \in States /\ call.query \in Queries /\ StorePrimitives(base, a)
    BY <1>8, Storing
  <2>2. PICK e \in Entries : primitives' = Insert(primitives, e)  BY <2>1, StoreInserts
  <2>3. primitives \in Seq(Entries) /\ Len(primitives) \in 0..LruSize
    BY DEF Inv, PrimitivesInv, BoundInv
  <2>4. Len(primitives') \in 0..LruSize
    <3>1. Len(Insert(primitives, e)) \in 0..LruSize  BY <2>3, InsertBounded
    <3> QED  BY <2>2, <3>1
  <2>5. Bind(a)  BY <2>1 DEF StorePrimitives
  <2>6. version' = version  BY <1>8 DEF BossPlain, BossDerived
  <2> QED  BY <2>1, <2>4, <2>5, <2>6, BindBounded DEF BoundInv
<1>9. CASE UNCHANGED vars  BY <1>1, <1>9 DEF vars
<1> QED
  BY <1>2, <1>3, <1>4, <1>5, <1>6, <1>7, <1>8, <1>9 DEF Next, Step

LEMMA InitBounded == Init => BoundInv
<1> SUFFICES ASSUME Init PROVE BoundInv  OBVIOUS
<1>1. version \in [Files -> 0..MaxEdits]  BY EditsAssumption DEF Init
<1>2. Len(primitives) \in 0..LruSize  BY SizeAssumption DEF Init
<1>3. snapshots \in [Addrs -> {NoId} \union [id : {TRUE}, ids : Nat, manual : Nat, mode : STRING]]
  BY DEF Init
<1> QED  BY <1>1, <1>2, <1>3 DEF BoundInv

(* Types and bounds of the caches: the LRU never outgrows its size, a      *)
(* bundle keeps a state at an address, and a call is at one of its stages. *)
THEOREM TypesHold == Spec => []TypeOK
<1>1. Inv /\ BoundInv => TypeOK
  <2> SUFFICES ASSUME Inv, BoundInv PROVE TypeOK  OBVIOUS
  <2>1. version \in [Files -> 0..MaxEdits] /\ Len(primitives) \in 0..LruSize  BY DEF BoundInv
  <2>2. \A st \in States : st.live = TRUE  BY DEF States
  <2>3. \A a \in Addrs : heap[a] = Freed \/ heap[a].live  BY <2>2 DEF Inv, HeapInv
  <2>4. \A b \in bundles : b.owner \in Retaining /\ b.addr \in Addrs
    BY DEF Inv, BundlesInv, BundleOk, Bundles
  <2>5. \A e \in compiled : e.addr \in Addrs
    BY <2>4 DEF Inv, CompiledInv, Compiles, Kept
  <2>6. \A a \in Addrs : snapshots[a] = NoId \/ snapshots[a].id
    <3>1. \A i \in [id : {TRUE}, ids : Nat, manual : Nat, mode : STRING] : i.id = TRUE  OBVIOUS
    <3> QED  BY <3>1 DEF BoundInv
  <2>7. call.pc \in {"idle", "ids", "manual", "build", "resolve", "derived"}
    BY DEF Inv, CallInv, AtIds, AtManual, AtBuild, AtResolve, AtDerived, Idle
  <2> QED  BY <2>1, <2>3, <2>4, <2>5, <2>6, <2>7 DEF TypeOK
<1> QED  BY <1>1, InitInv, NextInv, InitBounded, NextBounded, PTL DEF Spec

----------------------------------------------------------------------------
(* What the caches keep.                                                   *)

(* The oldest entry apart, an entry is still there after a use of another. *)
LEMMA MoveLosesNone ==
  ASSUME NEW s \in Seq(Entries), NEW k \in 1..Len(s), NEW i \in 1..Len(s)
  PROVE  \E j \in 1..Len(MoveToEnd(s, k)) : MoveToEnd(s, k)[j] = s[i]
<1>1. Len(MoveToEnd(s, k)) = Len(s)  BY MoveKeeps
<1>2. CASE i < k  BY <1>1, <1>2 DEF MoveToEnd
<1>3. CASE i = k
  <2>1. MoveToEnd(s, k)[Len(s)] = s[k]  BY DEF MoveToEnd
  <2> QED  BY <1>1, <1>3, <2>1
<1>4. CASE i > k
  <2>1. i - 1 \in 1..Len(s) /\ ~(i - 1 < k) /\ i - 1 < Len(s)  BY <1>4
  <2>2. MoveToEnd(s, k)[i - 1] = s[(i - 1) + 1]  BY <2>1 DEF MoveToEnd
  <2> QED  BY <1>1, <2>1, <2>2
<1> QED  BY <1>2, <1>3, <1>4

LEMMA InsertLosesOldest ==
  ASSUME NEW s \in Seq(Entries), NEW e \in Entries
  PROVE  /\ \A i \in 2..Len(s) : \E j \in 1..Len(Insert(s, e)) : Insert(s, e)[j] = s[i]
         /\ Insert(s, e)[Len(Insert(s, e))] = e
<1>1. CASE Len(s) < LruSize
  <2>1. Insert(s, e) = Append(s, e)  BY <1>1 DEF Insert
  <2>2. /\ Len(Append(s, e)) = Len(s) + 1
        /\ \A i \in 1..Len(s) : Append(s, e)[i] = s[i]
        /\ Append(s, e)[Len(s) + 1] = e
    OBVIOUS
  <2>3. \A i \in 2..Len(s) : i \in 1..Len(s) /\ i \in 1..Len(s) + 1  OBVIOUS
  <2> QED  BY <2>1, <2>2, <2>3
<1>2. CASE ~(Len(s) < LruSize)
  <2>1. Insert(s, e) = Append(Tail(s), e)  BY <1>2 DEF Insert
  <2>2. s # <<>>  BY <1>2, SizeAssumption
  <2>3. /\ Tail(s) \in Seq(Entries)
        /\ Len(Tail(s)) = Len(s) - 1
        /\ \A i \in 1..Len(s) - 1 : Tail(s)[i] = s[i + 1]
    BY <2>2
  <2>4. /\ Len(Append(Tail(s), e)) = Len(s)
        /\ \A i \in 1..Len(s) - 1 : Append(Tail(s), e)[i] = s[i + 1]
        /\ Append(Tail(s), e)[Len(s)] = e
    BY <2>3
  <2>5. ASSUME NEW i \in 2..Len(s)
        PROVE  \E j \in 1..Len(Append(Tail(s), e)) : Append(Tail(s), e)[j] = s[i]
    <3>1. i - 1 \in 1..Len(s) - 1 /\ i - 1 \in 1..Len(s) /\ (i - 1) + 1 = i  BY <2>5
    <3>2. Append(Tail(s), e)[i - 1] = s[i]  BY <2>4, <3>1
    <3> QED  BY <2>4, <3>1, <3>2
  <2> QED  BY <2>1, <2>4, <2>5
<1> QED  BY <1>1, <1>2

(* What LeastRecentGoesFirst says of one step.                             *)
Evicts ==
  /\ \A i \in 2..Len(primitives) : \E j \in 1..Len(primitives') : primitives'[j] = primitives[i]
  /\ (call # Idle /\ call' = Idle /\ call.query.kind = "boss" /\ reply' # Failure)
        => primitives'[Len(primitives')].value = reply'

LEMMA StepEvicts == Inv /\ [Next]_vars => Evicts \/ UNCHANGED vars
<1> SUFFICES ASSUME Inv, Next PROVE Evicts  OBVIOUS
<1>1. primitives \in Seq(Entries)  BY DEF Inv, PrimitivesInv
<1>2. ASSUME primitives' = primitives,
             \/ call = Idle \/ call' = call \/ call' # Idle
             \/ reply' = Failure \/ call.query.kind # "boss"
      PROVE  Evicts
  <2>1. \A i \in 2..Len(primitives) : i \in 1..Len(primitives)  BY <1>1
  <2> QED  BY <1>2, <2>1 DEF Evicts
<1>3. ASSUME NEW f \in Files, Edit(f) PROVE Evicts  BY <1>2, <1>3 DEF Edit
<1>4. ASSUME NEW q \in Queries, AskHit(q) \/ AskMiss(q) PROVE Evicts
  BY <1>2, <1>4 DEF AskHit, AskMiss
<1>5. CASE ReadIds \/ ReadManual
  <2>1. call'.pc # "idle"  BY <1>5 DEF ReadIds, ReadManual
  <2> QED  BY <1>2, <1>5, <2>1 DEF ReadIds, ReadManual, Idle
<1>6. CASE Reject  BY <1>2, <1>6 DEF Reject
<1>7. ASSUME NEW a \in Offered, Build(a) \/ Derive(a) PROVE Evicts
  <2>1. call'.pc # "idle"  BY <1>7 DEF Build, Derive
  <2> QED  BY <1>2, <1>7, <2>1 DEF Build, Derive, Idle
<1>8. CASE StatsHit \/ StatsMiss \/ Checkpoint
  BY <1>2, <1>8 DEF StatsHit, StatsMiss, Checkpoint, At
<1>9. CASE BossHit
  <2>1. PICK k \in 1..Len(primitives) :
          primitives' = MoveToEnd(primitives, k) /\ reply' = primitives[k].value
    BY <1>9 DEF BossHit
  <2>2. \A i \in 2..Len(primitives) : i \in 1..Len(primitives)  BY <1>1
  <2>3. \A i \in 2..Len(primitives) :
          \E j \in 1..Len(MoveToEnd(primitives, k)) : MoveToEnd(primitives, k)[j] = primitives[i]
    BY <1>1, <2>2, MoveLosesNone
  <2>4. Len(MoveToEnd(primitives, k)) = Len(primitives)  BY <1>1, MoveKeeps
  <2>5. MoveToEnd(primitives, k)[Len(primitives)] = primitives[k]  BY <1>1 DEF MoveToEnd
  <2> QED  BY <2>1, <2>3, <2>4, <2>5 DEF Evicts
<1>10. CASE BossPlain \/ BossDerived
  <2>1. PICK base \in Addrs, a \in Addrs :
          heap[a] \in States /\ call.query \in Queries /\ StorePrimitives(base, a)
    BY <1>10, Storing
  <2>2. PICK e \in Entries : primitives' = Insert(primitives, e) /\ e.value = reply'
    BY <2>1, StoreInserts
  <2>3. /\ \A i \in 2..Len(primitives) :
             \E j \in 1..Len(Insert(primitives, e)) : Insert(primitives, e)[j] = primitives[i]
        /\ Insert(primitives, e)[Len(Insert(primitives, e))] = e
    BY <1>1, InsertLosesOldest
  <2> QED  BY <2>2, <2>3 DEF Evicts
<1> QED
  BY <1>3, <1>4, <1>5, <1>6, <1>7, <1>8, <1>9, <1>10 DEF Next, Step

LEMMA StepCompiles == [Next]_vars => compiled \subseteq compiled'
BY DEF Next, Step, Edit, AskHit, AskMiss, ReadIds, ReadManual, Reject, Build, StatsHit,
       StatsMiss, Checkpoint, BossHit, BossPlain, Derive, BossDerived, vars

(* Compiled inputs are never dropped, no step removes another of the       *)
(* primitives than the one used longest ago, and the entry a Boss Waves    *)
(* call was answered from is the newest when the call ends                 *)
(* (RunStatsSession, _resolve_boss_wave_replacement_primitives_cached).    *)
THEOREM CachesKeepAlways == Spec => CachesKeep
<1>1. [Next]_vars => [compiled \subseteq compiled']_vars  BY StepCompiles
<1>2. Inv /\ [Next]_vars => [Evicts]_vars  BY StepEvicts
<1>3. Spec => CompiledOnce  BY <1>1, PTL DEF Spec, CompiledOnce
<1>4. Spec => LeastRecentGoesFirst  BY <1>2, CachesInvariant, PTL DEF Spec, LeastRecentGoesFirst, Evicts
<1> QED  BY <1>3, <1>4 DEF CachesKeep

-----------------------------------------------------------------------------
(* The output directory: the programs of the two pipelines                 *)
-----------------------------------------------------------------------------

(* What an operation is, and where a file is written, removed or touched.  *)
FileOps == [op : {"remove", "write", "restamp"}, file : Artifacts]
Operations == [op : {"compute"}] \union FileOps

FileKinds == {"remove", "write", "restamp"}

Does(s, op, f) == \E i \in 1..Len(s) : s[i].op = op /\ s[i].file = f
Touches(s, f) == \E i \in 1..Len(s) : s[i].op # "compute" /\ s[i].file = f

(* What a part of a program does, as pairs of an operation and a file.     *)
Part(s, does) ==
  /\ s \in Seq(Operations)
  /\ \A op \in FileKinds, f \in Artifacts : Does(s, op, f) <=> <<op, f>> \in does

RemovesFirst(s) ==
  \A i, j \in 1..Len(s) : s[i].op = "remove" /\ s[j].op = "write" => i < j

WrittenLast(s, f) ==
  \A i \in 1..Len(s) : s[i].op = "write" /\ s[i].file = f => i = Len(s)

(* The files whose wholeness diagnostics or a trace vouch for.             *)
Watched == StatsContract \union FullContract \union {"trace"}

DiagnosticsFirst(s) ==
  \A i \in 1..Len(s) : s[i].op # "compute" /\ s[i].file \in Watched
    => \E j \in 1..i : s[j].op # "compute" /\ s[j].file = "diagnostics"

Listed ==
  {"diagnostics", "input_dashboard", "module_card_payloads", "geometry", "account_state",
   "run_stats", "stats_dashboard", "query_plans", "query_rows", "statbooks", "verification",
   "trace", "matrix", "residue_reports", "perk_diagnostics"}

LEMMA Names ==
  /\ StatsContract = {"diagnostics", "input_dashboard", "module_card_payloads", "geometry",
                      "account_state", "run_stats", "stats_dashboard", "query_plans", "query_rows"}
  /\ FullContract = {"statbooks", "verification", "diagnostics", "account_state",
                     "input_dashboard", "stats_dashboard", "query_rows"}
  /\ FilesOf(Removals) = StatsContract \union {"statbooks", "verification", "trace", "perk_diagnostics"}
  /\ Removals[1] = "diagnostics" /\ Len(Removals) = 13
  /\ Removals \in Seq(Artifacts)
<1>1. /\ FilesOf(StatsSupport) = {"diagnostics", "input_dashboard", "module_card_payloads", "geometry"}
      /\ Len(StatsSupport) = 4 /\ StatsSupport[1] = "diagnostics" /\ StatsSupport \in Seq(Listed)
  <2>1. Len(StatsSupport) = 4 /\ 1..4 = {1, 2, 3, 4}
    BY DEF StatsSupport
  <2>2. StatsSupport[1] = "diagnostics" /\ StatsSupport[2] = "input_dashboard" /\ StatsSupport[3] = "module_card_payloads" /\ StatsSupport[4] = "geometry"
    BY DEF StatsSupport
  <2>3. StatsSupport \in Seq(Listed)
    BY DEF StatsSupport, Listed
  <2>4. FilesOf(StatsSupport) = {"diagnostics", "input_dashboard", "module_card_payloads", "geometry"}
    BY <2>1, <2>2 DEF FilesOf
  <2> QED
    BY <2>1, <2>2, <2>3, <2>4
<1>2. /\ FilesOf(StatsBaseline) = {"account_state", "run_stats", "stats_dashboard", "query_plans", "query_rows"}
      /\ Len(StatsBaseline) = 5 /\ StatsBaseline[1] = "account_state" /\ StatsBaseline \in Seq(Listed)
  <2>1. Len(StatsBaseline) = 5 /\ 1..5 = {1, 2, 3, 4, 5}
    BY DEF StatsBaseline
  <2>2. StatsBaseline[1] = "account_state" /\ StatsBaseline[2] = "run_stats" /\ StatsBaseline[3] = "stats_dashboard" /\ StatsBaseline[4] = "query_plans" /\ StatsBaseline[5] = "query_rows"
    BY DEF StatsBaseline
  <2>3. StatsBaseline \in Seq(Listed)
    BY DEF StatsBaseline, Listed
  <2>4. FilesOf(StatsBaseline) = {"account_state", "run_stats", "stats_dashboard", "query_plans", "query_rows"}
    BY <2>1, <2>2 DEF FilesOf
  <2> QED
    BY <2>1, <2>2, <2>3, <2>4
<1>3. /\ FilesOf(FullOnly) = {"statbooks", "verification"}
      /\ Len(FullOnly) = 2 /\ FullOnly[1] = "statbooks" /\ FullOnly \in Seq(Listed)
  <2>1. Len(FullOnly) = 2 /\ 1..2 = {1, 2}
    BY DEF FullOnly
  <2>2. FullOnly[1] = "statbooks" /\ FullOnly[2] = "verification"
    BY DEF FullOnly
  <2>3. FullOnly \in Seq(Listed)
    BY DEF FullOnly, Listed
  <2>4. FilesOf(FullOnly) = {"statbooks", "verification"}
    BY <2>1, <2>2 DEF FilesOf
  <2> QED
    BY <2>1, <2>2, <2>3, <2>4
<1> DEFINE rest == <<"trace", "perk_diagnostics">>
<1>4. /\ FilesOf(rest) = {"trace", "perk_diagnostics"}
      /\ Len(rest) = 2 /\ rest[1] = "trace" /\ rest \in Seq(Listed)
  <2>1. Len(rest) = 2 /\ 1..2 = {1, 2}
    OBVIOUS
  <2>2. rest[1] = "trace" /\ rest[2] = "perk_diagnostics"
    OBVIOUS
  <2>3. rest \in Seq(Listed)
    BY DEF Listed
  <2>4. FilesOf(rest) = {"trace", "perk_diagnostics"}
    BY <2>1, <2>2 DEF FilesOf
  <2> QED
    BY <2>1, <2>2, <2>3, <2>4
<1> HIDE DEF rest
<1>5. ASSUME NEW s \in Seq(Listed), NEW t \in Seq(Listed)
      PROVE  /\ FilesOf(s \o t) = FilesOf(s) \union FilesOf(t)
             /\ s \o t \in Seq(Listed) /\ Len(s \o t) = Len(s) + Len(t)
             /\ (Len(s) > 0 => (s \o t)[1] = s[1])
  <2>1. /\ s \o t \in Seq(Listed) /\ Len(s \o t) = Len(s) + Len(t)
        /\ Len(s) \in Nat /\ Len(t) \in Nat
        /\ \A i \in 1..Len(s) : (s \o t)[i] = s[i]
        /\ \A i \in 1..Len(t) : (s \o t)[Len(s) + i] = t[i]
    OBVIOUS
  <2>2. ASSUME NEW x \in FilesOf(s \o t) PROVE x \in FilesOf(s) \union FilesOf(t)
    <3>1. PICK i \in 1..Len(s \o t) : x = (s \o t)[i]
      BY DEF FilesOf
    <3>2. CASE i <= Len(s)
      BY <2>1, <3>1, <3>2 DEF FilesOf
    <3>3. CASE i > Len(s)
      <4>1. i - Len(s) \in 1..Len(t) /\ i = Len(s) + (i - Len(s))
        BY <2>1, <3>1, <3>3
      <4> QED
        BY <2>1, <3>1, <4>1 DEF FilesOf
    <3> QED
      BY <2>1, <3>1, <3>2, <3>3
  <2>3. ASSUME NEW x \in FilesOf(s) PROVE x \in FilesOf(s \o t)
    <3>1. PICK i \in 1..Len(s) : x = s[i]
      BY DEF FilesOf
    <3>2. i \in 1..Len(s \o t) /\ (s \o t)[i] = x
      BY <2>1, <3>1
    <3> QED
      BY <3>2 DEF FilesOf
  <2>4. ASSUME NEW x \in FilesOf(t) PROVE x \in FilesOf(s \o t)
    <3>1. PICK i \in 1..Len(t) : x = t[i]
      BY DEF FilesOf
    <3>2. Len(s) + i \in 1..Len(s \o t) /\ (s \o t)[Len(s) + i] = x
      BY <2>1, <3>1
    <3> QED
      BY <3>2 DEF FilesOf
  <2>5. Len(s) > 0 => (s \o t)[1] = s[1]
    BY <2>1
  <2> QED
    BY <2>1, <2>2, <2>3, <2>4, <2>5
<1> DEFINE a == StatsSupport \o StatsBaseline
           b == a \o FullOnly
<1>6. a \in Seq(Listed) /\ Len(a) = 9 /\ a[1] = "diagnostics"
      /\ FilesOf(a) = FilesOf(StatsSupport) \union FilesOf(StatsBaseline)
  <2>1. /\ FilesOf(StatsSupport \o StatsBaseline) = FilesOf(StatsSupport) \union FilesOf(StatsBaseline)
        /\ StatsSupport \o StatsBaseline \in Seq(Listed) /\ Len(StatsSupport \o StatsBaseline) = Len(StatsSupport) + Len(StatsBaseline)
        /\ (Len(StatsSupport) > 0 => (StatsSupport \o StatsBaseline)[1] = StatsSupport[1])
    BY <1>1, <1>2, <1>5, Zenon
  <2> QED
    BY <1>1, <1>2, <2>1
<1> HIDE DEF a
<1>7. b \in Seq(Listed) /\ Len(b) = 11 /\ b[1] = "diagnostics"
      /\ FilesOf(b) = FilesOf(a) \union FilesOf(FullOnly)
  <2>1. /\ FilesOf(a \o FullOnly) = FilesOf(a) \union FilesOf(FullOnly)
        /\ a \o FullOnly \in Seq(Listed) /\ Len(a \o FullOnly) = Len(a) + Len(FullOnly)
        /\ (Len(a) > 0 => (a \o FullOnly)[1] = a[1])
    BY <1>3, <1>6, <1>5, Zenon
  <2> QED
    BY <1>3, <1>6, <2>1
<1>8. Removals = b \o rest
  BY DEF Removals, a, rest
<1> HIDE DEF b
<1>9. Removals \in Seq(Listed) /\ Len(Removals) = 13 /\ Removals[1] = "diagnostics"
      /\ FilesOf(Removals) = FilesOf(b) \union FilesOf(rest)
  <2>1. /\ FilesOf(b \o rest) = FilesOf(b) \union FilesOf(rest)
        /\ b \o rest \in Seq(Listed) /\ Len(b \o rest) = Len(b) + Len(rest)
        /\ (Len(b) > 0 => (b \o rest)[1] = b[1])
    BY <1>4, <1>7, <1>5, Zenon
  <2> QED
    BY <1>4, <1>7, <2>1, <1>8
<1>10. StatsContract = FilesOf(a)
  BY DEF StatsContract, a
<1>11. FullContract = {"statbooks", "verification", "diagnostics", "account_state",
                     "input_dashboard", "stats_dashboard", "query_rows"}
  BY <1>3 DEF FullContract
<1>12. FilesOf(Removals) \subseteq Artifacts
  BY <1>1, <1>2, <1>3, <1>4, <1>6, <1>7, <1>9, <1>10, <1>11 DEF Artifacts
<1>13. \A i \in 1..Len(Removals) : Removals[i] \in Artifacts
  BY <1>12 DEF FilesOf
<1>14. Removals \in Seq(Artifacts)
  <2>1. Removals \in [1..Len(Removals) -> Artifacts] /\ Len(Removals) \in Nat
    BY <1>9, <1>13
  <2> QED
    BY <2>1
<1> QED
  BY <1>1, <1>2, <1>3, <1>4, <1>6, <1>7, <1>9, <1>10, <1>11, <1>14

LEMMA AllNames == Artifacts = Listed
BY Names DEF Artifacts, Listed

LEMMA OpsPart ==
  ASSUME NEW op \in FileKinds, NEW fs \in Seq(Artifacts)
  PROVE  /\ Part(Ops(op, fs), {op} \X FilesOf(fs))
         /\ Len(Ops(op, fs)) = Len(fs) /\ RemovesFirst(Ops(op, fs))
         /\ \A i \in 1..Len(fs) : Ops(op, fs)[i].op = op /\ Ops(op, fs)[i].file = fs[i]
<1> DEFINE s == Ops(op, fs)
<1>1. /\ s = [i \in 1..Len(fs) |-> [op |-> op, file |-> fs[i]]] /\ Len(fs) \in Nat
  BY DEF Ops
<1>2. \A i \in 1..Len(fs) : s[i] \in FileOps /\ s[i].op = op /\ s[i].file = fs[i]
  BY <1>1 DEF FileOps, FileKinds
<1>3. s \in Seq(FileOps) /\ Len(s) = Len(fs)
  BY <1>1, <1>2
<1>4. s \in Seq(Operations)
  BY <1>3 DEF Operations
<1> HIDE DEF s
<1>5. RemovesFirst(s)
  BY <1>2, <1>3 DEF RemovesFirst
<1>6. ASSUME NEW o \in FileKinds, NEW f \in Artifacts
      PROVE  Does(s, o, f) <=> <<o, f>> \in {op} \X FilesOf(fs)
  <2>1. <<o, f>> \in {op} \X FilesOf(fs) <=> o = op /\ f \in FilesOf(fs)
    OBVIOUS
  <2>2. Does(s, o, f) <=> o = op /\ \E i \in 1..Len(fs) : fs[i] = f
    BY <1>2, <1>3 DEF Does
  <2> QED
    BY <2>1, <2>2 DEF FilesOf
<1>7. Part(s, {op} \X FilesOf(fs))
  BY <1>4, <1>6 DEF Part
<1> QED
  BY <1>2, <1>3, <1>5, <1>7 DEF s

LEMMA ComputePart ==
  Part(Compute, {}) /\ Len(Compute) = 1 /\ Compute[1].op = "compute"
  /\ RemovesFirst(Compute) /\ DiagnosticsFirst(Compute)
<1>1. Compute \in Seq(Operations) /\ Len(Compute) = 1 /\ Compute[1].op = "compute"
  BY DEF Compute, Operations
<1>2. \A i \in 1..Len(Compute) : Compute[i].op = "compute"
  BY <1>1
<1>3. \A op \in FileKinds, f \in Artifacts : ~ Does(Compute, op, f)
  BY <1>2 DEF FileKinds, Does
<1> QED
  BY <1>1, <1>2, <1>3 DEF Part, RemovesFirst, DiagnosticsFirst

LEMMA NoPart ==
  Part(<< >>, {}) /\ RemovesFirst(<< >>) /\ << >> \in Seq(Operations)
<1>1. << >> \in Seq(Operations) /\ Len(<< >>) = 0
  OBVIOUS
<1> QED
  BY <1>1 DEF Part, Does, RemovesFirst

LEMMA Joined ==
  ASSUME NEW s \in Seq(Operations), NEW t \in Seq(Operations)
  PROVE  /\ s \o t \in Seq(Operations)
         /\ Len(s \o t) = Len(s) + Len(t) /\ Len(s) \in Nat /\ Len(t) \in Nat
         /\ \A i \in 1..Len(s) : (s \o t)[i] = s[i]
         /\ \A i \in 1..Len(t) : (s \o t)[Len(s) + i] = t[i]
         /\ \A i \in 1..Len(s \o t) :
              i \in 1..Len(s) \/ (i - Len(s) \in 1..Len(t) /\ (s \o t)[i] = t[i - Len(s)])
<1>1. /\ s \o t \in Seq(Operations)
      /\ Len(s \o t) = Len(s) + Len(t) /\ Len(s) \in Nat /\ Len(t) \in Nat
      /\ \A i \in 1..Len(s) : (s \o t)[i] = s[i]
      /\ \A i \in 1..Len(t) : (s \o t)[Len(s) + i] = t[i]
  OBVIOUS
<1>2. ASSUME NEW i \in 1..Len(s \o t), i \notin 1..Len(s)
      PROVE  i - Len(s) \in 1..Len(t) /\ (s \o t)[i] = t[i - Len(s)]
  <2>1. i - Len(s) \in 1..Len(t) /\ i = Len(s) + (i - Len(s))
    BY <1>1, <1>2
  <2> QED
    BY <1>1, <2>1
<1> QED
  BY <1>1, <1>2

LEMMA JoinedParts ==
  ASSUME NEW s, NEW t, NEW ds, NEW dt, Part(s, ds), Part(t, dt)
  PROVE  Part(s \o t, ds \union dt)
<1>1. s \in Seq(Operations) /\ t \in Seq(Operations)
  BY DEF Part
<1> DEFINE u == s \o t
<1>2. /\ u \in Seq(Operations)
      /\ Len(u) = Len(s) + Len(t) /\ Len(s) \in Nat /\ Len(t) \in Nat
      /\ \A i \in 1..Len(s) : u[i] = s[i]
      /\ \A i \in 1..Len(t) : u[Len(s) + i] = t[i]
      /\ \A i \in 1..Len(u) : i \in 1..Len(s) \/ (i - Len(s) \in 1..Len(t) /\ u[i] = t[i - Len(s)])
  BY <1>1, Joined
<1> HIDE DEF u
<1>3. 1..Len(s) \subseteq 1..Len(u) /\ \A i \in 1..Len(t) : Len(s) + i \in 1..Len(u)
  BY <1>2
<1>4. ASSUME NEW o \in FileKinds, NEW f \in Artifacts PROVE Does(u, o, f) <=> Does(s, o, f) \/ Does(t, o, f)
  <2>1. ASSUME Does(u, o, f) PROVE Does(s, o, f) \/ Does(t, o, f)
    <3>1. PICK i \in 1..Len(u) : u[i].op = o /\ u[i].file = f
      BY <2>1 DEF Does
    <3> QED
      BY <1>2, <3>1 DEF Does
  <2>2. ASSUME Does(s, o, f) PROVE Does(u, o, f)
    BY <1>2, <1>3, <2>2 DEF Does
  <2>3. ASSUME Does(t, o, f) PROVE Does(u, o, f)
    <3>1. PICK i \in 1..Len(t) : t[i].op = o /\ t[i].file = f
      BY <2>3 DEF Does
    <3> QED
      BY <1>2, <1>3, <3>1 DEF Does
  <2> QED
    BY <2>1, <2>2, <2>3
<1>5. Part(u, ds \union dt)
  BY <1>2, <1>4 DEF Part
<1> QED
  BY <1>5 DEF u

LEMMA JoinedOrder ==
  ASSUME NEW s, NEW t, NEW ds, NEW dt, Part(s, ds), Part(t, dt), RemovesFirst(s),
         \A f \in Artifacts : <<"remove", f>> \notin dt
  PROVE  RemovesFirst(s \o t)
<1>1. s \in Seq(Operations) /\ t \in Seq(Operations)
  BY DEF Part
<1>2. \A i \in 1..Len(t) : t[i].op # "remove"
  <2> SUFFICES ASSUME NEW i \in 1..Len(t), t[i].op = "remove" PROVE FALSE
    OBVIOUS
  <2>1. t[i] \in Operations
    BY <1>1
  <2>2. t[i].file \in Artifacts
    BY <2>1 DEF Operations, FileOps
  <2> QED
    BY <2>2 DEF Part, Does, FileKinds
<1> DEFINE u == s \o t
<1>3. /\ Len(u) = Len(s) + Len(t) /\ Len(s) \in Nat /\ Len(t) \in Nat
      /\ \A i \in 1..Len(s) : u[i] = s[i]
      /\ \A i \in 1..Len(u) : i \in 1..Len(s) \/ (i - Len(s) \in 1..Len(t) /\ u[i] = t[i - Len(s)])
  BY <1>1, Joined
<1> HIDE DEF u
<1>4. RemovesFirst(u)
  <2> SUFFICES ASSUME NEW i \in 1..Len(u), NEW j \in 1..Len(u), u[i].op = "remove", u[j].op = "write"
               PROVE  i < j
    BY DEF RemovesFirst
  <2>1. i \in 1..Len(s) /\ s[i].op = "remove"
    BY <1>2, <1>3
  <2>2. CASE j \in 1..Len(s)
    BY <1>3, <2>1, <2>2 DEF RemovesFirst
  <2>3. CASE j \notin 1..Len(s)
    BY <1>3, <2>1, <2>3
  <2> QED
    BY <2>2, <2>3
<1> QED
  BY <1>4 DEF u

LEMMA JoinedLast ==
  ASSUME NEW s, NEW t, NEW ds, NEW f \in Artifacts, Part(s, ds), <<"write", f>> \notin ds,
         t \in Seq(Operations), WrittenLast(t, f)
  PROVE  WrittenLast(s \o t, f)
<1>1. s \in Seq(Operations) /\ ~ Does(s, "write", f)
  BY DEF Part, FileKinds
<1> DEFINE u == s \o t
<1>2. /\ Len(u) = Len(s) + Len(t) /\ Len(s) \in Nat /\ Len(t) \in Nat
      /\ \A i \in 1..Len(s) : u[i] = s[i]
      /\ \A i \in 1..Len(u) : i \in 1..Len(s) \/ (i - Len(s) \in 1..Len(t) /\ u[i] = t[i - Len(s)])
  BY <1>1, Joined
<1> HIDE DEF u
<1>3. WrittenLast(u, f)
  <2> SUFFICES ASSUME NEW i \in 1..Len(u), u[i].op = "write", u[i].file = f PROVE i = Len(u)
    BY DEF WrittenLast
  <2>1. i \notin 1..Len(s)
    BY <1>1, <1>2 DEF Does
  <2>2. i - Len(s) = Len(t)
    BY <1>2, <2>1 DEF WrittenLast
  <2> QED
    BY <1>2, <2>2
<1> QED
  BY <1>3 DEF u

(* Once the diagnostics are touched nothing that follows comes before.     *)
LEMMA JoinedFirst ==
  ASSUME NEW s \in Seq(Operations), NEW t \in Seq(Operations), DiagnosticsFirst(s),
         Touches(s, "diagnostics") \/ DiagnosticsFirst(t)
  PROVE  /\ DiagnosticsFirst(s \o t)
         /\ Touches(s, "diagnostics") \/ Touches(t, "diagnostics") => Touches(s \o t, "diagnostics")
<1> DEFINE u == s \o t
<1>2. /\ Len(u) = Len(s) + Len(t) /\ Len(s) \in Nat /\ Len(t) \in Nat
      /\ \A i \in 1..Len(s) : u[i] = s[i]
      /\ \A i \in 1..Len(t) : u[Len(s) + i] = t[i]
      /\ \A i \in 1..Len(u) : i \in 1..Len(s) \/ (i - Len(s) \in 1..Len(t) /\ u[i] = t[i - Len(s)])
  BY Joined
<1> HIDE DEF u
<1>3. DiagnosticsFirst(u)
  <2> SUFFICES ASSUME NEW i \in 1..Len(u), u[i].op # "compute", u[i].file \in Watched
               PROVE  \E j \in 1..i : u[j].op # "compute" /\ u[j].file = "diagnostics"
    BY DEF DiagnosticsFirst
  <2>1. CASE i \in 1..Len(s)
    <3>1. PICK j \in 1..i : s[j].op # "compute" /\ s[j].file = "diagnostics"
      BY <1>2, <2>1 DEF DiagnosticsFirst
    <3>2. j \in 1..Len(s)
      BY <1>2, <2>1
    <3> QED
      BY <1>2, <3>1, <3>2
  <2>2. CASE i \notin 1..Len(s)
    <3> DEFINE k == i - Len(s)
    <3>1. k \in 1..Len(t) /\ u[i] = t[k] /\ i = Len(s) + k
      BY <1>2, <2>2
    <3> HIDE DEF k
    <3>2. CASE Touches(s, "diagnostics")
      <4>1. PICK j \in 1..Len(s) : s[j].op # "compute" /\ s[j].file = "diagnostics"
        BY <3>2 DEF Touches
      <4>2. j \in 1..i /\ u[j] = s[j]
        BY <1>2, <3>1, <4>1
      <4> QED
        BY <4>1, <4>2
    <3>3. CASE DiagnosticsFirst(t)
      <4>1. PICK j \in 1..k : t[j].op # "compute" /\ t[j].file = "diagnostics"
        BY <3>1, <3>3 DEF DiagnosticsFirst
      <4>2. Len(s) + j \in 1..i /\ u[Len(s) + j] = t[j]
        BY <1>2, <3>1, <4>1
      <4> QED
        BY <4>1, <4>2
    <3> QED
      BY <3>2, <3>3
  <2> QED
    BY <2>1, <2>2
<1>4. ASSUME Touches(s, "diagnostics") PROVE Touches(u, "diagnostics")
  <2>1. PICK j \in 1..Len(s) : s[j].op # "compute" /\ s[j].file = "diagnostics"
    BY <1>4 DEF Touches
  <2>2. j \in 1..Len(u) /\ u[j] = s[j]
    BY <1>2, <2>1
  <2> QED
    BY <2>1, <2>2 DEF Touches
<1>5. ASSUME Touches(t, "diagnostics") PROVE Touches(u, "diagnostics")
  <2>1. PICK j \in 1..Len(t) : t[j].op # "compute" /\ t[j].file = "diagnostics"
    BY <1>5 DEF Touches
  <2>2. Len(s) + j \in 1..Len(u) /\ u[Len(s) + j] = t[j]
    BY <1>2, <2>1
  <2> QED
    BY <2>1, <2>2 DEF Touches
<1> QED
  BY <1>3, <1>4, <1>5 DEF u


(* What is removed and written, and in which order, by each pipeline.      *)
Traced(q) == IF q.trace THEN {"trace"} ELSE {}
Always(q) == IF q.kind = "stats" THEN StatsContract ELSE FullContract \union Traced(q)
Asked(q) == IF q.matrix THEN {"matrix"} ELSE {}
Must(q) == Always(q) \union Asked(q)
Last(q) == IF q.kind = "stats" THEN "diagnostics" ELSE "trace"

Ordered(q, s) ==
  /\ s \in Seq(Operations)
  /\ RemovesFirst(s) /\ WrittenLast(s, Last(q)) /\ DiagnosticsFirst(s)

LEMMA SplitQuery ==
  ASSUME NEW q \in Requests
  PROVE  /\ q.kind \in {"stats", "full"} /\ q.matrix \in BOOLEAN /\ q.residue \in BOOLEAN
         /\ q.trace \in BOOLEAN /\ (q.kind = "full" /\ ~ q.trace => q \in AnalysisRequests)
         /\ Last(q) \in Artifacts /\ Must(q) \subseteq Artifacts
<1>1. /\ q.kind \in {"stats", "full"} /\ q.matrix \in BOOLEAN /\ q.residue \in BOOLEAN
      /\ q.trace \in BOOLEAN
  BY DEF Requests, AnalysisRequests
<1>2. q.kind = "full" /\ ~ q.trace => q \in AnalysisRequests
  BY DEF Requests
<1> QED
  BY <1>1, <1>2, Names, AllNames DEF Last, Must, Always, Traced, Asked, Listed

(* A list of names, as the files it holds and its length.                  *)
LEMMA OneFile ==
  ASSUME NEW f \in Artifacts
  PROVE  <<f>> \in Seq(Artifacts) /\ FilesOf(<<f>>) = {f}
<1>1. <<f>> \in Seq(Artifacts) /\ Len(<<f>>) = 1 /\ <<f>>[1] = f /\ 1..1 = {1}
  OBVIOUS
<1> QED
  BY <1>1 DEF FilesOf

StatsFiles == <<"account_state", "module_card_payloads", "input_dashboard", "query_plans",
                "query_rows", "stats_dashboard", "geometry">>

LEMMA StatsList ==
  /\ StatsFiles \in Seq(Artifacts)
  /\ FilesOf(StatsFiles) = StatsContract \ {"run_stats", "diagnostics"}
<1>1. StatsFiles \in Seq(Artifacts)
  BY AllNames DEF StatsFiles, Listed
<1>2. Len(StatsFiles) = 7 /\ 1..7 = {1, 2, 3, 4, 5, 6, 7}
  BY DEF StatsFiles
<1>3. /\ StatsFiles[1] = "account_state" /\ StatsFiles[2] = "module_card_payloads"
      /\ StatsFiles[3] = "input_dashboard" /\ StatsFiles[4] = "query_plans"
      /\ StatsFiles[5] = "query_rows" /\ StatsFiles[6] = "stats_dashboard" /\ StatsFiles[7] = "geometry"
  BY DEF StatsFiles
<1>4. FilesOf(StatsFiles) = {"account_state", "module_card_payloads", "input_dashboard", "query_plans",
                             "query_rows", "stats_dashboard", "geometry"}
  BY <1>2, <1>3 DEF FilesOf
<1> QED
  BY <1>1, <1>4, Names

StatsEnd == <<"run_stats", "diagnostics">>

LEMMA StatsEndList ==
  /\ StatsEnd \in Seq(Artifacts) /\ FilesOf(StatsEnd) = {"run_stats", "diagnostics"}
  /\ Len(StatsEnd) = 2 /\ StatsEnd[1] = "run_stats" /\ StatsEnd[2] = "diagnostics"
<1>1. StatsEnd \in Seq(Artifacts)
  BY AllNames DEF StatsEnd, Listed
<1>2. Len(StatsEnd) = 2 /\ 1..2 = {1, 2} /\ StatsEnd[1] = "run_stats" /\ StatsEnd[2] = "diagnostics"
  BY DEF StatsEnd
<1>3. FilesOf(StatsEnd) = {"run_stats", "diagnostics"}
  BY <1>2 DEF FilesOf
<1> QED
  BY <1>1, <1>2, <1>3

FullFiles == <<"diagnostics", "account_state", "input_dashboard", "stats_dashboard",
               "statbooks", "query_rows", "verification">>

LEMMA FullList ==
  /\ FullFiles \in Seq(Artifacts) /\ FilesOf(FullFiles) = FullContract
  /\ Len(FullFiles) = 7 /\ FullFiles[1] = "diagnostics"
<1>1. FullFiles \in Seq(Artifacts)
  BY AllNames DEF FullFiles, Listed
<1>2. Len(FullFiles) = 7 /\ 1..7 = {1, 2, 3, 4, 5, 6, 7}
  BY DEF FullFiles
<1>3. /\ FullFiles[1] = "diagnostics" /\ FullFiles[2] = "account_state"
      /\ FullFiles[3] = "input_dashboard" /\ FullFiles[4] = "stats_dashboard"
      /\ FullFiles[5] = "statbooks" /\ FullFiles[6] = "query_rows" /\ FullFiles[7] = "verification"
  BY DEF FullFiles
<1>4. FilesOf(FullFiles) = {"diagnostics", "account_state", "input_dashboard", "stats_dashboard",
                            "statbooks", "query_rows", "verification"}
  BY <1>2, <1>3 DEF FilesOf
<1> QED
  BY <1>1, <1>2, <1>3, <1>4, Names

LEMMA LastFilesList ==
  ASSUME NEW q
  PROVE  /\ LastFiles(q) \in Seq(Artifacts)
         /\ FilesOf(LastFiles(q)) = {"module_card_payloads"} \union Traced(q)
         /\ \A i \in 1..Len(LastFiles(q)) : LastFiles(q)[i] = "trace" => i = Len(LastFiles(q))
<1> DEFINE one == <<"module_card_payloads">>
           two == <<"module_card_payloads", "trace">>
<1>1. one \in Seq(Artifacts) /\ two \in Seq(Artifacts)
  BY AllNames DEF Listed
<1>2. /\ Len(one) = 1 /\ 1..1 = {1} /\ one[1] = "module_card_payloads"
      /\ Len(two) = 2 /\ 1..2 = {1, 2} /\ two[1] = "module_card_payloads" /\ two[2] = "trace"
  OBVIOUS
<1>3. FilesOf(one) = {"module_card_payloads"} /\ FilesOf(two) = {"module_card_payloads", "trace"}
  BY <1>2 DEF FilesOf
<1>4. "module_card_payloads" # "trace"
  OBVIOUS
<1>5. LastFiles(q) = IF q.trace THEN two ELSE one
  BY DEF LastFiles
<1> HIDE DEF one, two
<1>6. CASE q.trace
  BY <1>1, <1>2, <1>3, <1>4, <1>5, <1>6 DEF Traced
<1>7. CASE ~ q.trace
  BY <1>1, <1>2, <1>3, <1>4, <1>5, <1>7 DEF Traced
<1> QED
  BY <1>6, <1>7

(* The diagnostics, if a list has them at all, come first in it.           *)
LEMMA OpsFirst ==
  ASSUME NEW op \in FileKinds, NEW fs \in Seq(Artifacts),
         (Len(fs) > 0 /\ fs[1] = "diagnostics") \/ FilesOf(fs) \cap Watched = {}
  PROVE  /\ DiagnosticsFirst(Ops(op, fs))
         /\ Len(fs) > 0 /\ fs[1] = "diagnostics" => Touches(Ops(op, fs), "diagnostics")
<1> DEFINE s == Ops(op, fs)
<1>1. /\ Len(s) = Len(fs) /\ Len(fs) \in Nat
      /\ \A i \in 1..Len(fs) : s[i].op = op /\ s[i].file = fs[i]
  <2>1. Len(fs) \in Nat
    OBVIOUS
  <2>2. Len(s) = Len(fs) /\ \A i \in 1..Len(fs) : s[i].op = op /\ s[i].file = fs[i]
    BY OpsPart, Zenon
  <2> QED
    BY <2>1, <2>2
<1> HIDE DEF s
<1>2. op # "compute"
  BY DEF FileKinds
<1>3. ASSUME Len(fs) > 0, fs[1] = "diagnostics"
      PROVE  DiagnosticsFirst(s) /\ Touches(s, "diagnostics")
  <2>1. 1 \in 1..Len(s) /\ s[1].op # "compute" /\ s[1].file = "diagnostics"
    BY <1>1, <1>2, <1>3
  <2>2. \A i \in 1..Len(s) : 1 \in 1..i
    BY <1>1
  <2> QED
    BY <2>1, <2>2 DEF DiagnosticsFirst, Touches
<1>4. ASSUME FilesOf(fs) \cap Watched = {} PROVE DiagnosticsFirst(s)
  BY <1>1, <1>4 DEF DiagnosticsFirst, FilesOf
<1> QED
  BY <1>3, <1>4 DEF s

(* What RunStatsSession.execute does.                                      *)
StatsDoes(q) ==
  ({"remove"} \X FilesOf(Removals)) \union ({"write"} \X Must(q))

LEMMA StatsOrdered ==
  ASSUME NEW q \in Requests, q.kind = "stats"
  PROVE  Ordered(q, Program(q)) /\ Part(Program(q), StatsDoes(q))
<1> DEFINE a == Ops("remove", Removals)
           b == a \o Compute
           c == b \o Ops("write", StatsFiles)
           m == IF q.matrix THEN Compute \o Ops("write", <<"matrix">>) ELSE << >>
           d == c \o m
           e == d \o Ops("write", StatsEnd)
           da == {"remove"} \X FilesOf(Removals)
           dc == {"write"} \X FilesOf(StatsFiles)
           dm == {"write"} \X Asked(q)
           de == {"write"} \X FilesOf(StatsEnd)
<1>1. Program(q) = e
  BY DEF Program, StatsProgram, StatsFiles, StatsEnd
<1>2. "remove" \in FileKinds /\ "write" \in FileKinds
  BY DEF FileKinds
<1>3. /\ Part(a, da) /\ RemovesFirst(a) /\ DiagnosticsFirst(a) /\ Touches(a, "diagnostics")
  <2>1. Removals \in Seq(Artifacts) /\ Len(Removals) > 0 /\ Removals[1] = "diagnostics"
    BY Names
  <2>2. Part(a, da) /\ RemovesFirst(a)
    BY <1>2, <2>1, OpsPart
  <2>3. DiagnosticsFirst(a) /\ Touches(a, "diagnostics")
    BY <1>2, <2>1, OpsFirst
  <2> QED
    BY <2>2, <2>3
<1>4. Part(m, dm)
  <2>1. CASE q.matrix
    <3>1. Part(Ops("write", <<"matrix">>), {"write"} \X {"matrix"})
      BY <1>2, OneFile, OpsPart, AllNames DEF Listed
    <3> QED
      BY <2>1, <3>1, ComputePart, JoinedParts DEF Asked
  <2>2. CASE ~ q.matrix
    BY <2>2, NoPart DEF Asked
  <2> QED
    BY <2>1, <2>2
<1>5. Part(Ops("write", StatsFiles), dc) /\ Part(Ops("write", StatsEnd), de)
  BY <1>2, OpsPart, StatsList, StatsEndList
<1>6. \A f : <<"remove", f>> \notin dc /\ <<"remove", f>> \notin dm /\ <<"remove", f>> \notin de
  OBVIOUS
<1>7. WrittenLast(Ops("write", StatsEnd), "diagnostics")
  <2> DEFINE t == Ops("write", StatsEnd)
  <2>1. Len(t) = 2 /\ \A i \in 1..2 : t[i].file = StatsEnd[i]
    <3>1. Len(t) = Len(StatsEnd) /\ \A i \in 1..Len(StatsEnd) : t[i].file = StatsEnd[i]
      BY <1>2, StatsEndList, OpsPart, Zenon
    <3> QED
      BY <3>1, StatsEndList
  <2> HIDE DEF t
  <2>2. t[1].file # "diagnostics"
    BY <2>1, StatsEndList
  <2>3. WrittenLast(t, "diagnostics")
    BY <2>1, <2>2 DEF WrittenLast
  <2> QED
    BY <2>3 DEF t
<1> HIDE DEF a, m, dc, de, da, dm
<1>8. Part(b, da) /\ RemovesFirst(b) /\ DiagnosticsFirst(b) /\ Touches(b, "diagnostics")
  <2>1. Part(b, da \union {}) /\ RemovesFirst(b)
    BY <1>3, ComputePart, JoinedParts, JoinedOrder
  <2>2. DiagnosticsFirst(b) /\ Touches(b, "diagnostics")
    BY <1>3, ComputePart, JoinedFirst DEF Part
  <2> QED
    BY <2>1, <2>2
<1> HIDE DEF b
<1>9. Part(c, da \union dc) /\ RemovesFirst(c) /\ DiagnosticsFirst(c) /\ Touches(c, "diagnostics")
  <2>1. Part(c, da \union dc)
    BY <1>5, <1>8, JoinedParts
  <2>2. RemovesFirst(c)
    BY <1>5, <1>6, <1>8, JoinedOrder
  <2>3. DiagnosticsFirst(c) /\ Touches(c, "diagnostics")
    BY <1>5, <1>8, JoinedFirst DEF Part
  <2> QED
    BY <2>1, <2>2, <2>3
<1> HIDE DEF c
<1>10. Part(d, (da \union dc) \union dm) /\ RemovesFirst(d) /\ DiagnosticsFirst(d)
       /\ Touches(d, "diagnostics")
  <2>1. Part(d, (da \union dc) \union dm)
    BY <1>4, <1>9, JoinedParts
  <2>2. RemovesFirst(d)
    BY <1>4, <1>6, <1>9, JoinedOrder
  <2>3. DiagnosticsFirst(d) /\ Touches(d, "diagnostics")
    BY <1>4, <1>9, JoinedFirst DEF Part
  <2> QED
    BY <2>1, <2>2, <2>3
<1> HIDE DEF d
<1>11. Part(e, ((da \union dc) \union dm) \union de) /\ RemovesFirst(e) /\ DiagnosticsFirst(e)
  <2>1. Part(e, ((da \union dc) \union dm) \union de)
    BY <1>5, <1>10, JoinedParts
  <2>2. RemovesFirst(e)
    BY <1>5, <1>6, <1>10, JoinedOrder
  <2>3. DiagnosticsFirst(e)
    BY <1>5, <1>10, JoinedFirst DEF Part
  <2> QED
    BY <2>1, <2>2, <2>3
<1>12. WrittenLast(e, "diagnostics")
  <2>1. "diagnostics" \in Artifacts
    BY AllNames DEF Listed
  <2>2. <<"write", "diagnostics">> \notin (da \union dc) \union dm
    BY StatsList DEF da, dc, dm, Asked
  <2>3. Ops("write", StatsEnd) \in Seq(Operations)
    BY <1>5 DEF Part
  <2> QED
    BY <1>7, <1>10, <2>1, <2>2, <2>3, JoinedLast
<1>13. ((da \union dc) \union dm) \union de = StatsDoes(q)
  <2>1. FilesOf(StatsFiles) \union FilesOf(StatsEnd) = StatsContract
    BY StatsList, StatsEndList, Names
  <2>2. Must(q) = StatsContract \union Asked(q)
    BY DEF Must, Always
  <2> QED
    BY <2>1, <2>2 DEF da, dc, dm, de, StatsDoes
<1> QED
  BY <1>1, <1>11, <1>12, <1>13 DEF Ordered, Last, Part


LEMMA NoWrites ==
  ASSUME NEW s, NEW ds, Part(s, ds), \A f \in Artifacts : <<"write", f>> \notin ds
  PROVE  RemovesFirst(s)
<1>1. s \in Seq(Operations)
  BY DEF Part
<1>2. ASSUME NEW j \in 1..Len(s), s[j].op = "write" PROVE FALSE
  <2>1. s[j] \in Operations
    BY <1>1
  <2>2. s[j].file \in Artifacts
    BY <1>2, <2>1 DEF Operations, FileOps
  <2> QED
    BY <1>2, <2>2 DEF Part, Does, FileKinds
<1> QED
  BY <1>2 DEF RemovesFirst

(* What run_analysis_pipeline does.                                        *)
Left(q) == IF q.matrix THEN {} ELSE {"matrix"}
Besides(q) == {"module_card_payloads"} \union (IF q.residue THEN {"residue_reports"} ELSE {})
FullDoes(q) ==
  ({"remove"} \X Left(q)) \union ({"write"} \X (Must(q) \union Besides(q)))
  \union ({"restamp"} \X {"run_stats"})

LEMMA TraceLast ==
  ASSUME NEW q
  PROVE  WrittenLast(Ops("write", LastFiles(q)), "trace")
<1> DEFINE fs == LastFiles(q)
           t == Ops("write", fs)
<1>1. /\ "write" \in FileKinds /\ fs \in Seq(Artifacts)
      /\ \A i \in 1..Len(fs) : fs[i] = "trace" => i = Len(fs)
  BY LastFilesList DEF FileKinds
<1> HIDE DEF fs
<1>2. Len(t) = Len(fs) /\ \A i \in 1..Len(fs) : t[i].file = fs[i]
  BY <1>1, OpsPart
<1> HIDE DEF t
<1>3. WrittenLast(t, "trace")
  BY <1>1, <1>2 DEF WrittenLast
<1> QED
  BY <1>3 DEF t, fs

LEMMA FullOrdered ==
  ASSUME NEW q \in Requests, q.kind = "full"
  PROVE  Ordered(q, Program(q)) /\ Part(Program(q), FullDoes(q))
<1> DEFINE p == IF q.matrix THEN Compute ELSE Ops("remove", <<"matrix">>)
           a == Compute \o p
           b == a \o Ops("write", FullFiles)
           r == IF q.residue THEN Ops("write", <<"residue_reports">>) ELSE << >>
           c == b \o r
           d == c \o Ops("restamp", <<"run_stats">>)
           m == IF q.matrix THEN Ops("write", <<"matrix">>) ELSE << >>
           e == d \o m
           z == e \o Ops("write", LastFiles(q))
           dp == {"remove"} \X Left(q)
           db == {"write"} \X FilesOf(FullFiles)
           dr == {"write"} \X (IF q.residue THEN {"residue_reports"} ELSE {})
           dd == {"restamp"} \X {"run_stats"}
           dm == {"write"} \X Asked(q)
           dz == {"write"} \X FilesOf(LastFiles(q))
<1>1. Program(q) = z
  BY DEF Program, FullProgram, FullFiles
<1>2. "remove" \in FileKinds /\ "write" \in FileKinds /\ "restamp" \in FileKinds
  BY DEF FileKinds
<1>3. /\ "matrix" \in Artifacts /\ "residue_reports" \in Artifacts /\ "run_stats" \in Artifacts
      /\ "trace" \in Artifacts
  BY AllNames DEF Listed
<1>4. Part(p, dp) /\ DiagnosticsFirst(p)
  <2>1. CASE q.matrix
    BY <2>1, ComputePart DEF Left
  <2>2. CASE ~ q.matrix
    <3>1. <<"matrix">> \in Seq(Artifacts) /\ FilesOf(<<"matrix">>) = {"matrix"}
      BY <1>3, OneFile
    <3>2. {"matrix"} \cap Watched = {}
      BY Names DEF Watched
    <3>3. Part(Ops("remove", <<"matrix">>), {"remove"} \X {"matrix"})
      BY <1>2, <3>1, OpsPart
    <3>4. DiagnosticsFirst(Ops("remove", <<"matrix">>))
      BY <1>2, <3>1, <3>2, OpsFirst
    <3> QED
      BY <2>2, <3>3, <3>4 DEF Left
  <2> QED
    BY <2>1, <2>2
<1>5. Part(Ops("write", FullFiles), db) /\ Part(Ops("write", LastFiles(q)), dz)
  BY <1>2, OpsPart, FullList, LastFilesList
<1>6. DiagnosticsFirst(Ops("write", FullFiles)) /\ Touches(Ops("write", FullFiles), "diagnostics")
  <2>1. FullFiles \in Seq(Artifacts) /\ Len(FullFiles) > 0 /\ FullFiles[1] = "diagnostics"
    BY FullList
  <2> QED
    BY <1>2, <2>1, OpsFirst
<1>7. Part(r, dr)
  <2>1. Part(Ops("write", <<"residue_reports">>), {"write"} \X {"residue_reports"})
    BY <1>2, <1>3, OneFile, OpsPart
  <2>2. CASE q.residue
    BY <2>1, <2>2
  <2>3. CASE ~ q.residue
    BY <2>3, NoPart
  <2> QED
    BY <2>2, <2>3
<1>8. Part(Ops("restamp", <<"run_stats">>), dd)
  BY <1>2, <1>3, OneFile, OpsPart
<1>9. Part(m, dm)
  <2>1. Part(Ops("write", <<"matrix">>), {"write"} \X {"matrix"})
    BY <1>2, <1>3, OneFile, OpsPart
  <2>2. CASE q.matrix
    BY <2>1, <2>2 DEF Asked
  <2>3. CASE ~ q.matrix
    BY <2>3, NoPart DEF Asked
  <2> QED
    BY <2>2, <2>3
<1>10. \A f : /\ <<"remove", f>> \notin db /\ <<"remove", f>> \notin dr /\ <<"remove", f>> \notin dd
              /\ <<"remove", f>> \notin dm /\ <<"remove", f>> \notin dz /\ <<"write", f>> \notin dp
  OBVIOUS
<1>11. WrittenLast(Ops("write", LastFiles(q)), "trace")
  BY TraceLast
<1> HIDE DEF p, r, m, dp, db, dr, dd, dm, dz
<1>12. Part(a, dp) /\ RemovesFirst(a) /\ DiagnosticsFirst(a)
  <2>1. Part(a, {} \union dp)
    BY <1>4, ComputePart, JoinedParts
  <2>2. {} \union dp = dp
    OBVIOUS
  <2>3. Part(a, dp)
    BY <2>1, <2>2
  <2>4. RemovesFirst(a)
    BY <1>10, <2>3, NoWrites
  <2>5. DiagnosticsFirst(a)
    BY <1>4, ComputePart, JoinedFirst DEF Part
  <2> QED
    BY <2>3, <2>4, <2>5
<1> HIDE DEF a
<1>13. /\ Part(b, dp \union db) /\ RemovesFirst(b) /\ DiagnosticsFirst(b)
       /\ Touches(b, "diagnostics")
  <2>1. Part(b, dp \union db)
    BY <1>5, <1>12, JoinedParts
  <2>2. RemovesFirst(b)
    BY <1>5, <1>10, <1>12, JoinedOrder
  <2>3. DiagnosticsFirst(b) /\ Touches(b, "diagnostics")
    BY <1>5, <1>6, <1>12, JoinedFirst DEF Part
  <2> QED
    BY <2>1, <2>2, <2>3
<1> HIDE DEF b
<1> DEFINE dc == (dp \union db) \union dr
<1>14. Part(c, dc) /\ RemovesFirst(c) /\ DiagnosticsFirst(c) /\ Touches(c, "diagnostics")
  <2>1. Part(c, dc)
    BY <1>7, <1>13, JoinedParts
  <2>2. RemovesFirst(c)
    BY <1>7, <1>10, <1>13, JoinedOrder
  <2>3. DiagnosticsFirst(c) /\ Touches(c, "diagnostics")
    BY <1>7, <1>13, JoinedFirst DEF Part
  <2> QED
    BY <2>1, <2>2, <2>3
<1> HIDE DEF c
<1>15. Part(d, dc \union dd) /\ RemovesFirst(d) /\ DiagnosticsFirst(d) /\ Touches(d, "diagnostics")
  <2>1. Part(d, dc \union dd)
    BY <1>8, <1>14, JoinedParts
  <2>2. RemovesFirst(d)
    BY <1>8, <1>10, <1>14, JoinedOrder
  <2>3. DiagnosticsFirst(d) /\ Touches(d, "diagnostics")
    BY <1>8, <1>14, JoinedFirst DEF Part
  <2> QED
    BY <2>1, <2>2, <2>3
<1> HIDE DEF d
<1> DEFINE du == (dc \union dd) \union dm
<1>16. Part(e, du) /\ RemovesFirst(e) /\ DiagnosticsFirst(e) /\ Touches(e, "diagnostics")
  <2>1. Part(e, du)
    BY <1>9, <1>15, JoinedParts
  <2>2. RemovesFirst(e)
    BY <1>9, <1>10, <1>15, JoinedOrder
  <2>3. DiagnosticsFirst(e) /\ Touches(e, "diagnostics")
    BY <1>9, <1>15, JoinedFirst DEF Part
  <2> QED
    BY <2>1, <2>2, <2>3
<1> HIDE DEF e
<1>17. Part(z, du \union dz) /\ RemovesFirst(z) /\ DiagnosticsFirst(z)
  <2>1. Part(z, du \union dz)
    BY <1>5, <1>16, JoinedParts
  <2>2. RemovesFirst(z)
    BY <1>5, <1>10, <1>16, JoinedOrder
  <2>3. DiagnosticsFirst(z)
    BY <1>5, <1>16, JoinedFirst DEF Part
  <2> QED
    BY <2>1, <2>2, <2>3
<1>18. WrittenLast(z, "trace")
  <2>1. "trace" \notin FilesOf(FullFiles)
    BY FullList, Names
  <2>2. <<"write", "trace">> \notin du
    BY <2>1 DEF dp, db, dr, dd, dm, Asked
  <2>3. Ops("write", LastFiles(q)) \in Seq(Operations)
    BY <1>5 DEF Part
  <2> QED
    BY <1>3, <1>11, <1>16, <2>2, <2>3, JoinedLast
<1>19. du \union dz = FullDoes(q)
  <2>1. Must(q) \union Besides(q)
          = FilesOf(FullFiles) \union (IF q.residue THEN {"residue_reports"} ELSE {})
            \union Asked(q) \union FilesOf(LastFiles(q))
    BY FullList, LastFilesList DEF Must, Always, Traced, Besides
  <2> QED
    BY <2>1 DEF dp, db, dr, dd, dm, dz, FullDoes
<1> QED
  BY <1>1, <1>17, <1>18, <1>19 DEF Ordered, Last, Part


(* What is left of a program while it runs.                                *)
Shape(q, s) ==
  /\ s \in Seq(Operations)
  /\ \A i \in 1..Len(s) : s[i].op = "remove" /\ s[i].file \in Must(q) =>
       \E j \in 1..Len(s) : i < j /\ s[j].op = "write" /\ s[j].file = s[i].file
  /\ WrittenLast(s, Last(q))
  /\ \A i \in 1..Len(s) : s[i].op = "restamp" => q.kind = "full" /\ s[i].file = "run_stats"
  /\ q.kind = "full" /\ ~ q.matrix => ~ Does(s, "write", "matrix")
  /\ q.kind = "stats" => ~ Does(s, "write", "trace")

(* A whole program is one that is left.                                    *)
LEMMA ProgramShape ==
  ASSUME NEW q \in Requests
  PROVE  /\ Shape(q, Program(q)) /\ DiagnosticsFirst(Program(q))
         /\ \A f \in Must(q) : Does(Program(q), "write", f)
         /\ q.kind = "stats" =>
              \A f \in Artifacts \ {"matrix", "residue_reports"} : Touches(Program(q), f)
         /\ q.kind = "full" /\ ~ q.matrix => Does(Program(q), "remove", "matrix")
<1> DEFINE s == Program(q)
           does == IF q.kind = "stats" THEN StatsDoes(q) ELSE FullDoes(q)
<1>1. q.kind \in {"stats", "full"} /\ q.matrix \in BOOLEAN /\ Must(q) \subseteq Artifacts
  BY SplitQuery
<1>2. Ordered(q, s) /\ Part(s, does)
  BY <1>1, StatsOrdered, FullOrdered
<1>3. "matrix" \in Artifacts /\ "trace" \in Artifacts
  BY AllNames DEF Listed
<1>4. \A f \in Must(q) : <<"write", f>> \in does
  BY DEF StatsDoes, FullDoes
<1>5. q.kind = "full" /\ ~ q.matrix => <<"remove", "matrix">> \in does /\ <<"write", "matrix">> \notin does
  <2>1. q.kind = "full" /\ ~ q.matrix => "matrix" \in Left(q) /\ "matrix" \notin Must(q) \union Besides(q)
    BY Names DEF Left, Must, Always, Traced, Asked, Besides
  <2> QED
    BY <2>1 DEF FullDoes
<1>6. q.kind = "stats" => <<"write", "trace">> \notin does /\ \A f : <<"restamp", f>> \notin does
  <2>1. q.kind = "stats" => "trace" \notin Must(q)
    BY Names DEF Must, Always, Traced, Asked
  <2> QED
    BY <2>1 DEF StatsDoes
<1>7. \A f : <<"restamp", f>> \in does => f = "run_stats"
  BY DEF StatsDoes, FullDoes
<1>8. q.kind = "stats" =>
        \A f \in Artifacts \ {"matrix", "residue_reports"} : <<"remove", f>> \in does
  BY Names, AllNames DEF StatsDoes, Listed
<1> HIDE DEF s, does
<1>9. s \in Seq(Operations) /\ RemovesFirst(s) /\ WrittenLast(s, Last(q)) /\ DiagnosticsFirst(s)
  BY <1>2 DEF Ordered
<1>10. \A op \in FileKinds, f \in Artifacts : Does(s, op, f) <=> <<op, f>> \in does
  BY <1>2 DEF Part
<1>11. "remove" \in FileKinds /\ "write" \in FileKinds /\ "restamp" \in FileKinds
  BY DEF FileKinds
<1>12. \A f \in Must(q) : Does(s, "write", f)
  BY <1>1, <1>4, <1>10, <1>11
<1>13. ASSUME NEW i \in 1..Len(s), s[i].op # "compute"
       PROVE  s[i].file \in Artifacts
  <2>1. s[i] \in Operations
    BY <1>9
  <2> QED
    BY <1>13, <2>1 DEF Operations, FileOps
<1>14. ASSUME NEW i \in 1..Len(s), s[i].op = "remove", s[i].file \in Must(q)
       PROVE  \E j \in 1..Len(s) : i < j /\ s[j].op = "write" /\ s[j].file = s[i].file
  <2>1. PICK j \in 1..Len(s) : s[j].op = "write" /\ s[j].file = s[i].file
    BY <1>12, <1>14 DEF Does
  <2> QED
    BY <1>9, <1>14, <2>1 DEF RemovesFirst
<1>15. ASSUME NEW i \in 1..Len(s), s[i].op = "restamp"
       PROVE  q.kind = "full" /\ s[i].file = "run_stats"
  <2>1. s[i].file \in Artifacts /\ Does(s, "restamp", s[i].file)
    BY <1>13, <1>15 DEF Does
  <2> QED
    BY <1>1, <1>6, <1>7, <1>10, <1>11, <2>1
<1>16. Shape(q, s)
  BY <1>3, <1>5, <1>6, <1>9, <1>10, <1>11, <1>14, <1>15 DEF Shape
<1>17. q.kind = "stats" =>
         \A f \in Artifacts \ {"matrix", "residue_reports"} : Touches(s, f)
  <2>1. ASSUME NEW f, Does(s, "remove", f) PROVE Touches(s, f)
    BY <2>1 DEF Does, Touches
  <2> QED
    BY <1>8, <1>10, <1>11, <2>1
<1> QED
  BY <1>3, <1>5, <1>9, <1>10, <1>11, <1>12, <1>16, <1>17 DEF s

(* One operation is done.                                                  *)
LEMMA TailFacts ==
  ASSUME NEW s \in Seq(Operations), s # << >>
  PROVE  /\ Tail(s) \in Seq(Operations) /\ Len(s) \in Nat \ {0} /\ Len(Tail(s)) = Len(s) - 1
         /\ Head(s) = s[1] /\ s[1] \in Operations
         /\ \A i \in 1..Len(Tail(s)) : i + 1 \in 1..Len(s) /\ Tail(s)[i] = s[i + 1]
         /\ \A i \in 1..Len(s) : i = 1 \/ (i - 1 \in 1..Len(Tail(s)) /\ Tail(s)[i - 1] = s[i])
<1>1. /\ Tail(s) \in Seq(Operations) /\ Len(s) \in Nat \ {0} /\ Len(Tail(s)) = Len(s) - 1
      /\ Head(s) = s[1] /\ s[1] \in Operations
  OBVIOUS
<1>2. \A i \in 1..Len(Tail(s)) : i + 1 \in 1..Len(s) /\ Tail(s)[i] = s[i + 1]
  BY <1>1
<1>3. ASSUME NEW i \in 1..Len(s), i # 1
      PROVE  i - 1 \in 1..Len(Tail(s)) /\ Tail(s)[i - 1] = s[i]
  <2>1. i - 1 \in 1..Len(Tail(s)) /\ (i - 1) + 1 = i
    BY <1>1, <1>3
  <2> QED
    BY <1>2, <2>1
<1> QED
  BY <1>1, <1>2, <1>3

LEMMA TailDoes ==
  ASSUME NEW s \in Seq(Operations), s # << >>, NEW f
  PROVE  /\ \A op : Does(s, op, f) <=> (Head(s).op = op /\ Head(s).file = f) \/ Does(Tail(s), op, f)
         /\ Touches(s, f) <=> (Head(s).op # "compute" /\ Head(s).file = f) \/ Touches(Tail(s), f)
<1> DEFINE t == Tail(s)
<1>1. /\ Len(s) \in Nat \ {0} /\ Len(t) = Len(s) - 1 /\ Head(s) = s[1]
      /\ \A i \in 1..Len(t) : i + 1 \in 1..Len(s) /\ t[i] = s[i + 1]
      /\ \A i \in 1..Len(s) : i = 1 \/ (i - 1 \in 1..Len(t) /\ t[i - 1] = s[i])
  BY TailFacts
<1>2. 1 \in 1..Len(s)
  BY <1>1
<1> HIDE DEF t
<1>3. ASSUME NEW op PROVE Does(s, op, f) <=> (Head(s).op = op /\ Head(s).file = f) \/ Does(t, op, f)
  BY <1>1, <1>2 DEF Does
<1>4. Touches(s, f) <=> (Head(s).op # "compute" /\ Head(s).file = f) \/ Touches(t, f)
  BY <1>1, <1>2 DEF Touches
<1> QED
  BY <1>3, <1>4 DEF t

LEMMA TailShape ==
  ASSUME NEW q, NEW s, Shape(q, s), s # << >>
  PROVE  Shape(q, Tail(s))
<1> DEFINE t == Tail(s)
<1>1. s \in Seq(Operations)
  BY DEF Shape
<1>2. /\ t \in Seq(Operations) /\ Len(s) \in Nat \ {0} /\ Len(t) = Len(s) - 1
      /\ \A i \in 1..Len(t) : i + 1 \in 1..Len(s) /\ t[i] = s[i + 1]
      /\ \A i \in 1..Len(s) : i = 1 \/ (i - 1 \in 1..Len(t) /\ t[i - 1] = s[i])
  BY <1>1, TailFacts
<1>3. \A f, op : Does(t, op, f) => Does(s, op, f)
  BY <1>1, TailDoes
<1> HIDE DEF t
<1>4. ASSUME NEW i \in 1..Len(t), t[i].op = "remove", t[i].file \in Must(q)
      PROVE  \E j \in 1..Len(t) : i < j /\ t[j].op = "write" /\ t[j].file = t[i].file
  <2>1. PICK k \in 1..Len(s) : i + 1 < k /\ s[k].op = "write" /\ s[k].file = t[i].file
    BY <1>2, <1>4 DEF Shape
  <2>2. k - 1 \in 1..Len(t) /\ t[k - 1] = s[k] /\ i < k - 1
    BY <1>2, <2>1
  <2> QED
    BY <2>1, <2>2
<1>5. WrittenLast(t, Last(q))
  BY <1>2 DEF Shape, WrittenLast
<1>6. \A i \in 1..Len(t) : t[i].op = "restamp" => q.kind = "full" /\ t[i].file = "run_stats"
  <2>1. \A j \in 1..Len(s) : s[j].op = "restamp" => q.kind = "full" /\ s[j].file = "run_stats"
    BY DEF Shape
  <2>2. \A i \in 1..Len(t) : i + 1 \in 1..Len(s) /\ t[i] = s[i + 1]
    BY <1>2
  <2> QED
    BY <2>1, <2>2
<1>7. Shape(q, t)
  BY <1>2, <1>3, <1>4, <1>5, <1>6 DEF Shape
<1> QED
  BY <1>7 DEF t

LEMMA TailFirst ==
  ASSUME NEW s \in Seq(Operations), s # << >>, DiagnosticsFirst(s),
         Head(s).op = "compute" \/ Head(s).file # "diagnostics"
  PROVE  /\ DiagnosticsFirst(Tail(s))
         /\ Head(s).op = "compute" \/ Head(s).file \notin Watched
<1> DEFINE t == Tail(s)
<1>1. /\ Len(s) \in Nat \ {0} /\ Len(t) = Len(s) - 1 /\ Head(s) = s[1]
      /\ \A i \in 1..Len(t) : i + 1 \in 1..Len(s) /\ t[i] = s[i + 1]
      /\ \A i \in 1..Len(s) : i = 1 \/ (i - 1 \in 1..Len(t) /\ t[i - 1] = s[i])
  BY TailFacts
<1> HIDE DEF t
<1>2. ASSUME NEW i \in 1..Len(t), t[i].op # "compute", t[i].file \in Watched
      PROVE  \E j \in 1..i : t[j].op # "compute" /\ t[j].file = "diagnostics"
  <2>1. PICK k \in 1..(i + 1) : s[k].op # "compute" /\ s[k].file = "diagnostics"
    BY <1>1, <1>2 DEF DiagnosticsFirst
  <2>2. k # 1 /\ k \in 1..Len(s)
    BY <1>1, <2>1
  <2>3. k - 1 \in 1..i /\ t[k - 1] = s[k]
    BY <1>1, <2>1, <2>2
  <2> QED
    BY <2>1, <2>3
<1>3. DiagnosticsFirst(t)
  BY <1>2 DEF DiagnosticsFirst
<1>4. ASSUME Head(s).op # "compute", Head(s).file \in Watched PROVE FALSE
  <2>1. 1 \in 1..Len(s) /\ \A j \in 1..1 : j = 1
    BY <1>1
  <2> QED
    BY <1>1, <1>4, <2>1 DEF DiagnosticsFirst
<1> QED
  BY <1>3, <1>4 DEF t

LEMMA TailLast ==
  ASSUME NEW s \in Seq(Operations), s # << >>, NEW f, WrittenLast(s, f),
         Head(s).op = "write", Head(s).file = f
  PROVE  Tail(s) = << >>
<1> DEFINE t == Tail(s)
<1>1. t \in Seq(Operations) /\ Len(s) \in Nat \ {0} /\ Len(t) = Len(s) - 1 /\ Head(s) = s[1]
  BY TailFacts
<1> HIDE DEF t
<1>2. 1 \in 1..Len(s) /\ s[1].op = "write" /\ s[1].file = f
  BY <1>1
<1>3. 1 = Len(s)
  BY <1>2 DEF WrittenLast
<1>4. Len(t) = 0
  BY <1>1, <1>3
<1>5. t = << >>
  BY <1>1, <1>4
<1> QED
  BY <1>5 DEF t


-----------------------------------------------------------------------------
(* The output directory: its invariant                                     *)
-----------------------------------------------------------------------------

Contents(k) ==
  {Absent, Torn} \union [there : {TRUE}, whole : {TRUE}, run : 0..k, diag : 0..k]

Plain == [todo : Seq(Operations), open : BOOLEAN]
Loaded(k) == [todo : Seq(Operations), open : {TRUE}, loaded : 0..k]

DirTypes ==
  /\ dir \in [Artifacts -> Contents(latest)]
  /\ asked \in Seq(Requests) /\ latest <= MaxRuns
  /\ outcome \in {"none", "running", "done", "failed", "crashed"}
  /\ job \in Plain \union Loaded(latest)
  /\ outcome # "running" => job = NoJob
  /\ outcome # "none" => latest > 0
  /\ job.open => /\ job.todo # << >>
                 /\ \/ Head(job.todo).op = "write"
                    \/ Head(job.todo).op = "restamp" /\ job \in Loaded(latest)

(* While a run is on, or has returned: what it must write is there or      *)
(* still to come, and what it must clear away is gone or still to go.  As  *)
(* long as the diagnostics of an earlier run lie whole, no other file that *)
(* is vouched for has been touched, and what vouches for this run is not   *)
(* there before the end.                                                   *)
MustBeThere ==
  \A f \in Must(asked[latest]) : Does(job.todo, "write", f) \/ FromRun(f, latest)
OldGoes ==
  asked[latest].kind = "stats" =>
    \A f \in Artifacts \ {"matrix", "residue_reports"} :
      Touches(job.todo, f) \/ ~ dir[f].there \/ FromRun(f, latest)
MatrixGoes ==
  asked[latest].kind = "full" /\ ~ asked[latest].matrix =>
    Does(job.todo, "remove", "matrix") \/ ~ dir["matrix"].there
OldDiagnosticsFirst ==
  Whole("diagnostics") /\ dir["diagnostics"].run # latest => DiagnosticsFirst(job.todo)
LastIsLast ==
  LET f == Last(asked[latest])
  IN Whole(f) /\ dir[f].run = latest => job.todo = << >>

Progress ==
  outcome \in {"running", "done"} =>
    /\ Shape(asked[latest], job.todo)
    /\ MustBeThere /\ OldGoes /\ MatrixGoes /\ OldDiagnosticsFirst /\ LastIsLast

TraceAges ==
  Whole("trace") /\ Whole("diagnostics") =>
    /\ dir["trace"].run <= dir["diagnostics"].run
    /\ asked[dir["diagnostics"].run].kind = "full"

Vouched ==
  /\ Whole("diagnostics") => dir["diagnostics"].run \in 1..latest
  /\ Whole("trace") =>
       dir["trace"].run \in 1..latest /\ asked[dir["trace"].run].kind = "full"
  /\ StatsContractKept /\ TraceVouches /\ TraceAges

DirInv == DirTypes /\ Progress /\ Vouched

LEMMA ContentFacts ==
  /\ ~ Absent.there /\ Torn.there /\ ~ Torn.whole
  /\ \A k, d : /\ Payload(k, d).there /\ Payload(k, d).whole
               /\ Payload(k, d).run = k /\ Payload(k, d).diag = d
  /\ \A m \in Nat : Absent \in Contents(m) /\ Torn \in Contents(m)
  /\ \A m \in Nat : \A k, d \in 0..m : Payload(k, d) \in Contents(m)
BY DEF Absent, Torn, Payload, Contents

LEMMA LatestFacts ==
  ASSUME DirInv, outcome # "none"
  PROVE  /\ latest \in Nat \ {0} /\ latest \in 1..latest /\ asked[latest] \in Requests
<1>1. asked \in Seq(Requests) /\ latest > 0 /\ latest = Len(asked)
  BY DEF DirInv, DirTypes, latest
<1>2. latest \in Nat \ {0} /\ latest \in 1..latest
  BY <1>1
<1> QED
  BY <1>1, <1>2

LEMMA DirStarts == DirInit => DirInv
<1> SUFFICES ASSUME DirInit PROVE DirInv
  OBVIOUS
<1>1. dir = [f \in Artifacts |-> Absent] /\ asked = << >> /\ job = NoJob /\ outcome = "none"
  BY DEF DirInit
<1>2. latest = 0
  BY <1>1 DEF latest
<1>3. NoJob \in Plain /\ NoJob.open = FALSE
  BY DEF NoJob, Plain
<1>4. dir \in [Artifacts -> Contents(latest)]
  BY <1>1, <1>2, ContentFacts
<1>5. asked \in Seq(Requests) /\ latest <= MaxRuns
  BY <1>1, <1>2, RunsAssumption
<1>6. DirTypes
  BY <1>1, <1>2, <1>3, <1>4, <1>5 DEF DirTypes
<1>7. \A f \in Artifacts : ~ Whole(f)
  BY <1>1, ContentFacts DEF Whole
<1>8. ~ Whole("diagnostics") /\ ~ Whole("trace")
  BY <1>7, AllNames DEF Listed
<1> QED
  BY <1>1, <1>6, <1>8 DEF DirInv, Progress, Vouched, StatsContractKept, TraceVouches, TraceAges

(* A run starts: nothing of the directory is touched.                      *)
LEMMA StartKeeps ==
  ASSUME DirInv, NEW q \in Requests, Start(q)
  PROVE  DirInv'
<1>1. /\ asked' = Append(asked, q) /\ job' = [todo |-> Program(q), open |-> FALSE]
      /\ outcome' = "running" /\ dir' = dir /\ latest < MaxRuns
  BY DEF Start
<1>2. asked \in Seq(Requests) /\ latest = Len(asked) /\ latest \in Nat
  BY DEF DirInv, DirTypes, latest
<1>3. /\ asked' \in Seq(Requests) /\ latest' = latest + 1 /\ asked'[latest'] = q
      /\ \A k \in 1..latest : asked'[k] = asked[k]
  <2>1. /\ asked' \in Seq(Requests) /\ Len(asked') = Len(asked) + 1
        /\ asked'[Len(asked) + 1] = q /\ \A k \in 1..Len(asked) : asked'[k] = asked[k]
    BY <1>1, <1>2
  <2>2. latest' = Len(asked')
    BY DEF latest
  <2> QED
    BY <1>2, <2>1, <2>2
<1>4. /\ Shape(q, Program(q)) /\ DiagnosticsFirst(Program(q))
      /\ \A f \in Must(q) : Does(Program(q), "write", f)
      /\ q.kind = "stats" =>
           \A f \in Artifacts \ {"matrix", "residue_reports"} : Touches(Program(q), f)
      /\ q.kind = "full" /\ ~ q.matrix => Does(Program(q), "remove", "matrix")
  BY ProgramShape
<1>5. Program(q) \in Seq(Operations)
  BY <1>4 DEF Shape
<1>6. job'.todo = Program(q) /\ job'.open = FALSE /\ job' \in Plain
  BY <1>1, <1>5 DEF Plain
<1>7. dir \in [Artifacts -> Contents(latest)]
  BY DEF DirInv, DirTypes
<1>8. Contents(latest) \subseteq Contents(latest')
  <2>1. 0..latest \subseteq 0..latest'
    BY <1>2, <1>3
  <2> QED
    BY <2>1 DEF Contents
<1>9. dir' \in [Artifacts -> Contents(latest')]
  BY <1>1, <1>7, <1>8
<1>10. Contents(latest)' = Contents(latest')
  BY DEF Contents, Absent, Torn
<1>11. DirTypes'
  BY <1>1, <1>2, <1>3, <1>6, <1>9, <1>10, RunsAssumption DEF DirTypes, Plain
<1>12. \A f : Whole(f)' <=> Whole(f)
  BY <1>1 DEF Whole
<1>13. \A f, k : FromRun(f, k)' <=> FromRun(f, k)
  BY <1>1, <1>12 DEF FromRun
<1>14. /\ Whole("diagnostics") => dir["diagnostics"].run \in 1..latest
       /\ Whole("trace") =>
            dir["trace"].run \in 1..latest /\ asked[dir["trace"].run].kind = "full"
       /\ StatsContractKept /\ TraceVouches /\ TraceAges
  BY DEF DirInv, Vouched
<1>15. Vouched'
  <2>1. /\ Whole("diagnostics")' => dir'["diagnostics"].run \in 1..latest'
        /\ Whole("trace")' =>
             dir'["trace"].run \in 1..latest' /\ asked'[dir'["trace"].run].kind = "full"
    BY <1>1, <1>2, <1>3, <1>12, <1>14
  <2>2. StatsContractKept'
    BY <1>1, <1>3, <1>12, <1>13, <1>14 DEF StatsContractKept
  <2>3. TraceVouches'
    BY <1>1, <1>12, <1>13, <1>14 DEF TraceVouches
  <2>4. TraceAges'
    BY <1>1, <1>3, <1>12, <1>14 DEF TraceAges
  <2> QED
    BY <2>1, <2>2, <2>3, <2>4 DEF Vouched
<1>16. Progress'
  <2>1. MustBeThere'
    BY <1>3, <1>4, <1>6 DEF MustBeThere
  <2>2. OldGoes'
    BY <1>3, <1>4, <1>6 DEF OldGoes
  <2>3. MatrixGoes'
    BY <1>3, <1>4, <1>6 DEF MatrixGoes
  <2>4. OldDiagnosticsFirst'
    BY <1>4, <1>6 DEF OldDiagnosticsFirst
  <2>5. LastIsLast'
    <3>1. Last(q) \in {"diagnostics", "trace"}
      BY DEF Last
    <3>2. Whole(Last(q))' => dir'[Last(q)].run # latest'
      BY <1>1, <1>2, <1>3, <1>12, <1>14, <3>1
    <3> QED
      BY <1>3, <3>2 DEF LastIsLast
  <2>6. Shape(asked[latest], job.todo)'
    BY <1>3, <1>4, <1>6
  <2> QED
    BY <2>1, <2>2, <2>3, <2>4, <2>5, <2>6 DEF Progress
<1> QED
  BY <1>11, <1>15, <1>16 DEF DirInv


(* What lies in a file, whole and of one run.                              *)
IsWhole(c) == c.there /\ c.whole
IsFrom(c, k) == IsWhole(c) /\ c.run = k /\ c.diag = k

LEMMA Lies ==
  /\ \A f : (Whole(f) <=> IsWhole(dir[f])) /\ (Whole(f)' <=> IsWhole(dir'[f]))
  /\ \A f, k : FromRun(f, k) <=> IsFrom(dir[f], k)
  /\ \A f : latest' = latest => (FromRun(f, latest)' <=> IsFrom(dir'[f], latest))
  /\ ~ IsWhole(Absent) /\ ~ IsWhole(Torn) /\ ~ Absent.there
  /\ \A k, d : IsWhole(Payload(k, d)) /\ Payload(k, d).run = k
  /\ \A k : IsFrom(Payload(k, k), k)
<1>1. \A f : (Whole(f) <=> IsWhole(dir[f])) /\ (Whole(f)' <=> IsWhole(dir'[f]))
  BY DEF Whole, IsWhole
<1>2. \A f, k : FromRun(f, k) <=> IsFrom(dir[f], k)
  BY DEF FromRun, IsFrom, Whole, IsWhole
<1>3. \A f : latest' = latest => (FromRun(f, latest)' <=> IsFrom(dir'[f], latest))
  BY DEF FromRun, IsFrom, Whole, IsWhole
<1>4. ~ IsWhole(Absent) /\ ~ IsWhole(Torn) /\ ~ Absent.there
  BY ContentFacts DEF IsWhole
<1>5. \A k, d : IsWhole(Payload(k, d)) /\ Payload(k, d).run = k
  BY ContentFacts DEF IsWhole
<1>6. \A k : IsFrom(Payload(k, k), k)
  BY ContentFacts DEF IsWhole, IsFrom
<1> QED
  BY <1>1, <1>2, <1>3, <1>4, <1>5, <1>6

(* The run in progress, as its steps see it.                               *)
Running ==
  /\ outcome = "running" /\ outcome' = "running" /\ asked' = asked
  /\ dir' \in [Artifacts -> Contents(latest)]

LEMMA RunFacts ==
  ASSUME DirInv, Running
  PROVE  /\ latest' = latest /\ latest \in Nat \ {0} /\ latest \in 1..latest
         /\ asked[latest] \in Requests /\ asked'[latest'] = asked[latest]
         /\ dir \in [Artifacts -> Contents(latest)]
         /\ Shape(asked[latest], job.todo) /\ job.todo \in Seq(Operations)
         /\ MustBeThere /\ OldGoes /\ MatrixGoes /\ OldDiagnosticsFirst /\ LastIsLast
<1>1. latest' = latest
  BY DEF latest, Running
<1>2. latest \in Nat \ {0} /\ latest \in 1..latest /\ asked[latest] \in Requests
  BY LatestFacts DEF Running
<1>3. dir \in [Artifacts -> Contents(latest)] /\ asked'[latest'] = asked[latest]
  BY <1>1 DEF DirInv, DirTypes, Running
<1>4. /\ Shape(asked[latest], job.todo)
      /\ MustBeThere /\ OldGoes /\ MatrixGoes /\ OldDiagnosticsFirst /\ LastIsLast
  BY DEF DirInv, Progress, Running
<1> QED
  BY <1>1, <1>2, <1>3, <1>4 DEF Shape

(* What vouches for an earlier run stays true of it until it is touched,   *)
(* and what vouches for this run is there only when all of it is.          *)
LEMMA VouchedKept ==
  ASSUME DirInv, Running, Progress',
         Whole("diagnostics")' /\ dir'["diagnostics"].run # latest
           => \A f \in Watched \ {"trace"} : dir'[f] = dir[f],
         Whole("diagnostics")' => dir'["diagnostics"].run = latest
                                  \/ dir'["diagnostics"] = dir["diagnostics"],
         Whole("trace")' => dir'["trace"] = dir["trace"]
                            \/ (dir'["trace"].run = latest /\ asked[latest].kind = "full")
  PROVE  Vouched'
<1>1. /\ latest' = latest /\ latest \in Nat \ {0} /\ latest \in 1..latest
      /\ asked[latest] \in Requests /\ asked' = asked
  BY RunFacts DEF Running
<1>2. /\ Whole("diagnostics") => dir["diagnostics"].run \in 1..latest
      /\ Whole("trace") =>
           dir["trace"].run \in 1..latest /\ asked[dir["trace"].run].kind = "full"
      /\ StatsContractKept /\ TraceVouches /\ TraceAges
  BY DEF DirInv, Vouched
<1>3. /\ Whole("diagnostics")' => dir'["diagnostics"].run \in 1..latest'
      /\ Whole("trace")' =>
           dir'["trace"].run \in 1..latest' /\ asked'[dir'["trace"].run].kind = "full"
  BY <1>1, <1>2 DEF Whole
<1>4. StatsContract \subseteq Watched \ {"trace"} /\ FullContract \subseteq Watched \ {"trace"}
  BY Names DEF Watched
<1>5. /\ MustBeThere' /\ OldGoes' /\ LastIsLast'
  BY DEF Progress, Running
<1>6. ASSUME job'.todo = << >>
      PROVE  \A f \in Must(asked[latest]) : IsFrom(dir'[f], latest)
  <2>1. \A f : ~ Does(job'.todo, "write", f)
    BY <1>6 DEF Does
  <2> QED
    BY <1>1, <1>5, <2>1, Lies DEF MustBeThere
<1>7. StatsContractKept'
  <2> SUFFICES ASSUME Whole("diagnostics")', asked'[dir'["diagnostics"].run].kind = "stats"
               PROVE  \A f \in StatsContract : IsFrom(dir'[f], dir'["diagnostics"].run)
    BY DEF StatsContractKept, FromRun, IsFrom, Whole, IsWhole
  <2>1. CASE dir'["diagnostics"].run = latest
    <3>1. Last(asked[latest]) = "diagnostics" /\ StatsContract \subseteq Must(asked[latest])
      BY <1>1, <2>1 DEF Last, Must, Always
    <3>2. job'.todo = << >>
      BY <1>1, <1>5, <2>1, <3>1 DEF LastIsLast
    <3> QED
      BY <1>6, <2>1, <3>1, <3>2
  <2>2. CASE dir'["diagnostics"].run # latest
    <3>1. \A f \in StatsContract : dir'[f] = dir[f]
      BY <1>4, <2>2
    <3>2. dir'["diagnostics"] = dir["diagnostics"]
      BY <2>2
    <3> QED
      BY <1>1, <1>2, <3>1, <3>2, Lies DEF StatsContractKept
  <2> QED
    BY <2>1, <2>2
<1>8. TraceVouches'
  <2> SUFFICES ASSUME Whole("trace")', Whole("diagnostics")',
                      dir'["trace"].run = dir'["diagnostics"].run
               PROVE  \A f \in FullContract : IsFrom(dir'[f], dir'["trace"].run)
    BY DEF TraceVouches, FromRun, IsFrom, Whole, IsWhole
  <2>1. CASE dir'["trace"].run = latest
    <3>1. asked[latest].kind = "full"
      BY <1>1, <1>3, <2>1
    <3>2. Last(asked[latest]) = "trace" /\ FullContract \subseteq Must(asked[latest])
      BY <3>1 DEF Last, Must, Always
    <3>3. job'.todo = << >>
      BY <1>1, <1>5, <2>1, <3>2 DEF LastIsLast
    <3> QED
      BY <1>6, <2>1, <3>2, <3>3
  <2>2. CASE dir'["trace"].run # latest
    <3>1. dir'["trace"] = dir["trace"] /\ \A f \in FullContract : dir'[f] = dir[f]
      BY <1>4, <2>2
    <3>2. dir'["diagnostics"] = dir["diagnostics"]
      BY <2>2
    <3> QED
      BY <1>2, <3>1, <3>2, Lies DEF TraceVouches
  <2> QED
    BY <2>1, <2>2
<1>9. TraceAges'
  <2> SUFFICES ASSUME Whole("trace")', Whole("diagnostics")'
               PROVE  /\ dir'["trace"].run <= dir'["diagnostics"].run
                      /\ asked[dir'["diagnostics"].run].kind = "full"
    BY <1>1 DEF TraceAges
  <2>1. dir'["trace"].run \in 1..latest /\ asked[dir'["trace"].run].kind = "full"
    BY <1>1, <1>3
  <2>2. CASE dir'["diagnostics"].run = latest
    <3>1. ASSUME asked[latest].kind = "stats" PROVE FALSE
      <4>1. Last(asked[latest]) = "diagnostics"
        BY <3>1 DEF Last
      <4>2. job'.todo = << >>
        BY <1>1, <1>5, <2>2, <4>1 DEF LastIsLast
      <4>3. ~ Touches(job'.todo, "trace")
        BY <4>2 DEF Touches
      <4>4. "trace" \in Artifacts \ {"matrix", "residue_reports"}
        BY AllNames DEF Listed
      <4>5. FromRun("trace", latest)'
        BY <1>1, <1>5, <3>1, <4>3, <4>4 DEF OldGoes, Whole
      <4>6. dir'["trace"].run = latest
        BY <1>1, <4>5 DEF FromRun
      <4> QED
        BY <2>1, <3>1, <4>6
    <3>2. asked[latest].kind = "full"
      BY <1>1, <3>1, SplitQuery
    <3> QED
      BY <1>1, <2>1, <2>2, <3>2
  <2>3. CASE dir'["diagnostics"].run # latest
    <3>1. dir'["diagnostics"] = dir["diagnostics"] /\ Whole("diagnostics")
      BY <2>3, Lies
    <3>2. ASSUME dir'["trace"].run = latest PROVE FALSE
      <4>1. asked[latest].kind = "full"
        BY <2>1, <3>2
      <4>2. Last(asked[latest]) = "trace" /\ "diagnostics" \in Must(asked[latest])
        BY <4>1, Names DEF Last, Must, Always
      <4>3. job'.todo = << >>
        BY <1>1, <1>5, <3>2, <4>2 DEF LastIsLast
      <4>4. IsFrom(dir'["diagnostics"], latest)
        BY <1>6, <4>2, <4>3
      <4> QED
        BY <2>3, <4>4 DEF IsFrom
    <3>3. dir'["trace"] = dir["trace"] /\ Whole("trace")
      BY <3>2, Lies
    <3> QED
      BY <1>2, <3>1, <3>3 DEF TraceAges
  <2> QED
    BY <2>2, <2>3
<1> QED
  BY <1>3, <1>7, <1>8, <1>9 DEF Vouched

(* The first operation left is done.                                       *)
LEMMA Popped ==
  ASSUME DirInv, Running, job.todo # << >>, job'.todo = Tail(job.todo),
         \A f \in Artifacts :
           \/ Head(job.todo).op # "compute" /\ Head(job.todo).file = f
           \/ dir'[f] = dir[f]
           \/ f = "perk_diagnostics" /\ dir'[f] = Payload(latest, latest),
         Head(job.todo).op = "remove" => dir'[Head(job.todo).file] = Absent,
         Head(job.todo).op = "write" => dir'[Head(job.todo).file] = Payload(latest, latest)
  PROVE  Progress' /\ Vouched'
<1> DEFINE s == job.todo
           h == Head(job.todo)
           t == Tail(job.todo)
           q == asked[latest]
<1>1. /\ latest' = latest /\ latest \in Nat \ {0} /\ asked'[latest'] = q /\ q \in Requests
      /\ Shape(q, s) /\ s \in Seq(Operations)
      /\ MustBeThere /\ OldGoes /\ MatrixGoes /\ OldDiagnosticsFirst /\ LastIsLast
  BY RunFacts
<1>2. \A f : /\ \A op : Does(s, op, f) <=> (h.op = op /\ h.file = f) \/ Does(t, op, f)
             /\ Touches(s, f) <=> (h.op # "compute" /\ h.file = f) \/ Touches(t, f)
  BY <1>1, TailDoes
<1>3. h.op \in {"compute", "remove", "write", "restamp"} /\ (h.op # "compute" => h.file \in Artifacts)
  <2>1. h \in Operations
    BY <1>1, TailFacts
  <2> QED
    BY <2>1 DEF Operations, FileOps
<1>4. Shape(q, t)
  BY <1>1, TailShape
<1>5. 1 \in 1..Len(s) /\ s[1] = h
  BY <1>1, TailFacts
<1>6. h.op = "restamp" => q.kind = "full" /\ h.file = "run_stats"
  BY <1>1, <1>5 DEF Shape
<1>7. /\ q.kind \in {"stats", "full"} /\ Last(q) \in Artifacts /\ Must(q) \subseteq Artifacts
      /\ "matrix" \in Artifacts /\ "trace" \in Artifacts /\ "diagnostics" \in Artifacts
      /\ "perk_diagnostics" \notin Must(q) /\ "perk_diagnostics" \notin Watched
      /\ (q.kind = "full" => "run_stats" \notin Must(q)) /\ Last(q) \in Watched
      /\ Last(q) # "run_stats"
  BY <1>1, SplitQuery, Names, AllNames DEF Listed, Must, Always, Traced, Asked, Watched, Last
<1>8. /\ \A f : (Whole(f) <=> IsWhole(dir[f])) /\ (Whole(f)' <=> IsWhole(dir'[f]))
      /\ \A f : FromRun(f, latest) <=> IsFrom(dir[f], latest)
      /\ \A f : FromRun(f, latest)' <=> IsFrom(dir'[f], latest)
  BY <1>1, Lies
<1>9. /\ ~ IsWhole(Absent) /\ ~ Absent.there
      /\ Payload(latest, latest).run = latest /\ IsFrom(Payload(latest, latest), latest)
  BY Lies
<1>11. \A f \in Artifacts :
         \/ h.op # "compute" /\ h.file = f
         \/ dir'[f] = dir[f]
         \/ f = "perk_diagnostics" /\ dir'[f] = Payload(latest, latest)
  OBVIOUS
<1>12. /\ h.op = "remove" => dir'[h.file] = Absent
       /\ h.op = "write" => dir'[h.file] = Payload(latest, latest)
       /\ job'.todo = t
  OBVIOUS
<1> HIDE DEF h, t, s
<1>13. ASSUME NEW f \in Must(q) PROVE Does(t, "write", f) \/ IsFrom(dir'[f], latest)
  <2>1. CASE h.op = "write" /\ h.file = f
    BY <1>9, <1>12, <2>1
  <2>2. CASE ~ (h.op = "write" /\ h.file = f)
    <3>1. Does(s, "write", f) => Does(t, "write", f)
      BY <1>2, <2>2
    <3>2. Does(s, "write", f) \/ IsFrom(dir[f], latest)
      BY <1>1, <1>8 DEF MustBeThere, s
    <3>3. h.op = "remove" /\ h.file = f => Does(s, "write", f)
      BY <1>1, <1>5 DEF Shape, Does
    <3>4. ~ Does(s, "write", f) => ~ (h.op # "compute" /\ h.file = f)
      BY <1>3, <1>6, <1>7, <2>2, <3>3
    <3>5. ~ Does(s, "write", f) => dir'[f] = dir[f]
      BY <1>7, <1>11, <3>4
    <3> QED
      BY <3>1, <3>2, <3>5
  <2> QED
    BY <2>1, <2>2
<1>14. ASSUME q.kind = "stats", NEW f \in Artifacts \ {"matrix", "residue_reports"}
       PROVE  Touches(t, f) \/ ~ dir'[f].there \/ IsFrom(dir'[f], latest)
  <2>1. CASE h.op # "compute" /\ h.file = f
    BY <1>3, <1>6, <1>9, <1>12, <1>14, <2>1
  <2>2. CASE ~ (h.op # "compute" /\ h.file = f)
    <3>1. Touches(s, f) \/ ~ dir[f].there \/ IsFrom(dir[f], latest)
      BY <1>1, <1>8, <1>14 DEF OldGoes, s
    <3> QED
      BY <1>2, <1>9, <1>11, <1>14, <2>2, <3>1
  <2> QED
    BY <2>1, <2>2
<1>15. ASSUME q.kind = "full", ~ q.matrix
       PROVE  Does(t, "remove", "matrix") \/ ~ dir'["matrix"].there
  <2>1. Does(s, "remove", "matrix") \/ ~ dir["matrix"].there
    BY <1>1, <1>15 DEF MatrixGoes, s
  <2>2. ~ Does(s, "write", "matrix")
    BY <1>1, <1>15 DEF Shape
  <2>3. CASE h.op = "remove" /\ h.file = "matrix"
    BY <1>9, <1>12, <2>3
  <2>4. CASE ~ (h.op = "remove" /\ h.file = "matrix")
    <3>1. ~ (h.op # "compute" /\ h.file = "matrix")
      BY <1>2, <1>3, <1>6, <2>2, <2>4
    <3>2. dir'["matrix"] = dir["matrix"]
      BY <1>7, <1>11, <3>1
    <3> QED
      BY <1>2, <2>1, <2>4, <3>2
  <2> QED
    BY <2>3, <2>4
<1>16. ASSUME IsWhole(dir'["diagnostics"]), dir'["diagnostics"].run # latest
       PROVE  /\ ~ (h.op # "compute" /\ h.file \in Watched) /\ DiagnosticsFirst(t)
              /\ dir'["diagnostics"] = dir["diagnostics"]
  <2>1. ~ (h.op # "compute" /\ h.file = "diagnostics")
    <3>1. h.op # "remove" \/ h.file # "diagnostics"
      BY <1>9, <1>12, <1>16
    <3>2. h.op # "write" \/ h.file # "diagnostics"
      BY <1>9, <1>12, <1>16
    <3> QED
      BY <1>3, <1>6, <3>1, <3>2
  <2>2. dir'["diagnostics"] = dir["diagnostics"]
    BY <1>7, <1>11, <2>1
  <2>3. DiagnosticsFirst(s)
    BY <1>1, <1>8, <1>16, <2>2 DEF OldDiagnosticsFirst, s
  <2> QED
    BY <1>1, <2>1, <2>2, <2>3, TailFirst DEF s, h, t
<1>17. ASSUME IsWhole(dir'[Last(q)]), dir'[Last(q)].run = latest
       PROVE  t = << >>
  <2>1. CASE h.op = "write" /\ h.file = Last(q)
    <3>1. WrittenLast(s, Last(q))
      BY <1>1 DEF Shape
    <3> QED
      BY <1>1, <2>1, <3>1, TailLast DEF s, h, t
  <2>2. CASE ~ (h.op = "write" /\ h.file = Last(q))
    <3>1. ~ (h.op = "remove" /\ h.file = Last(q))
      BY <1>9, <1>12, <1>17
    <3>2. ~ (h.op # "compute" /\ h.file = Last(q))
      BY <1>3, <1>6, <1>7, <2>2, <3>1
    <3>3. dir'[Last(q)] = dir[Last(q)]
      BY <1>7, <1>11, <3>2
    <3>4. s = << >>
      BY <1>1, <1>8, <1>17, <3>3 DEF LastIsLast, s
    <3> QED
      BY <3>4 DEF s
  <2> QED
    BY <2>1, <2>2
<1>18. Progress'
  <2>1. MustBeThere'
    BY <1>1, <1>8, <1>12, <1>13 DEF MustBeThere
  <2>2. OldGoes'
    BY <1>1, <1>8, <1>12, <1>14 DEF OldGoes
  <2>3. MatrixGoes'
    BY <1>1, <1>12, <1>15 DEF MatrixGoes
  <2>4. OldDiagnosticsFirst'
    BY <1>1, <1>8, <1>12, <1>16 DEF OldDiagnosticsFirst
  <2>5. LastIsLast'
    BY <1>1, <1>8, <1>12, <1>17 DEF LastIsLast
  <2>6. Shape(asked[latest], job.todo)'
    BY <1>1, <1>4, <1>12
  <2> QED
    BY <2>1, <2>2, <2>3, <2>4, <2>5, <2>6 DEF Progress
<1>19. Vouched'
  <2>1. Whole("diagnostics")' /\ dir'["diagnostics"].run # latest
          => \A f \in Watched \ {"trace"} : dir'[f] = dir[f]
    <3>1. Watched \subseteq Artifacts
      BY Names, AllNames DEF Watched, Listed
    <3> QED
      BY <1>7, <1>8, <1>11, <1>16, <3>1
  <2>2. Whole("diagnostics")' => dir'["diagnostics"].run = latest
                                 \/ dir'["diagnostics"] = dir["diagnostics"]
    BY <1>8, <1>16
  <2>3. Whole("trace")' => dir'["trace"] = dir["trace"]
                           \/ (dir'["trace"].run = latest /\ q.kind = "full")
    <3>1. CASE h.op # "compute" /\ h.file = "trace"
      <4>1. h.op # "restamp"
        BY <1>6, <3>1
      <4>2. h.op = "write" => Does(s, "write", "trace")
        BY <1>2, <3>1
      <4>3. h.op = "write" => q.kind = "full"
        BY <1>1, <1>7, <4>2 DEF Shape
      <4>4. h.op = "remove" => ~ Whole("trace")'
        BY <1>8, <1>9, <1>12, <3>1
      <4> QED
        BY <1>3, <1>9, <1>12, <3>1, <4>1, <4>3, <4>4
    <3>2. CASE ~ (h.op # "compute" /\ h.file = "trace")
      <4>1. "trace" # "perk_diagnostics"
        OBVIOUS
      <4>2. "trace" \in Artifacts
        BY <1>7
      <4>3. dir'["trace"] = dir["trace"]
        BY <1>11, <3>2, <4>1, <4>2
      <4> QED
        BY <4>3
    <3> QED
      BY <3>1, <3>2
  <2> QED
    BY <1>18, <2>1, <2>2, <2>3, VouchedKept
<1> QED
  BY <1>18, <1>19

(* A file is opened: what it held is gone, the operation is still to do.   *)
LEMMA Opened ==
  ASSUME DirInv, Running, job.todo # << >>, job'.todo = job.todo,
         Head(job.todo).op \in {"write", "restamp"},
         dir' = [dir EXCEPT ![Head(job.todo).file] = Torn]
  PROVE  Progress' /\ Vouched'
<1> DEFINE s == job.todo
           h == Head(job.todo)
           q == asked[latest]
<1>1. /\ latest' = latest /\ latest \in Nat \ {0} /\ asked'[latest'] = q /\ q \in Requests
      /\ Shape(q, s) /\ s \in Seq(Operations) /\ dir \in [Artifacts -> Contents(latest)]
      /\ MustBeThere /\ OldGoes /\ MatrixGoes /\ OldDiagnosticsFirst /\ LastIsLast
  BY RunFacts
<1>2. \A f : /\ \A op : h.op = op /\ h.file = f => Does(s, op, f)
             /\ h.op # "compute" /\ h.file = f => Touches(s, f)
  BY <1>1, TailDoes
<1>3. h.file \in Artifacts
  <2>1. h \in Operations
    BY <1>1, TailFacts
  <2> QED
    BY <2>1 DEF Operations, FileOps
<1>4. 1 \in 1..Len(s) /\ s[1] = h
  BY <1>1, TailFacts
<1>5. h.op = "restamp" => q.kind = "full" /\ h.file = "run_stats"
  BY <1>1, <1>4 DEF Shape
<1>6. /\ q.kind \in {"stats", "full"} /\ Must(q) \subseteq Artifacts /\ Last(q) \in Artifacts
      /\ "matrix" \in Artifacts /\ "trace" \in Artifacts /\ "diagnostics" \in Artifacts
      /\ (q.kind = "full" => "run_stats" \notin Must(q))
      /\ Watched \subseteq Artifacts
  BY <1>1, SplitQuery, Names, AllNames DEF Listed, Must, Always, Traced, Asked, Watched
<1>7. dir'[h.file] = Torn /\ \A f \in Artifacts : f # h.file => dir'[f] = dir[f]
  BY <1>1, <1>3
<1>8. /\ \A f : (Whole(f) <=> IsWhole(dir[f])) /\ (Whole(f)' <=> IsWhole(dir'[f]))
      /\ \A f : FromRun(f, latest) <=> IsFrom(dir[f], latest)
      /\ \A f : FromRun(f, latest)' <=> IsFrom(dir'[f], latest)
      /\ ~ IsWhole(dir'[h.file])
  BY <1>1, <1>7, Lies
<1>9. \A f \in Artifacts : IsWhole(dir'[f]) => dir'[f] = dir[f] /\ f # h.file
  BY <1>7, <1>8
<1>10. h.op \in {"write", "restamp"} /\ job'.todo = s
  OBVIOUS
<1> HIDE DEF h, s
<1>11. Progress'
  <2>1. MustBeThere'
    <3> SUFFICES ASSUME NEW f \in Must(q) PROVE Does(s, "write", f) \/ IsFrom(dir'[f], latest)
      BY <1>1, <1>8, <1>10 DEF MustBeThere
    <3>1. CASE f = h.file
      BY <1>2, <1>5, <1>6, <1>10, <3>1
    <3>2. CASE f # h.file
      BY <1>1, <1>6, <1>7, <1>8, <3>2 DEF MustBeThere, s
    <3> QED
      BY <3>1, <3>2
  <2>2. OldGoes'
    <3> SUFFICES ASSUME q.kind = "stats", NEW f \in Artifacts \ {"matrix", "residue_reports"}
                 PROVE  Touches(s, f) \/ ~ dir'[f].there \/ IsFrom(dir'[f], latest)
      BY <1>1, <1>8, <1>10 DEF OldGoes
    <3>1. CASE f = h.file
      BY <1>2, <1>10, <3>1
    <3>2. CASE f # h.file
      BY <1>1, <1>7, <1>8, <3>2 DEF OldGoes, s
    <3> QED
      BY <3>1, <3>2
  <2>3. MatrixGoes'
    <3> SUFFICES ASSUME q.kind = "full", ~ q.matrix
                 PROVE  Does(s, "remove", "matrix") \/ ~ dir'["matrix"].there
      BY <1>1, <1>10 DEF MatrixGoes
    <3>1. h.file # "matrix"
      BY <1>1, <1>2, <1>5, <1>10 DEF Shape
    <3> QED
      BY <1>1, <1>6, <1>7, <3>1 DEF MatrixGoes, s
  <2>4. OldDiagnosticsFirst'
    <3> SUFFICES ASSUME Whole("diagnostics")', dir'["diagnostics"].run # latest
                 PROVE  DiagnosticsFirst(s)
      BY <1>1, <1>10 DEF OldDiagnosticsFirst
    <3>1. dir'["diagnostics"] = dir["diagnostics"]
      BY <1>6, <1>8, <1>9
    <3> QED
      BY <1>1, <1>8, <3>1 DEF OldDiagnosticsFirst, s
  <2>5. LastIsLast'
    <3> SUFFICES ASSUME IsWhole(dir'[Last(q)]), dir'[Last(q)].run = latest PROVE s = << >>
      BY <1>1, <1>8, <1>10 DEF LastIsLast
    <3>1. dir'[Last(q)] = dir[Last(q)]
      BY <1>6, <1>8, <1>9
    <3> QED
      BY <1>1, <1>8, <3>1 DEF LastIsLast, s
  <2>6. Shape(asked[latest], job.todo)'
    BY <1>1, <1>10
  <2> QED
    BY <2>1, <2>2, <2>3, <2>4, <2>5, <2>6 DEF Progress
<1>12. Vouched'
  <2>1. Whole("diagnostics")' /\ dir'["diagnostics"].run # latest
          => \A f \in Watched \ {"trace"} : dir'[f] = dir[f]
    <3> SUFFICES ASSUME Whole("diagnostics")', dir'["diagnostics"].run # latest
                 PROVE  \A f \in Watched \ {"trace"} : dir'[f] = dir[f]
      OBVIOUS
    <3>1. h.file # "diagnostics" /\ dir'["diagnostics"] = dir["diagnostics"]
      BY <1>6, <1>8, <1>9
    <3>2. DiagnosticsFirst(s)
      BY <1>1, <1>8, <3>1 DEF OldDiagnosticsFirst, s
    <3>3. h.file \notin Watched
      BY <1>1, <1>10, <3>1, <3>2, TailFirst DEF s, h
    <3> QED
      BY <1>6, <1>7, <3>3
  <2>2. Whole("diagnostics")' => dir'["diagnostics"].run = latest
                                 \/ dir'["diagnostics"] = dir["diagnostics"]
    BY <1>6, <1>8, <1>9
  <2>3. Whole("trace")' => dir'["trace"] = dir["trace"]
                           \/ (dir'["trace"].run = latest /\ q.kind = "full")
    BY <1>6, <1>8, <1>9
  <2> QED
    BY <1>11, <2>1, <2>2, <2>3, VouchedKept
<1> QED
  BY <1>11, <1>12


LEMMA StepContents ==
  ASSUME DirInv, Running
  PROVE  /\ latest \in Nat \ {0}
         /\ Absent \in Contents(latest) /\ Torn \in Contents(latest)
         /\ \A k, d \in 0..latest : Payload(k, d) \in Contents(latest)
         /\ Payload(latest, latest) \in Contents(latest)
<1>1. latest \in Nat \ {0}
  BY RunFacts
<1>2. latest \in 0..latest
  BY <1>1
<1> QED
  BY <1>1, <1>2, ContentFacts

LEMMA StepTypes ==
  ASSUME DirInv, Running, job' \in Plain \union Loaded(latest),
         job'.open => /\ job'.todo # << >>
                      /\ \/ Head(job'.todo).op = "write"
                         \/ Head(job'.todo).op = "restamp" /\ job' \in Loaded(latest)
  PROVE  DirTypes'
<1>1. /\ latest' = latest /\ latest > 0 /\ latest <= MaxRuns /\ asked' \in Seq(Requests)
      /\ outcome' = "running" /\ dir' \in [Artifacts -> Contents(latest)]
  BY RunFacts DEF Running, DirInv, DirTypes
<1>2. Contents(latest)' = Contents(latest) /\ Loaded(latest)' = Loaded(latest) /\ Plain' = Plain
  BY <1>1 DEF Contents, Loaded, Plain, Operations
<1>3. (Plain \union Loaded(latest))' = Plain \union Loaded(latest)
  BY <1>2
<1> QED
  BY <1>1, <1>2, <1>3 DEF DirTypes

LEMMA DoneTypes ==
  ASSUME DirInv, Running, job.todo # << >>, Done
  PROVE  DirTypes' /\ job'.todo = Tail(job.todo)
<1>1. job.todo \in Seq(Operations)
  BY RunFacts
<1>2. Tail(job.todo) \in Seq(Operations)
  BY <1>1, TailFacts
<1>3. job' \in Plain /\ job'.open = FALSE /\ job'.todo = Tail(job.todo)
  BY <1>2 DEF Done, Plain
<1> QED
  BY <1>3, StepTypes

LEMMA HeadFile ==
  ASSUME DirInv, Running, job.todo # << >>, Head(job.todo).op # "compute"
  PROVE  /\ Head(job.todo).file \in Artifacts
         /\ Head(job.todo).op = "restamp" => Head(job.todo).file = "run_stats"
<1>1. job.todo \in Seq(Operations) /\ Shape(asked[latest], job.todo)
  BY RunFacts
<1>2. Head(job.todo) \in Operations /\ 1 \in 1..Len(job.todo) /\ Head(job.todo) = job.todo[1]
  BY <1>1, TailFacts
<1> QED
  BY <1>1, <1>2 DEF Operations, FileOps, Shape

(* One file is changed and the operation is done.                          *)
LEMMA ChangeKeeps ==
  ASSUME DirInv, outcome = "running", outcome' = outcome, asked' = asked, job.todo # << >>, Done,
         Head(job.todo).op # "compute",
         NEW c \in Contents(latest), dir' = [dir EXCEPT ![Head(job.todo).file] = c],
         Head(job.todo).op = "remove" => c = Absent,
         Head(job.todo).op = "write" => c = Payload(latest, latest)
  PROVE  DirInv'
<1>1. dir \in [Artifacts -> Contents(latest)]
  BY DEF DirInv, DirTypes
<1>2. Running
  BY <1>1 DEF Running
<1>3. Head(job.todo).file \in Artifacts
  BY <1>2, HeadFile
<1>4. /\ dir'[Head(job.todo).file] = c
      /\ \A f \in Artifacts : Head(job.todo).file = f \/ dir'[f] = dir[f]
  BY <1>1, <1>3
<1>5. DirTypes' /\ job'.todo = Tail(job.todo)
  BY <1>2, DoneTypes
<1>6. Progress' /\ Vouched'
  BY <1>2, <1>4, <1>5, Popped
<1> QED
  BY <1>5, <1>6 DEF DirInv

LEMMA PerksFacts ==
  ASSUME DirInv, outcome = "running", asked' = asked, PerksMaybe
  PROVE  /\ dir' \in [Artifacts -> Contents(latest)]
         /\ \A f \in Artifacts :
              dir'[f] = dir[f] \/ (f = "perk_diagnostics" /\ dir'[f] = Payload(latest, latest))
<1>1. dir \in [Artifacts -> Contents(latest)] /\ latest \in Nat
  BY LatestFacts DEF DirInv, DirTypes
<1>2. latest \in 0..latest
  BY <1>1
<1>3. Payload(latest, latest) \in Contents(latest)
  BY <1>1, <1>2, ContentFacts
<1> QED
  BY <1>1, <1>3 DEF PerksMaybe

LEMMA ComputeKeeps ==
  ASSUME DirInv, ComputeArtifacts PROVE DirInv'
<1>1. /\ outcome = "running" /\ outcome' = outcome /\ asked' = asked /\ job.todo # << >>
      /\ Head(job.todo).op = "compute" /\ Done /\ PerksMaybe
  BY DEF ComputeArtifacts, Now
<1>2. /\ dir' \in [Artifacts -> Contents(latest)]
      /\ \A f \in Artifacts :
           dir'[f] = dir[f] \/ (f = "perk_diagnostics" /\ dir'[f] = Payload(latest, latest))
  BY <1>1, PerksFacts
<1>3. Running
  BY <1>1, <1>2 DEF Running
<1>4. DirTypes' /\ job'.todo = Tail(job.todo)
  BY <1>1, <1>3, DoneTypes
<1>5. Progress' /\ Vouched'
  BY <1>1, <1>2, <1>3, <1>4, Popped
<1> QED
  BY <1>4, <1>5 DEF DirInv

LEMMA RemoveKeeps ==
  ASSUME DirInv, RemoveFile PROVE DirInv'
<1>1. /\ outcome = "running" /\ outcome' = outcome /\ asked' = asked /\ job.todo # << >>
      /\ Head(job.todo).op = "remove" /\ Done
      /\ dir' = [dir EXCEPT ![Head(job.todo).file] = Absent]
  BY DEF RemoveFile, Now
<1>2. Absent \in Contents(latest)
  BY DEF Contents
<1> QED
  BY <1>1, <1>2, ChangeKeeps

LEMMA LatestPayloads ==
  ASSUME DirInv, outcome = "running"
  PROVE  Payload(latest, latest) \in Contents(latest)
<1>1. latest \in Nat
  BY LatestFacts
<1>2. latest \in 0..latest
  BY <1>1
<1> QED
  BY <1>1, <1>2, ContentFacts

LEMMA WriteKeeps ==
  ASSUME DirInv, WriteFile PROVE DirInv'
<1>1. /\ outcome = "running" /\ outcome' = outcome /\ asked' = asked /\ job.todo # << >>
      /\ Head(job.todo).op = "write" /\ Done
      /\ dir' = [dir EXCEPT ![Head(job.todo).file] = Payload(latest, latest)]
  BY DEF WriteFile, Now
<1>2. Payload(latest, latest) \in Contents(latest)
  BY <1>1, LatestPayloads
<1> QED
  BY <1>1, <1>2, ChangeKeeps

LEMMA StampKeeps ==
  ASSUME DirInv, StampRunStats PROVE DirInv'
<1>1. /\ outcome = "running" /\ outcome' = outcome /\ asked' = asked /\ job.todo # << >>
      /\ Head(job.todo).op = "restamp" /\ Done /\ job.open
      /\ dir' = [dir EXCEPT !["run_stats"] = Payload(job.loaded, latest)]
  BY DEF StampRunStats, Now
<1>2. dir \in [Artifacts -> Contents(latest)] /\ latest \in Nat
  BY <1>1, LatestFacts DEF DirInv, DirTypes
<1>3. job \in Loaded(latest)
  BY <1>1 DEF DirInv, DirTypes
<1>4. job.loaded \in 0..latest /\ latest \in 0..latest
  BY <1>2, <1>3 DEF Loaded
<1>5. Payload(job.loaded, latest) \in Contents(latest)
  BY <1>2, <1>4, ContentFacts
<1>6. "run_stats" \in Artifacts
  BY AllNames DEF Listed
<1>7. Head(job.todo).file = "run_stats"
  <2>1. dir' \in [Artifacts -> Contents(latest)]
    BY <1>1, <1>2, <1>5
  <2>2. Running
    BY <1>1, <2>1 DEF Running
  <2> QED
    BY <1>1, <2>2, HeadFile
<1> QED
  BY <1>1, <1>5, <1>7, ChangeKeeps

LEMMA SkipKeeps ==
  ASSUME DirInv, SkipRestamp PROVE DirInv'
<1>1. /\ outcome = "running" /\ outcome' = outcome /\ asked' = asked /\ job.todo # << >>
      /\ Head(job.todo).op = "restamp" /\ Done /\ dir' = dir
  BY DEF SkipRestamp, Now
<1>2. dir \in [Artifacts -> Contents(latest)]
  BY DEF DirInv, DirTypes
<1>3. Running
  BY <1>1, <1>2 DEF Running
<1>4. DirTypes' /\ job'.todo = Tail(job.todo)
  BY <1>1, <1>3, DoneTypes
<1>5. Progress' /\ Vouched'
  BY <1>1, <1>3, <1>4, Popped
<1> QED
  BY <1>4, <1>5 DEF DirInv

(* A file is opened to be written, or written again.                       *)
LEMMA OpenKeeps ==
  ASSUME DirInv, outcome = "running", outcome' = outcome, asked' = asked, job.todo # << >>,
         job'.todo = job.todo, job' \in Plain \union Loaded(latest),
         \/ Head(job.todo).op = "write"
         \/ Head(job.todo).op = "restamp" /\ job' \in Loaded(latest),
         dir' = [dir EXCEPT ![Head(job.todo).file] = Torn]
  PROVE  DirInv'
<1>1. dir \in [Artifacts -> Contents(latest)] /\ Torn \in Contents(latest)
  BY DEF DirInv, DirTypes, Contents
<1>2. dir' \in [Artifacts -> Contents(latest)]
  BY <1>1
<1>3. Running
  BY <1>2 DEF Running
<1>4. Progress' /\ Vouched'
  BY <1>3, Opened
<1>5. DirTypes'
  BY <1>3, StepTypes
<1> QED
  BY <1>4, <1>5 DEF DirInv

LEMMA OpenFileKeeps ==
  ASSUME DirInv, OpenFile PROVE DirInv'
<1>1. /\ outcome = "running" /\ outcome' = outcome /\ asked' = asked /\ job.todo # << >>
      /\ Head(job.todo).op = "write" /\ ~ job.open /\ job' = [job EXCEPT !.open = TRUE]
      /\ dir' = [dir EXCEPT ![Head(job.todo).file] = Torn]
  BY DEF OpenFile, Now
<1>2. job \in Plain
  BY <1>1 DEF DirInv, DirTypes, Loaded
<1>3. job' \in Plain /\ job'.todo = job.todo
  BY <1>1, <1>2 DEF Plain
<1> QED
  BY <1>1, <1>3, OpenKeeps

LEMMA LoadKeeps ==
  ASSUME DirInv, LoadRunStats PROVE DirInv'
<1> DEFINE k == IF Whole("run_stats") THEN dir["run_stats"].run ELSE 0
<1>1. /\ outcome = "running" /\ outcome' = outcome /\ asked' = asked /\ job.todo # << >>
      /\ Head(job.todo).op = "restamp"
      /\ job' = [todo |-> job.todo, open |-> TRUE, loaded |-> k]
      /\ dir' = [dir EXCEPT !["run_stats"] = Torn]
  BY DEF LoadRunStats, Now
<1>2. dir \in [Artifacts -> Contents(latest)] /\ latest \in Nat /\ "run_stats" \in Artifacts
  BY <1>1, LatestFacts, AllNames DEF DirInv, DirTypes, Listed
<1>3. k \in 0..latest
  <2>1. dir["run_stats"] \in Contents(latest)
    BY <1>2
  <2>2. Whole("run_stats") => dir["run_stats"] # Absent /\ dir["run_stats"] # Torn
    BY ContentFacts DEF Whole
  <2>3. Whole("run_stats") => dir["run_stats"].run \in 0..latest
    BY <2>1, <2>2 DEF Contents
  <2> QED
    BY <1>2, <2>3
<1> HIDE DEF k
<1>4. Torn \in Contents(latest)
  BY DEF Contents
<1>5. dir' \in [Artifacts -> Contents(latest)]
  BY <1>1, <1>2, <1>4
<1>6. Running
  BY <1>1, <1>5 DEF Running
<1>7. Head(job.todo).file = "run_stats" /\ job.todo \in Seq(Operations)
  BY <1>1, <1>6, HeadFile, RunFacts
<1>8. job' \in Loaded(latest) /\ job'.todo = job.todo
  BY <1>1, <1>3, <1>7 DEF Loaded
<1> QED
  BY <1>1, <1>7, <1>8, OpenKeeps

(* A run that raises or is killed leaves what it has done.                 *)
LEMMA EndKeeps ==
  ASSUME DirInv, outcome = "running", outcome' \in {"failed", "crashed"}, job' = NoJob,
         asked' = asked, dir' \in [Artifacts -> Contents(latest)],
         \A f \in Watched : dir'[f] = dir[f]
  PROVE  DirInv'
<1>1. latest' = latest /\ latest \in Nat \ {0} /\ asked \in Seq(Requests) /\ latest <= MaxRuns
  BY LatestFacts DEF latest, DirInv, DirTypes
<1>2. Contents(latest)' = Contents(latest)
  BY <1>1 DEF Contents
<1>3. NoJob \in Plain /\ NoJob.open = FALSE
  BY DEF NoJob, Plain
<1>4. DirTypes'
  BY <1>1, <1>2, <1>3 DEF DirTypes, Plain
<1>5. Progress'
  BY DEF Progress
<1>6. /\ Whole("diagnostics") => dir["diagnostics"].run \in 1..latest
      /\ Whole("trace") =>
           dir["trace"].run \in 1..latest /\ asked[dir["trace"].run].kind = "full"
      /\ StatsContractKept /\ TraceVouches /\ TraceAges
  BY DEF DirInv, Vouched
<1>7. /\ StatsContract \subseteq Watched /\ FullContract \subseteq Watched
      /\ "diagnostics" \in Watched /\ "trace" \in Watched
  BY Names DEF Watched
<1>8. \A f \in Watched : (Whole(f)' <=> Whole(f)) /\ \A k : FromRun(f, k)' <=> FromRun(f, k)
  BY DEF Whole, FromRun
<1>9. StatsContractKept'
  BY <1>6, <1>7, <1>8 DEF StatsContractKept
<1>10. TraceVouches'
  BY <1>6, <1>7, <1>8 DEF TraceVouches
<1>11. TraceAges'
  BY <1>6, <1>7, <1>8 DEF TraceAges
<1>12. Vouched'
  BY <1>1, <1>6, <1>7, <1>8, <1>9, <1>10, <1>11 DEF Vouched
<1> QED
  BY <1>4, <1>5, <1>12 DEF DirInv

LEMMA RaiseKeeps ==
  ASSUME DirInv, Raise PROVE DirInv'
<1>1. /\ outcome = "running" /\ outcome' = "failed" /\ asked' = asked /\ PerksMaybe /\ job' = NoJob
  BY DEF Raise, Now
<1>2. /\ dir' \in [Artifacts -> Contents(latest)]
      /\ \A f \in Artifacts :
           dir'[f] = dir[f] \/ (f = "perk_diagnostics" /\ dir'[f] = Payload(latest, latest))
  BY <1>1, PerksFacts
<1>3. Watched \subseteq Artifacts /\ "perk_diagnostics" \notin Watched
  BY Names, AllNames DEF Watched, Listed
<1>4. \A f \in Watched : dir'[f] = dir[f]
  BY <1>2, <1>3
<1> QED
  BY <1>1, <1>2, <1>4, EndKeeps

LEMMA CrashKeeps ==
  ASSUME DirInv, Crash PROVE DirInv'
<1>1. outcome = "running" /\ outcome' = "crashed" /\ asked' = asked /\ job' = NoJob /\ dir' = dir
  BY DEF Crash
<1>2. dir' \in [Artifacts -> Contents(latest)]
  BY <1>1 DEF DirInv, DirTypes
<1> QED
  BY <1>1, <1>2, EndKeeps

LEMMA FinishKeeps ==
  ASSUME DirInv, Finish PROVE DirInv'
<1>1. /\ outcome = "running" /\ outcome' = "done" /\ asked' = asked /\ job' = job /\ dir' = dir
      /\ job.todo = << >>
  BY DEF Finish
<1>2. job = NoJob
  <2>1. job.open = FALSE /\ job \in Plain
    BY <1>1 DEF DirInv, DirTypes, Plain, Loaded
  <2> QED
    BY <1>1, <2>1 DEF Plain, NoJob
<1>3. latest' = latest
  BY <1>1 DEF latest
<1>4. \A f : Whole(f)' <=> Whole(f)
  BY <1>1 DEF Whole
<1>5. \A f, k : FromRun(f, k)' <=> FromRun(f, k)
  BY <1>1, <1>4 DEF FromRun
<1>6. DirTypes'
  <2>1. Contents(latest)' = Contents(latest) /\ Loaded(latest)' = Loaded(latest)
    BY <1>3 DEF Contents, Loaded
  <2>2. (Plain \union Loaded(latest))' = Plain \union Loaded(latest)
    BY <2>1 DEF Plain
  <2> QED
    BY <1>1, <1>2, <1>3, <2>1, <2>2 DEF DirInv, DirTypes
<1>7. /\ Shape(asked[latest], job.todo)
      /\ MustBeThere /\ OldGoes /\ MatrixGoes /\ OldDiagnosticsFirst /\ LastIsLast
  BY <1>1 DEF DirInv, Progress
<1>8. Progress'
  <2>1. MustBeThere'
    BY <1>1, <1>3, <1>5, <1>7 DEF MustBeThere
  <2>2. OldGoes'
    BY <1>1, <1>3, <1>5, <1>7 DEF OldGoes
  <2>3. MatrixGoes' /\ OldDiagnosticsFirst' /\ LastIsLast'
    BY <1>1, <1>3, <1>4, <1>7 DEF MatrixGoes, OldDiagnosticsFirst, LastIsLast
  <2>4. Shape(asked[latest], job.todo)'
    BY <1>1, <1>3, <1>7
  <2> QED
    BY <2>1, <2>2, <2>3, <2>4 DEF Progress
<1>9. Vouched'
  <2>1. Vouched
    BY DEF DirInv
  <2> QED
    BY <1>1, <1>3, <1>4, <1>5, <2>1 DEF Vouched, StatsContractKept, TraceVouches, TraceAges
<1> QED
  BY <1>6, <1>8, <1>9 DEF DirInv

LEMMA DirStays == DirInv /\ [DirNext]_dirVars => DirInv'
<1> SUFFICES ASSUME DirInv, [DirNext]_dirVars PROVE DirInv'
  OBVIOUS
<1>1. CASE UNCHANGED dirVars
  <2>1. dir' = dir /\ asked' = asked /\ job' = job /\ outcome' = outcome
    BY <1>1 DEF dirVars
  <2>2. latest' = latest
    BY <2>1 DEF latest
  <2>3. \A f : Whole(f)' <=> Whole(f)
    BY <2>1 DEF Whole
  <2>4. \A f, k : FromRun(f, k)' <=> FromRun(f, k)
    BY <2>1, <2>3 DEF FromRun
  <2>5. Contents(latest)' = Contents(latest) /\ Loaded(latest)' = Loaded(latest)
    BY <2>2 DEF Contents, Loaded
  <2>6. (Plain \union Loaded(latest))' = Plain \union Loaded(latest)
    BY <2>5 DEF Plain
  <2>7. DirTypes'
    BY <2>1, <2>2, <2>5, <2>6 DEF DirInv, DirTypes
  <2>8. Vouched'
    BY <2>1, <2>2, <2>3, <2>4 DEF DirInv, Vouched, StatsContractKept, TraceVouches, TraceAges
  <2>9. Progress'
    <3> SUFFICES ASSUME outcome \in {"running", "done"}
                 PROVE  (/\ Shape(asked[latest], job.todo)
                         /\ MustBeThere /\ OldGoes /\ MatrixGoes /\ OldDiagnosticsFirst /\ LastIsLast)'
      BY <2>1 DEF Progress
    <3>1. /\ Shape(asked[latest], job.todo)
          /\ MustBeThere /\ OldGoes /\ MatrixGoes /\ OldDiagnosticsFirst /\ LastIsLast
      BY DEF DirInv, Progress
    <3>2. MustBeThere' /\ OldGoes'
      BY <2>1, <2>2, <2>4, <3>1 DEF MustBeThere, OldGoes
    <3>3. MatrixGoes' /\ OldDiagnosticsFirst' /\ LastIsLast'
      BY <2>1, <2>2, <2>3, <3>1 DEF MatrixGoes, OldDiagnosticsFirst, LastIsLast
    <3>4. Shape(asked[latest], job.todo)'
      BY <2>1, <2>2, <3>1
    <3> QED
      BY <3>2, <3>3, <3>4
  <2> QED
    BY <2>7, <2>8, <2>9 DEF DirInv
<1>2. CASE DirNext
  BY <1>2, StartKeeps, RemoveKeeps, ComputeKeeps, RaiseKeeps, OpenFileKeeps, WriteKeeps,
     SkipKeeps, LoadKeeps, StampKeeps, FinishKeeps, CrashKeeps DEF DirNext
<1> QED
  BY <1>1, <1>2

(* Whatever was cut short and wherever: diagnostics of a run-stats run     *)
(* vouch for its whole contract, a trace and diagnostics of one run for    *)
(* the publication; a run-stats run that returned left nothing older but   *)
(* what it keeps, a full one a matrix exactly if it was asked for one      *)
(* (_remove_run_stats_current_outputs, write_core_outputs).                *)
THEOREM DirectoryStaysVouched == DirSpec => []DirectoryVouched
<1>1. DirInv => DirectoryVouched
  <2> SUFFICES ASSUME DirInv PROVE DirectoryVouched
    OBVIOUS
  <2>1. DirTypeOK
    <3>1. \A f \in Artifacts : dir[f] = Absent \/ dir[f] = Torn \/ dir[f].run \in 0..latest
      BY DEF DirInv, DirTypes, Contents
    <3>2. job = NoJob => job.todo = << >>
      BY DEF NoJob
    <3> QED
      BY <3>1, <3>2 DEF DirTypeOK, DirInv, DirTypes
  <2>2. ASSUME outcome = "done"
        PROVE  /\ \A f \in Must(asked[latest]) : FromRun(f, latest)
               /\ OldGoes /\ MatrixGoes /\ \A op, f : ~ Does(job.todo, op, f) /\ ~ Touches(job.todo, f)
    <3>1. job.todo = << >>
      BY <2>2 DEF DirInv, DirTypes, NoJob
    <3>2. \A op, f : ~ Does(job.todo, op, f) /\ ~ Touches(job.todo, f)
      BY <3>1 DEF Does, Touches
    <3> QED
      BY <2>2, <3>2 DEF DirInv, Progress, MustBeThere
  <2>3. NothingOfOldRuns
    BY <2>2 DEF NothingOfOldRuns, OldGoes
  <2>4. MatrixFollowsRequest
    BY <2>2 DEF MatrixFollowsRequest, MatrixGoes, Must, Asked
  <2> QED
    BY <2>1, <2>3, <2>4 DEF DirectoryVouched, DirInv, Vouched
<1> QED
  BY <1>1, DirStarts, DirStays, PTL DEF DirSpec

(* From the preset in diagnostics.json and the input paths in             *)
(* pipeline_trace.json the inspector makes its next request.  A run that   *)
(* returned leaves its own diagnostics and, unless it was an analysis run, *)
(* no trace but its own; a trace is never the younger of the two           *)
(* (execute_pipeline, run_analysis_pipeline, RunStatsSession.execute).     *)
THEOREM ReopenedRequestsAge == DirSpec => []ReopenedRequestAges
<1>1. DirInv => ReopenedRequestAges
  <2> SUFFICES ASSUME DirInv PROVE ReopenedRequestAges
    OBVIOUS
  <2>1. ASSUME outcome = "done"
        PROVE  /\ FromRun("diagnostics", latest)
               /\ asked[latest] \notin AnalysisRequests /\ Whole("trace") /\ Whole("diagnostics")
                    => dir["trace"].run = latest
    <3>1. job.todo = << >>
      BY <2>1 DEF DirInv, DirTypes, NoJob
    <3>2. \A op, f : ~ Does(job.todo, op, f)
      BY <3>1 DEF Does
    <3>3. \A f \in Must(asked[latest]) : FromRun(f, latest)
      BY <2>1, <3>2 DEF DirInv, Progress, MustBeThere
    <3>4. asked[latest] \in Requests
      BY <2>1, LatestFacts
    <3>5. asked[latest].kind \in {"stats", "full"}
      BY <3>4, SplitQuery
    <3>6. "diagnostics" \in Must(asked[latest])
      BY <3>5, Names DEF Must, Always
    <3>7. FromRun("diagnostics", latest)
      BY <3>3, <3>6
    <3>8. ASSUME asked[latest] \notin AnalysisRequests, Whole("trace"), Whole("diagnostics")
          PROVE  dir["trace"].run = latest
      <4>1. asked[dir["diagnostics"].run].kind = "full"
        BY <3>8 DEF DirInv, Vouched, TraceAges
      <4>2. asked[latest].kind = "full"
        BY <3>7, <4>1 DEF FromRun
      <4>3. asked[latest].trace
        BY <3>4, <3>8, <4>2, SplitQuery
      <4>4. "trace" \in Must(asked[latest])
        BY <4>2, <4>3 DEF Must, Always, Traced
      <4> QED
        BY <3>3, <4>4 DEF FromRun
    <3> QED
      BY <3>7, <3>8
  <2>2. TraceAges
    BY DEF DirInv, Vouched
  <2> QED
    BY <2>1, <2>2 DEF ReopenedRequestAges, TraceAges
<1> QED
  BY <1>1, DirStarts, DirStays, PTL DEF DirSpec
=============================================================================
