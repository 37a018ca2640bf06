---------------------- MODULE SurfaceResolution_proofs ---------------------
(***************************************************************************)
(* Proofs about a query of the stat kernel, for every world in which the   *)
(* rows taken when there are declared upstream and the locked surfaces     *)
(* have been zeroed.  A row is current when it is settled; two lemmas say  *)
(* why a row settled later does not change it: one without a value is not  *)
(* seen by anybody, and one with a value is read by a settled surface only *)
(* if it comes before it, has been attempted, and can have no value.       *)
(*                                                                         *)
(* What follows from that: a surface is attempted a bounded number of      *)
(* times, because in dependency order nothing stays open that a later pass *)
(* could settle; and its row is its meaning, the value it has by itself,   *)
(* because the closure of a query holds all that the surface reads.        *)
(*                                                                         *)
(* The second part is about the build of the bots that some of these       *)
(* surfaces show (BotProgression).  The rows above the scan tell which     *)
(* flags have been given to which bot (FromSheet), and the patches applied *)
(* so far tell every record apart from those of the section (Overlaid),    *)
(* whichever order they come in; at the end both give the surfaces.        *)
(***************************************************************************)
EXTENDS SurfaceResolution, BotProgression, DataLemmas

-----------------------------------------------------------------------------
(* Resolving with more rows                                                *)
-----------------------------------------------------------------------------

(* An unlock row with a value of its own has it.                           *)
Founded(known) ==
  \A g \in DOMAIN known :
    world.own[g] = "number" /\ world.mirrors[g] = {} /\ world.unlock[g] = {}
      => g \in known[g].parts

Wider(known, q, row) ==
  [ r \in DOMAIN known \cup {q} |-> IF r = q THEN row ELSE known[r] ]

LEMMA WiderRows ==
  ASSUME NEW known, NEW q, q \notin DOMAIN known, NEW row
  PROVE  /\ DOMAIN Wider(known, q, row) = DOMAIN known \cup {q}
         /\ Wider(known, q, row)[q] = row
         /\ \A r \in DOMAIN known : Wider(known, q, row)[r] = known[r]
BY DEF Wider

LEMMA RowFields ==
  ASSUME NEW status, NEW parts
  PROVE  Row(status, parts).status = status /\ Row(status, parts).parts = parts
BY DEF Row

(* What a surface resolves to, case by case.                               *)
LEMMA ResolveCases ==
  ASSUME NEW s, NEW known
  PROVE  /\ Resolve(s, known).status \in {"resolved", "gated_off", "mapped_not_resolved"}
         /\ Resolve(s, known).status = "mapped_not_resolved" =>
              /\ world.own[s] # "inactive" /\ ~ Zero(s, known) /\ Unresolved(s, known)
              /\ Resolve(s, known).parts = {}
         /\ world.own[s] # "inactive" /\ ~ Zero(s, known) /\ Unresolved(s, known) =>
              Resolve(s, known).status = "mapped_not_resolved"
         /\ world.own[s] # "inactive" /\ ~ Zero(s, known) /\ ~ Unresolved(s, known) =>
              Resolve(s, known) = Row("resolved", Parts(s, known))
BY DEF Resolve, Row

(* A live surface is not locked by what is known.                          *)
LEMMA NotLocked ==
  ASSUME UnlocksAgree, NEW known, Founded(known), DOMAIN known \subseteq world.available,
         NEW s \in Id, world.own[s] \notin {"zero", "inactive"}
  PROVE  ~ Zero(s, known)
<1>1. ASSUME NEW g \in world.unlock[s] \cap DOMAIN known
      PROVE  known[g].parts # {}
  <2>1. /\ world.mirrors[g] = {} /\ world.unlock[g] = {} /\ world.own[g] = "number"
    BY <1>1 DEF UnlocksAgree
  <2> QED
    BY <2>1, <1>1 DEF Founded
<1> QED
  BY <1>1 DEF Zero, Locked

(* The lock of a surface depends on its own contributors alone.            *)
LEMMA ZeroAgrees ==
  ASSUME UnlocksAgree,
         NEW known, Founded(known), DOMAIN known \subseteq world.available,
         NEW wide, Founded(wide), DOMAIN wide \subseteq world.available,
         NEW s \in Id, world.own[s] # "inactive"
  PROVE  Zero(s, known) <=> Zero(s, wide)
<1>1. CASE world.own[s] = "zero"
  BY <1>1 DEF Zero
<1>2. CASE world.own[s] # "zero"
  BY <1>2, NotLocked
<1> QED
  BY <1>1, <1>2

(* The same rows with a value: the same result.                            *)
LEMMA SameReads ==
  ASSUME UnlocksAgree,
         NEW known, Founded(known), DOMAIN known \subseteq world.available,
         NEW wide, Founded(wide), DOMAIN wide \subseteq world.available,
         NEW s \in Id,
         \A r \in world.mirrors[s] :
           (HasValue(r, known) <=> HasValue(r, wide)) /\ (HasValue(r, known) => wide[r] = known[r]),
         world.mirrors[s] = {} =>
           \A r \in world.uses[s] :
             (HasValue(r, known) <=> HasValue(r, wide)) /\ (HasValue(r, known) => wide[r] = known[r])
  PROVE  Resolve(s, wide) = Resolve(s, known)
<1>1. CASE world.own[s] = "inactive"
  BY <1>1 DEF Resolve
<1>2. CASE world.own[s] # "inactive"
  <2>1. Zero(s, known) <=> Zero(s, wide)
    BY <1>2, ZeroAgrees
  <2>2. Unresolved(s, known) <=> Unresolved(s, wide)
    BY DEF Unresolved
  <2>3. ASSUME ~ Unresolved(s, known)
        PROVE  Parts(s, known) = Parts(s, wide)
    <3>1. CASE world.mirrors[s] # {}
      <4>1. \A r \in world.mirrors[s] : wide[r] = known[r]
        BY <2>3 DEF Unresolved
      <4>2. { known[r].parts : r \in world.mirrors[s] } = { wide[r].parts : r \in world.mirrors[s] }
        BY <4>1
      <4> QED
        BY <3>1, <4>2 DEF Parts
    <3>2. CASE world.mirrors[s] = {}
      <4> DEFINE A == { u \in world.uses[s] : HasValue(u, known) }
                 B == { u \in world.uses[s] : HasValue(u, wide) }
      <4>1. A = B
        BY <3>2
      <4>2. \A r \in A : wide[r] = known[r]
        BY <3>2
      <4>3. { known[r].parts : r \in A } = { wide[r].parts : r \in B }
        <5> HIDE DEF A, B
        <5> QED
          BY <4>1, <4>2
      <4> QED
        BY <3>2, <4>3 DEF Parts
    <3> QED
      BY <3>1, <3>2
  <2> QED
    BY <1>2, <2>1, <2>2, <2>3 DEF Resolve
<1> QED
  BY <1>1, <1>2

(* A row without a value is as good as no row.                             *)
LEMMA ValuelessRow ==
  ASSUME UnlocksAgree,
         NEW known, Founded(known), DOMAIN known \subseteq world.available,
         NEW q \in world.available, q \notin DOMAIN known, NEW row, row.status # "resolved",
         Founded(Wider(known, q, row)), NEW s \in Id
  PROVE  Resolve(s, Wider(known, q, row)) = Resolve(s, known)
<1> DEFINE wide == Wider(known, q, row)
<1>1. /\ DOMAIN wide = DOMAIN known \cup {q} /\ wide[q] = row
      /\ \A r \in DOMAIN known : wide[r] = known[r]
  BY DEF Wider
<1>2. \A r : (HasValue(r, known) <=> HasValue(r, wide)) /\ (HasValue(r, known) => wide[r] = known[r])
  <2> HIDE DEF wide
  <2> QED
    BY <1>1 DEF HasValue
<1>3. DOMAIN wide \subseteq world.available /\ Founded(wide)
  BY <1>1
<1> HIDE DEF wide
<1>4. Resolve(s, wide) = Resolve(s, known)
  BY <1>2, <1>3, SameReads
<1> QED
  BY <1>4 DEF wide

(* A row that a resolved surface does not take does not change it.         *)
LEMMA UnusedRow ==
  ASSUME UnlocksAgree,
         NEW known, Founded(known), DOMAIN known \subseteq world.available,
         NEW q \in world.available, q \notin DOMAIN known, NEW row,
         Founded(Wider(known, q, row)), NEW s \in Id,
         Resolve(s, known).status # "mapped_not_resolved", q \notin world.uses[s]
  PROVE  Resolve(s, Wider(known, q, row)) = Resolve(s, known)
<1> DEFINE wide == Wider(known, q, row)
<1>1. /\ DOMAIN wide = DOMAIN known \cup {q} /\ wide[q] = row
      /\ \A r \in DOMAIN known : wide[r] = known[r]
  BY DEF Wider
<1>2. DOMAIN wide \subseteq world.available /\ Founded(wide)
  BY <1>1
<1>3. \A r : r # q => /\ HasValue(r, known) <=> HasValue(r, wide)
                      /\ HasValue(r, known) => wide[r] = known[r]
  <2> HIDE DEF wide
  <2> QED
    BY <1>1 DEF HasValue
<1> HIDE DEF wide
<1>4. CASE world.own[s] = "inactive"
  BY <1>4 DEF Resolve, wide
<1>5. CASE world.own[s] # "inactive" /\ Zero(s, known)
  <2>1. Zero(s, wide)
    BY <1>2, <1>5, ZeroAgrees
  <2> QED
    BY <1>5, <2>1 DEF Resolve, wide
<1>6. CASE world.own[s] # "inactive" /\ ~ Zero(s, known)
  <2>1. ~ Unresolved(s, known)
    BY <1>6, ResolveCases
  <2>2. \A r \in world.mirrors[s] : HasValue(r, known)
    BY <2>1 DEF Unresolved
  <2>3. q \notin world.mirrors[s]
    BY <2>2 DEF HasValue
  <2>4. Resolve(s, wide) = Resolve(s, known)
    BY <1>2, <1>3, <2>3, SameReads
  <2> QED
    BY <2>4 DEF wide
<1> QED
  BY <1>4, <1>5, <1>6

-----------------------------------------------------------------------------
(* The inductive invariant                                                 *)
-----------------------------------------------------------------------------
Queued == { queue[k] : k \in DOMAIN queue }

Supported == UsesDeclared /\ UnlocksAgree

Ordered ==
  /\ \A i, j \in DOMAIN queue : queue[i] = queue[j] => i = j
  /\ \A r, s \in Queued : r # s /\ Declared(r, s) => Before(queue, r, s)
  /\ Queued \subseteq world.available

(* Attempts are made from the front of the queue.                          *)
Swept ==
  /\ pending \subseteq Queued
  /\ DOMAIN rows = Queued \ pending
  /\ \A s \in DOMAIN rows : attempts[s] > 0
  /\ phase = "passes" => \A i \in DOMAIN queue : i < at => attempts[queue[i]] > 0
  /\ phase = "finalise" => \A i \in DOMAIN queue : attempts[queue[i]] > 0
  /\ \A i, j \in DOMAIN queue : i < j /\ attempts[queue[j]] > 0 => attempts[queue[i]] > 0

Running == phase \in {"passes", "finalise"}

(* What reads nothing and is still pending after an attempt has no value.  *)
Tried ==
  Running => \A u \in pending :
    attempts[u] > 0 /\ world.mirrors[u] = {} /\ world.unlock[u] = {} => world.own[u] = "none"

Deferred(s) == Resolve(s, rows).status = "mapped_not_resolved"

(* Passes settle only what has a value or is inactive, and the surfaces    *)
(* still pending when a pass has settled nothing cannot be resolved.       *)
Waiting ==
  /\ phase = "passes" => \A s \in DOMAIN rows : rows[s].status # "mapped_not_resolved"
  /\ phase = "passes" /\ ~ progress =>
       \A i \in DOMAIN queue : i < at /\ queue[i] \in pending => Deferred(queue[i])
  /\ phase = "finalise" => \A s \in pending : Deferred(s)

Fresh == phase = "asked" => ~ progress /\ \A s \in Id : attempts[s] = 0

Inv == TypeOK /\ Fresh /\ Supported /\ Ordered /\ Swept /\ Tried /\ Waiting /\ RowsAreCurrent

-----------------------------------------------------------------------------
(* Types                                                                   *)
-----------------------------------------------------------------------------
LEMMA ResolveType ==
  ASSUME world \in WorldType, NEW s \in Id, NEW known,
         \A r \in DOMAIN known : known[r] \in Rows
  PROVE  Resolve(s, known) \in Rows
<1>1. \A r \in DOMAIN known : known[r].parts \subseteq Id
  BY DEF Rows
<1>2. ~ Unresolved(s, known) => Parts(s, known) \subseteq Id
  <2>1. CASE world.mirrors[s] # {}
    BY <2>1, <1>1 DEF Parts, Unresolved, HasValue
  <2>2. CASE world.mirrors[s] = {}
    BY <2>2, <1>1 DEF Parts, HasValue
  <2> QED
    BY <2>1, <2>2
<1>3. \A parts \in SUBSET Id : /\ Row("resolved", parts) \in Rows
                              /\ Row("gated_off", parts) \in Rows
                              /\ Row("mapped_not_resolved", parts) \in Rows
  BY DEF Row, Rows
<1> QED
  BY <1>2, <1>3 DEF Resolve

LEMMA WiderType ==
  ASSUME NEW q, NEW row \in Rows, \A r \in DOMAIN rows : rows[r] \in Rows
  PROVE  \A r \in DOMAIN Wider(rows, q, row) : Wider(rows, q, row)[r] \in Rows
BY DEF Wider

LEMMA AvailableIds ==
  ASSUME world \in WorldType
  PROVE  /\ world.available \subseteq Id
         /\ ToResolve \subseteq world.available /\ ToResolve \subseteq Id
         /\ IsFiniteSet(ToResolve) /\ Cardinality(ToResolve) \in Nat
<1>1. world.available \subseteq Id
  BY DEF WorldType
<1>2. ToResolve \subseteq world.available /\ ToResolve \subseteq Id
  BY <1>1 DEF ToResolve
<1> QED
  BY <1>1, <1>2, IdAssumption, FS_Subset, FS_CardinalityType

(* What Begin puts into the queue.                                         *)
LEMMA BeginQueue ==
  ASSUME world \in WorldType, Begin
  PROVE  /\ pending' = ToResolve
         /\ queue' \in [1 .. Cardinality(ToResolve) -> ToResolve]
         /\ InOrder(queue', ToResolve)
         /\ queue' \in Seq(Id) /\ Len(queue') \in Nat
<1>1. /\ pending' = ToResolve
      /\ queue' \in [1 .. Cardinality(ToResolve) -> ToResolve]
      /\ InOrder(queue', ToResolve)
  BY DEF Begin
<1>2. queue' \in [1 .. Cardinality(ToResolve) -> Id]
  BY <1>1, AvailableIds
<1> QED
  BY <1>1, <1>2, AvailableIds

LEMMA InitTypes == Init => TypeOK
<1> SUFFICES ASSUME Init PROVE TypeOK
  OBVIOUS
<1>1. world \in WorldType /\ request \in Seq(Id)
  BY WorldAssumption, RequestAssumption DEF Init
<1>2. queue = << >> /\ queue \in Seq(Id) /\ Len(queue) = 0 /\ DOMAIN queue = {}
  BY DEF Init
<1>3. DOMAIN rows = {} /\ pending = {} /\ at \in 1 .. Len(queue) + 1 /\ attempts \in [Id -> Nat]
  BY <1>2 DEF Init, NoRows
<1>4. phase = "asked" /\ at = 1 /\ reply = << >> /\ progress = FALSE
  BY DEF Init
<1> QED
  BY <1>1, <1>2, <1>3, <1>4 DEF TypeOK

LEMMA AttemptTypes ==
  ASSUME TypeOK, InPass, queue[at] \in pending
  PROVE  /\ at \in DOMAIN queue /\ at \in Nat /\ queue[at] \in Id
         /\ at + 1 \in 1 .. Len(queue) + 1
BY DEF TypeOK, InPass

LEMMA CountTypes ==
  ASSUME TypeOK, NEW s \in Id, Count(s)
  PROVE  /\ attempts' \in [Id -> Nat] /\ attempts'[s] > 0
         /\ \A r \in Id : attempts[r] > 0 => attempts'[r] > 0
         /\ \A r \in Id \ {s} : attempts'[r] = attempts[r]
<1>1. AttemptBound \in Nat /\ AttemptBound >= 3
  BY DEF TypeOK, AttemptBound
<1> QED
  BY <1>1 DEF TypeOK, Count

LEMMA NothingQueued ==
  ASSUME TypeOK, phase = "asked"
  PROVE  at = 1 /\ DOMAIN queue = {} /\ Queued = {} /\ DOMAIN rows = {} /\ pending = {}
<1>1. at = 1 /\ queue = << >>
  BY DEF TypeOK
<1>2. DOMAIN queue = {}
  BY <1>1
<1>3. Queued = {}
  BY <1>2 DEF Queued
<1> QED
  BY <1>1, <1>2, <1>3 DEF TypeOK, Queued

LEMMA StepTypes == TypeOK /\ [Next]_vars => TypeOK'
<1> SUFFICES ASSUME TypeOK, [Next]_vars PROVE TypeOK'
  OBVIOUS
<1>0. world \in WorldType /\ at \in Nat /\ Len(queue) \in Nat
  BY DEF TypeOK
<1>1. CASE Begin
  <2>1. /\ queue' \in Seq(Id) /\ pending' = { queue'[k] : k \in DOMAIN queue' }
        /\ Len(queue') \in Nat
    BY <1>0, <1>1, BeginQueue DEF InOrder
  <2>2. phase = "asked" /\ phase' = "passes" /\ UNCHANGED << call, pass, attempts, rows, reply >>
    BY <1>1 DEF Begin
  <2>3. at = 1 /\ DOMAIN rows = {}
    BY <2>2, NothingQueued DEF Queued, TypeOK
  <2>4. at \in 1 .. Len(queue') + 1
    BY <2>1, <2>3
  <2> QED
    BY <2>1, <2>2, <2>3, <2>4 DEF TypeOK, call, pass
<1>2. CASE Refuse
  BY <1>2 DEF Refuse, TypeOK, call, pass
<1>3. CASE Attempt
  <2> DEFINE q == queue[at]
             row == Resolve(q, rows)
  <2>1. /\ at + 1 \in 1 .. Len(queue) + 1 /\ q \in Id /\ q \in pending /\ at \in DOMAIN queue
        /\ attempts' \in [Id -> Nat]
    BY <1>3, AttemptTypes, CountTypes DEF Attempt
  <2>2. row \in Rows
    BY <2>1, ResolveType DEF TypeOK
  <2>3. \/ UNCHANGED << rows, pending, progress >>
        \/ rows' = Wider(rows, q, row) /\ pending' = pending \ {q} /\ progress' = TRUE
    BY <1>3 DEF Attempt, Settle, Wider
  <2> HIDE DEF row
  <2>4. /\ \A r \in DOMAIN rows' : rows'[r] \in Rows
        /\ DOMAIN rows' \subseteq DOMAIN rows \cup {q}
        /\ pending' \subseteq pending /\ progress' \in BOOLEAN
    BY <2>2, <2>3, WiderType DEF TypeOK, Wider
  <2>5. at' = at + 1 /\ UNCHANGED << call, phase, queue, reply >>
    BY <1>3 DEF Attempt
  <2> QED
    BY <2>1, <2>4, <2>5 DEF TypeOK, call
<1>4. CASE AttemptMixed
  <2>1. queue[at] \in Id /\ attempts' \in [Id -> Nat]
    BY <1>4, AttemptTypes, CountTypes DEF AttemptMixed, RaiseMixed
  <2> QED
    BY <1>4, <2>1 DEF AttemptMixed, RaiseMixed, InPass, TypeOK, call, pass
<1>5. CASE SkipSettled
  BY <1>5 DEF SkipSettled, InPass, TypeOK, call
<1>6. CASE EndPass
  <2>1. /\ phase = "passes" /\ phase' \in {"answer", "finalise", "passes"}
        /\ at' = 1 /\ progress' = FALSE /\ 1 \in 1 .. Len(queue) + 1
        /\ UNCHANGED << call, queue, pending, attempts, rows, reply >>
    BY <1>0, <1>6 DEF EndPass
  <2> QED
    BY <2>1 DEF TypeOK, call
<1>7. ASSUME NEW s \in pending, Finalise(s)
      PROVE  TypeOK'
  <2>1. s \in Id /\ attempts' \in [Id -> Nat]
    <3>1. s \in Id
      BY DEF TypeOK
    <3> QED
      BY <1>7, <3>1, CountTypes DEF Finalise
  <2>2. Resolve(s, rows) \in Rows
    BY <2>1, ResolveType DEF TypeOK
  <2>3. rows' = Wider(rows, s, Resolve(s, rows)) /\ pending' = pending \ {s}
    BY <1>7 DEF Finalise, Settle, Wider
  <2>4. /\ \A r \in DOMAIN rows' : rows'[r] \in Rows
        /\ DOMAIN rows' = DOMAIN rows \cup {s}
    BY <2>2, <2>3, WiderType DEF TypeOK, Wider
  <2>5. /\ phase = "finalise" /\ phase' \in {"answer", "finalise"}
        /\ UNCHANGED << call, queue, pass, reply >>
    BY <1>7 DEF Finalise
  <2> QED
    BY <2>1, <2>3, <2>4, <2>5 DEF TypeOK, call, pass
<1>8. CASE Answer
  BY <1>8 DEF Answer, TypeOK, call, pass
<1>9. CASE UNCHANGED vars
  BY <1>9 DEF TypeOK, vars, call, pass
<1> QED
  BY <1>1, <1>2, <1>3, <1>4, <1>5, <1>6, <1>7, <1>8, <1>9 DEF Next, Step, Finished

(* Type correctness of a query.                                            *)
THEOREM TypesHold == Spec => []TypeOK
<1> QED
  BY InitTypes, StepTypes, PTL DEF Spec

-----------------------------------------------------------------------------
(* The order of attempts                                                   *)
-----------------------------------------------------------------------------

LEMMA SameWorldParts ==
  ASSUME world' = world, NEW s
  PROVE  Parts(s, rows)' = Parts(s, rows')
<1>1. \A r : HasValue(r, rows)' <=> HasValue(r, rows')
  BY DEF HasValue
<1>2. { u \in world.uses[s] : HasValue(u, rows') } = { u \in world.uses[s] : HasValue(u, rows) }'
  BY <1>1
<1> QED
  BY <1>1, <1>2 DEF Parts

LEMMA SameWorldRow ==
  ASSUME world' = world, NEW s
  PROVE  Resolve(s, rows)' = Resolve(s, rows')
<1>1. Zero(s, rows)' <=> Zero(s, rows')
  BY DEF Zero, Locked
<1>2. Unresolved(s, rows)' <=> Unresolved(s, rows')
  BY DEF Unresolved, HasValue
<1> QED
  BY <1>1, <1>2, SameWorldParts DEF Resolve, Row

LEMMA SameWorldFacts ==
  ASSUME world' = world
  PROVE  /\ Supported => Supported'
         /\ \A r, s : Declared(r, s)' <=> Declared(r, s)
<1>1. \A n : Covered(n)' <=> Covered(n)
  BY DEF Covered, Hits, Candidates
<1>2. \A n : Available(n)' = Available(n)
  BY DEF Available, Hits, Candidates
<1>3. \A r, s : Declared(r, s)' <=> Declared(r, s)
  BY <1>1, <1>2 DEF Declared
<1>4. Supported => Supported'
  BY <1>3 DEF Supported, UsesDeclared, UnlocksAgree
<1> QED
  BY <1>3, <1>4

-----------------------------------------------------------------------------
(* A row settled later                                                     *)
-----------------------------------------------------------------------------
LEMMA OwnNumber ==
  ASSUME NEW g, NEW known,
         world.own[g] = "number", world.mirrors[g] = {}, world.unlock[g] = {}
  PROVE  g \in Resolve(g, known).parts
<1>1. ~ Zero(g, known) /\ ~ Unresolved(g, known) /\ g \in Parts(g, known)
  BY DEF Zero, Locked, Unresolved, Parts
<1> QED
  BY <1>1 DEF Resolve, Row

LEMMA RowsFounded ==
  ASSUME RowsAreCurrent
  PROVE  Founded(rows)
BY OwnNumber DEF Founded, RowsAreCurrent

LEMMA WiderFounded ==
  ASSUME RowsAreCurrent, NEW q, q \notin DOMAIN rows
  PROVE  Founded(Wider(rows, q, Resolve(q, rows)))
<1> DEFINE row == Resolve(q, rows)
           wide == Wider(rows, q, row)
<1>1. ASSUME NEW g \in DOMAIN wide,
             world.own[g] = "number", world.mirrors[g] = {}, world.unlock[g] = {}
      PROVE  g \in wide[g].parts
  <2>1. CASE g = q
    <3>1. wide[g] = row
      BY <2>1 DEF Wider
    <3> QED
      BY <1>1, <2>1, <3>1, OwnNumber
  <2>2. CASE g # q
    <3>1. wide[g] = rows[g] /\ g \in DOMAIN rows
      BY <1>1, <2>2 DEF Wider
    <3> QED
      BY <1>1, <3>1, OwnNumber DEF RowsAreCurrent
  <2> QED
    BY <2>1, <2>2
<1> QED
  BY <1>1 DEF Founded

(* A surface with a value that settles in a pass is used by none of the    *)
(* settled ones: it would stand before them, and have been deferred only   *)
(* for having nothing.                                                     *)
LEMMA LateUse ==
  ASSUME Inv, phase = "passes", NEW q \in pending, NEW s \in DOMAIN rows, q \in world.uses[s]
  PROVE  Deferred(q)
<1>1. s \in Queued /\ q \in Queued /\ attempts[s] > 0 /\ q \in world.available /\ s \in Id
  BY DEF Inv, Swept, Ordered, TypeOK, Queued
<1>2. world.mirrors[q] = {} /\ world.unlock[q] = {} /\ q # s /\ Declared(q, s)
  BY <1>1 DEF Inv, Supported, UsesDeclared
<1>3. PICK i, j \in DOMAIN queue : i < j /\ queue[i] = q /\ queue[j] = s
  BY <1>1, <1>2 DEF Inv, Ordered, Before
<1>4. attempts[q] > 0
  BY <1>1, <1>3 DEF Inv, Swept
<1>5. world.own[q] = "none"
  BY <1>2, <1>4 DEF Inv, Tried, Running
<1>6. ~ Zero(q, rows) /\ Unresolved(q, rows)
  BY <1>2, <1>5 DEF Zero, Locked, Unresolved
<1> QED
  BY <1>5, <1>6, ResolveCases DEF Deferred

(* Settling a surface changes no row that is there, and, when it gives no  *)
(* value, nothing that is still to be resolved.                            *)
LEMMA SettleKeeps ==
  ASSUME Inv, NEW q \in pending,
         \/ phase = "passes" /\ ~ Deferred(q)
         \/ phase = "finalise"
  PROVE  LET wide == Wider(rows, q, Resolve(q, rows))
         IN /\ \A s \in DOMAIN wide : wide[s] = Resolve(s, wide)
            /\ phase = "finalise" => \A s \in Id : Resolve(s, wide) = Resolve(s, rows)
<1> DEFINE row == Resolve(q, rows)
           wide == Wider(rows, q, row)
<1>1. /\ q \in world.available /\ q \notin DOMAIN rows /\ q \in Id
      /\ DOMAIN rows \subseteq world.available /\ DOMAIN rows \subseteq Id
  BY DEF Inv, Swept, Ordered, TypeOK, Queued
<1>2. Founded(rows) /\ Founded(wide) /\ UnlocksAgree
  BY <1>1, RowsFounded, WiderFounded DEF Inv, Supported
<1>3. /\ DOMAIN wide = DOMAIN rows \cup {q} /\ wide[q] = Resolve(q, rows)
      /\ \A s \in DOMAIN rows : wide[s] = Resolve(s, rows)
  BY <1>1 DEF Wider, Inv, RowsAreCurrent
<1>4. CASE row.status # "resolved"
  <2>1. \A s \in Id : Resolve(s, wide) = Resolve(s, rows)
    <3> HIDE DEF row
    <3> QED
      BY <1>1, <1>2, <1>4, ValuelessRow
  <2> HIDE DEF wide
  <2>2. \A s \in DOMAIN wide : wide[s] = Resolve(s, wide)
    BY <1>1, <1>3, <2>1
  <2> QED
    BY <2>1, <2>2 DEF wide
<1>5. CASE row.status = "resolved"
  <2>1. phase = "passes" /\ ~ Deferred(q)
    BY <1>5 DEF Inv, Waiting, Deferred
  <2>2. \A s \in DOMAIN rows : q \notin world.uses[s]
    BY <2>1, LateUse
  <2>3. q \notin world.uses[q]
    BY <1>1 DEF Inv, Supported, UsesDeclared
  <2>4. \A s \in DOMAIN rows \cup {q} : Resolve(s, rows).status # "mapped_not_resolved"
    BY <2>1 DEF Inv, Waiting, RowsAreCurrent, Deferred
  <2>5. \A s \in DOMAIN rows \cup {q} : Resolve(s, wide) = Resolve(s, rows)
    <3> HIDE DEF row
    <3> QED
      BY <1>1, <1>2, <2>2, <2>3, <2>4, UnusedRow
  <2> HIDE DEF wide
  <2>6. \A s \in DOMAIN wide : wide[s] = Resolve(s, wide)
    BY <1>3, <2>5
  <2> QED
    BY <2>1, <2>6 DEF wide
<1> QED
  BY <1>4, <1>5

-----------------------------------------------------------------------------
(* The invariant is inductive                                              *)
-----------------------------------------------------------------------------
LEMMA InitInv == Init => Inv
<1> SUFFICES ASSUME Init PROVE Inv
  OBVIOUS
<1>1. TypeOK /\ phase = "asked" /\ Supported
  BY InitTypes DEF Init, Supported
<1>2. DOMAIN queue = {} /\ Queued = {} /\ DOMAIN rows = {} /\ pending = {}
  BY <1>1, NothingQueued
<1>3. Ordered /\ Swept /\ Tried /\ Waiting /\ RowsAreCurrent
  BY <1>1, <1>2 DEF Ordered, Swept, Tried, Running, Waiting, RowsAreCurrent
<1>4. Fresh
  BY DEF Init, Fresh
<1> QED
  BY <1>1, <1>3, <1>4 DEF Inv

LEMMA BeginKeeps == Inv /\ Begin => Inv'
<1> SUFFICES ASSUME Inv, Begin PROVE Inv'
  OBVIOUS
<1>1. TypeOK /\ world \in WorldType /\ phase = "asked" /\ phase' = "passes" /\ world' = world
  BY DEF Begin, Inv, TypeOK, call
<1>2. /\ rows' = rows /\ at' = at /\ attempts' = attempts
      /\ DOMAIN rows = {} /\ at = 1
  BY <1>1, NothingQueued DEF Begin, pass
<1>3. /\ pending' = ToResolve /\ InOrder(queue', ToResolve) /\ Queued' = ToResolve
      /\ DOMAIN queue' = 1 .. Cardinality(ToResolve) /\ Cardinality(ToResolve) \in Nat
  BY <1>1, BeginQueue, AvailableIds DEF InOrder, Queued
<1>4. TypeOK'
  BY <1>1, StepTypes DEF Next, Step
<1>5. Supported'
  BY <1>1, SameWorldFacts DEF Inv
<1>6. Ordered'
  <2>1. \A i, j \in DOMAIN queue' : queue'[i] = queue'[j] => i = j
    BY <1>3 DEF InOrder
  <2>2. \A r, s \in Queued' : r # s /\ Declared(r, s)' => Before(queue, r, s)'
    BY <1>1, <1>3, SameWorldFacts DEF InOrder, Before
  <2>3. Queued' \subseteq world'.available
    BY <1>1, <1>3, AvailableIds
  <2> QED
    BY <2>1, <2>2, <2>3 DEF Ordered
<1>7. \A i \in DOMAIN queue' : queue'[i] \in Id /\ attempts[queue'[i]] = 0
  <2>1. \A i \in Id : attempts[i] = 0
    BY <1>1 DEF Inv, Fresh
  <2> QED
    BY <1>4, <2>1 DEF TypeOK
<1>8. Swept'
  BY <1>1, <1>2, <1>3, <1>7 DEF Swept
<1>9. Tried'
  BY <1>2, <1>3, <1>7 DEF Tried, Queued
<1>10. Waiting'
  BY <1>1, <1>2, <1>3 DEF Waiting
<1>11. RowsAreCurrent'
  BY <1>2 DEF RowsAreCurrent
<1>12. Fresh'
  BY <1>1 DEF Fresh
<1> QED
  BY <1>4, <1>5, <1>6, <1>8, <1>9, <1>10, <1>11, <1>12 DEF Inv

(* What the steps that leave the queue alone keep.                         *)
LEMMA QueueKept ==
  ASSUME Inv, UNCHANGED << world, queue >>, [Next]_vars, phase' # "asked"
  PROVE  TypeOK' /\ Supported' /\ Ordered' /\ Fresh' /\ Queued' = Queued
<1>1. TypeOK' /\ Supported'
  BY StepTypes, SameWorldFacts DEF Inv
<1>2. Queued' = Queued
  BY DEF Queued
<1>3. Ordered'
  BY <1>2, SameWorldFacts DEF Inv, Ordered, Before
<1> QED
  BY <1>1, <1>2, <1>3 DEF Fresh

LEMMA AttemptKeeps == Inv /\ Attempt => Inv'
<1> SUFFICES ASSUME Inv, Attempt PROVE Inv'
  OBVIOUS
<1> DEFINE q == queue[at]
           row == Resolve(q, rows)
<1>1. /\ TypeOK /\ q \in pending /\ phase = "passes" /\ phase' = "passes"
      /\ at \in DOMAIN queue /\ at \in Nat /\ q \in Id /\ at' = at + 1
      /\ world' = world /\ queue' = queue
  BY AttemptTypes DEF Attempt, Inv, InPass, call
<1>2. /\ attempts'[q] > 0
      /\ \A r \in Id : attempts[r] > 0 => attempts'[r] > 0
      /\ \A r \in Id \ {q} : attempts'[r] = attempts[r]
  BY <1>1, CountTypes DEF Attempt
<1>3. TypeOK' /\ Supported' /\ Ordered' /\ Fresh' /\ Queued' = Queued
  BY <1>1, QueueKept DEF Next, Step
<1>4. \A i \in DOMAIN queue : queue[i] \in Id /\ i \in Nat
  BY <1>1 DEF TypeOK
<1>5. \A i \in DOMAIN queue : i < at + 1 => attempts'[queue[i]] > 0
  BY <1>1, <1>2, <1>4 DEF Inv, Swept
<1>6. \A i, j \in DOMAIN queue : i < j /\ attempts'[queue[j]] > 0 => attempts'[queue[i]] > 0
  <2> SUFFICES ASSUME NEW i \in DOMAIN queue, NEW j \in DOMAIN queue, i < j, attempts'[queue[j]] > 0
               PROVE  attempts'[queue[i]] > 0
    OBVIOUS
  <2>1. CASE j = at
    BY <1>4, <1>5, <1>1, <2>1
  <2>2. CASE j # at
    <3>1. queue[j] # q
      BY <1>1, <2>2 DEF Inv, Ordered
    <3>2. attempts[queue[j]] > 0
      BY <1>2, <1>4, <3>1
    <3> QED
      BY <1>2, <1>4, <3>2 DEF Inv, Swept
  <2> QED
    BY <2>1, <2>2
<1>9. pending \subseteq Id
  BY <1>1 DEF TypeOK
<1>7. CASE Deferred(q)
  <2>1. rows' = rows /\ pending' = pending /\ progress' = progress
    BY <1>7 DEF Attempt, Deferred
  <2>2. Swept'
    BY <1>1, <1>2, <1>3, <1>4, <1>5, <1>6, <2>1 DEF Inv, Swept, TypeOK, Queued
  <2>3. \A s : Resolve(s, rows)' = Resolve(s, rows)
    BY <1>1, <2>1, SameWorldRow
  <2>4. Tried'
    <3> SUFFICES ASSUME NEW u \in pending, attempts'[u] > 0, world.mirrors[u] = {}, world.unlock[u] = {}
                 PROVE  world.own[u] = "none"
      BY <1>1, <2>1 DEF Tried
    <3>1. CASE u = q
      BY <1>7, <3>1, ResolveCases DEF Deferred, Unresolved
    <3>2. CASE u # q
      <4>1. attempts[u] > 0
        BY <1>2, <1>9, <3>2
      <4> QED
        BY <1>1, <4>1 DEF Inv, Tried, Running
    <3> QED
      BY <3>1, <3>2
  <2>5. Waiting'
    <3>1. \A s : Deferred(s)' <=> Deferred(s)
      BY <2>3 DEF Deferred
    <3>2. ~ progress => \A i \in DOMAIN queue : i < at + 1 /\ queue[i] \in pending => Deferred(queue[i])
      BY <1>1, <1>4, <1>7 DEF Inv, Waiting
    <3> QED
      BY <1>1, <2>1, <3>1, <3>2 DEF Inv, Waiting
  <2>6. RowsAreCurrent'
    BY <2>1, <2>3 DEF Inv, RowsAreCurrent
  <2> QED
    BY <1>3, <2>2, <2>4, <2>5, <2>6 DEF Inv
<1>8. CASE ~ Deferred(q)
  <2>1. rows' = Wider(rows, q, row) /\ pending' = pending \ {q} /\ progress' = TRUE
    BY <1>8 DEF Attempt, Settle, Deferred, Wider
  <2>2. DOMAIN rows' = DOMAIN rows \cup {q} /\ rows'[q] = row /\ \A s \in DOMAIN rows : s # q => rows'[s] = rows[s]
    BY <2>1 DEF Wider
  <2>3. Swept'
    <3>1. pending' \subseteq Queued' /\ DOMAIN rows' = Queued' \ pending'
      BY <1>1, <1>3, <2>1, <2>2 DEF Inv, Swept
    <3>2. \A s \in DOMAIN rows' : attempts'[s] > 0
      BY <1>1, <1>2, <2>2 DEF Inv, Swept, TypeOK
    <3> QED
      BY <1>1, <1>5, <1>6, <3>1, <3>2 DEF Swept
  <2>4. RowsAreCurrent'
    <3>1. \A s \in DOMAIN rows' : rows'[s] = Resolve(s, rows')
      BY <1>1, <1>8, <2>1, SettleKeeps
    <3> QED
      BY <1>1, <3>1, SameWorldRow DEF RowsAreCurrent
  <2>5. Tried'
    <3>1. \A u \in pending' : u \in pending /\ attempts'[u] = attempts[u]
      BY <1>2, <1>9, <2>1
    <3> QED
      BY <1>1, <3>1 DEF Inv, Tried, Running
  <2>6. Waiting'
    BY <1>1, <1>8, <2>1, <2>2 DEF Inv, Waiting, Deferred
  <2> QED
    BY <1>3, <2>3, <2>4, <2>5, <2>6 DEF Inv
<1> QED
  BY <1>7, <1>8

LEMMA FinaliseKeeps == ASSUME Inv, NEW q \in pending, Finalise(q) PROVE Inv'
<1> DEFINE row == Resolve(q, rows)
<1>1. /\ TypeOK /\ phase = "finalise" /\ phase' \in {"answer", "finalise"} /\ q \in Id
      /\ world' = world /\ queue' = queue
  BY DEF Finalise, Inv, TypeOK, call
<1>2. /\ attempts'[q] > 0
      /\ \A r \in Id : attempts[r] > 0 => attempts'[r] > 0
      /\ \A r \in Id \ {q} : attempts'[r] = attempts[r]
  BY <1>1, CountTypes DEF Finalise
<1>3. TypeOK' /\ Supported' /\ Ordered' /\ Fresh' /\ Queued' = Queued
  BY <1>1, QueueKept DEF Next, Step
<1>4. \A i \in DOMAIN queue : queue[i] \in Id /\ attempts'[queue[i]] > 0
  BY <1>1, <1>2 DEF Inv, Swept, TypeOK
<1>5. rows' = Wider(rows, q, row) /\ pending' = pending \ {q}
  BY DEF Finalise, Settle, Wider
<1>6. DOMAIN rows' = DOMAIN rows \cup {q}
  BY <1>5 DEF Wider
<1>7. Swept'
  BY <1>1, <1>2, <1>3, <1>4, <1>5, <1>6 DEF Inv, Swept, TypeOK, Queued
<1>8. /\ \A s \in DOMAIN rows' : rows'[s] = Resolve(s, rows')
      /\ \A s \in Id : Resolve(s, rows') = Resolve(s, rows)
  BY <1>1, <1>5, SettleKeeps
<1>9. RowsAreCurrent'
  BY <1>1, <1>8, SameWorldRow DEF RowsAreCurrent
<1>10. Tried'
  <2>1. \A u \in pending' : u \in pending /\ attempts'[u] = attempts[u]
    BY <1>1, <1>2, <1>5 DEF TypeOK
  <2> QED
    BY <1>1, <2>1 DEF Inv, Tried, Running
<1>11. Waiting'
  <2>1. \A s \in pending : s \in Id /\ Deferred(s)
    BY <1>1 DEF Inv, Waiting, TypeOK
  <2>2. \A s \in pending : Deferred(s)'
    BY <1>1, <1>8, <2>1, SameWorldRow DEF Deferred
  <2> QED
    BY <1>1, <1>5, <2>2 DEF Waiting
<1> QED
  BY <1>3, <1>7, <1>9, <1>10, <1>11 DEF Inv

LEMMA OthersKeep ==
  ASSUME Inv, \/ Refuse \/ AttemptMixed \/ SkipSettled \/ EndPass \/ Answer \/ UNCHANGED vars
  PROVE  Inv'
<1>1. TypeOK /\ world' = world /\ queue' = queue /\ rows' = rows /\ pending' = pending
  BY DEF Inv, Refuse, AttemptMixed, RaiseMixed, SkipSettled, EndPass, Answer, vars, call, pass
<1>2. TypeOK' /\ Supported' /\ Ordered' /\ Queued' = Queued
  <2>1. TypeOK' /\ Supported'
    BY <1>1, StepTypes, SameWorldFacts DEF Inv, Next, Step
  <2>2. Queued' = Queued
    BY <1>1 DEF Queued
  <2> QED
    BY <1>1, <2>1, <2>2, SameWorldFacts DEF Inv, Ordered, Before
<1>3. /\ \A s : Resolve(s, rows)' = Resolve(s, rows)
      /\ \A s : Deferred(s)' <=> Deferred(s)
  BY <1>1, SameWorldRow DEF Deferred
<1>4. RowsAreCurrent'
  BY <1>1, <1>3 DEF Inv, RowsAreCurrent
<1>5. CASE Refuse
  BY <1>1, <1>2, <1>4, <1>5 DEF Refuse, Inv, Fresh, Swept, Tried, Running, Waiting, pass
<1>6. CASE AttemptMixed
  <2> DEFINE q == queue[at]
  <2>1. /\ q \in pending /\ phase = "passes" /\ phase' = "raised" /\ at' = at
        /\ at \in DOMAIN queue /\ at \in Nat /\ q \in Id
    BY <1>1, <1>6, AttemptTypes DEF AttemptMixed, RaiseMixed, InPass, pass
  <2>2. /\ attempts'[q] > 0
        /\ \A r \in Id : attempts[r] > 0 => attempts'[r] > 0
        /\ \A r \in Id \ {q} : attempts'[r] = attempts[r]
    BY <1>1, <1>6, <2>1, CountTypes DEF AttemptMixed, RaiseMixed
  <2>3. \A i \in DOMAIN queue : queue[i] \in Id /\ i \in Nat
    BY <1>1 DEF TypeOK
  <2>4. \A i, j \in DOMAIN queue : i < j /\ attempts'[queue[j]] > 0 => attempts'[queue[i]] > 0
    <3> SUFFICES ASSUME NEW i \in DOMAIN queue, NEW j \in DOMAIN queue, i < j, attempts'[queue[j]] > 0
                 PROVE  attempts'[queue[i]] > 0
      OBVIOUS
    <3>1. CASE j = at
      BY <2>1, <2>2, <2>3, <3>1 DEF Inv, Swept
    <3>2. CASE j # at
      <4>1. queue[j] # q
        BY <2>1, <3>2 DEF Inv, Ordered
      <4>2. attempts[queue[j]] > 0
        BY <2>2, <2>3, <4>1
      <4> QED
        BY <2>2, <2>3, <4>2 DEF Inv, Swept
    <3> QED
      BY <3>1, <3>2
  <2>5. \A s \in DOMAIN rows : attempts'[s] > 0
    BY <1>1, <2>2 DEF Inv, Swept, TypeOK
  <2>6. Swept'
    BY <1>1, <1>2, <2>1, <2>4, <2>5 DEF Inv, Swept
  <2> QED
    BY <1>2, <1>4, <2>1, <2>6 DEF Inv, Fresh, Tried, Running, Waiting
<1>7. CASE SkipSettled
  <2>1. /\ phase = "passes" /\ phase' = "passes" /\ at' = at + 1 /\ attempts' = attempts
        /\ progress' = progress /\ queue[at] \notin pending /\ at \in DOMAIN queue /\ at \in Nat
    BY <1>1, <1>7 DEF SkipSettled, InPass, TypeOK
  <2>2. \A i \in DOMAIN queue : i \in Nat /\ queue[i] \in Queued
    BY <1>1 DEF TypeOK, Queued
  <2>3. \A i \in DOMAIN queue : i < at + 1 => attempts[queue[i]] > 0
    <3>1. attempts[queue[at]] > 0
      BY <2>1, <2>2 DEF Inv, Swept
    <3> QED
      BY <2>1, <2>2, <3>1 DEF Inv, Swept
  <2>4. Swept'
    BY <1>1, <1>2, <2>1, <2>3 DEF Inv, Swept
  <2>5. Waiting'
    BY <1>1, <1>3, <2>1, <2>2 DEF Inv, Waiting
  <2> QED
    BY <1>1, <1>2, <1>4, <2>1, <2>4, <2>5 DEF Inv, Fresh, Tried, Running
<1>8. CASE EndPass
  <2>1. /\ phase = "passes" /\ at > Len(queue) /\ at' = 1 /\ progress' = FALSE /\ attempts' = attempts
        /\ phase' \in {"answer", "finalise", "passes"}
        /\ phase' = "finalise" => ~ progress
    BY <1>8 DEF EndPass, Stalled
  <2>2. \A i \in DOMAIN queue : i \in Nat /\ i < at /\ ~ (i < 1)
    BY <1>1, <2>1 DEF TypeOK
  <2>3. Swept'
    BY <1>1, <1>2, <2>1, <2>2 DEF Inv, Swept
  <2>4. phase' = "finalise" => \A s \in pending : Deferred(s)
    BY <1>1, <2>1, <2>2 DEF Inv, Waiting, Swept, Queued
  <2>5. Waiting'
    BY <1>1, <1>3, <2>1, <2>2, <2>4 DEF Inv, Waiting
  <2> QED
    BY <1>1, <1>2, <1>4, <2>1, <2>3, <2>5 DEF Inv, Fresh, Tried, Running
<1>9. CASE Answer
  BY <1>1, <1>2, <1>4, <1>9 DEF Answer, Inv, Fresh, Swept, Tried, Running, Waiting, pass
<1>10. CASE UNCHANGED vars
  <2>1. phase' = phase /\ at' = at /\ progress' = progress /\ attempts' = attempts
    BY <1>10 DEF vars, pass
  <2> QED
    BY <1>1, <1>2, <1>3, <1>4, <2>1 DEF Inv, Fresh, Swept, Tried, Running, Waiting
<1> QED
  BY <1>5, <1>6, <1>7, <1>8, <1>9, <1>10

LEMMA StepInv == Inv /\ [Next]_vars => Inv'
BY BeginKeeps, AttemptKeeps, FinaliseKeeps, OthersKeep DEF Next, Step, Finished

(* Whatever the order of the passes and of the finalisation, and whether   *)
(* or not mirrors are declared, no row is computed from too little.        *)
THEOREM RowsAreCurrentHolds == Spec => []RowsAreCurrent
<1>1. Inv => RowsAreCurrent
  BY DEF Inv
<1> QED
  BY <1>1, InitInv, StepInv, PTL DEF Spec

-----------------------------------------------------------------------------
(* The reply                                                               *)
-----------------------------------------------------------------------------
ReplyInv == phase = "done" => reply = [ k \in DOMAIN request |-> Reply(request[k]) ]

LEMMA ReplyStep == ReplyInv /\ [Next]_vars => ReplyInv'
<1> SUFFICES ASSUME ReplyInv, [Next]_vars, phase' = "done" PROVE ReplyInv'
  BY DEF ReplyInv
<1>1. /\ UNCHANGED << call, rows >>
      /\ reply' = [ k \in DOMAIN request |-> Reply(request[k]) ]
  <2>1. CASE Answer
    BY <2>1 DEF Answer
  <2>2. CASE UNCHANGED vars
    BY <2>2 DEF vars, ReplyInv
  <2> QED
    BY <2>1, <2>2 DEF Next, Step, Finished, Begin, Refuse, Attempt, InPass, AttemptMixed,
       RaiseMixed, SkipSettled, EndPass, Finalise
<1>3. request' = request /\ world' = world /\ rows' = rows
  BY <1>1 DEF call
<1>2. \A k \in DOMAIN request : Reply(request[k])' = Reply(request[k])
  <2>1. \A n : Available(n)' = Available(n)
    BY <1>3 DEF Available, Hits, Candidates
  <2>2. \A n : Askers(n)' = Askers(n)
    BY <1>3, <2>1 DEF Askers
  <2>3. \A n : Published(n)' = Published(n)
    BY <1>3, <2>2 DEF Published
  <2> QED
    BY <1>3, <2>1, <2>3 DEF Reply
<1> QED
  BY <1>1, <1>2, <1>3 DEF ReplyInv

LEMMA PublishedAlone ==
  ASSUME DistinctSurfaces, NEW k \in DOMAIN request
  PROVE  Published(Available(request[k])) = request[k]
<1>1. Askers(Available(request[k])) = {k}
  BY DEF Askers, DistinctSurfaces
<1>2. (CHOOSE j \in {k} : \A h \in {k} : h <= j) = k
  OBVIOUS
<1> QED
  BY <1>1, <1>2 DEF Published

LEMMA ReplyAnswers == TypeOK /\ ReplyInv => RequestAnswered
<1> SUFFICES ASSUME TypeOK, ReplyInv, phase = "done" PROVE RequestAnswered
  BY DEF RequestAnswered
<1>1. request \in Seq(Id) /\ DOMAIN request = 1 .. Len(request) /\ Len(request) \in Nat
  BY DEF TypeOK
<1>2. reply = [ k \in DOMAIN request |-> Reply(request[k]) ]
  BY DEF ReplyInv
<1>3. Len(reply) = Len(request)
  BY <1>1, <1>2
<1>4. ASSUME NEW k \in DOMAIN request
      PROVE  /\ reply[k].row = rows[Available(request[k])]
             /\ DistinctSurfaces => reply[k].id = request[k]
  <2>1. reply[k] = Reply(request[k])
    BY <1>2
  <2> QED
    BY <2>1, PublishedAlone DEF Reply
<1> QED
  BY <1>3, <1>4 DEF RequestAnswered

-----------------------------------------------------------------------------
(* The number of attempts                                                  *)
(*                                                                         *)
(* A pass that settles nothing is the last one, so there are no more       *)
(* passes than settled rows and one.  When mirrors are declared, whatever  *)
(* the first pass has deferred stays deferred: what it reads stands before *)
(* it in the queue and has been attempted.                                 *)
-----------------------------------------------------------------------------

Settled == Cardinality(DOMAIN rows)

Bit(b) == IF b THEN 1 ELSE 0
PassBound(i) == Settled + Bit(i < at) - Bit(progress)

AttemptsInv ==
  /\ \A s \in Id \ Queued : attempts[s] = 0
  /\ phase = "passes" => \A i \in DOMAIN queue : attempts[queue[i]] <= PassBound(i)
  /\ phase = "finalise" => \A s \in pending : attempts[s] <= Len(queue) + 1
  /\ \A s \in Id : attempts[s] <= Len(queue) + 2

LEMMA BitValues == Bit(TRUE) = 1 /\ Bit(FALSE) = 0 /\ \A b \in BOOLEAN : Bit(b) \in {0, 1}
BY DEF Bit

LEMMA SettledBound ==
  Inv => /\ IsFiniteSet(DOMAIN rows) /\ Settled \in Nat /\ Settled <= Len(queue)
         /\ Len(queue) \in Nat
<1> SUFFICES ASSUME Inv
             PROVE  /\ IsFiniteSet(DOMAIN rows) /\ Settled \in Nat /\ Settled <= Len(queue)
                    /\ Len(queue) \in Nat
  OBVIOUS
<1>1. Len(queue) \in Nat /\ DOMAIN queue = 1 .. Len(queue) /\ DOMAIN rows \subseteq Queued
  BY DEF Inv, TypeOK, Queued
<1>2. IsFiniteSet(1 .. Len(queue)) /\ Cardinality(1 .. Len(queue)) = Len(queue)
  <2>1. /\ IsFiniteSet(1 .. Len(queue))
        /\ Cardinality(1 .. Len(queue)) = IF 1 > Len(queue) THEN 0 ELSE Len(queue) - 1 + 1
    BY <1>1, FS_Interval
  <2> QED
    BY <1>1, <2>1
<1>3. queue \in Surjection(1 .. Len(queue), Queued)
  <2>1. queue \in [1 .. Len(queue) -> Queued]
    BY <1>1 DEF Inv, TypeOK, Queued
  <2> QED
    BY <1>1, <2>1 DEF Surjection, Queued
<1>4. IsFiniteSet(Queued) /\ Cardinality(Queued) <= Len(queue)
  BY <1>2, <1>3, FS_Surjection
<1>5. /\ IsFiniteSet(DOMAIN rows) /\ Cardinality(DOMAIN rows) \in Nat
      /\ Cardinality(DOMAIN rows) <= Cardinality(Queued) /\ Cardinality(Queued) \in Nat
  BY <1>1, <1>4, FS_Subset, FS_CardinalityType
<1> QED
  BY <1>1, <1>4, <1>5 DEF Settled

(* An attempt adds one to its surface.                                     *)
LEMMA CountAdds ==
  ASSUME TypeOK, AttemptsInv, NEW s \in Id, Count(s)
  PROVE  /\ attempts'[s] = attempts[s] + 1
         /\ \A r \in Id \ {s} : attempts'[r] = attempts[r]
         /\ \A r \in Id : attempts[r] \in Nat
<1>1. attempts[s] < AttemptBound
  <2>1. attempts[s] <= Len(queue) + 2 /\ attempts[s] \in Nat /\ Len(queue) \in Nat
    BY DEF AttemptsInv, TypeOK
  <2> QED
    BY <2>1 DEF AttemptBound
<1> QED
  BY <1>1 DEF TypeOK, Count

LEMMA AttemptsAttempt == ASSUME Inv, AttemptsInv, Attempt, Inv' PROVE AttemptsInv'
<1> DEFINE q == queue[at]
<1>1. /\ q \in pending /\ phase = "passes" /\ phase' = "passes" /\ TypeOK
      /\ at \in DOMAIN queue /\ at \in Nat /\ q \in Id /\ at' = at + 1 /\ queue' = queue
      /\ Queued' = Queued /\ q \in Queued
  BY AttemptTypes DEF Attempt, Inv, InPass, Queued
<1>2. /\ attempts'[q] = attempts[q] + 1
      /\ \A r \in Id \ {q} : attempts'[r] = attempts[r]
      /\ \A r \in Id : attempts[r] \in Nat
  BY <1>1, CountAdds DEF Attempt
<1>3. /\ Settled \in Nat /\ Settled' \in Nat /\ Len(queue) \in Nat /\ Settled <= Len(queue)
      /\ Settled' <= Len(queue) /\ IsFiniteSet(DOMAIN rows)
      /\ progress \in BOOLEAN
  <2>1. Settled \in Nat /\ Len(queue) \in Nat /\ Settled <= Len(queue) /\ IsFiniteSet(DOMAIN rows)
    BY SettledBound
  <2>2. (Settled \in Nat)' /\ (Settled <= Len(queue))'
    BY SettledBound, PTL
  <2> QED
    BY <1>1, <2>1, <2>2 DEF TypeOK
<1>4. \/ progress' = progress /\ Settled' = Settled
      \/ progress' = TRUE /\ Settled' = Settled + 1
  <2>1. CASE UNCHANGED << rows, pending, progress >>
    BY <2>1 DEF Settled
  <2>2. CASE Settle(q, Resolve(q, rows)) /\ progress' = TRUE
    <3>1. DOMAIN rows' = DOMAIN rows \cup {q}
      BY <2>2 DEF Settle
    <3>2. q \notin DOMAIN rows
      BY <1>1 DEF Inv, Swept
    <3>3. Cardinality(DOMAIN rows \cup {q}) = Cardinality(DOMAIN rows) + 1
      BY <1>3, <3>2, FS_AddElement
    <3> QED
      BY <2>2, <3>1, <3>3 DEF Settled
  <2> QED
    BY <2>1, <2>2 DEF Attempt
<1>5. \A i \in DOMAIN queue : i \in Nat /\ queue[i] \in Id /\ (i # at => queue[i] # q)
  BY <1>1 DEF Inv, TypeOK, Ordered
<1>6. /\ Bit(progress) \in {0, 1} /\ Bit(progress') \in {0, 1}
      /\ progress' = progress => Bit(progress') = Bit(progress)
      /\ progress' = TRUE => Bit(progress') = 1
  BY <1>3, <1>4, BitValues
<1>9. ASSUME NEW i \in DOMAIN queue
      PROVE  attempts'[queue[i]] <= PassBound(i)'
  <2>1. attempts[queue[i]] <= PassBound(i) /\ attempts[queue[i]] \in Nat
    BY <1>1, <1>2, <1>5 DEF AttemptsInv
  <2>2. PassBound(i)' = Settled' + Bit(i < at + 1) - Bit(progress')
    BY <1>1 DEF PassBound, Bit
  <2>3. CASE i = at
    <3>1. Bit(i < at) = 0 /\ Bit(i < at + 1) = 1
      BY <1>1, <2>3 DEF Bit
    <3>2. attempts'[queue[i]] = attempts[queue[i]] + 1
      BY <1>2, <2>3
    <3> QED
      BY <1>3, <1>4, <1>6, <2>1, <2>2, <3>1, <3>2 DEF PassBound
  <2>4. CASE i # at
    <3>1. Bit(i < at) = Bit(i < at + 1) /\ Bit(i < at) \in {0, 1}
      BY <1>1, <1>5, <2>4 DEF Bit
    <3>2. attempts'[queue[i]] = attempts[queue[i]]
      BY <1>2, <1>5, <2>4
    <3> QED
      BY <1>3, <1>4, <1>6, <2>1, <2>2, <3>1, <3>2 DEF PassBound
  <2> QED
    BY <2>3, <2>4
<1>7. \A s \in Id \ Queued : attempts'[s] = 0
  BY <1>1, <1>2 DEF AttemptsInv
<1>8. \A s \in Id : attempts'[s] <= Len(queue) + 2
  <2> SUFFICES ASSUME NEW s \in Id PROVE attempts'[s] <= Len(queue) + 2
    OBVIOUS
  <2>1. CASE s = q
    <3>1. attempts[q] <= PassBound(at)
      BY <1>1 DEF AttemptsInv
    <3>2. PassBound(at) <= Settled
      BY <1>1, <1>3, <1>6 DEF PassBound, Bit
    <3>3. PassBound(at) \in Int
      BY <1>1, <1>3, <1>6 DEF PassBound, Bit
    <3> QED
      BY <1>1, <1>2, <1>3, <2>1, <3>1, <3>2, <3>3
  <2>2. CASE s # q
    BY <1>2, <2>2 DEF AttemptsInv
  <2> QED
    BY <2>1, <2>2
<1> QED
  BY <1>1, <1>7, <1>8, <1>9 DEF AttemptsInv

LEMMA AttemptsBegin == ASSUME Inv, AttemptsInv, Begin, Inv' PROVE AttemptsInv'
<1>1. /\ phase = "asked" /\ phase' = "passes" /\ at' = at /\ rows' = rows
      /\ progress' = progress /\ attempts' = attempts /\ TypeOK
  BY DEF Begin, pass, Inv
<1>2. \A s \in Id : attempts[s] = 0
  BY <1>1 DEF Inv, Fresh
<1>3. \A i \in DOMAIN queue' : queue'[i] \in Id
  BY DEF Inv, TypeOK
<1>4. at = 1 /\ Settled' \in Nat /\ Len(queue') \in Nat
  <2>1. (Settled \in Nat /\ Len(queue) \in Nat)'
    BY SettledBound, PTL
  <2> QED
    BY <1>1, <2>1, NothingQueued
<1>5. progress = FALSE
  BY <1>1 DEF Inv, Fresh, TypeOK
<1>6. \A i \in DOMAIN queue' : PassBound(i)' \in Nat
  <2>1. \A i \in DOMAIN queue' : PassBound(i)' = Settled' + Bit(i < at') - Bit(progress')
    BY DEF PassBound, Bit
  <2>2. Bit(progress') = 0 /\ \A i : Bit(i < at') \in {0, 1}
    BY <1>1, <1>5 DEF Bit
  <2> QED
    BY <1>4, <2>1, <2>2
<1> QED
  BY <1>1, <1>2, <1>3, <1>4, <1>6 DEF AttemptsInv

LEMMA AttemptsFinalise ==
  ASSUME Inv, AttemptsInv, NEW q \in pending, Finalise(q), Inv'
  PROVE  AttemptsInv'
<1>1. /\ phase = "finalise" /\ phase' \in {"answer", "finalise"} /\ TypeOK /\ q \in Id
      /\ queue' = queue /\ Queued' = Queued /\ q \in Queued /\ pending' = pending \ {q}
      /\ pending \subseteq Id
  <2>1. /\ phase = "finalise" /\ phase' \in {"answer", "finalise"}
        /\ queue' = queue /\ pending' = pending \ {q}
    BY DEF Finalise, Settle
  <2>2. TypeOK /\ pending \subseteq Queued
    BY DEF Inv, Swept
  <2>3. Queued \subseteq Id
    BY <2>2 DEF TypeOK, Queued
  <2> QED
    BY <2>1, <2>2, <2>3 DEF Queued
<1>2. /\ attempts'[q] = attempts[q] + 1
      /\ \A r \in Id \ {q} : attempts'[r] = attempts[r]
      /\ \A r \in Id : attempts[r] \in Nat
  BY <1>1, CountAdds DEF Finalise
<1>3. Len(queue) \in Nat
  BY SettledBound
<1> QED
  BY <1>1, <1>2, <1>3 DEF AttemptsInv

LEMMA AttemptsOthers ==
  ASSUME Inv, AttemptsInv,
         \/ Refuse \/ AttemptMixed \/ SkipSettled \/ EndPass \/ Answer \/ UNCHANGED vars
  PROVE  AttemptsInv'
<1>1. /\ TypeOK /\ queue' = queue /\ rows' = rows /\ pending' = pending /\ Queued' = Queued
      /\ Settled' = Settled
  BY DEF Inv, Refuse, AttemptMixed, RaiseMixed, SkipSettled, EndPass, Answer, vars, call, pass,
         Queued, Settled
<1>2. /\ Settled \in Nat /\ Settled <= Len(queue) /\ Len(queue) \in Nat
      /\ \A i \in DOMAIN queue : i \in 1 .. Len(queue) /\ queue[i] \in Id
      /\ \A r \in Id : attempts[r] \in Nat
      /\ at \in Nat
  BY <1>1, SettledBound DEF TypeOK
<1>3. CASE Refuse \/ Answer
  BY <1>1, <1>3 DEF Refuse, Answer, AttemptsInv
<1>4. CASE AttemptMixed
  <2> DEFINE q == queue[at]
  <2>1. /\ phase = "passes" /\ phase' = "raised" /\ at \in DOMAIN queue /\ q \in Id /\ q \in Queued
    BY <1>1, <1>4, AttemptTypes DEF AttemptMixed, RaiseMixed, InPass, Queued
  <2>2. /\ attempts'[q] = attempts[q] + 1
        /\ \A r \in Id \ {q} : attempts'[r] = attempts[r]
    BY <1>1, <1>4, <2>1, CountAdds DEF AttemptMixed, RaiseMixed
  <2>3. attempts[q] <= PassBound(at) /\ PassBound(at) \in Int /\ PassBound(at) <= Settled + 1
    BY <1>1, <1>2, <2>1 DEF AttemptsInv, PassBound, Bit
  <2>4. attempts'[q] <= Len(queue) + 2
    BY <1>2, <2>1, <2>2, <2>3
  <2> QED
    BY <1>1, <1>2, <2>1, <2>2, <2>4 DEF AttemptsInv
<1>5. CASE SkipSettled
  <2>1. /\ phase = "passes" /\ phase' = "passes" /\ attempts' = attempts
        /\ at' = at + 1 /\ progress' = progress
    BY <1>5 DEF SkipSettled, InPass
  <2>2. ASSUME NEW i \in DOMAIN queue
        PROVE  attempts[queue[i]] <= PassBound(i)'
    <3>1. PassBound(i)' = Settled + Bit(i < at + 1) - Bit(progress)
      BY <1>1, <2>1 DEF PassBound, Bit
    <3>2. attempts[queue[i]] <= PassBound(i) /\ attempts[queue[i]] \in Nat
      BY <1>2, <2>1 DEF AttemptsInv
    <3>3. /\ Bit(i < at) \in {0, 1} /\ Bit(i < at + 1) \in {0, 1} /\ Bit(progress) \in {0, 1}
          /\ Bit(i < at) <= Bit(i < at + 1)
      BY <1>2 DEF Bit
    <3> QED
      BY <1>2, <3>1, <3>2, <3>3 DEF PassBound
  <2> QED
    BY <1>1, <2>1, <2>2 DEF AttemptsInv
<1>6. CASE EndPass
  <2>1. /\ phase = "passes" /\ at > Len(queue) /\ at' = 1 /\ progress' = FALSE
        /\ phase' \in {"answer", "finalise", "passes"} /\ attempts' = attempts
        /\ phase' = "passes" => progress = TRUE
    BY <1>1, <1>6 DEF EndPass, Stalled, TypeOK
  <2>2. ASSUME NEW i \in DOMAIN queue
        PROVE  /\ attempts[queue[i]] <= Settled + 1
               /\ progress = TRUE => attempts[queue[i]] <= PassBound(i)'
    <3>2. attempts[queue[i]] <= PassBound(i) /\ attempts[queue[i]] \in Nat
      BY <1>2, <2>1 DEF AttemptsInv
    <3>3. Bit(i < at) = 1 /\ Bit(TRUE) = 1 /\ Bit(progress) \in {0, 1}
      BY <1>2, <2>1 DEF Bit
    <3>4. progress = TRUE => Bit(progress) = 1
      BY <3>3
    <3>5. attempts[queue[i]] <= Settled + 1 - Bit(progress)
      BY <3>2, <3>3 DEF PassBound
    <3>6. PassBound(i)' = Settled
      <4>1. PassBound(i)' = Settled' + Bit(i < at') - Bit(progress')
        BY DEF PassBound, Bit
      <4>2. Bit(i < at') = 0 /\ Bit(progress') = 0
        BY <1>2, <2>1 DEF Bit
      <4> QED
        BY <1>1, <1>2, <4>1, <4>2
    <3> QED
      BY <1>2, <3>2, <3>3, <3>4, <3>5, <3>6
  <2>3. \A s \in pending : attempts[s] <= Len(queue) + 1
    <3> SUFFICES ASSUME NEW s \in pending PROVE attempts[s] <= Len(queue) + 1
      OBVIOUS
    <3>1. PICK i \in DOMAIN queue : s = queue[i]
      BY <1>1 DEF TypeOK
    <3>2. attempts[s] <= Settled + 1 /\ attempts[s] \in Nat
      BY <1>2, <2>2, <3>1
    <3> QED
      BY <1>2, <3>2
  <2> QED
    BY <1>1, <2>1, <2>2, <2>3 DEF AttemptsInv
<1>7. CASE UNCHANGED vars
  <2>1. phase' = phase /\ at' = at /\ progress' = progress /\ attempts' = attempts
    BY <1>7 DEF vars, pass
  <2>2. \A i : PassBound(i)' = PassBound(i)
    BY <1>1, <2>1 DEF PassBound, Bit
  <2> QED
    BY <1>1, <2>1, <2>2 DEF AttemptsInv
<1> QED
  BY <1>3, <1>4, <1>5, <1>6, <1>7

LEMMA AttemptsInit == Init => AttemptsInv
<1> SUFFICES ASSUME Init PROVE AttemptsInv
  OBVIOUS
<1>1. phase = "asked" /\ \A s \in Id : attempts[s] = 0
  BY DEF Init
<1>2. Len(queue) = 0
  BY DEF Init
<1> QED
  BY <1>1, <1>2 DEF AttemptsInv

LEMMA AttemptsStep == ASSUME Inv, AttemptsInv, [Next]_vars, Inv' PROVE AttemptsInv'
BY AttemptsBegin, AttemptsAttempt, AttemptsFinalise, AttemptsOthers DEF Next, Step, Finished

LEMMA InvAlways == Spec => [](Inv /\ AttemptsInv /\ ReplyInv)
<1>1. Init => ReplyInv
  BY DEF Init, ReplyInv
<1>2. Inv /\ AttemptsInv /\ [Next]_vars /\ Inv' => AttemptsInv'
  BY AttemptsStep
<1> QED
  BY <1>1, <1>2, InitInv, StepInv, AttemptsInit, ReplyStep, PTL DEF Spec

-----------------------------------------------------------------------------
(* When mirrors are declared                                               *)
-----------------------------------------------------------------------------
FirstPass == \A i \in DOMAIN queue : attempts[queue[i]] <= Bit(i < at)

SecondPass ==
  /\ ~ progress
  /\ \A i \in DOMAIN queue :
       attempts[queue[i]] > 0 /\ attempts[queue[i]] <= 1 + Bit(i < at)

FewInv ==
  MirrorsDeclared =>
    /\ phase = "passes" =>
         /\ \A s \in pending : attempts[s] > 0 => Deferred(s)
         /\ FirstPass \/ SecondPass
    /\ phase = "finalise" => \A s \in pending : attempts[s] <= 2
    /\ \A i \in DOMAIN queue : attempts[queue[i]] <= 3

LEMMA SameMirrors ==
  ASSUME world' = world
  PROVE  MirrorsDeclared' <=> MirrorsDeclared
BY SameWorldFacts DEF MirrorsDeclared

(* A row that a surface reads is found before it in the queue.             *)
LEMMA ReadBefore ==
  ASSUME Inv, MirrorsDeclared, NEW s \in Queued,
         NEW r \in (world.mirrors[s] \cup world.uses[s]) \cap Queued
  PROVE  r # s /\ Declared(r, s) /\ Before(queue, r, s)
<1>1. s \in Id /\ r \in world.available
  BY DEF Inv, TypeOK, Ordered, Queued
<1>2. r # s /\ Declared(r, s)
  BY <1>1 DEF MirrorsDeclared, Inv, Supported, UsesDeclared
<1> QED
  BY <1>2 DEF Inv, Ordered

(* A row that is not read by a surface leaves it as it is.                 *)
LEMMA UnreadRow ==
  ASSUME Inv, NEW q \in pending, NEW s \in Id,
         q \notin world.mirrors[s], q \notin world.uses[s]
  PROVE  Resolve(s, Wider(rows, q, Resolve(q, rows))) = Resolve(s, rows)
<1> DEFINE wide == Wider(rows, q, Resolve(q, rows))
<1>1. /\ q \in world.available /\ q \notin DOMAIN rows /\ q \in Id
      /\ DOMAIN rows \subseteq world.available
  BY DEF Inv, Swept, Ordered, TypeOK, Queued
<1>2. Founded(rows) /\ Founded(wide) /\ UnlocksAgree
  BY <1>1, RowsFounded, WiderFounded DEF Inv, Supported
<1>3. /\ DOMAIN wide = DOMAIN rows \cup {q}
      /\ \A r \in DOMAIN rows : wide[r] = rows[r]
  BY <1>1 DEF Wider
<1> HIDE DEF wide
<1>4. \A r : r # q => /\ HasValue(r, rows) <=> HasValue(r, wide)
                      /\ HasValue(r, rows) => wide[r] = rows[r]
  BY <1>3 DEF HasValue
<1>5. DOMAIN wide \subseteq world.available
  BY <1>1, <1>3
<1>6. Resolve(s, wide) = Resolve(s, rows)
  BY <1>1, <1>2, <1>4, <1>5, SameReads
<1> QED
  BY <1>6 DEF wide

(* In either of the two passes nothing has been attempted three times.     *)
LEMMA FewBound ==
  ASSUME TypeOK, FirstPass \/ SecondPass
  PROVE  \A i \in DOMAIN queue : attempts[queue[i]] <= 2
<1> SUFFICES ASSUME NEW i \in DOMAIN queue PROVE attempts[queue[i]] <= 2
  OBVIOUS
<1>1. attempts[queue[i]] \in Nat
  BY DEF TypeOK
<1>2. Bit(i < at) \in {0, 1}
  BY DEF Bit
<1> QED
  BY <1>1, <1>2 DEF FirstPass, SecondPass

LEMMA FewAttempt == ASSUME Inv, AttemptsInv, FewInv, Attempt, Inv', MirrorsDeclared PROVE FewInv'
<1> DEFINE q == queue[at]
           row == Resolve(q, rows)
<1>1. /\ q \in pending /\ phase = "passes" /\ phase' = "passes" /\ TypeOK /\ world' = world
      /\ at \in DOMAIN queue /\ at \in Nat /\ q \in Id /\ at' = at + 1 /\ queue' = queue
      /\ Queued' = Queued /\ q \in Queued
  BY AttemptTypes DEF Attempt, Inv, InPass, Queued, call
<1>2. /\ attempts'[q] = attempts[q] + 1
      /\ \A r \in Id \ {q} : attempts'[r] = attempts[r]
      /\ \A r \in Id : attempts[r] \in Nat
  BY <1>1, CountAdds DEF Attempt
<1>3. \A i \in DOMAIN queue : /\ i \in Nat /\ queue[i] \in Id /\ queue[i] \in Queued
                              /\ i # at => queue[i] # q
  BY <1>1 DEF Inv, TypeOK, Ordered, Queued
<1>4. /\ \A s \in pending : attempts[s] > 0 => Deferred(s)
      /\ FirstPass \/ SecondPass
      /\ pending \subseteq Queued /\ pending \subseteq Id
  BY <1>1 DEF FewInv, Inv, Swept, TypeOK
<1>5. \A i \in DOMAIN queue : /\ i < at => Bit(i < at) = 1 /\ Bit(i < at + 1) = 1
                              /\ i = at => Bit(i < at) = 0 /\ Bit(i < at + 1) = 1
                              /\ i > at => Bit(i < at) = 0 /\ Bit(i < at + 1) = 0
  BY <1>1, <1>3 DEF Bit
<1>6. FirstPass => FirstPass'
  <2> SUFFICES ASSUME FirstPass, NEW i \in DOMAIN queue
               PROVE  attempts'[queue[i]] <= Bit(i < at + 1)
    BY <1>1 DEF FirstPass, Bit
  <2>1. attempts[queue[i]] <= Bit(i < at) /\ attempts[queue[i]] \in Nat
    BY <1>2, <1>3 DEF FirstPass
  <2> QED
    BY <1>1, <1>2, <1>3, <1>5, <2>1
<1>7. SecondPass /\ progress' = progress => SecondPass'
  <2> SUFFICES ASSUME SecondPass, NEW i \in DOMAIN queue
               PROVE  attempts'[queue[i]] > 0 /\ attempts'[queue[i]] <= 1 + Bit(i < at + 1)
    BY <1>1 DEF SecondPass, Bit
  <2>1. /\ attempts[queue[i]] <= 1 + Bit(i < at) /\ attempts[queue[i]] \in Nat
        /\ attempts[queue[i]] > 0
    BY <1>2, <1>3 DEF SecondPass
  <2> QED
    BY <1>1, <1>2, <1>3, <1>5, <2>1
<1>8. CASE Deferred(q)
  <2>1. rows' = rows /\ pending' = pending /\ progress' = progress
    BY <1>8 DEF Attempt, Deferred
  <2>2. \A s : Deferred(s)' <=> Deferred(s)
    BY <1>1, <2>1, SameWorldRow DEF Deferred
  <2>3. \A s \in pending' : attempts'[s] > 0 => Deferred(s)'
    BY <1>2, <1>4, <1>8, <2>1, <2>2
  <2>4. FirstPass' \/ SecondPass'
    BY <1>4, <1>6, <1>7, <2>1
  <2>5. \A i \in DOMAIN queue : attempts'[queue[i]] <= 3
    BY <1>1, <1>2, <1>3, <1>4, FewBound
  <2> QED
    BY <1>1, <2>3, <2>4, <2>5 DEF FewInv
<1>9. CASE ~ Deferred(q)
  <2>1. rows' = Wider(rows, q, row) /\ pending' = pending \ {q} /\ progress' = TRUE
    BY <1>9 DEF Attempt, Settle, Deferred, Wider
  <2>2. attempts[q] = 0
    BY <1>1, <1>2, <1>4, <1>9
  <2>3. FirstPass
    BY <1>1, <1>4, <2>2 DEF SecondPass
  <2>4. ASSUME NEW s \in pending', attempts'[s] > 0
        PROVE  Deferred(s)'
    <3>1. s \in pending /\ s # q /\ s \in Queued /\ s \in Id /\ attempts[s] > 0
      BY <1>2, <1>4, <2>1, <2>4
    <3>2. PICK k \in DOMAIN queue : queue[k] = s
      BY <3>1 DEF Queued
    <3>3. k < at
      BY <1>1, <1>2, <1>3, <1>5, <2>3, <3>1, <3>2 DEF FirstPass
    <3>4. q \notin world.mirrors[s] \cup world.uses[s]
      <4> SUFFICES ASSUME q \in world.mirrors[s] \cup world.uses[s] PROVE FALSE
        OBVIOUS
      <4>1. PICK i, j \in DOMAIN queue : i < j /\ queue[i] = q /\ queue[j] = s
        BY <1>1, <3>1, ReadBefore DEF Before
      <4>2. i = at /\ j = k
        BY <1>1, <3>2, <4>1 DEF Inv, Ordered
      <4> QED
        BY <1>1, <1>3, <3>3, <4>1, <4>2
    <3>5. Resolve(s, rows') = Resolve(s, rows)
      BY <1>1, <2>1, <3>1, <3>4, UnreadRow
    <3>6. Deferred(s)
      BY <1>4, <3>1
    <3> QED
      BY <1>1, <3>5, <3>6, SameWorldRow DEF Deferred
  <2>5. \A i \in DOMAIN queue : attempts'[queue[i]] <= 3
    BY <1>1, <1>2, <1>3, <1>4, FewBound
  <2> QED
    BY <1>1, <1>6, <2>3, <2>4, <2>5 DEF FewInv
<1> QED
  BY <1>8, <1>9

LEMMA FewBegin == ASSUME Inv, Begin, Inv', MirrorsDeclared PROVE FewInv'
<1>1. phase = "asked" /\ phase' = "passes" /\ attempts' = attempts
  BY DEF Begin
<1>2. \A s \in Id : attempts[s] = 0
  BY <1>1 DEF Inv, Fresh
<1>3. /\ \A i \in DOMAIN queue' : queue'[i] \in Id
      /\ pending' \subseteq Id
  BY DEF Inv, TypeOK
<1>4. \A i : Bit(i < at') \in {0, 1}
  BY DEF Bit
<1>5. FirstPass'
  <2> SUFFICES ASSUME NEW i \in DOMAIN queue' PROVE attempts'[queue'[i]] <= Bit(i < at')
    BY DEF FirstPass, Bit
  <2> QED
    BY <1>1, <1>2, <1>3, <1>4
<1> QED
  BY <1>1, <1>2, <1>3, <1>5 DEF FewInv

LEMMA FewFinalise ==
  ASSUME Inv, AttemptsInv, FewInv, NEW q \in pending, Finalise(q), MirrorsDeclared
  PROVE  FewInv'
<1>1. /\ phase = "finalise" /\ phase' \in {"answer", "finalise"} /\ TypeOK
      /\ queue' = queue /\ pending' = pending \ {q} /\ pending \subseteq Id
      /\ \A i \in DOMAIN queue : queue[i] \in Id
  BY DEF Finalise, Settle, Inv, TypeOK
<1>2. /\ attempts'[q] = attempts[q] + 1
      /\ \A r \in Id \ {q} : attempts'[r] = attempts[r]
      /\ \A r \in Id : attempts[r] \in Nat
  BY <1>1, CountAdds DEF Finalise
<1>3. /\ \A s \in pending : attempts[s] <= 2
      /\ \A i \in DOMAIN queue : attempts[queue[i]] <= 3
  BY <1>1 DEF FewInv
<1>4. attempts'[q] <= 3
  BY <1>1, <1>2, <1>3
<1>5. \A i \in DOMAIN queue : attempts'[queue[i]] <= 3
  BY <1>1, <1>2, <1>3, <1>4
<1>6. \A s \in pending' : attempts'[s] <= 2
  BY <1>1, <1>2, <1>3
<1> QED
  BY <1>1, <1>5, <1>6 DEF FewInv

LEMMA FewOthers ==
  ASSUME Inv, AttemptsInv, FewInv, MirrorsDeclared,
         \/ Refuse \/ AttemptMixed \/ SkipSettled \/ EndPass \/ Answer \/ UNCHANGED vars
  PROVE  FewInv'
<1>1. /\ TypeOK /\ queue' = queue /\ rows' = rows /\ pending' = pending /\ world' = world
  BY DEF Inv, Refuse, AttemptMixed, RaiseMixed, SkipSettled, EndPass, Answer, vars, call, pass
<1>2. /\ \A i \in DOMAIN queue : i \in 1 .. Len(queue) /\ queue[i] \in Id /\ queue[i] \in Queued
      /\ \A r \in Id : attempts[r] \in Nat
      /\ at \in Nat /\ Len(queue) \in Nat /\ pending \subseteq Id
  BY <1>1, SettledBound DEF TypeOK, Queued
<1>3. \A s : Deferred(s)' <=> Deferred(s)
  BY <1>1, SameWorldRow DEF Deferred
<1>4. \A i \in DOMAIN queue : attempts[queue[i]] <= 3
  BY DEF FewInv
<1>5. CASE Refuse \/ Answer
  BY <1>1, <1>4, <1>5 DEF Refuse, Answer, FewInv
<1>6. CASE AttemptMixed
  <2> DEFINE q == queue[at]
  <2>1. /\ phase = "passes" /\ phase' = "raised" /\ at \in DOMAIN queue /\ q \in Id
    BY <1>1, <1>6, AttemptTypes DEF AttemptMixed, RaiseMixed, InPass
  <2>2. /\ attempts'[q] = attempts[q] + 1
        /\ \A r \in Id \ {q} : attempts'[r] = attempts[r]
    BY <1>1, <1>6, <2>1, CountAdds DEF AttemptMixed, RaiseMixed
  <2>3. attempts[q] <= 2
    BY <1>1, <2>1, FewBound DEF FewInv
  <2>4. \A i \in DOMAIN queue : attempts'[queue[i]] <= 3
    BY <1>2, <1>4, <2>1, <2>2, <2>3
  <2> QED
    BY <1>1, <2>1, <2>4 DEF FewInv
<1>7. CASE SkipSettled
  <2>1. /\ phase = "passes" /\ phase' = "passes" /\ attempts' = attempts
        /\ at' = at + 1 /\ progress' = progress
    BY <1>7 DEF SkipSettled, InPass
  <2>2. \A i \in DOMAIN queue : /\ Bit(i < at) \in {0, 1} /\ Bit(i < at + 1) \in {0, 1}
                                /\ Bit(i < at) <= Bit(i < at + 1)
    BY <1>2 DEF Bit
  <2>3. FirstPass => FirstPass'
    <3> SUFFICES ASSUME FirstPass, NEW i \in DOMAIN queue
                 PROVE  attempts[queue[i]] <= Bit(i < at + 1)
      BY <1>1, <2>1 DEF FirstPass, Bit
    <3>1. attempts[queue[i]] <= Bit(i < at) /\ attempts[queue[i]] \in Nat
      BY <1>2 DEF FirstPass
    <3> QED
      BY <2>2, <3>1
  <2>4. SecondPass => SecondPass'
    <3> SUFFICES ASSUME SecondPass, NEW i \in DOMAIN queue
                 PROVE  attempts[queue[i]] > 0 /\ attempts[queue[i]] <= 1 + Bit(i < at + 1)
      BY <1>1, <2>1 DEF SecondPass, Bit
    <3>1. /\ attempts[queue[i]] <= 1 + Bit(i < at) /\ attempts[queue[i]] \in Nat
          /\ attempts[queue[i]] > 0
      BY <1>2 DEF SecondPass
    <3> QED
      BY <2>2, <3>1
  <2> QED
    BY <1>1, <1>3, <1>4, <2>1, <2>3, <2>4 DEF FewInv
<1>8. CASE EndPass
  <2>1. /\ phase = "passes" /\ at > Len(queue) /\ at' = 1 /\ progress' = FALSE
        /\ phase' \in {"answer", "finalise", "passes"} /\ attempts' = attempts
        /\ phase' = "passes" => progress = TRUE
    BY <1>1, <1>8 DEF EndPass, Stalled, TypeOK
  <2>2. \A i \in DOMAIN queue : attempts[queue[i]] <= 2
    BY <1>1, <2>1, FewBound DEF FewInv
  <2>3. \A s \in pending : attempts[s] <= 2
    BY <1>1, <2>2 DEF TypeOK
  <2>4. phase' = "passes" => SecondPass'
    <3> SUFFICES ASSUME phase' = "passes", NEW i \in DOMAIN queue
                 PROVE  attempts[queue[i]] > 0 /\ attempts[queue[i]] <= 1 + Bit(i < 1)
      BY <1>1, <2>1 DEF SecondPass, Bit
    <3>1. FirstPass
      BY <2>1 DEF FewInv, SecondPass
    <3>2. Bit(i < at) = 1 /\ Bit(i < 1) = 0 /\ i < at
      BY <1>2, <2>1 DEF Bit
    <3>3. attempts[queue[i]] <= 1 /\ attempts[queue[i]] \in Nat
      BY <1>2, <3>1, <3>2 DEF FirstPass
    <3>4. attempts[queue[i]] > 0
      BY <2>1, <3>2 DEF Inv, Swept
    <3> QED
      BY <3>2, <3>3, <3>4
  <2> QED
    BY <1>1, <1>3, <1>4, <2>1, <2>3, <2>4 DEF FewInv
<1>9. CASE UNCHANGED vars
  <2>1. phase' = phase /\ at' = at /\ progress' = progress /\ attempts' = attempts
    BY <1>9 DEF vars, pass
  <2>2. (FirstPass' <=> FirstPass) /\ (SecondPass' <=> SecondPass)
    BY <1>1, <2>1 DEF FirstPass, SecondPass, Bit
  <2> QED
    BY <1>1, <1>3, <1>4, <2>1, <2>2 DEF FewInv
<1> QED
  BY <1>5, <1>6, <1>7, <1>8, <1>9

LEMMA FewStep == ASSUME Inv, AttemptsInv, FewInv, [Next]_vars, Inv' PROVE FewInv'
<1>1. world' = world
  BY DEF Next, Step, Finished, Begin, Refuse, Attempt, AttemptMixed, RaiseMixed, SkipSettled,
         EndPass, Finalise, Answer, vars, call
<1>2. CASE MirrorsDeclared
  BY <1>2, FewBegin, FewAttempt, FewFinalise, FewOthers DEF Next, Step, Finished
<1>3. CASE ~ MirrorsDeclared
  BY <1>1, <1>3, SameMirrors DEF FewInv
<1> QED
  BY <1>2, <1>3

LEMMA FewInit == Init => FewInv
<1> SUFFICES ASSUME Init PROVE FewInv
  OBVIOUS
<1>1. phase = "asked" /\ DOMAIN queue = {}
  BY DEF Init
<1> QED
  BY <1>1 DEF FewInv

(* A query attempts no surface more often than there are surfaces and two, *)
(* and none more than three times where mirrors are declared: a pass that  *)
(* could not change anything is not repeated (resolve_surfaces).           *)
THEOREM FewAttemptsHold == Spec => []FewAttempts
<1>1. Inv /\ AttemptsInv /\ FewInv => FewAttempts
  <2> SUFFICES ASSUME Inv, AttemptsInv, FewInv PROVE FewAttempts
    OBVIOUS
  <2>1. \A s \in Id : attempts[s] <= Len(queue) + 2
    BY DEF AttemptsInv
  <2>2. ASSUME MirrorsDeclared, NEW s \in Id
        PROVE  attempts[s] <= 3
    <3>1. CASE s \in Queued
      BY <2>2, <3>1 DEF FewInv, Queued
    <3>2. CASE s \notin Queued
      BY <3>2 DEF AttemptsInv
    <3> QED
      BY <3>1, <3>2
  <2> QED
    BY <2>1, <2>2 DEF FewAttempts
<1>2. Inv /\ AttemptsInv /\ FewInv /\ [Next]_vars /\ Inv' => FewInv'
  BY FewStep
<1> QED
  BY <1>1, <1>2, FewInit, InvAlways, PTL DEF Spec

-----------------------------------------------------------------------------
(* The meaning of a surface                                                *)
(*                                                                         *)
(* Meaning is defined by recursion along what a surface reads, which may   *)
(* run in a circle of mirrors.  It has a value all the same: the surfaces  *)
(* with a value are the least set that is closed under resolving, and what *)
(* their values are made of is the least relation of the kind.             *)
-----------------------------------------------------------------------------
Settles(s, V) ==
  /\ world.own[s] # "inactive"
  /\ \/ world.own[s] = "zero"
     \/ world.own[s] # "none" /\ world.mirrors[s] \subseteq V \cap world.available

ValuesClosed(V) == \A s \in Id : Settles(s, V) => s \in V
Valued == { s \in Id : \A V \in SUBSET Id : ValuesClosed(V) => s \in V }

LEMMA ValuedFixed == \A s \in Id : s \in Valued <=> Settles(s, Valued)
<1>1. ASSUME NEW s \in Id, Settles(s, Valued)
      PROVE  s \in Valued
  <2> SUFFICES ASSUME NEW V \in SUBSET Id, ValuesClosed(V) PROVE s \in V
    BY DEF Valued
  <2>1. Valued \subseteq V
    BY DEF Valued
  <2>2. Settles(s, V)
    BY <1>1, <2>1 DEF Settles
  <2> QED
    BY <2>2 DEF ValuesClosed
<1>2. ASSUME NEW s \in Valued
      PROVE  Settles(s, Valued)
  <2> SUFFICES ASSUME ~ Settles(s, Valued) PROVE FALSE
    OBVIOUS
  <2> DEFINE V == Valued \ {s}
  <2>1. V \in SUBSET Id
    BY DEF Valued
  <2>2. ASSUME NEW x \in Id, Settles(x, V)
        PROVE  x \in V
    <3>1. Settles(x, Valued)
      BY <2>2 DEF Settles
    <3> QED
      BY <1>1, <3>1
  <2>3. ValuesClosed(V)
    BY <2>2 DEF ValuesClosed
  <2> HIDE DEF V
  <2>4. s \in V
    BY <2>1, <2>3 DEF Valued
  <2> QED
    BY <2>4 DEF V
<1> QED
  BY <1>1, <1>2 DEF Valued

Enters(s, p, R) ==
  /\ s \in Valued /\ world.own[s] # "zero"
  /\ IF world.mirrors[s] # {}
     THEN \E r \in world.mirrors[s] : << r, p >> \in R
     ELSE p = s \/ \E u \in world.uses[s] \cap world.available \cap Valued : << u, p >> \in R

PartsClosed(R) == \A s, p \in Id : Enters(s, p, R) => << s, p >> \in R
PartOf == { e \in Id \X Id : \A R \in SUBSET (Id \X Id) : PartsClosed(R) => e \in R }

LEMMA PartOfFixed == \A s, p \in Id : << s, p >> \in PartOf <=> Enters(s, p, PartOf)
<1>1. ASSUME NEW s \in Id, NEW p \in Id, Enters(s, p, PartOf)
      PROVE  << s, p >> \in PartOf
  <2> SUFFICES ASSUME NEW R \in SUBSET (Id \X Id), PartsClosed(R) PROVE << s, p >> \in R
    BY DEF PartOf
  <2>1. PartOf \subseteq R
    BY DEF PartOf
  <2>2. Enters(s, p, R)
    BY <1>1, <2>1 DEF Enters
  <2> QED
    BY <2>2 DEF PartsClosed
<1>2. ASSUME NEW s \in Id, NEW p \in Id, << s, p >> \in PartOf
      PROVE  Enters(s, p, PartOf)
  <2> SUFFICES ASSUME ~ Enters(s, p, PartOf) PROVE FALSE
    OBVIOUS
  <2> DEFINE R == PartOf \ {<< s, p >>}
  <2>1. R \in SUBSET (Id \X Id) /\ R \subseteq PartOf
    BY DEF PartOf
  <2>2. ASSUME NEW x \in Id, NEW y \in Id, Enters(x, y, R)
        PROVE  << x, y >> \in R
    <3>1. Enters(x, y, PartOf)
      <4> HIDE DEF R
      <4> QED
        BY <2>1, <2>2 DEF Enters
    <3>2. << x, y >> \in PartOf
      BY <1>1, <3>1
    <3>3. << x, y >> # << s, p >>
      BY <3>1
    <3> QED
      BY <3>2, <3>3
  <2>3. PartsClosed(R)
    BY <2>2 DEF PartsClosed
  <2> HIDE DEF R
  <2>4. << s, p >> \in R
    BY <1>2, <2>1, <2>3 DEF PartOf
  <2> QED
    BY <2>4 DEF R
<1> QED
  BY <1>1, <1>2

Made == [ s \in Id |->
  IF world.own[s] = "inactive" THEN Row("gated_off", {})
  ELSE IF s \in Valued THEN Row("resolved", { p \in Id : << s, p >> \in PartOf })
  ELSE Row("mapped_not_resolved", {}) ]

\* The rows that a surface reads, of some rows of all surfaces.
Known(s, f) == [ r \in Reads(s) |-> f[r] ]

LEMMA MadeValue ==
  ASSUME NEW r \in Id
  PROVE  /\ Made[r].status = "resolved" <=> r \in Valued
         /\ r \in Valued => Made[r].parts = { p \in Id : << r, p >> \in PartOf }
<1>1. r \in Valued => world.own[r] # "inactive"
  BY ValuedFixed DEF Settles
<1> QED
  BY <1>1 DEF Made, Row

LEMMA KnownValue ==
  ASSUME world \in WorldType, NEW s \in Id, NEW r \in world.mirrors[s] \cup world.uses[s]
  PROVE  /\ r \in Id
         /\ HasValue(r, Known(s, Made)) <=> r \in Valued /\ r \in world.available
         /\ r \in world.available => Known(s, Made)[r] = Made[r]
<1>1. r \in Id
  BY DEF WorldType
<1>2. r \in world.available <=> r \in Reads(s)
  BY DEF Reads
<1> QED
  BY <1>1, <1>2, MadeValue DEF HasValue, Known

LEMMA MadeFounded ==
  ASSUME world \in WorldType, NEW s \in Id
  PROVE  /\ Founded(Known(s, Made))
         /\ DOMAIN Known(s, Made) \subseteq world.available
<1>1. Reads(s) \subseteq world.available /\ Reads(s) \subseteq Id
  BY DEF Reads, WorldType
<1>2. ASSUME NEW g \in Reads(s), world.own[g] = "number", world.mirrors[g] = {}
      PROVE  g \in Made[g].parts
  <2>1. g \in Id /\ g \in Valued
    BY <1>1, <1>2, ValuedFixed DEF Settles
  <2>2. << g, g >> \in PartOf
    BY <1>2, <2>1, PartOfFixed DEF Enters
  <2> QED
    BY <2>1, <2>2, MadeValue
<1> QED
  BY <1>1, <1>2 DEF Founded, Known

LEMMA MadeResolves ==
  ASSUME world \in WorldType, UnlocksAgree, NEW s \in Id
  PROVE  Made[s] = Resolve(s, Known(s, Made))
<1> DEFINE known == Known(s, Made)
           parts == { p \in Id : << s, p >> \in PartOf }
<1>1. CASE world.own[s] = "inactive"
  BY <1>1 DEF Made, Resolve
<1>2. CASE world.own[s] = "zero"
  <2>1. s \in Valued
    BY <1>2, ValuedFixed DEF Settles
  <2>2. parts = {}
    BY <1>2, PartOfFixed DEF Enters
  <2>3. Zero(s, known)
    BY <1>2 DEF Zero
  <2> QED
    BY <1>2, <2>1, <2>2, <2>3 DEF Made, Resolve
<1>3. CASE world.own[s] \notin {"inactive", "zero"}
  <2>1. ~ Zero(s, known)
    BY <1>3, MadeFounded, NotLocked
  <2>2. Unresolved(s, known) <=> s \notin Valued
    <3>1. \A r \in world.mirrors[s] :
            HasValue(r, known) <=> r \in Valued /\ r \in world.available
      BY KnownValue
    <3> HIDE DEF known
    <3> QED
      BY <1>3, <3>1, ValuedFixed DEF Unresolved, Settles
  <2>3. CASE s \notin Valued
    BY <1>3, <2>1, <2>2, <2>3 DEF Made, Resolve
  <2>4. CASE s \in Valued
    <3>1. parts = Parts(s, known)
      <4>1. CASE world.mirrors[s] # {}
        <5>1. \A r \in world.mirrors[s] : r \in Valued /\ r \in world.available /\ r \in Id
          BY <1>3, <2>4, KnownValue, ValuedFixed DEF Settles
        <5>2. \A r \in world.mirrors[s] :
                known[r].parts = { p \in Id : << r, p >> \in PartOf }
          BY <5>1, KnownValue, MadeValue
        <5>3. \A p \in Id : << s, p >> \in PartOf
                <=> \E r \in world.mirrors[s] : << r, p >> \in PartOf
          BY <1>3, <2>4, <4>1, PartOfFixed DEF Enters
        <5>4. parts = UNION { known[r].parts : r \in world.mirrors[s] }
          <6> HIDE DEF known
          <6>1. ASSUME NEW p \in parts
                PROVE  p \in UNION { known[r].parts : r \in world.mirrors[s] }
            <7>1. PICK r \in world.mirrors[s] : << r, p >> \in PartOf
              BY <5>3
            <7> QED
              BY <5>2, <7>1
          <6>2. ASSUME NEW r \in world.mirrors[s], NEW p \in known[r].parts
                PROVE  p \in parts
            BY <5>2, <5>3
          <6> QED
            BY <6>1, <6>2
        <5> QED
          BY <4>1, <5>4 DEF Parts
      <4>2. CASE world.mirrors[s] = {}
        <5> DEFINE U == { u \in world.uses[s] : HasValue(u, known) }
        <5>1. U = world.uses[s] \cap world.available \cap Valued
          BY KnownValue
        <5>2. \A u \in U : known[u].parts = { p \in Id : << u, p >> \in PartOf }
          BY <5>1, KnownValue, MadeValue
        <5>3. \A p \in Id : << s, p >> \in PartOf
                <=> p = s \/ \E u \in U : << u, p >> \in PartOf
          BY <1>3, <2>4, <4>2, <5>1, PartOfFixed DEF Enters
        <5>4. parts = {s} \cup UNION { known[u].parts : u \in U }
          <6> HIDE DEF known, U
          <6>1. ASSUME NEW p \in parts, p # s
                PROVE  p \in UNION { known[u].parts : u \in U }
            <7>1. PICK u \in U : << u, p >> \in PartOf
              BY <5>3, <6>1
            <7> QED
              BY <5>2, <7>1
          <6>2. ASSUME NEW u \in U, NEW p \in known[u].parts
                PROVE  p \in parts
            BY <5>2, <5>3
          <6>3. s \in parts
            BY <5>3
          <6> QED
            BY <6>1, <6>2, <6>3
        <5> QED
          BY <4>2, <5>4 DEF Parts
      <4> QED
        BY <4>1, <4>2
    <3> HIDE DEF known, parts
    <3>2. Resolve(s, known) = Row("resolved", parts)
      BY <1>3, <2>1, <2>2, <2>4, <3>1 DEF Resolve
    <3> QED
      BY <1>3, <2>4, <3>2 DEF Made, parts, known
  <2> QED
    BY <2>3, <2>4
<1> QED
  BY <1>1, <1>2, <1>3

LEMMA MeaningEquation ==
  ASSUME world \in WorldType, UnlocksAgree
  PROVE  \A s \in Id : Meaning[s] = Resolve(s, Known(s, Meaning))
<1> DEFINE IsMeaning(f) == f = [ s \in Id |-> Resolve(s, [ r \in Reads(s) |-> f[r] ]) ]
<1>1. IsMeaning(Made)
  <2>1. Made = [ s \in Id |-> Made[s] ]
    BY DEF Made
  <2>2. \A s \in Id : Made[s] = Resolve(s, [ r \in Reads(s) |-> Made[r] ])
    BY MadeResolves DEF Known
  <2> QED
    BY <2>1, <2>2
<1>2. Meaning = CHOOSE f : IsMeaning(f)
  BY DEF Meaning
<1>3. IsMeaning(Meaning)
  <2> HIDE DEF IsMeaning
  <2> QED
    BY <1>1, <1>2
<1> QED
  BY <1>3 DEF Known

-----------------------------------------------------------------------------
(* The closure of a query                                                  *)
-----------------------------------------------------------------------------
LEMMA CoveredIsAvailable ==
  ASSUME world \in WorldType, NEW n \in Id, Covered(n)
  PROVE  Available(n) \in world.available
<1>1. << n >> \in Seq(Id) /\ world.spellings[n] \in Seq(Id)
  BY DEF WorldType
<1>2. Candidates(n) \in Seq(Id)
  BY <1>1 DEF Candidates
<1>3. Hits(n) \in SUBSET Nat /\ Hits(n) # {}
  BY <1>2 DEF Hits, Covered
<1>4. \E k \in Hits(n) : \A h \in Hits(n) : k <= h
  BY <1>3, LeastOfNaturals
<1>5. (CHOOSE k \in Hits(n) : \A h \in Hits(n) : k <= h) \in Hits(n)
  BY <1>4
<1> QED
  BY <1>5 DEF Available, Hits

(* What is declared upstream of a surface of a query belongs to it.        *)
LEMMA UpstreamResolved ==
  ASSUME world \in WorldType, SpellingsAgree, NEW s \in ToResolve, NEW r, Declared(r, s)
  PROVE  r \in ToResolve
<1>1. PICK m \in Closure(Seeds) : Covered(m) /\ s = Available(m)
  BY DEF ToResolve
<1>2. PICK n \in world.upstream[s] : Covered(n) /\ r = Available(n)
  BY DEF Declared
<1>3. m \in Id /\ s \in Id
  BY <1>1, AvailableIds DEF Closure
<1>4. n \in Id /\ n \in world.upstream[m]
  BY <1>1, <1>2, <1>3 DEF SpellingsAgree, WorldType
<1>5. n \in Closure(Seeds)
  <2> SUFFICES ASSUME NEW S \in SUBSET Id, Seeds \subseteq S, UpstreamClosed(S)
               PROVE  n \in S
    BY <1>4 DEF Closure
  <2>1. m \in S
    BY <1>1 DEF Closure
  <2> QED
    BY <1>4, <2>1 DEF UpstreamClosed
<1> QED
  BY <1>2, <1>4, <1>5, CoveredIsAvailable DEF ToResolve

ClosureInv ==
  /\ phase \in {"passes", "finalise", "answer", "done"} => Queued = ToResolve
  /\ phase \in {"answer", "done"} => pending = {}

LEMMA SameQuery ==
  ASSUME UNCHANGED call
  PROVE  ToResolve' = ToResolve
<1>1. world' = world /\ request' = request
  BY DEF call
<1>2. \A n : Available(n)' = Available(n) /\ (Covered(n)' <=> Covered(n))
  BY <1>1 DEF Available, Covered, Hits, Candidates
<1>3. Seeds' = Seeds
  BY <1>1, <1>2 DEF Seeds
<1>4. \A S : UpstreamClosed(S)' <=> UpstreamClosed(S)
  BY <1>1 DEF UpstreamClosed
<1>5. Closure(Seeds)' = Closure(Seeds)
  BY <1>3, <1>4 DEF Closure
<1> QED
  BY <1>1, <1>2, <1>5 DEF ToResolve

LEMMA ClosureStep == ASSUME Inv, ClosureInv, [Next]_vars PROVE ClosureInv'
<1>1. ToResolve' = ToResolve
  <2>1. UNCHANGED call
    BY DEF Next, Step, Finished, Begin, Refuse, Attempt, AttemptMixed, RaiseMixed, SkipSettled,
           EndPass, Finalise, Answer, vars
  <2> QED
    BY <2>1, SameQuery
<1>2. CASE Begin
  <2>1. Queued' = ToResolve /\ phase' = "passes"
    BY <1>2, BeginQueue DEF Inv, TypeOK, Begin, InOrder, Queued
  <2> QED
    BY <1>1, <2>1 DEF ClosureInv
<1>3. CASE Attempt
  BY <1>1, <1>3 DEF Attempt, InPass, ClosureInv, Queued
<1>4. ASSUME NEW q \in pending, Finalise(q)
      PROVE  ClosureInv'
  BY <1>1, <1>4 DEF Finalise, Settle, ClosureInv, Queued
<1>5. CASE Refuse \/ AttemptMixed \/ SkipSettled \/ EndPass \/ Answer \/ UNCHANGED vars
  BY <1>1, <1>5 DEF Refuse, AttemptMixed, RaiseMixed, SkipSettled, InPass, EndPass, Answer, vars,
                    ClosureInv, Queued
<1> QED
  BY <1>2, <1>3, <1>4, <1>5 DEF Next, Step, Finished

(* In a finished query each row is what the surface means, which says      *)
(* nothing of the request: otherwise take the first of the queue that is   *)
(* not; all that it reads stands before it.                                *)
LEMMA RowsMean ==
  ASSUME Inv, ClosureInv, phase = "done", MirrorsDeclared, SpellingsAgree
  PROVE  \A s \in DOMAIN rows : rows[s] = Meaning[s]
<1> DEFINE Bad == { i \in DOMAIN queue : rows[queue[i]] # Meaning[queue[i]] }
<1>1. /\ DOMAIN rows = Queued /\ Queued = ToResolve /\ Queued \subseteq Id
      /\ DOMAIN queue \subseteq Nat /\ Queued \subseteq world.available
      /\ world \in WorldType /\ UnlocksAgree
  BY DEF Inv, ClosureInv, Swept, TypeOK, Queued, Ordered, Supported
<1>2. SUFFICES ASSUME Bad # {} PROVE FALSE
  BY <1>1 DEF Queued
<1>3. PICK i \in Bad : \A j \in Bad : i <= j
  BY <1>1, <1>2, LeastOfNaturals
<1> DEFINE s == queue[i]
           wide == Known(s, Meaning)
<1>4. i \in DOMAIN queue /\ s \in Queued /\ s \in Id /\ rows[s] # Meaning[s]
  BY <1>1 DEF Queued
<1>5. \A r \in Id : Meaning[r] = Resolve(r, Known(r, Meaning))
  BY <1>1, MeaningEquation
<1>6. DOMAIN wide = Reads(s) /\ \A r \in Reads(s) : wide[r] = Meaning[r]
  BY DEF Known
<1>7. DOMAIN wide \subseteq world.available /\ DOMAIN wide \subseteq Id
  BY <1>1, <1>6 DEF Reads, WorldType
<1>8. Founded(wide)
  <2>1. \A g \in DOMAIN wide : wide[g] = Resolve(g, Known(g, Meaning))
    BY <1>5, <1>6, <1>7
  <2> HIDE DEF wide
  <2> QED
    BY <2>1, OwnNumber DEF Founded
<1>9. ASSUME NEW r \in world.mirrors[s] \cup world.uses[s]
      PROVE  /\ HasValue(r, rows) <=> HasValue(r, wide)
             /\ HasValue(r, rows) => wide[r] = rows[r]
  <2>1. CASE r \in world.available
    <3>1. Declared(r, s) /\ r # s
      BY <1>4, <1>9, <2>1 DEF MirrorsDeclared, Inv, Supported, UsesDeclared
    <3>2. r \in Queued
      BY <1>1, <1>4, <3>1, UpstreamResolved
    <3>3. PICK j, k \in DOMAIN queue : j < k /\ queue[j] = r /\ queue[k] = s
      BY <1>4, <3>1, <3>2 DEF Inv, Ordered, Before
    <3>4. k = i
      BY <1>4, <3>3 DEF Inv, Ordered
    <3>5. j \notin Bad
      BY <1>1, <1>3, <3>3, <3>4
    <3>6. rows[r] = Meaning[r]
      BY <3>3, <3>5
    <3>7. r \in Reads(s) /\ r \in DOMAIN rows
      BY <1>1, <1>9, <2>1, <3>2 DEF Reads
    <3> HIDE DEF wide
    <3> QED
      BY <1>6, <3>6, <3>7 DEF HasValue
  <2>2. CASE r \notin world.available
    BY <1>1, <1>7, <2>2 DEF HasValue
  <2> QED
    BY <2>1, <2>2
<1>10. Founded(rows) /\ DOMAIN rows \subseteq world.available
  BY <1>1, RowsFounded DEF Inv
<1>11. Resolve(s, wide) = Resolve(s, rows)
  <2> HIDE DEF wide, s
  <2> QED
    BY <1>1, <1>4, <1>7, <1>8, <1>9, <1>10, SameReads
<1>12. rows[s] = Resolve(s, rows)
  BY <1>1, <1>4 DEF Inv, RowsAreCurrent
<1> QED
  BY <1>4, <1>5, <1>11, <1>12

(* A surface resolves to the same whatever is asked for with it, for every *)
(* world that declares its mirrors and gives a surface its upstream under  *)
(* every spelling (resolve_surfaces).                                      *)
THEOREM RequestsAreIndependent == Spec => []RequestIndependent
<1>1. Inv /\ ClosureInv => RequestIndependent
  BY RowsMean DEF RequestIndependent
<1>2. Init => ClosureInv
  BY DEF Init, ClosureInv
<1>3. Inv /\ ClosureInv /\ [Next]_vars => ClosureInv'
  BY ClosureStep
<1> QED
  BY <1>1, <1>2, <1>3, InvAlways, PTL DEF Spec

(* A query that returns answers what was asked, as it would if nothing     *)
(* else had been, without attempting again what cannot have changed        *)
(* (resolve_surfaces).                                                     *)
THEOREM QueriesAreAnswered == Spec => []QueryAnswered
<1>1. Inv /\ ReplyInv => RequestAnswered
  BY ReplyAnswers DEF Inv
<1> QED
  BY <1>1, InvAlways, RequestsAreIndependent, FewAttemptsHold, PTL DEF QueryAnswered

-----------------------------------------------------------------------------
(* Records of an account                                                   *)
-----------------------------------------------------------------------------

LEMMA OverFacts ==
  ASSUME NEW f, NEW g
  PROVE  /\ DOMAIN Over(f, g) = DOMAIN f \union DOMAIN g
         /\ \A k \in DOMAIN f : Over(f, g)[k] = f[k]
         /\ \A k \in DOMAIN g : k \notin DOMAIN f => Over(f, g)[k] = g[k]
BY DEF Over

LEMMA EntryFacts ==
  ASSUME NEW key, NEW val
  PROVE  DOMAIN Entry(key, val) = {key} /\ Entry(key, val)[key] = val
BY DEF Entry

LEMMA Cells == Blank \notin Flags /\ Plus \notin Flags /\ Plus # Blank
BY Zenon DEF Blank, Flags, Plus

LEMMA EmptyRecords == DOMAIN << >> = {}
OBVIOUS

(* The records an account is made of.                                      *)
IsAccount(a) ==
  DOMAIN a = {"labs", "bots", "unlocks", "upgrades", "tracks", "sources", "mastery"}

LEMMA NewAccount ==
  /\ IsAccount(NoAccount) /\ AccountOK(NoAccount)
  /\ NoAccount.labs = << >> /\ NoAccount.bots = {} /\ NoAccount.unlocks = << >>
  /\ NoAccount.upgrades = << >> /\ NoAccount.tracks = << >> /\ NoAccount.sources = {}
  /\ NoAccount.mastery = None
BY EmptyRecords DEF NoAccount, IsAccount, AccountOK, None

LEMMA SelectedLabs ==
  ASSUME NEW e \in Exports, NEW o \in Overlays
  PROVE  /\ DOMAIN Over(o.labs, e.labs) = Lab
         /\ \A l \in Lab : Over(o.labs, e.labs)[l] \in Int
<1>1. DOMAIN o.labs \subseteq Lab /\ (\A l \in DOMAIN o.labs : o.labs[l] \in Int)
      /\ e.labs \in [Lab -> Int]
  BY InputsAssumption
<1>2. DOMAIN e.labs = Lab /\ \A l \in Lab : e.labs[l] \in Int
  BY <1>1
<1>3. DOMAIN Over(o.labs, e.labs) = Lab
  BY <1>1, <1>2 DEF Over
<1>4. ASSUME NEW l \in Lab
      PROVE  Over(o.labs, e.labs)[l] \in Int
  <2>1. CASE l \in DOMAIN o.labs
    BY <1>1, <2>1 DEF Over
  <2>2. CASE l \notin DOMAIN o.labs
    BY <1>1, <1>2, <2>2 DEF Over
  <2> QED
    BY <2>1, <2>2
<1> QED
  BY <1>3, <1>4

-----------------------------------------------------------------------------
(* The scan                                                                *)
-----------------------------------------------------------------------------

(* The bots whose flag, and whose name, stands above the next row.         *)
FlagsAbove(k, i) ==
  { BotOrder[j] : j \in { l \in 1..Len(BotOrder) : l < k \/ (l = k /\ i > Len(TrackOrder)) } }
NamesAbove(k, i) ==
  { BotOrder[j] : j \in { l \in 1..Len(BotOrder) : l < k \/ (l = k /\ i > 1) } }

(* Where the scan is, and the bot it is in.                                *)
AtRow ==
  /\ block \in 1..Len(BotOrder) + 1 /\ line \in 0..Len(TrackOrder) + 1
  /\ line = 0 => block = 1
  /\ line > 1 => block <= Len(BotOrder) /\ current = BotOrder[block]
  /\ line <= 1 => current = IF block = 1 THEN Blank ELSE Plus

(* An account with what the rows read so far say.                          *)
FromSheet(a, flagged, named) ==
  /\ IsAccount(a) /\ AccountOK(a)
  /\ a.labs = Over(overlay.labs, export.labs) /\ a.sources = {} /\ a.mastery = None
  /\ \A k \in DOMAIN a.tracks : ~ a.tracks[k].manual
  /\ named \subseteq a.bots
  /\ DOMAIN a.unlocks = flagged
  /\ \A n \in flagged : a.unlocks[n] = (export.flag[n] = "true")

LEMMA Orders ==
  /\ Len(BotOrder) \in Nat /\ Len(TrackOrder) \in Nat /\ Len(TrackOrder) > 1
  /\ \A k \in 1..Len(BotOrder) : BotOrder[k] \in Bot
  /\ Bot = { BotOrder[k] : k \in 1..Len(BotOrder) }
  /\ \A i \in 1..Len(TrackOrder) : TrackOrder[i] \in Track
  /\ Bot \subseteq Name
  /\ \A n \in Name : n \notin {Blank, "true", "false", Plus}
<1>1. BotOrder \in Seq(Bot) /\ ToSet(BotOrder) = Bot
  BY NamesAssumption
<1>2. Len(BotOrder) \in Nat /\ DOMAIN BotOrder = 1..Len(BotOrder)
      /\ \A k \in 1..Len(BotOrder) : BotOrder[k] \in Bot
  BY <1>1
<1>3. Len(TrackOrder) \in Nat /\ Len(TrackOrder) > 1
  <2>1. TrackOrder \in Seq(Track) /\ Len(TrackOrder) > 1
    BY NamesAssumption
  <2>2. Len(TrackOrder) \in Nat
    BY <2>1
  <2> QED
    BY <2>1, <2>2
<1>4. \A i \in 1..Len(TrackOrder) : TrackOrder[i] \in Track
  BY <1>3, NamesAssumption
<1> QED
  BY <1>1, <1>2, <1>3, <1>4, NamesAssumption DEF ToSet, Name

LEMMA AboveFacts ==
  ASSUME NEW k \in 1..Len(BotOrder) + 1, NEW i \in 0..Len(TrackOrder) + 1
  PROVE  /\ FlagsAbove(k, i) \subseteq NamesAbove(k, i)
         /\ NamesAbove(k, i) \subseteq Bot
         /\ k = 1 /\ i <= 1 => NamesAbove(k, i) = {}
         /\ k > Len(BotOrder) => FlagsAbove(k, i) = Bot
         /\ k <= Len(BotOrder) /\ i <= Len(TrackOrder) =>
              /\ NamesAbove(k, i + 1) =
                   IF i = 1 THEN NamesAbove(k, i) \union {BotOrder[k]} ELSE NamesAbove(k, i)
              /\ FlagsAbove(k, i + 1) =
                   IF i = Len(TrackOrder) THEN FlagsAbove(k, i) \union {BotOrder[k]} ELSE FlagsAbove(k, i)
         /\ k <= Len(BotOrder) /\ i = Len(TrackOrder) + 1 =>
              /\ NamesAbove(k + 1, 1) = NamesAbove(k, i)
              /\ FlagsAbove(k + 1, 1) = FlagsAbove(k, i)
<1>1. FlagsAbove(k, i) \subseteq NamesAbove(k, i) /\ NamesAbove(k, i) \subseteq Bot
  BY Orders DEF FlagsAbove, NamesAbove
<1>2. k = 1 /\ i <= 1 => NamesAbove(k, i) = {}
  BY Orders DEF NamesAbove
<1>3. k > Len(BotOrder) => FlagsAbove(k, i) = Bot
  <2>1. ASSUME k > Len(BotOrder)
        PROVE  \A l \in 1..Len(BotOrder) : l < k
    BY <2>1, Orders
  <2> QED
    BY <2>1, Orders DEF FlagsAbove
<1>4. ASSUME k <= Len(BotOrder), i <= Len(TrackOrder)
      PROVE  NamesAbove(k, i + 1) =
               IF i = 1 THEN NamesAbove(k, i) \union {BotOrder[k]} ELSE NamesAbove(k, i)
  <2>1. CASE i = 0
    BY <2>1, Orders DEF NamesAbove
  <2>2. CASE i = 1
    BY <2>2, <1>4, Orders DEF NamesAbove
  <2>3. CASE i > 1
    <3>1. i + 1 > 1
      BY <2>3
    <3> QED
      BY <2>3, <3>1, Orders DEF NamesAbove
  <2> QED
    BY <2>1, <2>2, <2>3
<1>5. ASSUME k <= Len(BotOrder), i <= Len(TrackOrder)
      PROVE  FlagsAbove(k, i + 1) =
               IF i = Len(TrackOrder) THEN FlagsAbove(k, i) \union {BotOrder[k]} ELSE FlagsAbove(k, i)
  <2>1. CASE i < Len(TrackOrder)
    <3>1. ~ i + 1 > Len(TrackOrder) /\ ~ i > Len(TrackOrder)
      BY <2>1, Orders
    <3> QED
      BY <2>1, <3>1, Orders DEF FlagsAbove
  <2>2. CASE i = Len(TrackOrder)
    <3>1. i + 1 > Len(TrackOrder) /\ ~ i > Len(TrackOrder)
      BY <2>2, Orders
    <3> QED
      BY <2>2, <3>1, <1>5, Orders DEF FlagsAbove
  <2> QED
    BY <2>1, <2>2, <1>5, Orders
<1>6. ASSUME k <= Len(BotOrder), i = Len(TrackOrder) + 1
      PROVE  /\ NamesAbove(k + 1, 1) = NamesAbove(k, i)
             /\ FlagsAbove(k + 1, 1) = FlagsAbove(k, i)
  <2>1. i > 1 /\ i > Len(TrackOrder) /\ ~ 1 > Len(TrackOrder)
    BY <1>6, Orders
  <2>2. \A l \in 1..Len(BotOrder) : (l < k + 1) <=> (l < k \/ l = k)
    BY Orders
  <2> QED
    BY <2>1, <2>2 DEF NamesAbove, FlagsAbove
<1> QED
  BY <1>1, <1>2, <1>3, <1>4, <1>5, <1>6

(* A row that is not a flag.                                               *)
LEMMA PlainRow ==
  ASSUME NEW a, NEW F, NEW N, FromSheet(a, F, N), NEW r, NEW now, r.name \notin Flags,
         r.name \in Name \union {Blank, Plus},
         now = Blank \/ <<now, r.attr>> \in (Name \X Track) \union { <<Plus, "Plus">> },
         now \in Name \union {Blank} \/ r.level = None,
         now = Plus => r.attr = "Plus"
  PROVE  /\ r.name = Blank => FromSheet(Scanned(a, r, now), F, N)
         /\ r.name # Blank => FromSheet(Scanned(a, r, now), F, N \union {r.name})
<1> DEFINE z == Scanned(a, r, now)
<1>1. /\ IsAccount(a) /\ AccountOK(a)
      /\ a.labs = Over(overlay.labs, export.labs) /\ a.sources = {} /\ a.mastery = None
      /\ \A k \in DOMAIN a.tracks : ~ a.tracks[k].manual
      /\ N \subseteq a.bots /\ DOMAIN a.unlocks = F
      /\ \A n \in F : a.unlocks[n] = (export.flag[n] = "true")
  BY DEF FromSheet
<1>2. /\ IsAccount(z) /\ z.labs = a.labs /\ z.sources = a.sources /\ z.mastery = a.mastery
      /\ z.bots = IF r.name = Blank THEN a.bots ELSE a.bots \union {r.name}
      /\ z.unlocks = a.unlocks
      /\ z.upgrades = IF now # Blank /\ r.level # None
                      THEN Over(Entry(<<now, r.attr>>, r.level), a.upgrades) ELSE a.upgrades
      /\ z.tracks = IF now # Blank
                    THEN Over(Entry(<<now, r.attr>>, Snapshot(r.level, r.value, FALSE, FALSE)), a.tracks)
                    ELSE a.tracks
  <2>1. /\ IsAccount(z) /\ z.labs = a.labs /\ z.sources = a.sources /\ z.mastery = a.mastery
        /\ z.bots = IF r.name \in Flags \union {Blank} THEN a.bots ELSE a.bots \union {r.name}
        /\ z.unlocks = IF r.name \in Flags /\ current # Blank
                       THEN Over(Entry(current, r.name = "true"), a.unlocks) ELSE a.unlocks
        /\ z.upgrades = IF now # Blank /\ r.level # None
                        THEN Over(Entry(<<now, r.attr>>, r.level), a.upgrades) ELSE a.upgrades
        /\ z.tracks = IF now # Blank
                      THEN Over(Entry(<<now, r.attr>>, Snapshot(r.level, r.value, FALSE, FALSE)), a.tracks)
                      ELSE a.tracks
    BY <1>1 DEF Scanned, IsAccount
  <2> QED
    BY <2>1
<1> HIDE DEF z
<1>3. /\ DOMAIN z.tracks \subseteq (Name \X Track) \union { <<Plus, "Plus">> }
      /\ \A k \in DOMAIN z.tracks : ~ z.tracks[k].manual
  <2>1. CASE now = Blank
    BY <1>1, <1>2, <2>1 DEF AccountOK
  <2>2. CASE now # Blank
    <3>1. ~ Snapshot(r.level, r.value, FALSE, FALSE).manual
      BY DEF Snapshot
    <3> DEFINE val == Snapshot(r.level, r.value, FALSE, FALSE)
    <3>2. z.tracks = Over(Entry(<<now, r.attr>>, val), a.tracks)
          /\ <<now, r.attr>> \in (Name \X Track) \union { <<Plus, "Plus">> }
          /\ DOMAIN a.tracks \subseteq (Name \X Track) \union { <<Plus, "Plus">> }
          /\ ~ val.manual
      BY <1>1, <1>2, <2>2, <3>1 DEF AccountOK
    <3> HIDE DEF val
    <3> QED
      BY <1>1, <3>2 DEF Over, Entry
  <2> QED
    BY <2>1, <2>2
<1>4. DOMAIN z.upgrades \subseteq Name \X Track
  <2>1. CASE now # Blank /\ r.level # None
    <3>1. <<now, r.attr>> \in Name \X Track
      BY <2>1, Orders
    <3> QED
      BY <1>1, <1>2, <2>1, <3>1 DEF AccountOK, Over, Entry
  <2>2. CASE ~ (now # Blank /\ r.level # None)
    BY <1>1, <1>2, <2>2 DEF AccountOK
  <2> QED
    BY <2>1, <2>2
<1>5. z.bots \subseteq Name \union {Plus}
      /\ (IF r.name = Blank THEN N ELSE N \union {r.name}) \subseteq z.bots
  BY <1>1, <1>2 DEF AccountOK
<1>6. AccountOK(z)
  BY <1>1, <1>2, <1>3, <1>4, <1>5 DEF AccountOK
<1> QED
  BY <1>1, <1>2, <1>3, <1>5, <1>6 DEF FromSheet, z

(* A row with the flag of the bot it is in.                                *)
LEMMA FlagRow ==
  ASSUME NEW a, NEW F, NEW N, FromSheet(a, F, N), NEW r, NEW b \in Name,
         current = b, r.name = export.flag[b], r.name \in Flags, r.attr \in Track
  PROVE  FromSheet(Scanned(a, r, b), F \union {b}, N)
<1> DEFINE z == Scanned(a, r, b)
<1>1. /\ IsAccount(a) /\ AccountOK(a)
      /\ a.labs = Over(overlay.labs, export.labs) /\ a.sources = {} /\ a.mastery = None
      /\ \A k \in DOMAIN a.tracks : ~ a.tracks[k].manual
      /\ N \subseteq a.bots /\ DOMAIN a.unlocks = F
      /\ \A n \in F : a.unlocks[n] = (export.flag[n] = "true")
  BY DEF FromSheet
<1>2. b # Blank
  BY Orders
<1>3. /\ IsAccount(z) /\ z.labs = a.labs /\ z.sources = a.sources /\ z.mastery = a.mastery
      /\ z.bots = a.bots
      /\ z.unlocks = Over(Entry(b, r.name = "true"), a.unlocks)
      /\ z.upgrades = IF r.level # None
                      THEN Over(Entry(<<b, r.attr>>, r.level), a.upgrades) ELSE a.upgrades
      /\ z.tracks = Over(Entry(<<b, r.attr>>, Snapshot(r.level, r.value, FALSE, FALSE)), a.tracks)
  <2>1. /\ IsAccount(z) /\ z.labs = a.labs /\ z.sources = a.sources /\ z.mastery = a.mastery
        /\ z.bots = IF r.name \in Flags \union {Blank} THEN a.bots ELSE a.bots \union {r.name}
        /\ z.unlocks = IF r.name \in Flags /\ current # Blank
                       THEN Over(Entry(current, r.name = "true"), a.unlocks) ELSE a.unlocks
        /\ z.upgrades = IF b # Blank /\ r.level # None
                        THEN Over(Entry(<<b, r.attr>>, r.level), a.upgrades) ELSE a.upgrades
        /\ z.tracks = IF b # Blank
                      THEN Over(Entry(<<b, r.attr>>, Snapshot(r.level, r.value, FALSE, FALSE)), a.tracks)
                      ELSE a.tracks
    BY <1>1 DEF Scanned, IsAccount
  <2> QED
    BY <2>1, <1>2
<1> HIDE DEF z
<1>4. /\ DOMAIN z.tracks \subseteq (Name \X Track) \union { <<Plus, "Plus">> }
      /\ \A k \in DOMAIN z.tracks : ~ z.tracks[k].manual
  <2>1. ~ Snapshot(r.level, r.value, FALSE, FALSE).manual
    BY DEF Snapshot
  <2> DEFINE val == Snapshot(r.level, r.value, FALSE, FALSE)
  <2>2. z.tracks = Over(Entry(<<b, r.attr>>, val), a.tracks)
        /\ <<b, r.attr>> \in (Name \X Track) \union { <<Plus, "Plus">> }
        /\ DOMAIN a.tracks \subseteq (Name \X Track) \union { <<Plus, "Plus">> }
        /\ ~ val.manual
    BY <1>1, <1>3, <2>1 DEF AccountOK
  <2> HIDE DEF val
  <2> QED
    BY <1>1, <2>2 DEF Over, Entry
<1>5. DOMAIN z.upgrades \subseteq Name \X Track
  BY <1>1, <1>3 DEF AccountOK, Over, Entry
<1>6. /\ DOMAIN z.unlocks = F \union {b}
      /\ \A n \in F \union {b} : z.unlocks[n] = (export.flag[n] = "true")
  <2>1. DOMAIN z.unlocks = {b} \union F
    BY <1>1, <1>3 DEF Over, Entry
  <2>2. z.unlocks[b] = (export.flag[b] = "true")
    BY <1>3 DEF Over, Entry
  <2>3. \A n \in F : n # b => z.unlocks[n] = a.unlocks[n]
    BY <1>1, <1>3 DEF Over, Entry
  <2> QED
    BY <1>1, <2>1, <2>2, <2>3, Zenon
<1>7. AccountOK(z)
  BY <1>1, <1>3, <1>4, <1>5, <1>6 DEF AccountOK
<1> QED
  BY <1>1, <1>3, <1>4, <1>6, <1>7 DEF FromSheet, z

-----------------------------------------------------------------------------
(* The overlay                                                             *)
-----------------------------------------------------------------------------

(* What the bots D of the overlay state, of flags and of tracks.           *)
SaysFlag(n) == overlay.bots[n].unlocked \in Flags
FlagOf(n, D) ==
  IF n \in D /\ SaysFlag(n) THEN overlay.bots[n].unlocked = "true" ELSE export.flag[n] = "true"
TracksOf(D) == { k \in Name \X Track : k[1] \in D /\ k[2] \in Stated(overlay.bots[k[1]]) }
ManualOf(n, t) ==
  LET q == overlay.bots[n].tracks[t] IN Snapshot(q.level, q.value, TRUE, q.effective)

(* The records of the section, with the patches of the bots D.             *)
Overlaid(a, D) ==
  /\ IsAccount(a) /\ AccountOK(a) /\ a.labs = ids.labs
  /\ DOMAIN a.unlocks = Bot \union { n \in D : SaysFlag(n) }
  /\ \A n \in DOMAIN a.unlocks : a.unlocks[n] = FlagOf(n, D)
  /\ \A n \in DOMAIN a.unlocks : a.unlocks[n] => n \in a.bots
  /\ a.sources = TracksOf(D)
  /\ DOMAIN a.tracks = DOMAIN ids.tracks \union TracksOf(D)
  /\ \A n \in D : \A t \in Stated(overlay.bots[n]) : a.tracks[<<n, t>>] = ManualOf(n, t)
  /\ \A k \in DOMAIN ids.tracks : k \notin TracksOf(D) => a.tracks[k] = ids.tracks[k]

LEMMA OverlayTypes ==
  ASSUME overlay \in Overlays
  PROVE  /\ overlay.found \in BOOLEAN
         /\ DOMAIN overlay.bots \subseteq Name
         /\ \A n \in DOMAIN overlay.bots :
              Stated(overlay.bots[n]) \subseteq DOMAIN overlay.bots[n].tracks
              /\ Stated(overlay.bots[n]) \subseteq Track
BY InputsAssumption DEF Stated

LEMMA NothingApplied ==
  ASSUME FromSheet(ids, Bot, Bot)
  PROVE  Overlaid(ids, {})
<1>1. TracksOf({}) = {}
  BY DEF TracksOf
<1>2. \A n \in Bot : FlagOf(n, {}) = (export.flag[n] = "true")
  BY DEF FlagOf
<1> QED
  BY <1>1, <1>2 DEF FromSheet, Overlaid

LEMMA PatchApplied ==
  ASSUME overlay \in Overlays, NEW D, D \subseteq DOMAIN overlay.bots,
         FromSheet(ids, Bot, Bot), Overlaid(account, D),
         NEW n \in DOMAIN overlay.bots, n \notin D
  PROVE  /\ Overlaid(Patched(account, n, overlay.bots[n]), D \union {n})
         /\ Patched(account, n, overlay.bots[n]).mastery = account.mastery
<1> DEFINE p == overlay.bots[n]
           z == Patched(account, n, p)
           new == { <<n, t>> : t \in Stated(p) }
<1>1. /\ n \in Name /\ Stated(p) \subseteq DOMAIN p.tracks /\ Stated(p) \subseteq Track
      /\ D \subseteq Name
  BY OverlayTypes
<1>2. /\ IsAccount(account) /\ AccountOK(account) /\ account.labs = ids.labs
      /\ DOMAIN account.unlocks = Bot \union { m \in D : SaysFlag(m) }
      /\ \A m \in DOMAIN account.unlocks : account.unlocks[m] = FlagOf(m, D)
      /\ \A m \in DOMAIN account.unlocks : account.unlocks[m] => m \in account.bots
      /\ account.sources = TracksOf(D)
      /\ DOMAIN account.tracks = DOMAIN ids.tracks \union TracksOf(D)
      /\ \A m \in D : \A t \in Stated(overlay.bots[m]) : account.tracks[<<m, t>>] = ManualOf(m, t)
      /\ \A k \in DOMAIN ids.tracks : k \notin TracksOf(D) => account.tracks[k] = ids.tracks[k]
  BY DEF Overlaid
<1>3. /\ IsAccount(z) /\ z.labs = account.labs /\ z.mastery = account.mastery
      /\ z.bots = IF p.unlocked = "true" THEN account.bots \union {n} ELSE account.bots
      /\ z.unlocks = IF p.unlocked \in Flags
                     THEN Over(Entry(n, p.unlocked = "true"), account.unlocks) ELSE account.unlocks
      /\ z.tracks = Over(ManualTracks(n, p), account.tracks)
      /\ z.upgrades = Over(ManualLevels(n, p), account.upgrades)
      /\ z.sources = account.sources \union new
  BY <1>2 DEF Patched, IsAccount
<1>4. DOMAIN ManualTracks(n, p) = new
      /\ \A t \in Stated(p) : ManualTracks(n, p)[<<n, t>>] = ManualOf(n, t)
  BY DEF ManualTracks, ManualOf
<1>5. DOMAIN ManualLevels(n, p) \subseteq Name \X Track
  BY <1>1 DEF ManualLevels
<1> HIDE DEF z
<1>6. TracksOf(D \union {n}) = TracksOf(D) \union new
  <2>1. ASSUME NEW k \in TracksOf(D \union {n})
        PROVE  k \in TracksOf(D) \union new
    BY <2>1 DEF TracksOf
  <2>2. new \subseteq TracksOf(D \union {n})
    BY <1>1 DEF TracksOf
  <2>3. TracksOf(D) \subseteq TracksOf(D \union {n})
    BY DEF TracksOf
  <2> QED
    BY <2>1, <2>2, <2>3
<1>7. \A m \in D, t \in Track : <<m, t>> \notin new
  OBVIOUS
<1>8. /\ DOMAIN z.unlocks = Bot \union { m \in D \union {n} : SaysFlag(m) }
      /\ \A m \in DOMAIN z.unlocks : z.unlocks[m] = FlagOf(m, D \union {n})
  <2>1. CASE p.unlocked \in Flags
    <3>1. SaysFlag(n)
      BY <2>1 DEF SaysFlag
    <3>2. DOMAIN z.unlocks = {n} \union DOMAIN account.unlocks
      BY <1>3, <2>1 DEF Over, Entry
    <3>3. z.unlocks[n] = (p.unlocked = "true")
      BY <1>3, <2>1 DEF Over, Entry
    <3>4. \A m \in DOMAIN account.unlocks : m # n => z.unlocks[m] = account.unlocks[m]
      BY <1>3, <2>1 DEF Over, Entry
    <3>5. \A m \in DOMAIN account.unlocks : m # n => FlagOf(m, D \union {n}) = FlagOf(m, D)
      BY DEF FlagOf
    <3>6. FlagOf(n, D \union {n}) = (p.unlocked = "true")
      BY <3>1, Zenon DEF FlagOf
    <3> QED
      BY <1>2, <3>1, <3>2, <3>3, <3>4, <3>5, <3>6, Zenon
  <2>2. CASE p.unlocked \notin Flags
    <3>1. ~ SaysFlag(n)
      BY <2>2 DEF SaysFlag
    <3>2. z.unlocks = account.unlocks
      BY <1>3, <2>2
    <3>3. \A m \in DOMAIN account.unlocks : FlagOf(m, D \union {n}) = FlagOf(m, D)
      BY <3>1 DEF FlagOf
    <3> QED
      BY <1>2, <3>1, <3>2, <3>3, Zenon
  <2> QED
    BY <2>1, <2>2
<1>9. \A m \in DOMAIN z.unlocks : z.unlocks[m] => m \in z.bots
  <2>1. ASSUME NEW m \in DOMAIN z.unlocks, z.unlocks[m], m # n
        PROVE  m \in account.bots
    <3>1. m \in DOMAIN account.unlocks
      BY <1>2, <1>8, <2>1
    <3>2. z.unlocks[m] = account.unlocks[m]
      BY <1>3, <2>1, <3>1 DEF Over, Entry
    <3> QED
      BY <1>2, <2>1, <3>1, <3>2
  <2>2. ASSUME n \in DOMAIN z.unlocks, z.unlocks[n]
        PROVE  n \in z.bots
    <3>1. CASE p.unlocked \in Flags
      <4>1. z.unlocks[n] = (p.unlocked = "true")
        BY <1>3, <3>1 DEF Over, Entry
      <4> QED
        BY <1>3, <2>2, <4>1
    <3>2. CASE p.unlocked \notin Flags
      BY <1>2, <1>3, <2>2, <3>2
    <3> QED
      BY <3>1, <3>2
  <2>3. account.bots \subseteq z.bots
    BY <1>3
  <2> QED
    BY <2>1, <2>2, <2>3
<1>10. DOMAIN z.tracks = DOMAIN ids.tracks \union TracksOf(D \union {n})
  <2>1. DOMAIN z.tracks = new \union DOMAIN account.tracks
    BY <1>3, <1>4 DEF Over
  <2> QED
    BY <1>2, <1>6, <2>1
<1>11. ASSUME NEW m \in D \union {n}, NEW t \in Stated(overlay.bots[m])
       PROVE  z.tracks[<<m, t>>] = ManualOf(m, t)
  <2>1. CASE m = n
    BY <1>3, <1>4, <1>11, <2>1 DEF Over
  <2>2. CASE m # n
    <3>1. <<m, t>> \in TracksOf(D) /\ <<m, t>> \notin new
      BY <1>1, <1>11, <2>2, OverlayTypes DEF TracksOf
    <3>2. z.tracks[<<m, t>>] = account.tracks[<<m, t>>]
      BY <1>2, <1>3, <1>4, <3>1 DEF Over
    <3> QED
      BY <1>2, <1>11, <2>2, <3>2
  <2> QED
    BY <2>1, <2>2
<1>12. \A k \in DOMAIN ids.tracks : k \notin TracksOf(D \union {n}) => z.tracks[k] = ids.tracks[k]
  BY <1>2, <1>3, <1>4, <1>6 DEF Over
<1>13. AccountOK(z)
  <2>1. DOMAIN z.labs \in {{}, Lab} /\ z.bots \subseteq Name \union {Plus} /\ z.mastery \in Int
    BY <1>1, <1>2, <1>3 DEF AccountOK
  <2>2. DOMAIN z.unlocks \subseteq Name /\ z.sources \subseteq Name \X Track
    BY <1>1, <1>2, <1>3, <1>8, Orders DEF AccountOK
  <2>3. DOMAIN z.upgrades \subseteq Name \X Track
    BY <1>2, <1>3, <1>5 DEF AccountOK, Over
  <2>4. DOMAIN z.tracks \subseteq (Name \X Track) \union { <<Plus, "Plus">> }
    BY <1>10 DEF FromSheet, AccountOK, TracksOf
  <2> QED
    BY <2>1, <2>2, <2>3, <2>4 DEF AccountOK
<1>14. z.sources = TracksOf(D \union {n})
  BY <1>2, <1>3, <1>6
<1>15. Overlaid(z, D \union {n})
  BY <1>2, <1>3, <1>8, <1>9, <1>10, <1>11, <1>12, <1>13, <1>14 DEF Overlaid
<1> QED
  BY <1>3, <1>15 DEF z

-----------------------------------------------------------------------------
(* The invariant of a build                                                *)
-----------------------------------------------------------------------------

BotInv ==
  /\ export \in Exports /\ overlay \in Overlays /\ AtRow
  /\ pc \in {"labs", "rows", "overlay", "done", "failed"}
  /\ pc \in {"labs", "failed"} => account = NoAccount
  /\ pc \in {"labs", "rows", "failed"} => ids = NoAccount /\ left = {}
  /\ pc = "rows" => FromSheet(account, FlagsAbove(block, line), NamesAbove(block, line))
  /\ pc = "labs" => block = 1 /\ line = 0
  /\ pc \in {"overlay", "done"} =>
       /\ FromSheet(ids, Bot, Bot) /\ left \subseteq DOMAIN overlay.bots
       /\ Overlaid(account, DOMAIN overlay.bots \ left)
  /\ pc = "overlay" => account.mastery = None
  /\ pc = "done" => left = {} /\ account.mastery = Over(overlay.labs, export.labs)[Mastery]

LEMMA OverlaidNext ==
  ASSUME ids' = ids, overlay' = overlay, export' = export,
         Overlaid(account', DOMAIN overlay.bots \ left')
  PROVE  Overlaid(account, DOMAIN overlay.bots \ left)'
<1> DEFINE E == DOMAIN overlay.bots \ left'
<1>1. (DOMAIN overlay.bots \ left)' = E
  OBVIOUS
<1>2. \A n : SaysFlag(n)' = SaysFlag(n)
  BY DEF SaysFlag
<1>3. \A n : FlagOf(n, DOMAIN overlay.bots \ left)' = FlagOf(n, E)
  BY <1>2 DEF FlagOf
<1>4. TracksOf(DOMAIN overlay.bots \ left)' = TracksOf(E)
  BY DEF TracksOf
<1>5. \A n, t : ManualOf(n, t)' = ManualOf(n, t)
  BY DEF ManualOf
<1>6. Overlaid(account', E)
  OBVIOUS
<1> QED
  BY <1>2, <1>3, <1>4, <1>5, <1>6 DEF Overlaid

LEMMA BotInvInit == BuildInit => BotInv
BY Orders DEF BuildInit, BotInv, AtRow

LEMMA ReadLabsKeeps == BotInv /\ ReadLabs => BotInv'
<1> SUFFICES ASSUME BotInv, ReadLabs
             PROVE  BotInv'
  OBVIOUS
<1>1. /\ pc = "labs" /\ export' = export /\ overlay' = overlay /\ block' = block /\ line' = line
      /\ current' = current /\ left' = left /\ ids' = ids
      /\ account = NoAccount /\ ids = NoAccount /\ left = {} /\ block = 1 /\ line = 0
      /\ export \in Exports /\ overlay \in Overlays
  BY DEF ReadLabs, BotInv
<1>2. AtRow'
  BY <1>1 DEF BotInv, AtRow
<1>3. CASE overlay.found
  <2>1. pc' = "rows" /\ account' = [account EXCEPT !.labs = Over(overlay.labs, export.labs)]
    BY <1>3 DEF ReadLabs
  <2>2. /\ IsAccount(account') /\ account'.labs = Over(overlay.labs, export.labs)
        /\ account'.bots = {} /\ account'.unlocks = << >> /\ account'.upgrades = << >>
        /\ account'.tracks = << >> /\ account'.sources = {} /\ account'.mastery = None
    BY <1>1, <2>1, NewAccount DEF IsAccount
  <2>3. AccountOK(account')
    <3>1. DOMAIN account'.labs = Lab
      BY <1>1, <2>2, SelectedLabs
    <3> QED
      BY <2>2, <3>1, EmptyRecords DEF AccountOK, None
  <2>4. FlagsAbove(1, 0) = {} /\ NamesAbove(1, 0) = {}
    BY Orders DEF FlagsAbove, NamesAbove
  <2>5. FromSheet(account, FlagsAbove(block, line), NamesAbove(block, line))'
    BY <1>1, <2>2, <2>3, <2>4, EmptyRecords DEF FromSheet
  <2> QED
    BY <1>1, <1>2, <2>1, <2>5 DEF BotInv
<1>4. CASE ~ overlay.found
  <2>1. pc' = "failed" /\ account' = account
    BY <1>4 DEF ReadLabs
  <2> QED
    BY <1>1, <1>2, <2>1 DEF BotInv
<1> QED
  BY <1>3, <1>4

LEMMA ReadRowKeeps == BotInv /\ ReadRow => BotInv'
<1> SUFFICES ASSUME BotInv, ReadRow
             PROVE  BotInv'
  OBVIOUS
<1> DEFINE r == Section(export, block, line)
           b == BotOrder[block]
           now == IF r.name \in Flags \union {Blank} THEN current ELSE r.name
<1>1. /\ pc = "rows" /\ block <= Len(BotOrder)
      /\ current' = now /\ account' = Scanned(account, r, now)
      /\ pc' = pc /\ export' = export /\ overlay' = overlay /\ left' = left /\ ids' = ids
      /\ IF line <= Len(TrackOrder)
         THEN line' = line + 1 /\ block' = block
         ELSE line' = 1 /\ block' = block + 1
  BY DEF ReadRow
<1>2. /\ export \in Exports /\ overlay \in Overlays /\ ids = NoAccount /\ left = {}
      /\ FromSheet(account, FlagsAbove(block, line), NamesAbove(block, line))
  BY <1>1 DEF BotInv
<1>3. /\ block \in 1..Len(BotOrder) + 1 /\ line \in 0..Len(TrackOrder) + 1
      /\ line = 0 => block = 1
      /\ line > 1 => current = b
      /\ line <= 1 => current = IF block = 1 THEN Blank ELSE Plus
  BY DEF BotInv, AtRow
<1>4. b \in Bot /\ b \in Name /\ b \notin Flags \union {Blank, Plus}
  <2>1. b \in Bot
    BY <1>1, <1>3, Orders
  <2>2. b \in Name
    BY <2>1, Orders
  <2> HIDE DEF b
  <2> QED
    BY <2>1, <2>2, Orders DEF Flags
<1>5. export.flag[b] \in Flags
  BY <1>2, <1>4, InputsAssumption DEF Flags
<1>6. SUFFICES AtRow'
               /\ FromSheet(account, FlagsAbove(block, line), NamesAbove(block, line))'
  BY <1>1, <1>2 DEF BotInv
<1>7. SUFFICES AtRow'
               /\ FromSheet(account', FlagsAbove(block', line'), NamesAbove(block', line'))
  BY <1>1 DEF FromSheet
<1>11. /\ line <= Len(TrackOrder) =>
            /\ NamesAbove(block, line + 1) =
                 IF line = 1 THEN NamesAbove(block, line) \union {b} ELSE NamesAbove(block, line)
            /\ FlagsAbove(block, line + 1) =
                 IF line = Len(TrackOrder) THEN FlagsAbove(block, line) \union {b}
                 ELSE FlagsAbove(block, line)
       /\ line = Len(TrackOrder) + 1 =>
            /\ NamesAbove(block + 1, 1) = NamesAbove(block, line)
            /\ FlagsAbove(block + 1, 1) = FlagsAbove(block, line)
  BY <1>1, <1>3, AboveFacts
<1>8. CASE line = 0
  <2>1. r = Heading
    BY <1>8 DEF Section
  <2>2. r.name = Blank
    BY <2>1 DEF Heading, SheetRow
  <2>3. now = Blank
    BY <1>3, <1>8, <2>2
  <2>4. FromSheet(account', FlagsAbove(block, line), NamesAbove(block, line))
    <3>1. r.name \notin Flags /\ now # Plus /\ account' = Scanned(account, r, now)
      BY <1>1, <2>2, <2>3, Cells
    <3> HIDE DEF r, now, b
    <3> QED
      BY <1>2, <2>2, <2>3, <3>1, PlainRow
  <2>5. line' = 1 /\ block' = block /\ block = 1
    BY <1>1, <1>3, <1>8, Orders
  <2>6. /\ FlagsAbove(block', line') = FlagsAbove(block, line)
        /\ NamesAbove(block', line') = NamesAbove(block, line)
    BY <1>8, <1>11, <2>5, Orders
  <2>7. AtRow'
    BY <1>1, <1>3, <2>3, <2>5, Orders DEF AtRow
  <2> QED
    BY <2>4, <2>6, <2>7
<1>9. CASE line \in 1..Len(TrackOrder)
  <2> DEFINE t == TrackOrder[line]
  <2>1. r = TrackRow(export, b, line)
    BY <1>9, Orders DEF Section
  <2>2. /\ r.name = IF line = 1 THEN b ELSE IF line < Len(TrackOrder) THEN Blank ELSE export.flag[b]
        /\ r.attr = t
    BY <2>1 DEF TrackRow, SheetRow
  <2>3. t \in Track
    BY <1>9, Orders
  <2>4. now = b
    BY <1>3, <1>4, <1>5, <1>9, <2>2, Orders
  <2>5. line' = line + 1 /\ block' = block
    BY <1>1, <1>9, Orders
  <2>6. AtRow'
    BY <1>1, <1>3, <1>9, <2>4, <2>5, Orders DEF AtRow
  <2>7. CASE line = 1
    <3>1. r.name = b
      BY <2>2, <2>7
    <3>2. FromSheet(account', FlagsAbove(block, line), NamesAbove(block, line) \union {b})
      <4>1. /\ r.name \notin Flags /\ r.name \in Name \union {Blank, Plus} /\ r.name # Blank
            /\ <<now, r.attr>> \in (Name \X Track) \union { <<Plus, "Plus">> }
            /\ now \in Name \union {Blank} /\ now # Plus
        BY <1>4, <2>2, <2>3, <2>4, <3>1
      <4> HIDE DEF r, now
      <4> QED
        BY <1>1, <1>2, <3>1, <4>1, PlainRow
    <3>3. /\ FlagsAbove(block', line') = FlagsAbove(block, line)
          /\ NamesAbove(block', line') = NamesAbove(block, line) \union {b}
      BY <1>3, <1>9, <1>11, <2>5, <2>7, Orders
    <3> QED
      BY <2>6, <3>2, <3>3
  <2>8. CASE line > 1 /\ line < Len(TrackOrder)
    <3>1. r.name = Blank
      BY <2>2, <2>8
    <3>2. FromSheet(account', FlagsAbove(block, line), NamesAbove(block, line))
      <4>1. /\ r.name \notin Flags
            /\ <<now, r.attr>> \in (Name \X Track) \union { <<Plus, "Plus">> }
            /\ now \in Name \union {Blank} /\ now # Plus
        BY <1>4, <2>2, <2>3, <2>4, <3>1, Cells
      <4>2. account' = Scanned(account, r, now)
        BY <1>1
      <4> HIDE DEF r, now, b
      <4> QED
        BY <1>2, <3>1, <4>1, <4>2, PlainRow
    <3>3. /\ FlagsAbove(block', line') = FlagsAbove(block, line)
          /\ NamesAbove(block', line') = NamesAbove(block, line)
      BY <1>3, <1>9, <1>11, <2>5, <2>8, Orders
    <3> QED
      BY <2>6, <3>2, <3>3
  <2>9. CASE line = Len(TrackOrder)
    <3>1. r.name = export.flag[b] /\ current = b
      BY <1>3, <2>2, <2>9, Orders
    <3>2. FromSheet(account', FlagsAbove(block, line) \union {b}, NamesAbove(block, line))
      <4>1. r.name \in Flags /\ r.attr \in Track /\ account' = Scanned(account, r, b)
        BY <1>1, <1>5, <2>2, <2>3, <2>4, <3>1
      <4> HIDE DEF r, now
      <4> QED
        BY <1>2, <1>4, <3>1, <4>1, FlagRow
    <3>3. /\ FlagsAbove(block', line') = FlagsAbove(block, line) \union {b}
          /\ NamesAbove(block', line') = NamesAbove(block, line)
      BY <1>11, <2>5, <2>9, Orders
    <3> QED
      BY <2>6, <3>2, <3>3
  <2> QED
    BY <1>9, <2>7, <2>8, <2>9, Orders
<1>10. CASE line = Len(TrackOrder) + 1
  <2>1. r = PlusRow
    BY <1>10, Orders DEF Section
  <2>2. r.name = Plus /\ r.attr = "Plus" /\ r.level = None
    BY <2>1 DEF PlusRow, SheetRow
  <2>3. now = Plus
    BY <2>2, Cells
  <2>4. FromSheet(account', FlagsAbove(block, line), NamesAbove(block, line) \union {Plus})
    <3> HIDE DEF r, now
    <3> QED
      BY <1>1, <1>2, <2>2, <2>3, Cells, PlainRow
  <2>5. FromSheet(account', FlagsAbove(block, line), NamesAbove(block, line))
    BY <2>4 DEF FromSheet
  <2>6. line' = 1 /\ block' = block + 1
    BY <1>1, <1>10, Orders
  <2>7. /\ FlagsAbove(block', line') = FlagsAbove(block, line)
        /\ NamesAbove(block', line') = NamesAbove(block, line)
    BY <1>10, <1>11, <2>6
  <2>8. AtRow'
    BY <1>1, <1>3, <2>3, <2>6, Orders DEF AtRow
  <2> QED
    BY <2>5, <2>7, <2>8
<1> QED
  BY <1>3, <1>8, <1>9, <1>10, Orders

LEMMA SectionReadKeeps == BotInv /\ SectionRead => BotInv'
<1> SUFFICES ASSUME BotInv, SectionRead
             PROVE  BotInv'
  OBVIOUS
<1>1. /\ pc = "rows" /\ block > Len(BotOrder) /\ pc' = "overlay" /\ ids' = account
      /\ left' = DOMAIN overlay.bots /\ export' = export /\ overlay' = overlay
      /\ block' = block /\ line' = line /\ current' = current /\ account' = account
  BY DEF SectionRead
<1>2. /\ export \in Exports /\ overlay \in Overlays
      /\ FromSheet(account, FlagsAbove(block, line), NamesAbove(block, line))
      /\ block \in 1..Len(BotOrder) + 1 /\ line \in 0..Len(TrackOrder) + 1
  BY <1>1 DEF BotInv, AtRow
<1>3. FlagsAbove(block, line) = Bot /\ Bot \subseteq NamesAbove(block, line)
  <2>1. /\ FlagsAbove(block, line) \subseteq NamesAbove(block, line)
        /\ block > Len(BotOrder) => FlagsAbove(block, line) = Bot
    BY <1>2, AboveFacts
  <2> QED
    BY <1>1, <2>1
<1>4. FromSheet(account, Bot, Bot)
  BY <1>2, <1>3 DEF FromSheet
<1>5. FromSheet(ids, Bot, Bot)'
  BY <1>1, <1>4 DEF FromSheet
<1>6. Overlaid(ids, {})'
  BY <1>5, NothingApplied, PTL
<1>7. Overlaid(account, DOMAIN overlay.bots \ left)'
  <2>1. DOMAIN overlay'.bots \ left' = {}
    BY <1>1
  <2> QED
    BY <1>1, <1>6, <2>1 DEF Overlaid, TracksOf, FlagOf, SaysFlag, ManualOf
<1>8. AtRow'
  BY <1>1 DEF BotInv, AtRow
<1>9. account'.mastery = None
  BY <1>1, <1>4 DEF FromSheet
<1> QED
  BY <1>1, <1>2, <1>5, <1>7, <1>8, <1>9 DEF BotInv

LEMMA ApplyBotKeeps == BotInv /\ ApplyBot => BotInv'
<1> SUFFICES ASSUME BotInv, ApplyBot
             PROVE  BotInv'
  OBVIOUS
<1>1. PICK n \in left : account' = Patched(account, n, overlay.bots[n]) /\ left' = left \ {n}
  BY DEF ApplyBot
<1>2. /\ pc = "overlay" /\ pc' = pc /\ export' = export /\ overlay' = overlay
      /\ block' = block /\ line' = line /\ current' = current /\ ids' = ids
  BY DEF ApplyBot
<1> DEFINE D == DOMAIN overlay.bots \ left
<1>3. /\ export \in Exports /\ overlay \in Overlays /\ FromSheet(ids, Bot, Bot)
      /\ left \subseteq DOMAIN overlay.bots /\ Overlaid(account, D) /\ account.mastery = None
  BY <1>2 DEF BotInv
<1>4. /\ Overlaid(account', D \union {n}) /\ account'.mastery = account.mastery
  <2>1. D \subseteq DOMAIN overlay.bots /\ n \in DOMAIN overlay.bots /\ n \notin D
    BY <1>1, <1>3
  <2> HIDE DEF D
  <2> QED
    BY <1>1, <1>3, <2>1, PatchApplied
<1>5. DOMAIN overlay.bots \ left' = D \union {n}
  BY <1>1, <1>3
<1>6. Overlaid(account, DOMAIN overlay.bots \ left)'
  <2>1. Overlaid(account', DOMAIN overlay.bots \ left')
    BY <1>4, <1>5
  <2> QED
    BY <1>2, <2>1, OverlaidNext
<1>7. FromSheet(ids, Bot, Bot)'
  BY <1>2, <1>3 DEF FromSheet
<1>8. AtRow'
  BY <1>2 DEF BotInv, AtRow
<1> QED
  BY <1>1, <1>2, <1>3, <1>4, <1>6, <1>7, <1>8 DEF BotInv

LEMMA ReadCardsKeeps == BotInv /\ ReadCards => BotInv'
<1> SUFFICES ASSUME BotInv, ReadCards
             PROVE  BotInv'
  OBVIOUS
<1> DEFINE m == account.labs[Mastery]
<1>1. /\ pc = "overlay" /\ left = {} /\ pc' = "done" /\ account' = [account EXCEPT !.mastery = m]
      /\ export' = export /\ overlay' = overlay /\ left' = left
      /\ block' = block /\ line' = line /\ current' = current /\ ids' = ids
  BY DEF ReadCards
<1> DEFINE D == DOMAIN overlay.bots \ left
<1>2. /\ export \in Exports /\ overlay \in Overlays /\ FromSheet(ids, Bot, Bot)
      /\ left \subseteq DOMAIN overlay.bots /\ Overlaid(account, D)
  BY <1>1 DEF BotInv
<1>3. /\ IsAccount(account') /\ account'.labs = account.labs /\ account'.bots = account.bots
      /\ account'.unlocks = account.unlocks /\ account'.upgrades = account.upgrades
      /\ account'.tracks = account.tracks /\ account'.sources = account.sources
      /\ account'.mastery = m
  BY <1>1, <1>2 DEF Overlaid, IsAccount
<1>4. m = Over(overlay.labs, export.labs)[Mastery] /\ m \in Int
  <2>1. account.labs = Over(overlay.labs, export.labs)
    BY <1>2 DEF Overlaid, FromSheet
  <2>2. Mastery \in Lab
    BY DEF Lab
  <2> QED
    BY <1>2, <2>1, <2>2, SelectedLabs
<1>5. AccountOK(account')
  <2>1. AccountOK(account)
    BY <1>2 DEF Overlaid
  <2> QED
    BY <1>3, <1>4, <2>1 DEF AccountOK
<1>6. Overlaid(account, DOMAIN overlay.bots \ left)'
  <2>1. Overlaid(account', D)
    BY <1>2, <1>3, <1>5 DEF Overlaid
  <2>2. Overlaid(account', DOMAIN overlay.bots \ left')
    BY <1>1, <2>1
  <2> QED
    BY <1>1, <2>2, OverlaidNext
<1>7. FromSheet(ids, Bot, Bot)'
  BY <1>1, <1>2 DEF FromSheet
<1>8. AtRow'
  BY <1>1 DEF BotInv, AtRow
<1> QED
  BY <1>1, <1>2, <1>3, <1>4, <1>6, <1>7, <1>8 DEF BotInv

LEMMA BuildStutterKeeps == BotInv /\ UNCHANGED buildVars => BotInv'
<1> SUFFICES ASSUME BotInv, UNCHANGED buildVars
             PROVE  BotInv'
  OBVIOUS
<1>1. /\ pc' = pc /\ export' = export /\ overlay' = overlay /\ block' = block /\ line' = line
      /\ current' = current /\ left' = left /\ account' = account /\ ids' = ids
  BY DEF buildVars
<1>2. AtRow' = AtRow
  BY <1>1 DEF AtRow
<1>3. pc = "rows" =>
        FromSheet(account, FlagsAbove(block, line), NamesAbove(block, line))'
  <2>1. ASSUME pc = "rows"
        PROVE  FromSheet(account, FlagsAbove(block, line), NamesAbove(block, line))
    BY <2>1 DEF BotInv
  <2> QED
    BY <1>1, <2>1 DEF FromSheet, FlagsAbove, NamesAbove
<1>4. pc \in {"overlay", "done"} => FromSheet(ids, Bot, Bot)'
  BY <1>1 DEF BotInv, FromSheet
<1>5. pc \in {"overlay", "done"} => Overlaid(account, DOMAIN overlay.bots \ left)'
  <2>1. ASSUME pc \in {"overlay", "done"}
        PROVE  Overlaid(account, DOMAIN overlay.bots \ left)
    BY <2>1 DEF BotInv
  <2> QED
    BY <1>1, <2>1, OverlaidNext
<1> QED
  BY <1>1, <1>2, <1>3, <1>4, <1>5 DEF BotInv

LEMMA BotInvHolds == BuildSpec => []BotInv
<1>1. BotInv /\ [BuildNext]_buildVars => BotInv'
  BY ReadLabsKeeps, ReadRowKeeps, SectionReadKeeps, ApplyBotKeeps, ReadCardsKeeps,
     BuildStutterKeeps DEF BuildNext
<1> QED
  BY <1>1, BotInvInit, PTL DEF BuildSpec

-----------------------------------------------------------------------------
(* What the surfaces show                                                  *)
-----------------------------------------------------------------------------

LEMMA OwnedByName ==
  ASSUME NEW a, NEW b \in Bot
  PROVE  Owned(a, b) <=> b \in Listed(a)
<1>1. b \in Name /\ Slug[b] = b
  BY NamesAssumption DEF Name
<1>2. \A n \in Name : n \notin Short => n \in Bot /\ Slug[n] = n
  BY NamesAssumption DEF Name
<1> QED
  BY <1>1, <1>2 DEF Owned, OwnershipRow

LEMMA OwnedByFlag ==
  ASSUME NEW a
  PROVE  /\ \A n : TrackOwned(a, n) <=> n \in Listed(a)
         /\ \A n \in DOMAIN a.unlocks : n \in Listed(a) <=> a.unlocks[n] = TRUE
BY DEF TrackOwned, Listed

(* What is known at the end of a build.                                    *)
LEMMA BuiltFacts ==
  ASSUME BotInv, pc = "done"
  PROVE  /\ export \in Exports /\ overlay \in Overlays
         /\ FromSheet(ids, Bot, Bot) /\ Overlaid(account, DOMAIN overlay.bots)
         /\ account.mastery = Over(overlay.labs, export.labs)[Mastery]
<1>1. left = {} /\ Overlaid(account, DOMAIN overlay.bots \ left)
  BY DEF BotInv
<1>2. DOMAIN overlay.bots \ left = DOMAIN overlay.bots
  BY <1>1
<1> QED
  BY <1>1, <1>2 DEF BotInv

(* A bot is owned as its flag says, on the surface and on its track rows.  *)
LEMMA OwnedBuilt ==
  ASSUME BotInv, pc = "done", NEW b \in Bot
  PROVE  /\ Owned(account, b) <=> FlagOf(b, DOMAIN overlay.bots)
         /\ TrackOwned(account, b) <=> Owned(account, b)
         /\ Owned(ids, b) <=> export.flag[b] = "true"
         /\ TrackOwned(ids, b) <=> Owned(ids, b)
<1>1. /\ b \in DOMAIN account.unlocks /\ account.unlocks[b] = FlagOf(b, DOMAIN overlay.bots)
      /\ b \in DOMAIN ids.unlocks /\ ids.unlocks[b] = (export.flag[b] = "true")
  BY BuiltFacts DEF Overlaid, FromSheet
<1>2. b \in Listed(account) <=> FlagOf(b, DOMAIN overlay.bots)
  BY <1>1 DEF Listed
<1>3. b \in Listed(ids) <=> export.flag[b] = "true"
  BY <1>1 DEF Listed
<1> QED
  BY <1>2, <1>3, OwnedByName, OwnedByFlag, Zenon

(* Only the overlay states an effective range.                             *)
LEMMA EffectiveBuilt ==
  ASSUME BotInv, pc = "done"
  PROVE  /\ \A n, t : IsEffective(account, n, t) => <<n, t>> \in TracksOf(DOMAIN overlay.bots)
         /\ \A n, t : ~ IsEffective(ids, n, t)
         /\ \A n \in Name : IsEffective(account, n, RangeTrack) <=> StatesRange(n)
         /\ \A n \in Name : StatesRange(n) =>
              account.tracks[<<n, RangeTrack>>].value = overlay.bots[n].tracks[RangeTrack].value
<1>1. \A n, t : ~ IsEffective(ids, n, t)
  BY BuiltFacts DEF IsEffective, FromSheet
<1>2. ASSUME NEW n, NEW t, IsEffective(account, n, t)
      PROVE  <<n, t>> \in TracksOf(DOMAIN overlay.bots)
  <2>1. <<n, t>> \in DOMAIN account.tracks /\ account.tracks[<<n, t>>].manual
    BY <1>2 DEF IsEffective
  <2>2. SUFFICES ASSUME <<n, t>> \notin TracksOf(DOMAIN overlay.bots)
                 PROVE  FALSE
    OBVIOUS
  <2>3. <<n, t>> \in DOMAIN ids.tracks /\ account.tracks[<<n, t>>] = ids.tracks[<<n, t>>]
    BY <2>1, <2>2, BuiltFacts DEF Overlaid
  <2> QED
    BY <2>1, <2>3, BuiltFacts DEF FromSheet
<1>3. ASSUME NEW n \in Name, IsEffective(account, n, RangeTrack)
      PROVE  StatesRange(n)
  <2>1. n \in DOMAIN overlay.bots /\ RangeTrack \in Stated(overlay.bots[n])
    BY <1>2, <1>3 DEF TracksOf
  <2>2. account.tracks[<<n, RangeTrack>>] = ManualOf(n, RangeTrack)
    BY <2>1, BuiltFacts DEF Overlaid
  <2>3. /\ overlay.bots[n].tracks[RangeTrack].effective
        /\ overlay.bots[n].tracks[RangeTrack].value # None
    BY <1>3, <2>2 DEF IsEffective, ManualOf, Snapshot
  <2> QED
    BY <2>1, <2>3 DEF StatesRange, Named, Stated
<1>4. ASSUME NEW n \in Name, StatesRange(n)
      PROVE  /\ IsEffective(account, n, RangeTrack)
             /\ account.tracks[<<n, RangeTrack>>].value = overlay.bots[n].tracks[RangeTrack].value
  <2>1. /\ n \in DOMAIN overlay.bots /\ RangeTrack \in Stated(overlay.bots[n])
        /\ overlay.bots[n].tracks[RangeTrack].effective
        /\ overlay.bots[n].tracks[RangeTrack].value # None
    BY <1>4 DEF StatesRange, Named, Stated
  <2>2. account.tracks[<<n, RangeTrack>>] = ManualOf(n, RangeTrack)
    BY <2>1, BuiltFacts DEF Overlaid
  <2>3. <<n, RangeTrack>> \in TracksOf(DOMAIN overlay.bots)
    BY <2>1, NamesAssumption DEF TracksOf
  <2>4. <<n, RangeTrack>> \in DOMAIN account.tracks
    BY <2>3, BuiltFacts DEF Overlaid
  <2> QED
    BY <2>1, <2>2, <2>4 DEF IsEffective, ManualOf, Snapshot
<1> QED
  BY <1>1, <1>2, <1>3, <1>4

(* A spelling that is no bot's name is owned if the overlay unlocks it.    *)
LEMMA ShortOwned ==
  ASSUME BotInv, pc = "done", NEW b \in Bot, NEW n \in ShortRanges(b)
  PROVE  TrackOwned(account, n) <=> overlay.bots[n].unlocked = "true"
<1>1. n \notin Bot /\ n \in DOMAIN overlay.bots
  BY NamesAssumption DEF ShortRanges, StatesRange, Named
<1>2. /\ DOMAIN account.unlocks = Bot \union { m \in DOMAIN overlay.bots : SaysFlag(m) }
      /\ \A m \in DOMAIN account.unlocks : account.unlocks[m] = FlagOf(m, DOMAIN overlay.bots)
  BY BuiltFacts DEF Overlaid
<1>3. n \in DOMAIN account.unlocks <=> SaysFlag(n)
  BY <1>1, <1>2
<1>4. DOMAIN account.unlocks # {}
  BY <1>2
<1>5. SaysFlag(n) => account.unlocks[n] = (overlay.bots[n].unlocked = "true")
  BY <1>1, <1>2, <1>3 DEF FlagOf
<1>6. overlay.bots[n].unlocked = "true" => SaysFlag(n)
  BY DEF SaysFlag, Flags
<1> QED
  BY <1>3, <1>4, <1>5, <1>6 DEF TrackOwned

(* What is stated of the effective range of a bot, and what of it counts.  *)
LEMMA RangesBuilt ==
  ASSUME BotInv, pc = "done", NEW b \in Bot
  PROVE  /\ StatedUnder(ids, b) = {}
         /\ StatedUnder(account, b) = (IF StatesRange(b) THEN {b} ELSE {}) \union ShortRanges(b)
         /\ { <<n, account.tracks[<<n, RangeTrack>>].value>> :
                n \in { m \in StatedUnder(account, b) : TrackOwned(account, m) } } =
              (IF StatesRange(b) /\ TrackOwned(account, b)
               THEN { <<b, overlay.bots[b].tracks[RangeTrack].value>> } ELSE {})
                \union UnlockedShortRanges(b)
<1> DEFINE S == StatedUnder(account, b)
           seen(n) == <<n, account.tracks[<<n, RangeTrack>>].value>>
           said(n) == <<n, overlay.bots[n].tracks[RangeTrack].value>>
<1>1. StatedUnder(ids, b) = {}
  BY EffectiveBuilt DEF StatedUnder
<1>2. b \in Name /\ Slug[b] = b
  BY NamesAssumption DEF Name
<1>3. S = (IF StatesRange(b) THEN {b} ELSE {}) \union ShortRanges(b)
  BY <1>2, EffectiveBuilt DEF StatedUnder, ShortRanges
<1>4. \A n \in S : seen(n) = said(n)
  <2> SUFFICES ASSUME NEW n \in S
               PROVE  seen(n) = said(n)
    OBVIOUS
  <2>1. n \in Name /\ StatesRange(n)
    BY EffectiveBuilt DEF StatedUnder
  <2> QED
    BY <2>1, EffectiveBuilt
<1>5. { m \in S : TrackOwned(account, m) } =
        (IF StatesRange(b) /\ TrackOwned(account, b) THEN {b} ELSE {})
          \union { m \in ShortRanges(b) : overlay.bots[m].unlocked = "true" }
  <2>1. b \notin ShortRanges(b)
    BY DEF ShortRanges
  <2>2. \A m \in ShortRanges(b) : TrackOwned(account, m) <=> overlay.bots[m].unlocked = "true"
    BY ShortOwned
  <2> HIDE DEF S
  <2> QED
    BY <1>3, <2>1, <2>2
<1>6. { seen(n) : n \in { m \in S : TrackOwned(account, m) } } =
        { said(n) : n \in { m \in S : TrackOwned(account, m) } }
  <2> HIDE DEF S, seen, said
  <2> QED
    BY <1>4
<1>7. { said(n) : n \in { m \in S : TrackOwned(account, m) } } =
        (IF StatesRange(b) /\ TrackOwned(account, b) THEN { said(b) } ELSE {})
          \union { said(n) : n \in { m \in ShortRanges(b) : overlay.bots[m].unlocked = "true" } }
  <2> DEFINE U == { m \in ShortRanges(b) : overlay.bots[m].unlocked = "true" }
             O == { m \in S : TrackOwned(account, m) }
  <2>1. O = (IF StatesRange(b) /\ TrackOwned(account, b) THEN {b} ELSE {}) \union U
    BY <1>5
  <2> HIDE DEF U, O, said
  <2>2. { said(n) : n \in O } =
          (IF StatesRange(b) /\ TrackOwned(account, b) THEN { said(b) } ELSE {})
            \union { said(n) : n \in U }
    BY <2>1
  <2> QED
    BY <2>2 DEF U, O
<1> QED
  BY <1>1, <1>3, <1>6, <1>7 DEF UnlockedShortRanges

LEMMA OwnedAsStatedIsSo == BotInv => OwnedAsStated
<1> SUFFICES ASSUME BotInv, pc = "done", NEW b \in Bot
             PROVE  Owned(account, b) =
                      (IF Named(b) /\ overlay.bots[b].unlocked \in Flags
                       THEN overlay.bots[b].unlocked = "true" ELSE export.flag[b] = "true")
  BY DEF OwnedAsStated, Done
<1>1. Owned(account, b) \in BOOLEAN
  BY DEF Owned
<1> QED
  BY <1>1, OwnedBuilt, Zenon DEF FlagOf, SaysFlag, Named

LEMMA LockedLeaksIsSo == BotInv => LockedLeaksOnlyShorts
<1> SUFFICES ASSUME BotInv, pc = "done", NEW b \in Bot, NEW gated \in BOOLEAN, ~ Owned(account, b)
             PROVE  /\ EffectiveRange(account, b, gated) =
                          IF gated THEN {} ELSE UnlockedShortRanges(b)
                    /\ \A t \in Track :
                         HasTrackRow(account, b, t) => Surface(account, b, t, gated) = NoSurface
  BY DEF LockedLeaksOnlyShorts, Done
<1>1. ~ TrackOwned(account, b)
  BY OwnedBuilt
<1>2. /\ StatedUnder(account, b) = {} => UnlockedShortRanges(b) = {}
      /\ { <<n, account.tracks[<<n, RangeTrack>>].value>> :
             n \in { m \in StatedUnder(account, b) : TrackOwned(account, m) } } =
           UnlockedShortRanges(b)
  BY <1>1, RangesBuilt
<1>3. EffectiveRange(account, b, gated) = IF gated THEN {} ELSE UnlockedShortRanges(b)
  BY <1>2 DEF EffectiveRange
<1> QED
  BY <1>1, <1>3 DEF Surface

LEMMA StatedShowsIsSo == BotInv => StatedShows
<1> SUFFICES ASSUME BotInv, pc = "done", NEW b \in Bot, Named(b), Owned(account, b),
                    NEW t \in Stated(overlay.bots[b]), NEW gated \in BOOLEAN
             PROVE  LET p == overlay.bots[b].tracks[t]
                        s == Surface(account, b, t, gated) IN
                    IF p.value = None THEN s.track = <<"level", p.level>>
                    ELSE IF p.effective /\ t = RangeTrack
                         THEN EffectiveRange(account, b, gated) =
                                { <<b, p.value>> } \union UnlockedShortRanges(b)
                         ELSE s.track = <<"value", p.value>> /\ s.labs = {}
  BY DEF StatedShows, Done
<1> DEFINE p == overlay.bots[b].tracks[t]
           s == Surface(account, b, t, gated)
           x == account.tracks[<<b, t>>]
<1>1. /\ b \in DOMAIN overlay.bots /\ <<b, t>> \in TracksOf(DOMAIN overlay.bots)
      /\ b \in Name /\ t \in Track
  BY BuiltFacts, OverlayTypes, Orders DEF Named, TracksOf
<1>2. <<b, t>> \in DOMAIN account.tracks /\ x = ManualOf(b, t)
      /\ <<b, t>> \in account.sources
  BY <1>1, BuiltFacts DEF Overlaid
<1>3. x.level = p.level /\ x.value = p.value /\ x.manual /\ x.effective = p.effective
  BY <1>2 DEF ManualOf, Snapshot
<1>4. p.level # None \/ p.value # None
  BY DEF Stated
<1>5. TrackOwned(account, b)
  BY OwnedBuilt
<1>6. IsEffective(account, b, t) <=> t = RangeTrack /\ p.effective /\ p.value # None
  BY <1>2, <1>3 DEF IsEffective
<1>7. LabDelta(account, b, t) = {}
  BY <1>2 DEF LabDelta
<1>8. ASSUME HasTrackRow(account, b, t)
      PROVE  s.track = TrackValue(x) /\ s.labs = {}
  BY <1>5, <1>7, <1>8 DEF Surface
<1> HIDE DEF s, x
<1>9. CASE p.value = None
  <2>1. HasTrackRow(account, b, t)
    BY <1>2, <1>6, <1>9 DEF HasTrackRow
  <2>2. TrackValue(x) = <<"level", p.level>>
    BY <1>3, <1>4, <1>9 DEF TrackValue
  <2> QED
    BY <1>8, <1>9, <2>1, <2>2 DEF s
<1>10. CASE p.value # None /\ p.effective /\ t = RangeTrack
  <2>1. StatesRange(b)
    BY <1>1, <1>10, EffectiveBuilt, <1>6
  <2>2. { <<n, account.tracks[<<n, RangeTrack>>].value>> :
           n \in { m \in StatedUnder(account, b) : TrackOwned(account, m) } } =
          { <<b, overlay.bots[b].tracks[RangeTrack].value>> } \union UnlockedShortRanges(b)
    BY <1>5, <2>1, RangesBuilt
  <2>3. StatedUnder(account, b) # {}
    BY <2>1, RangesBuilt
  <2>4. EffectiveRange(account, b, gated) =
          { <<b, overlay.bots[b].tracks[RangeTrack].value>> } \union UnlockedShortRanges(b)
    BY <2>2, <2>3 DEF EffectiveRange
  <2> QED
    BY <1>10, <2>4
<1>11. CASE p.value # None /\ ~ (p.effective /\ t = RangeTrack)
  <2>1. HasTrackRow(account, b, t)
    BY <1>2, <1>6, <1>11 DEF HasTrackRow
  <2>2. TrackValue(x) = <<"value", p.value>>
    BY <1>3, <1>11 DEF TrackValue
  <2> QED
    BY <1>8, <1>11, <2>1, <2>2 DEF s
<1> QED
  BY <1>9, <1>10, <1>11

LEMMA OverlayIsLocalIsSo == BotInv => OverlayIsLocal
<1> DEFINE ranged(b, gated) ==
             [Surfaces(ids, b, gated) EXCEPT
                !.range = IF ShortRanges(b) = {} THEN @
                          ELSE IF gated /\ ~ Owned(account, b) THEN {} ELSE UnlockedShortRanges(b)]
<1> SUFFICES ASSUME BotInv, pc = "done", NEW b \in Bot, NEW gated \in BOOLEAN
             PROVE  /\ ~ Named(b) => Surfaces(account, b, gated) = ranged(b, gated)
                    /\ Named(b) /\ Owned(account, b) = Owned(ids, b) =>
                         \A t \in Track \ Stated(overlay.bots[b]) :
                           Surface(account, b, t, gated) = Surface(ids, b, t, gated)
  BY DEF OverlayIsLocal, Done
<1> DEFINE T == TracksOf(DOMAIN overlay.bots)
<1>1. account.labs = ids.labs /\ account.sources = T /\ ids.sources = {}
      /\ DOMAIN account.tracks = DOMAIN ids.tracks \union T
      /\ \A k \in DOMAIN ids.tracks : k \notin T => account.tracks[k] = ids.tracks[k]
  BY BuiltFacts DEF Overlaid, FromSheet
<1> HIDE DEF T
<1>2. ASSUME NEW t, <<b, t>> \notin T, Owned(account, b) = Owned(ids, b)
      PROVE  Surface(account, b, t, gated) = Surface(ids, b, t, gated)
  <2>1. TrackOwned(account, b) <=> TrackOwned(ids, b)
    BY <1>2, OwnedBuilt
  <2>2. ~ IsEffective(account, b, t) /\ ~ IsEffective(ids, b, t)
    BY <1>2, EffectiveBuilt DEF T
  <2>3. HasTrackRow(account, b, t) <=> HasTrackRow(ids, b, t)
    BY <1>1, <1>2, <2>2 DEF HasTrackRow
  <2>4. HasTrackRow(account, b, t) => account.tracks[<<b, t>>] = ids.tracks[<<b, t>>]
    BY <1>1, <1>2 DEF HasTrackRow
  <2>5. LabDelta(account, b, t) = LabDelta(ids, b, t)
    BY <1>1, <1>2 DEF LabDelta
  <2> QED
    BY <1>2, <2>1, <2>3, <2>4, <2>5 DEF Surface
<1>3. ASSUME ~ Named(b)
      PROVE  Surfaces(account, b, gated) = ranged(b, gated)
  <2>1. \A t : <<b, t>> \notin T
    BY <1>3 DEF Named, TracksOf, T
  <2>2. Owned(account, b) = Owned(ids, b)
    <3>1. Owned(account, b) <=> Owned(ids, b)
      BY <1>3, OwnedBuilt, Zenon DEF FlagOf, Named
    <3>2. Owned(account, b) \in BOOLEAN /\ Owned(ids, b) \in BOOLEAN
      BY DEF Owned
    <3> QED
      BY <3>1, <3>2
  <2>3. /\ StatedUnder(ids, b) = {} /\ StatedUnder(account, b) = ShortRanges(b)
        /\ { <<n, account.tracks[<<n, RangeTrack>>].value>> :
               n \in { m \in StatedUnder(account, b) : TrackOwned(account, m) } } =
             UnlockedShortRanges(b)
    <3>1. ~ StatesRange(b)
      BY <1>3 DEF StatesRange
    <3> QED
      BY <3>1, RangesBuilt
  <2>4. EffectiveRange(account, b, gated) =
          IF ShortRanges(b) = {} THEN EffectiveRange(ids, b, gated)
          ELSE IF gated /\ ~ Owned(account, b) THEN {} ELSE UnlockedShortRanges(b)
    BY <2>2, <2>3 DEF EffectiveRange
  <2>5. \A t \in Track : Surface(account, b, t, gated) = Surface(ids, b, t, gated)
    BY <1>2, <2>1, <2>2
  <2>6. [t \in Track |-> Surface(account, b, t, gated)] = [t \in Track |-> Surface(ids, b, t, gated)]
    BY <2>5
  <2>7. ranged(b, gated) =
          [owned |-> Owned(ids, b),
           range |-> IF ShortRanges(b) = {} THEN EffectiveRange(ids, b, gated)
                     ELSE IF gated /\ ~ Owned(account, b) THEN {} ELSE UnlockedShortRanges(b),
           tracks |-> [t \in Track |-> Surface(ids, b, t, gated)]]
    <3> DEFINE o == Owned(ids, b)
               r == EffectiveRange(ids, b, gated)
               f == [t \in Track |-> Surface(ids, b, t, gated)]
               stated == IF gated /\ ~ Owned(account, b) THEN {} ELSE UnlockedShortRanges(b)
    <3>1. Surfaces(ids, b, gated) = [owned |-> o, range |-> r, tracks |-> f]
      BY DEF Surfaces
    <3>2. ranged(b, gated) =
            [[owned |-> o, range |-> r, tracks |-> f] EXCEPT
               !.range = IF ShortRanges(b) = {} THEN @ ELSE stated]
      BY <3>1
    <3> HIDE DEF o, r, f, stated, ranged
    <3>3. ranged(b, gated) =
            [owned |-> o, range |-> IF ShortRanges(b) = {} THEN r ELSE stated, tracks |-> f]
      BY <3>2
    <3> QED
      BY <3>3 DEF o, r, f, stated
  <2> QED
    BY <2>2, <2>4, <2>6, <2>7 DEF Surfaces
<1>4. ASSUME Named(b), Owned(account, b) = Owned(ids, b), NEW t \in Track \ Stated(overlay.bots[b])
      PROVE  Surface(account, b, t, gated) = Surface(ids, b, t, gated)
  <2>1. <<b, t>> \notin T
    BY <1>4 DEF TracksOf, T
  <2> QED
    BY <1>2, <1>4, <2>1
<1> QED
  BY <1>3, <1>4

LEMMA RestIsSo == BotInv => BuildTypeOK /\ MasteryFollowsLab /\ UnlockedIsListed
<1> SUFFICES ASSUME BotInv
             PROVE  BuildTypeOK /\ MasteryFollowsLab /\ UnlockedIsListed
  OBVIOUS
<1>1. MasteryFollowsLab
  BY BuiltFacts DEF MasteryFollowsLab, Done
<1>2. pc \in {"labs", "failed"} => account = NoAccount /\ ids = NoAccount
  BY DEF BotInv
<1>3. pc = "rows" =>
        /\ ids = NoAccount /\ IsAccount(account) /\ AccountOK(account)
        /\ \A n \in DOMAIN account.unlocks : n \in account.bots
  <2> SUFFICES ASSUME pc = "rows"
               PROVE  /\ ids = NoAccount /\ IsAccount(account) /\ AccountOK(account)
                      /\ \A n \in DOMAIN account.unlocks : n \in account.bots
    OBVIOUS
  <2>1. /\ ids = NoAccount /\ FromSheet(account, FlagsAbove(block, line), NamesAbove(block, line))
        /\ block \in 1..Len(BotOrder) + 1 /\ line \in 0..Len(TrackOrder) + 1
    BY DEF BotInv, AtRow
  <2>2. FlagsAbove(block, line) \subseteq NamesAbove(block, line)
    BY <2>1, AboveFacts
  <2> QED
    BY <2>1, <2>2 DEF FromSheet
<1>4. pc \in {"overlay", "done"} =>
        /\ AccountOK(account) /\ AccountOK(ids)
        /\ \A n \in DOMAIN account.unlocks : account.unlocks[n] => n \in account.bots
  BY DEF BotInv, Overlaid, FromSheet
<1>5. pc \in {"labs", "rows", "overlay", "done", "failed"}
  BY DEF BotInv
<1>6. AccountOK(account) /\ AccountOK(ids)
  BY <1>2, <1>3, <1>4, <1>5, NewAccount
<1>7. UnlockedIsListed
  <2>1. DOMAIN NoAccount.unlocks = {}
    BY NewAccount, EmptyRecords
  <2> QED
    BY <1>2, <1>3, <1>4, <1>5, <2>1 DEF UnlockedIsListed
<1>8. /\ block \in 1..Len(BotOrder) + 1 /\ line \in 0..Len(TrackOrder) + 1
      /\ current \in Bot \union {Blank, Plus}
  BY Orders DEF BotInv, AtRow
<1>9. left \subseteq Name
  <2>1. pc \in {"overlay", "done"} => left \subseteq DOMAIN overlay.bots /\ overlay \in Overlays
    BY DEF BotInv
  <2>2. pc \in {"labs", "rows", "failed"} => left = {}
    BY DEF BotInv
  <2> QED
    BY <1>5, <2>1, <2>2, OverlayTypes
<1> QED
  BY <1>1, <1>5, <1>6, <1>7, <1>8, <1>9 DEF BuildTypeOK

(* The compiled surfaces say what the overlay says of a bot, and what the  *)
(* import says where the overlay is silent, for any number of bots and     *)
(* tracks and in whatever order the patches are applied                    *)
(* (_apply_manual_bot_overrides, compile_stat_inputs).                     *)
THEOREM OverlayAlwaysShows == BuildSpec => []OverlayShows
<1>1. BotInv => OverlayShows
  BY OwnedAsStatedIsSo, StatedShowsIsSo, OverlayIsLocalIsSo, RestIsSo DEF OverlayShows
<1> QED
  BY <1>1, BotInvHolds, PTL

(* Nothing of a locked bot counts, whichever surface is resolved first,    *)
(* but an effective range under another spelling that the overlay unlocks, *)
(* and that only when the gate does not come first (_resolve_bucket,       *)
(* _publish_effective_bot_ranges).                                         *)
THEOREM LockedAlwaysLeaksOnlyShorts == BuildSpec => []LockedLeaksOnlyShorts
BY LockedLeaksIsSo, BotInvHolds, PTL

=============================================================================
