----------------------- MODULE ProgressRecorderProofs -----------------------
(***************************************************************************)
(* Proofs about ProgressRecorder, for every set of processes, identities,  *)
(* contents and destinations.                                              *)
(***************************************************************************)
EXTENDS ProgressRecorder, FiniteSetTheorems, TLAPS

(* TypeOK becomes inductive once the local state of a call is tied to its
   program counter and the ledger is known to stay finite (its rowid is one
   more than the number of its rows). *)
RecordedIds == {id \in Ids : Recorded(id)}
LocalsTyped ==
    \A p \in Procs :
        /\ pc[p] = "committed" => request[p] \in Requests
        /\ pc[p] = "projected" => projected[p] \in Projections
Typing ==
    /\ TypeOK
    /\ IsFiniteSet(RecordedIds)
    /\ LocalsTyped

\* Callers ask for sets of destinations.
LEMMA AskedForDestinations == \A c \in Contents : DeliverySets[c] \subseteq SUBSET Destinations
BY DeliverySetsAssumption

(* An insertion adds one row to the ledger, any other step none. *)
LEMMA FiniteInsert ==
    ASSUME NEW id \in Ids, NEW c, IsFiniteSet(RecordedIds), TypeOK,
           checkpoints' = [checkpoints EXCEPT ![id] = c]
    PROVE  IsFiniteSet(RecordedIds')
<1>1. RecordedIds' \subseteq RecordedIds \cup {id}
  BY DEF RecordedIds, Recorded, TypeOK
<1>2. IsFiniteSet(RecordedIds \cup {id})
  BY FS_AddElement
<1> QED BY <1>1, <1>2, FS_Subset

\* The rowid of an inserted row is a number.
LEMMA NextRowidIsNat ==
    ASSUME IsFiniteSet(RecordedIds) PROVE NextRowid \in Nat
<1>1. Cardinality(RecordedIds) \in Nat
  BY FS_CardinalityType
<1> QED BY <1>1 DEF NextRowid, RecordedIds

\* A step that inserts no checkpoint leaves the ledger's rows alone.
LEMMA FiniteOtherwise ==
    ASSUME IsFiniteSet(RecordedIds), UNCHANGED checkpoints PROVE IsFiniteSet(RecordedIds')
BY DEF RecordedIds, Recorded

\* The initial state is typed.
LEMMA InitTypes == Init => Typing
<1> SUFFICES ASSUME Init PROVE Typing
  OBVIOUS
<1>1. TypeOK
  BY DEF Init, TypeOK, Rows, Outcomes
<1>2. RecordedIds = {}
  BY DEF Init, RecordedIds, Recorded
<1>3. LocalsTyped
  BY DEF Init, LocalsTyped
<1> QED BY <1>1, <1>2, <1>3, FS_EmptySet DEF Typing

\* Every step keeps the types: one case per action.
LEMMA StepTypes == Typing /\ [Next]_vars => Typing'
<1> SUFFICES ASSUME Typing, [Next]_vars PROVE Typing'
  OBVIOUS
<1> USE DEF Typing
<1>1. ASSUME NEW p \in Procs, NEW id \in Ids, NEW c \in Contents, NEW ds \in SUBSET Destinations,
             InsertCheckpoint(p, id, c, ds)
      PROVE Typing'
  <2>1. TypeOK'
    <3>1. checkpoints' \in [Ids -> Contents \cup {NoContent}] /\ rowid' \in [Ids -> Nat]
      BY <1>1, NextRowidIsNat DEF InsertCheckpoint, TypeOK
    <3>2. deliveries' \in [Rows -> {"absent", "pending"} \cup Outcomes]
      BY <1>1 DEF InsertCheckpoint, TypeOK, Rows, Outcomes
    <3>3. pc' \in [Procs -> {"idle", "committed", "syncing", "projected"}]
      BY <1>1 DEF InsertCheckpoint, TypeOK
    <3>4. request' \in [Procs -> Requests \cup {NoRequest}]
      BY <1>1 DEF InsertCheckpoint, TypeOK, Requests
    <3> QED BY <1>1, <3>1, <3>2, <3>3, <3>4 DEF InsertCheckpoint, TypeOK, outside
  <2>2. IsFiniteSet(RecordedIds')
    BY <1>1, FiniteInsert DEF InsertCheckpoint
  <2>3. LocalsTyped'
    BY <1>1 DEF InsertCheckpoint, LocalsTyped, TypeOK, Requests
  <2> QED BY <2>1, <2>2, <2>3
<1>2. ASSUME NEW p \in Procs, NEW id \in Ids, NEW c \in Contents, NEW ds \in SUBSET Destinations,
             DuplicateCheckpoint(p, id, c, ds)
      PROVE Typing'
  <2>1. TypeOK'
    BY <1>2 DEF DuplicateCheckpoint, TypeOK, Requests, tables, outside
  <2>2. LocalsTyped'
    BY <1>2 DEF DuplicateCheckpoint, LocalsTyped, TypeOK, Requests
  <2> QED BY <1>2, <2>1, <2>2, FiniteOtherwise DEF DuplicateCheckpoint, tables
<1>3. ASSUME NEW p \in Procs, ReturnReceipt(p)
      PROVE Typing'
  <2>1. request[p] \in Requests
    BY <1>3 DEF ReturnReceipt, LocalsTyped
  <2>2. TypeOK'
    <3>1. receipts' \in SUBSET Receipts
      <4> DEFINE r == [proc |-> p, id |-> request[p].id, content |-> request[p].content,
                       targets |-> request[p].targets, duplicate |-> request[p].duplicate,
                       rows |-> Targets(request[p].id)]
      <4>1. Targets(request[p].id) \in SUBSET Destinations
        BY DEF Targets
      <4>2. r \in Receipts
        BY <2>1, <4>1 DEF Requests, Receipts
      <4> QED BY <1>3, <4>2 DEF ReturnReceipt, TypeOK
    <3> QED BY <1>3, <3>1 DEF ReturnReceipt, TypeOK, tables
  <2>3. LocalsTyped'
    BY <1>3 DEF ReturnReceipt, LocalsTyped, TypeOK
  <2> QED BY <1>3, <2>2, <2>3, FiniteOtherwise DEF ReturnReceipt, tables
<1>4. ASSUME NEW p \in Procs, BeginSync(p)
      PROVE Typing'
  <2>1. OpenDeliveries \subseteq PendingDeliveries
    BY DEF OpenDeliveries
  <2>2. TypeOK'
    BY <1>4, <2>1 DEF BeginSync, TypeOK, tables, outside
  <2>3. LocalsTyped'
    BY <1>4 DEF BeginSync, LocalsTyped, TypeOK
  <2> QED BY <1>4, <2>2, <2>3, FiniteOtherwise DEF BeginSync, tables
<1>5. ASSUME NEW p \in Procs, NEW delivery \in pending[p], NEW outcome \in Outcomes,
             NEW lands \in BOOLEAN, Project(p, delivery, outcome, lands)
      PROVE Typing'
  <2>1. delivery \in PendingDeliveries
    BY DEF TypeOK
  <2>2. TypeOK'
    <3>1. accepted' \in SUBSET PendingDeliveries
      BY <1>5, <2>1 DEF Project, TypeOK
    <3>2. calls' \in [Rows -> Nat]
      <4>1. <<delivery.id, delivery.dest>> \in Rows
        BY <2>1 DEF PendingDeliveries, Rows
      <4> QED BY <1>5, <4>1 DEF Project, TypeOK
    <3>3. projected' \in [Procs -> Projections \cup {NoProjection}]
      BY <1>5, <2>1 DEF Project, TypeOK, PendingDeliveries, Projections
    <3>4. pending' \in [Procs -> SUBSET PendingDeliveries]
      BY <1>5 DEF Project, TypeOK
    <3>5. pc' \in [Procs -> {"idle", "committed", "syncing", "projected"}]
      BY <1>5 DEF Project, TypeOK
    <3> QED BY <1>5, <3>1, <3>2, <3>3, <3>4, <3>5 DEF Project, TypeOK, tables
  <2>3. LocalsTyped'
    BY <1>5, <2>1 DEF Project, LocalsTyped, TypeOK, PendingDeliveries, Projections
  <2> QED BY <1>5, <2>2, <2>3, FiniteOtherwise DEF Project, tables
<1>6. ASSUME NEW p \in Procs, StoreOutcome(p)
      PROVE Typing'
  <2> DEFINE row == <<projected[p].id, projected[p].dest>>
  <2>1. row \in Rows /\ projected[p].outcome \in Outcomes
    BY <1>6 DEF StoreOutcome, LocalsTyped, Projections, Rows
  <2>2. TypeOK'
    <3>1. deliveries' \in [Rows -> {"absent", "pending"} \cup Outcomes]
      BY <1>6, <2>1 DEF StoreOutcome, TypeOK, StatusOf
    <3>2. attempts' \in [Rows -> Nat]
      BY <1>6, <2>1 DEF StoreOutcome, TypeOK, AttemptsAfter
    <3> QED BY <1>6, <3>1, <3>2 DEF StoreOutcome, TypeOK, outside
  <2>3. LocalsTyped'
    BY <1>6 DEF StoreOutcome, LocalsTyped, TypeOK
  <2> QED BY <1>6, <2>2, <2>3, FiniteOtherwise DEF StoreOutcome
<1>7. ASSUME NEW p \in Procs, Abandon(p)
      PROVE Typing'
  <2>1. pc[p] = "projected" => <<projected[p].id, projected[p].dest>> \in Rows
    BY DEF LocalsTyped, Projections, Rows
  <2>2. TypeOK'
    <3>1. lost' \in [Rows -> Nat]
      BY <1>7, <2>1 DEF Abandon, TypeOK
    <3> QED BY <1>7, <3>1 DEF Abandon, TypeOK, tables
  <2>3. LocalsTyped'
    BY <1>7 DEF Abandon, LocalsTyped, TypeOK
  <2> QED BY <1>7, <2>2, <2>3, FiniteOtherwise DEF Abandon, tables
<1>8. CASE UNCHANGED vars
  BY <1>8, FiniteOtherwise DEF vars, tables, locals, outside, TypeOK, LocalsTyped
<1> QED
  BY <1>1, <1>2, <1>3, <1>4, <1>5, <1>6, <1>7, <1>8, SyncersAssumption, AskedForDestinations
  DEF Next, RecordStep, SyncStep

\* Every reachable state is typed, the local state of the calls included.
LEMMA Typed == Spec => []Typing
BY InitTypes, StepTypes, PTL DEF Spec

\* The type invariant holds in every reachable state.
THEOREM TypeCorrect == Spec => []TypeOK
BY Typed, PTL DEF Typing

-----------------------------------------------------------------------------
(* What is recorded stays: the one fact every later theorem rests on. *)

RowsAreRecorded ==
    \A id \in Ids, d \in Destinations : deliveries[<<id, d>>] # "absent" => Recorded(id)

Known(d) == checkpoints[d.id] = d.content /\ deliveries[<<d.id, d.dest>>] # "absent"

\* What a step that is in the middle of a call relies on.
WorkIsKnown ==
    \A p \in Procs :
        /\ pc[p] = "committed" => /\ checkpoints[request[p].id] = request[p].content
                                  /\ Targets(request[p].id) = request[p].targets
        /\ \A d \in pending[p] : Known(d)
        /\ pc[p] = "projected" => Known(projected[p])

Base == Typing /\ RowsAreRecorded /\ WorkIsKnown

(* A recorded identity keeps its content and its destination set in any step. *)
Kept(id) ==
    /\ checkpoints'[id] = checkpoints[id]
    /\ \A d \in Destinations :
          /\ deliveries'[<<id, d>>] = "absent" <=> deliveries[<<id, d>>] = "absent"
          /\ deliveries'[<<id, d>>] = "pending" => deliveries[<<id, d>>] = "pending"

\* No step changes what is recorded: one case per action.
LEMMA StepKeeps ==
    ASSUME Base, [Next]_vars, NEW id \in Ids, Recorded(id)
    PROVE  Kept(id)
<1> USE DEF Base, Typing
<1>1. ASSUME NEW p \in Procs, NEW i \in Ids, NEW c \in Contents, NEW ds \in SUBSET Destinations,
             InsertCheckpoint(p, i, c, ds)
      PROVE Kept(id)
  <2>1. i # id
    BY <1>1 DEF InsertCheckpoint, MayInsert
  <2> QED BY <1>1, <2>1 DEF InsertCheckpoint, Kept, TypeOK, Rows
<1>2. ASSUME NEW p \in Procs, StoreOutcome(p)
      PROVE Kept(id)
  <2> DEFINE row == <<projected[p].id, projected[p].dest>>
  <2>1. row \in Rows /\ projected[p].outcome \in Outcomes /\ deliveries[row] # "absent"
    BY <1>2 DEF StoreOutcome, WorkIsKnown, Known, LocalsTyped, Projections, Rows
  <2>2. \A r \in Rows : deliveries'[r] = IF r = row THEN projected[p].outcome ELSE deliveries[r]
    BY <1>2, <2>1 DEF StoreOutcome, StatusOf, TypeOK
  <2>3. \A d \in Destinations : <<id, d>> \in Rows
    BY DEF Rows
  <2> QED BY <1>2, <2>1, <2>2, <2>3 DEF StoreOutcome, Kept, Outcomes
<1>3. CASE UNCHANGED <<checkpoints, deliveries>>
  BY <1>3 DEF Kept
<1>4. ASSUME NEW p \in Procs,
             \/ \E i \in Ids, c \in Contents, ds \in SUBSET Destinations :
                  DuplicateCheckpoint(p, i, c, ds)
             \/ ReturnReceipt(p) \/ BeginSync(p) \/ Abandon(p)
             \/ \E d \in pending[p], outcome \in Outcomes, lands \in BOOLEAN :
                  Project(p, d, outcome, lands)
      PROVE UNCHANGED <<checkpoints, deliveries>>
  BY <1>4 DEF DuplicateCheckpoint, ReturnReceipt, BeginSync, Abandon, Project, tables
<1> QED
  BY <1>1, <1>2, <1>3, <1>4, SyncersAssumption, AskedForDestinations
  DEF Next, RecordStep, SyncStep, vars, tables

\* A recorded identity is still recorded, with the same destination set.
LEMMA KeptFacts ==
    ASSUME NEW id \in Ids, Recorded(id), Kept(id)
    PROVE  Recorded(id)' /\ Targets(id)' = Targets(id)
BY DEF Kept, Recorded, Targets

\* What is known stays known.
LEMMA KnownStays ==
    ASSUME Base, [Next]_vars, NEW d, d.id \in Ids, d.dest \in Destinations, Known(d)
    PROVE  checkpoints'[d.id] = d.content /\ deliveries'[<<d.id, d.dest>>] # "absent"
<1>1. Recorded(d.id)
  BY DEF Base, RowsAreRecorded, Known
<1> QED BY <1>1, StepKeeps DEF Kept, Known

\* What a committed call asked for stays recorded.
LEMMA RequestStays ==
    ASSUME Base, [Next]_vars, NEW q \in Procs, pc[q] = "committed"
    PROVE  /\ checkpoints'[request[q].id] = request[q].content
           /\ {d \in Destinations : deliveries'[<<request[q].id, d>>] # "absent"} = request[q].targets
<1>1. /\ request[q] \in Requests
      /\ checkpoints[request[q].id] = request[q].content
      /\ {d \in Destinations : deliveries[<<request[q].id, d>>] # "absent"} = request[q].targets
  BY DEF Base, Typing, LocalsTyped, WorkIsKnown, Targets
<1>2. request[q].id \in Ids /\ Recorded(request[q].id)
  BY <1>1, NoContentAssumption DEF Requests, Recorded
<1>3. Kept(request[q].id)
  BY <1>2, StepKeeps
<1> QED BY <1>1, <1>3 DEF Kept

\* The initial state meets the strengthened invariant.
LEMMA InitBase == Init => Base
<1> SUFFICES ASSUME Init PROVE Base
  OBVIOUS
<1>1. RowsAreRecorded /\ WorkIsKnown
  BY DEF Init, RowsAreRecorded, WorkIsKnown, Rows
<1> QED BY <1>1, InitTypes DEF Base

\* Every step keeps the strengthened invariant.
LEMMA StepBase == Base /\ [Next]_vars => Base'
<1> SUFFICES ASSUME Base, [Next]_vars PROVE Base'
  OBVIOUS
<1>1. Typing'
  BY StepTypes DEF Base
<1>2. RowsAreRecorded'
  <2> SUFFICES ASSUME NEW id \in Ids, NEW d \in Destinations, deliveries'[<<id, d>>] # "absent"
               PROVE  Recorded(id)'
    BY DEF RowsAreRecorded
  <2>1. CASE Recorded(id)
    BY <2>1, StepKeeps, KeptFacts
  <2>2. CASE ~Recorded(id)
    <3>1. deliveries[<<id, d>>] = "absent"
      BY <2>2 DEF Base, RowsAreRecorded
    <3>2. PICK p \in Procs, i \in Ids, c \in Contents, ds \in SUBSET Destinations :
            InsertCheckpoint(p, i, c, ds)
      <4>1. ASSUME NEW p \in Procs, StoreOutcome(p) PROVE FALSE
        <5>1. Known(projected[p]) /\ projected[p] \in Projections
          BY <4>1 DEF StoreOutcome, Base, WorkIsKnown, Typing, LocalsTyped
        <5>2. <<projected[p].id, projected[p].dest>> # <<id, d>>
          BY <5>1, <3>1 DEF Known
        <5>3. <<id, d>> \in Rows
          BY DEF Rows
        <5> QED BY <4>1, <5>2, <5>3, <3>1 DEF StoreOutcome, Base, Typing, TypeOK
      <4>2. deliveries' # deliveries
        BY <3>1
      <4>3. deliveries' # deliveries => ~UNCHANGED vars
        BY DEF vars, tables
      <4>4. ASSUME NEW p \in Syncers, SyncStep(p) PROVE FALSE
        <5>1. p \in Procs
          BY SyncersAssumption
        <5> QED BY <4>1, <4>2, <4>4, <5>1 DEF SyncStep, BeginSync, Project, tables
      <4>5. ASSUME NEW p \in Procs, RecordStep(p) \/ Abandon(p)
            PROVE  \E i \in Ids, c \in Contents : \E ds \in DeliverySets[c] : InsertCheckpoint(p, i, c, ds)
        BY <4>2, <4>5 DEF RecordStep, DuplicateCheckpoint, ReturnReceipt, Abandon, tables
      <4>6. PICK p \in Procs : \E i \in Ids, c \in Contents : \E ds \in DeliverySets[c] :
                InsertCheckpoint(p, i, c, ds)
        BY <4>2, <4>3, <4>4, <4>5 DEF Next
      <4>7. \A c \in Contents : DeliverySets[c] \subseteq SUBSET Destinations
        BY AskedForDestinations
      <4> QED BY <4>6, <4>7
    <3>3. i = id
      BY <3>1, <3>2 DEF InsertCheckpoint, Rows, Base, Typing, TypeOK
    <3> QED
      BY <3>2, <3>3, NoContentAssumption DEF InsertCheckpoint, Recorded, Base, Typing, TypeOK
  <2> QED BY <2>1, <2>2
<1>3. WorkIsKnown'
  <2> DEFINE Work(q) ==
        /\ pc'[q] = "committed" =>
             /\ checkpoints'[request'[q].id] = request'[q].content
             /\ {d \in Destinations : deliveries'[<<request'[q].id, d>>] # "absent"}
                   = request'[q].targets
        /\ \A d \in pending'[q] : checkpoints'[d.id] = d.content /\ deliveries'[<<d.id, d.dest>>] # "absent"
        /\ pc'[q] = "projected" =>
             /\ checkpoints'[projected'[q].id] = projected'[q].content
             /\ deliveries'[<<projected'[q].id, projected'[q].dest>>] # "absent"
  <2> SUFFICES ASSUME NEW q \in Procs PROVE Work(q)
    BY DEF WorkIsKnown, Known, Targets
  <2>a. \A d \in pending[q] : checkpoints'[d.id] = d.content /\ deliveries'[<<d.id, d.dest>>] # "absent"
    <3> TAKE d \in pending[q]
    <3>1. Known(d) /\ d.id \in Ids /\ d.dest \in Destinations
      BY DEF Base, WorkIsKnown, Typing, TypeOK, PendingDeliveries
    <3> QED BY <3>1, KnownStays
  <2>b. pc[q] = "projected" => /\ checkpoints'[projected[q].id] = projected[q].content
                               /\ deliveries'[<<projected[q].id, projected[q].dest>>] # "absent"
    <3>1. pc[q] = "projected" =>
             Known(projected[q]) /\ projected[q].id \in Ids /\ projected[q].dest \in Destinations
      BY DEF Base, WorkIsKnown, Typing, LocalsTyped, Projections
    <3> QED BY <3>1, KnownStays
  <2>1. CASE pc'[q] = pc[q] /\ request'[q] = request[q] /\ pending'[q] = pending[q]
              /\ projected'[q] = projected[q]
    BY <2>1, <2>a, <2>b, RequestStays
  <2>2. CASE pc'[q] \notin {"committed", "projected"} /\ pending'[q] \subseteq pending[q]
    BY <2>2, <2>a
  <2>3. ASSUME NEW p \in Procs, NEW id \in Ids, NEW c \in Contents, NEW ds \in SUBSET Destinations,
               InsertCheckpoint(p, id, c, ds)
        PROVE Work(q)
    <3>1. CASE p # q
      BY <3>1, <2>1, <2>3 DEF InsertCheckpoint, Base, Typing, TypeOK
    <3>2. CASE p = q
      <4>1. request'[q].id = id /\ request'[q].content = c /\ request'[q].targets = ds
        BY <3>2, <2>3 DEF InsertCheckpoint, Base, Typing, TypeOK
      <4>2. checkpoints'[id] = c /\ pc'[q] = "committed" /\ pending'[q] = pending[q]
        BY <3>2, <2>3 DEF InsertCheckpoint, Base, Typing, TypeOK
      <4>3. \A d \in Destinations : deliveries[<<id, d>>] = "absent"
        BY <2>3 DEF InsertCheckpoint, MayInsert, Base, RowsAreRecorded
      <4>4. \A d \in Destinations : deliveries'[<<id, d>>] # "absent" <=> d \in ds
        BY <2>3, <4>3 DEF InsertCheckpoint, Rows
      <4> QED BY <4>1, <4>2, <4>4, <2>a
    <3> QED BY <3>1, <3>2
  <2>4. ASSUME NEW p \in Procs, NEW id \in Ids, NEW c \in Contents, NEW ds \in SUBSET Destinations,
               DuplicateCheckpoint(p, id, c, ds)
        PROVE Work(q)
    <3>1. CASE p # q
      BY <3>1, <2>1, <2>4 DEF DuplicateCheckpoint, Base, Typing, TypeOK
    <3>2. CASE p = q
      <4>1. request'[q].id = id /\ request'[q].content = c /\ request'[q].targets = ds
        BY <3>2, <2>4 DEF DuplicateCheckpoint, Base, Typing, TypeOK
      <4>2. /\ pc'[q] = "committed" /\ pending'[q] = pending[q]
            /\ UNCHANGED <<checkpoints, deliveries>>
        BY <3>2, <2>4 DEF DuplicateCheckpoint, Base, Typing, TypeOK, tables
      <4> QED BY <4>1, <4>2, <2>a, <2>4 DEF DuplicateCheckpoint, SameRecord, Targets
    <3> QED BY <3>1, <3>2
  <2>5. ASSUME NEW p \in Procs, ReturnReceipt(p) PROVE Work(q)
    BY <2>1, <2>2, <2>5 DEF ReturnReceipt, Base, Typing, TypeOK
  <2>6. ASSUME NEW p \in Procs, BeginSync(p) PROVE Work(q)
    <3>1. CASE p # q
      BY <3>1, <2>1, <2>6 DEF BeginSync, Base, Typing, TypeOK
    <3>2. CASE p = q
      <4>1. pc'[q] = "syncing" /\ pending'[q] = OpenDeliveries /\ UNCHANGED <<checkpoints, deliveries>>
        BY <3>2, <2>6 DEF BeginSync, Base, Typing, TypeOK, tables
      <4> QED BY <4>1 DEF OpenDeliveries, Selected, Open
    <3> QED BY <3>1, <3>2
  <2>7. ASSUME NEW p \in Procs, NEW d \in pending[p], NEW outcome \in Outcomes,
               NEW lands \in BOOLEAN, Project(p, d, outcome, lands)
        PROVE Work(q)
    <3>1. CASE p # q
      BY <3>1, <2>1, <2>7 DEF Project, Base, Typing, TypeOK
    <3>2. CASE p = q
      <4>1. /\ pc'[q] = "projected" /\ pending'[q] \subseteq pending[q]
            /\ projected'[q].id = d.id /\ projected'[q].dest = d.dest
            /\ projected'[q].content = d.content
        BY <3>2, <2>7 DEF Project, Base, Typing, TypeOK
      <4> QED BY <4>1, <3>2, <2>a
    <3> QED BY <3>1, <3>2
  <2>8. ASSUME NEW p \in Procs, StoreOutcome(p) PROVE Work(q)
    BY <2>1, <2>2, <2>8 DEF StoreOutcome, Base, Typing, TypeOK
  <2>9. ASSUME NEW p \in Procs, Abandon(p) PROVE Work(q)
    BY <2>1, <2>2, <2>9 DEF Abandon, Base, Typing, TypeOK
  <2>10. CASE UNCHANGED vars
    BY <2>1, <2>10 DEF vars, locals
  <2> QED
    BY <2>3, <2>4, <2>5, <2>6, <2>7, <2>8, <2>9, <2>10, SyncersAssumption, AskedForDestinations
    DEF Next, RecordStep, SyncStep
<1> QED BY <1>1, <1>2, <1>3 DEF Base

\* The strengthened invariant holds.
LEMMA BaseHolds == Spec => []Base
BY InitBase, StepBase, PTL DEF Spec

(* Whatever processes, passes and crashes come between, a recorded identity
   keeps its content and its destination set, and no delivery goes back to
   pending. *)
THEOREM LedgerNeverChanges == Spec => LedgerIsImmutable
<1>1. Base /\ [Next]_vars => KeepsRecords
  BY StepKeeps, KeptFacts DEF Kept, KeepsRecords
<1> QED BY <1>1, BaseHolds, PTL DEF Spec, LedgerIsImmutable

-----------------------------------------------------------------------------
(* What the outside world was told is true. *)

Outside ==
    /\ ReceiptsHold
    /\ AcceptedIsRecorded
    /\ SyncedWasAccepted
    \* an outcome that is about to be stored as synced was really accepted
    /\ \A p \in Procs : pc[p] = "projected" /\ projected[p].outcome = "synced" =>
          \E a \in accepted : a.id = projected[p].id /\ a.dest = projected[p].dest

\* Which action changes what.
InsertStep == \E p \in Procs, id \in Ids, c \in Contents, ds \in SUBSET Destinations :
                InsertCheckpoint(p, id, c, ds)
ReceiptStep == \E p \in Procs : ReturnReceipt(p)
ProjectStep == \E p \in Procs : \E d \in pending[p], outcome \in Outcomes, lands \in BOOLEAN :
                 Project(p, d, outcome, lands)
StoreStep == \E p \in Procs : StoreOutcome(p)
Quiet == UNCHANGED <<checkpoints, deliveries, receipts, accepted>>
KeepsProjections ==
    \A q \in Procs : pc'[q] = "projected" => pc[q] = "projected" /\ projected'[q] = projected[q]

\* Each of receipts, acceptances, deliveries and projections changes by one kind of action only.
LEMMA Frame ==
    ASSUME Typing, [Next]_vars
    PROVE  /\ receipts' = receipts \/ ReceiptStep
           /\ accepted' = accepted \/ ProjectStep
           /\ deliveries' = deliveries \/ InsertStep \/ StoreStep
           /\ KeepsProjections \/ ProjectStep
<1> USE DEF Typing
<1>1. ASSUME NEW p \in Procs, NEW id \in Ids, NEW c \in Contents, NEW ds \in SUBSET Destinations,
             InsertCheckpoint(p, id, c, ds)
      PROVE InsertStep /\ UNCHANGED <<receipts, accepted>> /\ KeepsProjections
  BY <1>1 DEF InsertStep, InsertCheckpoint, KeepsProjections, outside, TypeOK
<1>2. ASSUME NEW p \in Procs, NEW id \in Ids, NEW c \in Contents, NEW ds \in SUBSET Destinations,
             DuplicateCheckpoint(p, id, c, ds)
      PROVE Quiet /\ KeepsProjections
  BY <1>2 DEF Quiet, DuplicateCheckpoint, KeepsProjections, tables, outside, TypeOK
<1>3. ASSUME NEW p \in Procs, ReturnReceipt(p)
      PROVE ReceiptStep /\ UNCHANGED <<deliveries, accepted>> /\ KeepsProjections
  BY <1>3 DEF ReceiptStep, ReturnReceipt, KeepsProjections, tables, TypeOK
<1>4. ASSUME NEW p \in Procs, BeginSync(p) PROVE Quiet /\ KeepsProjections
  BY <1>4 DEF Quiet, BeginSync, KeepsProjections, tables, outside, TypeOK
<1>5. ASSUME NEW p \in Procs, NEW d \in pending[p], NEW outcome \in Outcomes,
             NEW lands \in BOOLEAN, Project(p, d, outcome, lands)
      PROVE ProjectStep /\ UNCHANGED <<receipts, deliveries>>
  <2>1. ProjectStep
    BY <1>5 DEF ProjectStep
  <2> QED BY <1>5, <2>1 DEF Project, tables
<1>6. ASSUME NEW p \in Procs, StoreOutcome(p)
      PROVE StoreStep /\ UNCHANGED <<receipts, accepted>> /\ KeepsProjections
  BY <1>6 DEF StoreStep, StoreOutcome, KeepsProjections, outside, TypeOK
<1>7. ASSUME NEW p \in Procs, Abandon(p) PROVE Quiet /\ KeepsProjections
  BY <1>7 DEF Quiet, Abandon, KeepsProjections, tables, TypeOK
<1>8. CASE UNCHANGED vars
  BY <1>8 DEF vars, tables, locals, outside, KeepsProjections
<1> QED
  BY <1>1, <1>2, <1>3, <1>4, <1>5, <1>6, <1>7, <1>8, SyncersAssumption, AskedForDestinations
  DEF Next, RecordStep, SyncStep, Quiet

\* Nothing has been seen outside at first.
LEMMA InitOutside == Init => Outside
BY DEF Init, Outside, ReceiptsHold, AcceptedIsRecorded, SyncedWasAccepted, Rows

\* What was seen outside stays true: receipts, acceptances and synced rows.
LEMMA StepOutside == Base /\ Outside /\ [Next]_vars => Outside'
<1> SUFFICES ASSUME Base, Outside, [Next]_vars PROVE Outside'
  OBVIOUS
<1>t. Typing /\ TypeOK /\ LocalsTyped
  BY DEF Base, Typing
<1>1. ReceiptsHold'
  <2> SUFFICES ASSUME NEW r \in receipts'
               PROVE  /\ checkpoints'[r.id] = r.content
                      /\ {d \in Destinations : deliveries'[<<r.id, d>>] # "absent"} = r.targets
                      /\ r.rows = r.targets
    BY DEF ReceiptsHold, Targets
  <2>1. CASE r \in receipts
    <3>1. /\ r \in Receipts /\ checkpoints[r.id] = r.content /\ r.rows = r.targets
          /\ {d \in Destinations : deliveries[<<r.id, d>>] # "absent"} = r.targets
      BY <2>1, <1>t DEF Outside, ReceiptsHold, Targets, TypeOK
    <3>2. r.id \in Ids /\ Recorded(r.id)
      BY <3>1, NoContentAssumption DEF Receipts, Recorded
    <3> QED BY <3>1, <3>2, StepKeeps DEF Kept
  <2>2. ASSUME NEW p \in Procs, ReturnReceipt(p), r \notin receipts
        PROVE  /\ checkpoints'[r.id] = r.content
               /\ {d \in Destinations : deliveries'[<<r.id, d>>] # "absent"} = r.targets
               /\ r.rows = r.targets
    <3>1. /\ r.id = request[p].id /\ r.content = request[p].content
          /\ r.targets = request[p].targets /\ r.rows = Targets(request[p].id)
      BY <2>2 DEF ReturnReceipt
    <3>2. /\ pc[p] = "committed"
          /\ Targets(request[p].id) = request[p].targets
      BY <2>2 DEF ReturnReceipt, Base, WorkIsKnown
    <3> QED BY <3>1, <3>2, RequestStays
  <2> QED BY <2>1, <2>2, <1>t, Frame DEF ReceiptStep
<1>2. ASSUME NEW d \in accepted' PROVE d \in accepted \/ \E p \in Procs : d \in pending[p]
  <2>1. accepted' = accepted \/ ProjectStep
    BY <1>t, Frame
  <2>2. ASSUME NEW p \in Procs, NEW e \in pending[p], NEW outcome \in Outcomes,
               NEW lands \in BOOLEAN, Project(p, e, outcome, lands)
        PROVE  accepted' \in {accepted, accepted \cup {e}}
    BY <2>2 DEF Project
  <2> QED BY <1>2, <2>1, <2>2 DEF ProjectStep
<1>3. AcceptedIsRecorded'
  <2> SUFFICES ASSUME NEW a \in accepted'
               PROVE  /\ checkpoints'[a.id] = a.content
                      /\ a.dest \in Destinations /\ deliveries'[<<a.id, a.dest>>] # "absent"
    BY DEF AcceptedIsRecorded, Targets
  <2>1. CASE a \in accepted
    <3>1. a.id \in Ids /\ a.dest \in Destinations /\ Known(a)
      BY <2>1, <1>t DEF Outside, AcceptedIsRecorded, Targets, Known, TypeOK, PendingDeliveries
    <3> QED BY <3>1, KnownStays
  <2>2. ASSUME NEW p \in Procs, a \in pending[p]
        PROVE a.id \in Ids /\ a.dest \in Destinations /\ Known(a)
    BY <2>2, <1>t DEF TypeOK, PendingDeliveries, Base, WorkIsKnown
  <2> QED BY <1>2, <2>1, <2>2, KnownStays
<1>4. accepted \subseteq accepted'
  <2>1. accepted' = accepted \/ ProjectStep
    BY <1>t, Frame
  <2>2. ASSUME NEW p \in Procs, NEW e \in pending[p], NEW outcome \in Outcomes,
               NEW lands \in BOOLEAN, Project(p, e, outcome, lands)
        PROVE  accepted \subseteq accepted'
    BY <2>2 DEF Project
  <2> QED BY <2>1, <2>2 DEF ProjectStep
<1>5. SyncedWasAccepted'
  <2> SUFFICES ASSUME NEW id \in Ids, NEW d \in Destinations, deliveries'[<<id, d>>] = "synced"
               PROVE  \E a \in accepted' : a.id = id /\ a.dest = d
    BY DEF SyncedWasAccepted
  <2>r. <<id, d>> \in Rows
    BY DEF Rows
  <2>1. CASE deliveries[<<id, d>>] = "synced"
    BY <2>1, <1>4 DEF Outside, SyncedWasAccepted
  <2>2. ASSUME NEW p \in Procs, StoreOutcome(p), deliveries[<<id, d>>] # "synced"
        PROVE  \E a \in accepted' : a.id = id /\ a.dest = d
    <3>1. projected[p].id = id /\ projected[p].dest = d /\ projected[p].outcome = "synced"
      <4>1. projected[p].id \in Ids /\ projected[p].dest \in Destinations
        BY <2>2, <1>t DEF StoreOutcome, LocalsTyped, Projections
      <4>2. <<projected[p].id, projected[p].dest>> \in Rows
        BY <4>1 DEF Rows
      <4>3. <<projected[p].id, projected[p].dest>> = <<id, d>>
        BY <2>2, <2>r, <4>2, <1>t DEF StoreOutcome, TypeOK
      <4> QED BY <2>2, <2>r, <4>3, <1>t DEF StoreOutcome, TypeOK, StatusOf
    <3> QED BY <2>2, <3>1, <1>4 DEF StoreOutcome, Outside
  <2>3. ASSUME NEW p \in Procs, NEW i \in Ids, NEW c \in Contents, NEW ds \in SUBSET Destinations,
               InsertCheckpoint(p, i, c, ds)
        PROVE  deliveries[<<id, d>>] = "synced"
    BY <2>3, <2>r DEF InsertCheckpoint
  <2> QED BY <2>1, <2>2, <2>3, <1>t, Frame DEF InsertStep, StoreStep
<1>6. ASSUME NEW q \in Procs, pc'[q] = "projected", projected'[q].outcome = "synced"
      PROVE  \E a \in accepted' : a.id = projected'[q].id /\ a.dest = projected'[q].dest
  <2>1. CASE pc'[q] = pc[q] /\ projected'[q] = projected[q]
    BY <1>6, <2>1, <1>4 DEF Outside
  <2>2. ASSUME NEW p \in Procs, NEW d \in pending[p], NEW outcome \in Outcomes,
               NEW lands \in BOOLEAN, Project(p, d, outcome, lands)
        PROVE  \E a \in accepted' : a.id = projected'[q].id /\ a.dest = projected'[q].dest
    <3>1. CASE p # q
      BY <3>1, <2>1, <2>2, <1>t DEF Project, TypeOK
    <3>2. CASE p = q
      <4>1. projected'[q].id = d.id /\ projected'[q].dest = d.dest /\ outcome = "synced"
        BY <3>2, <2>2, <1>6, <1>t DEF Project, TypeOK
      <4>2. d \in accepted'
        BY <4>1, <2>2 DEF Project
      <4> QED BY <4>1, <4>2
    <3> QED BY <3>1, <3>2
  <2> QED BY <2>1, <2>2, <1>6, <1>t, Frame DEF ProjectStep, KeepsProjections
<1> QED BY <1>1, <1>3, <1>5, <1>6 DEF Outside

\* What was seen outside is true in every reachable state.
LEMMA OutsideHolds == Spec => []Outside
BY InitOutside, StepOutside, BaseHolds, PTL DEF Spec

\* A receipt a caller holds stays true for ever (durability and idempotency of record).
THEOREM ReceiptsAreDurable == Spec => []ReceiptsHold
BY OutsideHolds, PTL DEF Outside

\* No destination ever sees anything but the recorded content, nor one it is not a target of.
THEOREM DestinationsSeeTheLedger == Spec => []AcceptedIsRecorded
BY OutsideHolds, PTL DEF Outside

\* A synced delivery was accepted by its destination.
THEOREM SyncedMeansAccepted == Spec => []SyncedWasAccepted
BY OutsideHolds, PTL DEF Outside

-----------------------------------------------------------------------------
(* At most one caller is told that it recorded an identity first. *)

FirstInv ==
    /\ FirstRecordIsUnique
    \* whoever was told so saw the identity recorded
    /\ \A id \in Ids : FirstRecords(id) # {} => Recorded(id)

\* No step makes a second caller the first to record an identity.
LEMMA StepFirst == Base /\ FirstInv /\ [Next]_vars => FirstInv'
<1> SUFFICES ASSUME Base, FirstInv, [Next]_vars, NEW id \in Ids
             PROVE  /\ \A p, q \in FirstRecords(id)' : p = q
                    /\ FirstRecords(id)' # {} => Recorded(id)'
  BY DEF FirstInv, FirstRecordIsUnique
<1>t. Typing /\ TypeOK /\ LocalsTyped
  BY DEF Base, Typing
<1>1. CASE FirstRecords(id)' \subseteq FirstRecords(id)
  BY <1>1, StepKeeps, KeptFacts DEF FirstInv, FirstRecordIsUnique
<1>2. ASSUME NEW p \in Procs, NEW i \in Ids, NEW c \in Contents, NEW ds \in SUBSET Destinations,
             InsertCheckpoint(p, i, c, ds)
      PROVE  \/ FirstRecords(id)' \subseteq FirstRecords(id)
             \/ FirstRecords(id)' \subseteq {p} /\ Recorded(id)'
  <2>1. /\ \A q \in Procs \ {p} : pc'[q] = pc[q] /\ request'[q] = request[q]
        /\ pc'[p] = "committed" /\ request'[p].id = i /\ receipts' = receipts
    BY <1>2, <1>t DEF InsertCheckpoint, TypeOK, outside
  <2>2. CASE i # id
    BY <2>1, <2>2 DEF FirstRecords
  <2>3. CASE i = id
    <3>1. FirstRecords(id) = {}
      BY <1>2, <2>3 DEF InsertCheckpoint, MayInsert, FirstInv
    <3>2. FirstRecords(id)' \subseteq {p}
      BY <2>1, <3>1 DEF FirstRecords
    <3>3. Recorded(id)'
      BY <1>2, <2>3, <1>t, NoContentAssumption DEF InsertCheckpoint, Recorded, TypeOK
    <3> QED BY <3>2, <3>3
  <2> QED BY <2>2, <2>3
<1>3. ASSUME NEW p \in Procs, NEW i \in Ids, NEW c \in Contents, NEW ds \in SUBSET Destinations,
             DuplicateCheckpoint(p, i, c, ds)
      PROVE  FirstRecords(id)' \subseteq FirstRecords(id)
  <2>1. /\ \A q \in Procs \ {p} : pc'[q] = pc[q] /\ request'[q] = request[q]
        /\ pc'[p] = "committed" /\ request'[p].duplicate /\ receipts' = receipts
    BY <1>3, <1>t DEF DuplicateCheckpoint, TypeOK, outside
  <2> QED BY <2>1 DEF FirstRecords
<1>4. ASSUME NEW p \in Procs, ReturnReceipt(p)
      PROVE  FirstRecords(id)' \subseteq FirstRecords(id)
  <2> SUFFICES ASSUME NEW q \in FirstRecords(id)' PROVE q \in FirstRecords(id)
    OBVIOUS
  <2>1. \A x \in Procs : pc'[x] = "committed" => pc[x] = "committed" /\ request'[x] = request[x]
    BY <1>4, <1>t DEF ReturnReceipt, TypeOK
  <2>2. CASE pc'[q] = "committed" /\ request'[q].id = id /\ ~request'[q].duplicate
    BY <2>1, <2>2 DEF FirstRecords
  <2>3. ASSUME NEW r \in receipts', r.proc = q, r.id = id, ~r.duplicate
        PROVE  q \in FirstRecords(id)
    <3>1. CASE r \in receipts
      BY <2>3, <3>1 DEF FirstRecords
    <3>2. CASE r \notin receipts
      <4>1. r.proc = p /\ r.id = request[p].id /\ r.duplicate = request[p].duplicate
        BY <1>4, <3>2 DEF ReturnReceipt
      <4> QED BY <4>1, <2>3, <1>4 DEF ReturnReceipt, FirstRecords
    <3> QED BY <3>1, <3>2
  <2> QED BY <2>2, <2>3 DEF FirstRecords
<1>5. ASSUME NEW p \in Procs, BeginSync(p) PROVE FirstRecords(id)' \subseteq FirstRecords(id)
  <2>1. \A x \in Procs : pc'[x] = "committed" => pc[x] = "committed" /\ request'[x] = request[x]
    BY <1>5, <1>t DEF BeginSync, TypeOK
  <2> QED BY <1>5, <2>1 DEF BeginSync, FirstRecords, outside
<1>6. ASSUME NEW p \in Procs, NEW d \in pending[p], NEW outcome \in Outcomes,
             NEW lands \in BOOLEAN, Project(p, d, outcome, lands)
      PROVE FirstRecords(id)' \subseteq FirstRecords(id)
  <2>1. \A x \in Procs : pc'[x] = "committed" => pc[x] = "committed" /\ request'[x] = request[x]
    BY <1>6, <1>t DEF Project, TypeOK
  <2> QED BY <1>6, <2>1 DEF Project, FirstRecords
<1>7. ASSUME NEW p \in Procs, StoreOutcome(p) PROVE FirstRecords(id)' \subseteq FirstRecords(id)
  <2>1. \A x \in Procs : pc'[x] = "committed" => pc[x] = "committed" /\ request'[x] = request[x]
    BY <1>7, <1>t DEF StoreOutcome, TypeOK
  <2> QED BY <1>7, <2>1 DEF StoreOutcome, FirstRecords, outside
<1>8. ASSUME NEW p \in Procs, Abandon(p) PROVE FirstRecords(id)' \subseteq FirstRecords(id)
  <2>1. \A x \in Procs : pc'[x] = "committed" => pc[x] = "committed" /\ request'[x] = request[x]
    BY <1>8, <1>t DEF Abandon, TypeOK
  <2> QED BY <1>8, <2>1 DEF Abandon, FirstRecords
<1>9. CASE UNCHANGED vars
  BY <1>1, <1>9 DEF vars, locals, outside, FirstRecords
<1>10. ASSUME NEW p \in Procs, FirstRecords(id)' \subseteq {p}, Recorded(id)'
       PROVE  /\ \A x, y \in FirstRecords(id)' : x = y
              /\ FirstRecords(id)' # {} => Recorded(id)'
  BY <1>10
<1> QED
  BY <1>1, <1>2, <1>3, <1>4, <1>5, <1>6, <1>7, <1>8, <1>9, <1>10, SyncersAssumption, AskedForDestinations
  DEF Next, RecordStep, SyncStep

(* Over any interleaving of callers and any crash, no two processes are both
   told that they recorded the same identity first. *)
THEOREM FirstIsUnique == Spec => []FirstRecordIsUnique
<1>1. Init => FirstInv
  BY DEF Init, FirstInv, FirstRecordIsUnique, FirstRecords
<1> QED BY <1>1, StepFirst, BaseHolds, PTL DEF Spec, FirstInv

-----------------------------------------------------------------------------
(* The tables implement the abstract ledger, which lets passes disturb each
   other only once two have overlapped.  PassWorksOnOpenRows becomes inductive
   with what holds of one pass (it never holds the row whose outcome it is about
   to store) and of all (one at a time, until two overlap). *)

Row(d) == <<d.id, d.dest>>
OnePassAtATime == \A p, q \in Procs : InPass(p) /\ InPass(q) => p = q
PassInv ==
    /\ \A p \in Procs \ Syncers : ~InPass(p)
    /\ \A p \in Procs : InPass(p) \/ pending[p] = {}
    /\ ~overlapped => /\ PassWorksOnOpenRows
                      /\ OnePassAtATime
                      /\ \A p \in Procs : pc[p] = "projected" =>
                           \A d \in pending[p] : Row(d) # Row(projected[p])

(* The shape of the passes: only a syncing process is in one, and until two
   overlap only one process is. *)
LEMMA StepShape ==
    ASSUME Base, PassInv, [Next]_vars
    PROVE  /\ \A p \in Procs \ Syncers : ~InPass(p)'
           /\ \A p \in Procs : InPass(p)' \/ pending'[p] = {}
           /\ ~overlapped' => OnePassAtATime'
           /\ overlapped => overlapped'
<1> DEFINE Shape ==
        /\ \A p \in Procs \ Syncers : ~InPass(p)'
        /\ \A p \in Procs : InPass(p)' \/ pending'[p] = {}
        /\ ~overlapped' => OnePassAtATime'
        /\ overlapped => overlapped'
<1>t. TypeOK
  BY DEF Base, Typing
<1>o. /\ \A p \in Procs \ Syncers : ~InPass(p)
      /\ \A p \in Procs : InPass(p) \/ pending[p] = {}
      /\ ~overlapped => OnePassAtATime
  BY DEF PassInv
<1>1. CASE /\ \A p \in Procs : InPass(p)' => InPass(p)
           /\ \A p \in Procs : InPass(p)' \/ pending'[p] = {}
           /\ overlapped' = overlapped
  BY <1>1, <1>o DEF OnePassAtATime
<1>2. ASSUME NEW p \in Procs, NEW id \in Ids, NEW c \in Contents, NEW ds \in SUBSET Destinations,
             InsertCheckpoint(p, id, c, ds) \/ DuplicateCheckpoint(p, id, c, ds)
      PROVE Shape
  BY <1>1, <1>2, <1>t, <1>o DEF InsertCheckpoint, DuplicateCheckpoint, InPass, TypeOK, outside
<1>3. ASSUME NEW p \in Procs, ReturnReceipt(p) PROVE Shape
  BY <1>1, <1>3, <1>t, <1>o DEF ReturnReceipt, InPass, TypeOK
<1>4. ASSUME NEW p \in Syncers, BeginSync(p) PROVE Shape
  <2>1. /\ \A q \in Procs : InPass(q)' <=> InPass(q) \/ q = p
        /\ \A q \in Procs : q # p => pending'[q] = pending[q]
        /\ overlapped' = (overlapped \/ \E q \in Procs : InPass(q))
    BY <1>4, <1>t, SyncersAssumption DEF BeginSync, InPass, TypeOK
  <2> QED BY <2>1, <1>o, SyncersAssumption DEF OnePassAtATime
<1>5. ASSUME NEW p \in Syncers, NEW d \in pending[p], NEW outcome \in Outcomes,
             NEW lands \in BOOLEAN, Project(p, d, outcome, lands)
      PROVE Shape
  BY <1>1, <1>5, <1>t, <1>o, SyncersAssumption DEF Project, InPass, TypeOK
<1>6. ASSUME NEW p \in Syncers, StoreOutcome(p) PROVE Shape
  BY <1>1, <1>6, <1>t, <1>o, SyncersAssumption DEF StoreOutcome, InPass, TypeOK, outside
<1>7. ASSUME NEW p \in Procs, Abandon(p) PROVE Shape
  BY <1>1, <1>7, <1>t, <1>o DEF Abandon, InPass, TypeOK
<1>8. CASE UNCHANGED vars
  BY <1>1, <1>8, <1>o DEF vars, locals, outside, InPass
<1> QED
  BY <1>2, <1>3, <1>4, <1>5, <1>6, <1>7, <1>8, AskedForDestinations
  DEF Next, RecordStep, SyncStep

\* Until two passes overlap, no step settles a row behind the back of a pass.
LEMMA StepPass ==
    ASSUME Base, PassInv, [Next]_vars
    PROVE  PassInv'
<1>s. /\ \A p \in Procs \ Syncers : ~InPass(p)'
      /\ \A p \in Procs : InPass(p)' \/ pending'[p] = {}
      /\ ~overlapped' => OnePassAtATime'
      /\ overlapped => overlapped'
  BY StepShape
<1>t. Typing /\ TypeOK /\ LocalsTyped /\ RowsAreRecorded
  BY DEF Base, Typing
<1>r. \A p \in Procs : /\ \A d \in pending[p] : Row(d) \in Rows
                       /\ pc[p] = "projected" => Row(projected[p]) \in Rows
  BY <1>t DEF TypeOK, LocalsTyped, PendingDeliveries, Projections, Row, Rows
<1> DEFINE Pass(q) ==
        /\ \A d \in pending'[q] : deliveries'[Row(d)] \in Open
        /\ pc'[q] = "projected" =>
              /\ deliveries'[<<projected'[q].id, projected'[q].dest>>] \in Open
              /\ \A d \in pending'[q] : Row(d) # <<projected'[q].id, projected'[q].dest>>
<1> SUFFICES ASSUME ~overlapped', NEW q \in Procs PROVE Pass(q)
  BY <1>s, SyncersAssumption DEF PassInv, PassWorksOnOpenRows, OpenRow, Row
<1>n. ~overlapped /\ OnePassAtATime
  BY <1>s DEF PassInv
<1>i. (InPass(q) \/ pending[q] = {}) /\ (InPass(q) => q \in Syncers)
  BY DEF PassInv
<1>o. /\ \A d \in pending[q] : deliveries[Row(d)] \in Open
      /\ pc[q] = "projected" => /\ deliveries[Row(projected[q])] \in Open
                                /\ \A d \in pending[q] : Row(d) # Row(projected[q])
  BY <1>n, <1>i DEF PassInv, PassWorksOnOpenRows, OpenRow, Row, InPass
<1>1. CASE /\ pc'[q] = "projected" => pc[q] = "projected" /\ projected'[q] = projected[q]
           /\ pending'[q] \subseteq pending[q]
           /\ \A row \in Rows : deliveries[row] # "absent" => deliveries'[row] = deliveries[row]
  <2>1. \A d \in pending[q] : deliveries'[Row(d)] \in Open
    <3> TAKE d \in pending[q]
    <3>1. Row(d) \in Rows /\ deliveries[Row(d)] \in Open
      BY <1>r, <1>o
    <3>2. deliveries'[Row(d)] = deliveries[Row(d)]
      BY <1>1, <3>1 DEF Open
    <3> QED BY <3>1, <3>2
  <2>2. ASSUME pc'[q] = "projected"
        PROVE  /\ deliveries'[Row(projected[q])] \in Open
               /\ \A d \in pending[q] : Row(d) # Row(projected[q])
    <3>1. /\ Row(projected[q]) \in Rows /\ deliveries[Row(projected[q])] \in Open
          /\ \A d \in pending[q] : Row(d) # Row(projected[q])
      BY <1>1, <1>r, <1>o, <2>2
    <3>2. deliveries'[Row(projected[q])] = deliveries[Row(projected[q])]
      BY <1>1, <3>1 DEF Open
    <3> QED BY <3>1, <3>2
  <2>3. pc'[q] = "projected" => Row(projected[q]) = <<projected'[q].id, projected'[q].dest>>
    BY <1>1 DEF Row
  <2> QED BY <1>1, <2>1, <2>2, <2>3
<1>2. ASSUME NEW p \in Procs, NEW id \in Ids, NEW c \in Contents, NEW ds \in SUBSET Destinations,
             InsertCheckpoint(p, id, c, ds)
      PROVE Pass(q)
  <2>1. \A row \in Rows : deliveries[row] # "absent" => deliveries'[row] = deliveries[row]
    <3> SUFFICES ASSUME NEW i \in Ids, NEW d \in Destinations, deliveries[<<i, d>>] # "absent"
                 PROVE  deliveries'[<<i, d>>] = deliveries[<<i, d>>]
      BY DEF Rows
    <3>1. i # id
      BY <1>2, <1>t DEF InsertCheckpoint, MayInsert, RowsAreRecorded
    <3> QED BY <1>2, <3>1 DEF InsertCheckpoint, Rows
  <2>2. pending' = pending /\ projected' = projected /\ (pc'[q] = "projected" => pc[q] = "projected")
    BY <1>2, <1>t DEF InsertCheckpoint, TypeOK
  <2> QED BY <1>1, <2>1, <2>2
<1>3. ASSUME NEW p \in Procs, NEW id \in Ids, NEW c \in Contents, NEW ds \in SUBSET Destinations,
             DuplicateCheckpoint(p, id, c, ds)
      PROVE Pass(q)
  BY <1>1, <1>3, <1>t DEF DuplicateCheckpoint, tables, TypeOK
<1>4. ASSUME NEW p \in Procs, ReturnReceipt(p) PROVE Pass(q)
  BY <1>1, <1>4, <1>t DEF ReturnReceipt, tables, TypeOK
<1>5. ASSUME NEW p \in Syncers, BeginSync(p) PROVE Pass(q)
  <2>1. CASE p # q
    BY <1>1, <1>5, <2>1, <1>t, SyncersAssumption DEF BeginSync, tables, TypeOK
  <2>2. CASE p = q
    BY <1>5, <2>2, <1>t DEF BeginSync, tables, TypeOK, OpenDeliveries, Selected, Row
  <2> QED BY <2>1, <2>2
<1>6. ASSUME NEW p \in Syncers, NEW d \in pending[p], NEW outcome \in Outcomes,
             NEW lands \in BOOLEAN, Project(p, d, outcome, lands)
      PROVE Pass(q)
  <2>p. p \in Procs
    BY SyncersAssumption
  <2>1. CASE p # q
    BY <1>1, <1>6, <2>1, <1>t, <2>p DEF Project, tables, TypeOK
  <2>2. CASE p = q
    <3>1. /\ pending'[q] = pending[p] \ {d} /\ projected'[q].id = d.id
          /\ projected'[q].dest = d.dest /\ deliveries' = deliveries
      BY <1>6, <2>2, <1>t, <2>p DEF Project, tables, TypeOK
    <3>2. ASSUME NEW e \in pending[p], Row(e) = Row(d) PROVE e = d
      <4>1. e \in PendingDeliveries /\ d \in PendingDeliveries
        BY <1>t, <2>p DEF TypeOK
      <4>2. e.id = d.id /\ e.dest = d.dest /\ e.content = d.content
        <5>1. Known(e) /\ Known(d)
          BY <1>6, <3>2, <2>p DEF Base, WorkIsKnown
        <5>2. e.id = d.id /\ e.dest = d.dest
          BY <3>2 DEF Row
        <5> QED BY <5>1, <5>2 DEF Known
      <4> QED BY <4>1, <4>2 DEF PendingDeliveries
    <3> QED BY <3>1, <3>2, <2>2, <1>o DEF Row
  <2> QED BY <2>1, <2>2
<1>7. ASSUME NEW p \in Syncers, StoreOutcome(p) PROVE Pass(q)
  <2>p. p \in Procs /\ pc[p] = "projected"
    BY <1>7, SyncersAssumption DEF StoreOutcome
  <2>1. CASE q # p
    <3>1. ~InPass(q) /\ pending[q] = {}
      BY <2>1, <2>p, <1>n, <1>i DEF OnePassAtATime, InPass
    <3> QED BY <1>7, <2>1, <2>p, <3>1, <1>t DEF StoreOutcome, InPass, TypeOK
  <2>2. CASE q = p
    <3>1. pending'[q] = pending[p] /\ pc'[q] # "projected"
      BY <1>7, <2>2, <1>t, <2>p DEF StoreOutcome, TypeOK
    <3>2. \A row \in Rows : row # Row(projected[p]) => deliveries'[row] = deliveries[row]
      BY <1>7, <1>t DEF StoreOutcome, TypeOK, Row
    <3>3. ASSUME NEW d \in pending[q] PROVE deliveries'[Row(d)] \in Open
      <4>1. Row(d) \in Rows /\ deliveries[Row(d)] \in Open /\ Row(d) # Row(projected[p])
        BY <1>r, <1>o, <2>2, <2>p DEF Row
      <4> QED BY <4>1, <3>2
    <3> QED BY <3>1, <3>3, <2>2
  <2> QED BY <2>1, <2>2
<1>8. ASSUME NEW p \in Procs, Abandon(p) PROVE Pass(q)
  <2>1. /\ pending'[q] \subseteq pending[q] /\ deliveries' = deliveries
        /\ pc'[q] = "projected" => pc[q] = "projected" /\ projected'[q] = projected[q]
    BY <1>8, <1>t DEF Abandon, tables, TypeOK
  <2> QED BY <1>1, <2>1
<1>9. CASE UNCHANGED vars
  BY <1>1, <1>9 DEF vars, tables, locals
<1> QED
  BY <1>2, <1>3, <1>4, <1>5, <1>6, <1>7, <1>8, <1>9, AskedForDestinations
  DEF Next, RecordStep, SyncStep

\* Until two passes overlap, a pass works on open rows in every reachable state.
LEMMA PassHolds == Spec => []PassInv
<1>1. Init => PassInv
  <2> SUFFICES ASSUME Init PROVE PassInv
    OBVIOUS
  <2>1. \A p \in Procs : pending[p] = {} /\ pc[p] = "idle"
    BY DEF Init
  <2> QED BY <2>1, SyncersAssumption DEF PassInv, PassWorksOnOpenRows, OnePassAtATime, InPass
<1>2. Base /\ PassInv /\ [Next]_vars => PassInv'
  BY StepPass
<1> QED BY <1>1, <1>2, BaseHolds, PTL DEF Spec

(* As long as no two passes overlapped, every delivery a pass still has to
   project or to store is open in the ledger. *)
THEOREM PassStaysOpen == Spec => []PassWorksOnOpenRows
<1>1. PassInv => PassWorksOnOpenRows
  BY DEF PassInv, PassWorksOnOpenRows
<1> QED BY <1>1, PassHolds, PTL

\* Storing an outcome is a Report of the ledger.
LEMMA StoreMaps ==
    ASSUME Base, PassInv, NEW p \in Syncers, StoreOutcome(p)
    PROVE  \E id \in Ids, d \in Destinations, outcome \in Outcomes : Ledger!Report(id, d, outcome)
<1>1. /\ projected[p].id \in Ids /\ projected[p].dest \in Destinations
      /\ projected[p].outcome \in Outcomes
  BY SyncersAssumption DEF StoreOutcome, Base, Typing, LocalsTyped, Projections
<1>2. \/ deliveries[<<projected[p].id, projected[p].dest>>] \in Open
      \/ overlapped /\ deliveries[<<projected[p].id, projected[p].dest>>] # "absent"
  <2>1. overlapped => deliveries[<<projected[p].id, projected[p].dest>>] # "absent"
    BY SyncersAssumption DEF StoreOutcome, Base, WorkIsKnown, Known
  <2> QED BY <2>1 DEF StoreOutcome, PassInv, PassWorksOnOpenRows, OpenRow, Base, Typing, TypeOK
<1>3. Ledger!Report(projected[p].id, projected[p].dest, projected[p].outcome)
  BY <1>2 DEF StoreOutcome, StatusOf, Open, Ledger!Report, Ledger!Open, outside
<1> QED BY <1>1, <1>3

\* Every step is a step of the ledger or leaves it alone.
LEMMA StepMaps ==
    ASSUME Base, PassInv, [Next]_vars
    PROVE  [Ledger!Next]_(Ledger!vars)
<1>1. ASSUME NEW p \in Procs, NEW id \in Ids, NEW c \in Contents, NEW ds \in SUBSET Destinations,
             InsertCheckpoint(p, id, c, ds)
      PROVE  Ledger!Record(id, c, ds)
  BY <1>1 DEF InsertCheckpoint, MayInsert, Recorded, Ledger!Record, Rows, outside
<1>2. ASSUME NEW p \in Procs, NEW id \in Ids, NEW c \in Contents, NEW ds \in SUBSET Destinations,
             DuplicateCheckpoint(p, id, c, ds)
      PROVE  UNCHANGED Ledger!vars
  BY <1>2 DEF DuplicateCheckpoint, tables, outside, Ledger!vars
<1>3. ASSUME NEW p \in Procs, ReturnReceipt(p) PROVE UNCHANGED Ledger!vars
  BY <1>3 DEF ReturnReceipt, tables, Ledger!vars
<1>4. ASSUME NEW p \in Syncers, BeginSync(p) PROVE Ledger!Overlap \/ UNCHANGED Ledger!vars
  BY <1>4 DEF BeginSync, tables, Base, Typing, TypeOK, Ledger!Overlap, Ledger!vars
<1>5. ASSUME NEW p \in Procs, NEW d \in pending[p], NEW outcome \in Outcomes,
             NEW lands \in BOOLEAN, Project(p, d, outcome, lands)
      PROVE  UNCHANGED Ledger!vars
  BY <1>5 DEF Project, tables, Ledger!vars
<1>6. ASSUME NEW p \in Syncers, StoreOutcome(p) PROVE Ledger!Next
  BY <1>6, StoreMaps DEF Ledger!Next, Outcomes, Ledger!Outcomes
<1>7. ASSUME NEW p \in Procs, Abandon(p) PROVE UNCHANGED Ledger!vars
  BY <1>7 DEF Abandon, tables, Ledger!vars
<1>8. CASE UNCHANGED vars
  BY <1>8 DEF vars, tables, outside, Ledger!vars
<1> QED
  BY <1>1, <1>2, <1>3, <1>4, <1>5, <1>6, <1>7, <1>8, SyncersAssumption, AskedForDestinations
  DEF Next, RecordStep, SyncStep, Ledger!Next

(* For any number of processes and syncers, every step of the Recorder is a
   step of the abstract ledger or leaves it unchanged. *)
THEOREM RecorderImplementsLedger == Spec => LedgerIsImplemented
<1>1. Init => Ledger!Init
  BY DEF Init, Ledger!Init, Rows
<1>2. Base /\ PassInv /\ [Next]_vars => [Ledger!Next]_(Ledger!vars)
  BY StepMaps
<1> QED BY <1>1, <1>2, BaseHolds, PassHolds, PTL DEF Spec, LedgerIsImplemented, Ledger!Spec

\* Until two passes overlap, a synced or conflicting delivery does not change again.
THEOREM SettledStaysSettled == Spec => SettledIsFinal
<1>1. Base /\ PassInv /\ [Next]_vars => (~overlapped => KeepsSettled)
  <2> SUFFICES ASSUME Base, PassInv, [Next]_vars, ~overlapped, NEW id \in Ids, NEW d \in Destinations,
                      deliveries[<<id, d>>] \in Settled
               PROVE  deliveries'[<<id, d>>] = deliveries[<<id, d>>]
    BY DEF KeepsSettled, Rows
  <2>1. [Ledger!Next]_(Ledger!vars)
    BY StepMaps
  <2>2. ASSUME NEW i \in Ids, NEW c \in Contents, NEW ds \in SUBSET Destinations, Ledger!Record(i, c, ds)
        PROVE  deliveries'[<<id, d>>] = deliveries[<<id, d>>]
    <3>1. i # id
      BY <2>2 DEF Ledger!Record, Base, RowsAreRecorded, Recorded, Settled
    <3> QED BY <2>2, <3>1 DEF Ledger!Record
  <2>3. ASSUME NEW i \in Ids, NEW e \in Destinations, NEW o \in Ledger!Outcomes, Ledger!Report(i, e, o)
        PROVE  deliveries'[<<id, d>>] = deliveries[<<id, d>>]
    <3>1. <<i, e>> # <<id, d>>
      BY <2>3 DEF Ledger!Report, Ledger!Open, Settled
    <3>2. <<id, d>> \in Rows /\ deliveries \in [Rows -> {"absent", "pending"} \cup Outcomes]
      BY DEF Rows, Base, Typing, TypeOK
    <3> QED BY <2>3, <3>1, <3>2 DEF Ledger!Report
  <2> QED BY <2>1, <2>2, <2>3 DEF Ledger!Next, Ledger!vars, Ledger!Overlap
<1> QED BY <1>1, BaseHolds, PassHolds, PTL DEF Spec, SettledIsFinal

-----------------------------------------------------------------------------
(* No call of the projector is forgotten: the processes whose outcome for a row
   is not stored yet are finitely many (each call adds one), and with the stored
   and the lost outcomes they account for every call. *)

InFlight(row) == {p \in Procs : pc[p] = "projected" /\ Row(projected[p]) = row}
Accounted(row) ==
    /\ IsFiniteSet(InFlight(row))
    /\ calls[row] = attempts[row] + lost[row] + Cardinality(InFlight(row))
CallsInv == \A row \in Rows : Accounted(row)

\* A step that touches neither a projection nor a count keeps the account.
LEMMA AccountKept ==
    ASSUME NEW row \in Rows, Accounted(row),
           \A q \in Procs : /\ (pc'[q] = "projected") <=> (pc[q] = "projected")
                            /\ pc[q] = "projected" => projected'[q] = projected[q],
           calls'[row] = calls[row], attempts'[row] = attempts[row], lost'[row] = lost[row]
    PROVE  Accounted(row)'
<1>1. InFlight(row)' = InFlight(row)
  BY DEF InFlight, Row
<1> QED BY <1>1 DEF Accounted

\* Every step keeps the account of every row.
LEMMA StepCalls == Typing /\ CallsInv /\ [Next]_vars => CallsInv'
<1> SUFFICES ASSUME Typing, CallsInv, [Next]_vars, NEW row \in Rows PROVE Accounted(row)'
  BY DEF CallsInv
<1>t. /\ Accounted(row) /\ TypeOK /\ LocalsTyped
      /\ calls[row] \in Nat /\ attempts[row] \in Nat /\ lost[row] \in Nat
      /\ Cardinality(InFlight(row)) \in Nat
  BY FS_CardinalityType DEF CallsInv, Typing, TypeOK, Accounted
<1>1. ASSUME NEW p \in Procs, NEW id \in Ids, NEW c \in Contents, NEW ds \in SUBSET Destinations,
             InsertCheckpoint(p, id, c, ds) \/ DuplicateCheckpoint(p, id, c, ds)
      PROVE  Accounted(row)'
  BY <1>1, <1>t, AccountKept DEF InsertCheckpoint, DuplicateCheckpoint, TypeOK, tables, outside
<1>2. ASSUME NEW p \in Procs, ReturnReceipt(p) PROVE Accounted(row)'
  BY <1>2, <1>t, AccountKept DEF ReturnReceipt, TypeOK, tables
<1>3. ASSUME NEW p \in Procs, BeginSync(p) PROVE Accounted(row)'
  BY <1>3, <1>t, AccountKept DEF BeginSync, TypeOK, tables
<1>4. ASSUME NEW p \in Procs, NEW d \in pending[p], NEW outcome \in Outcomes, NEW lands \in BOOLEAN,
             Project(p, d, outcome, lands)
      PROVE  Accounted(row)'
  <2>1. /\ \A q \in Procs \ {p} : pc'[q] = pc[q] /\ projected'[q] = projected[q]
        /\ pc[p] # "projected" /\ pc'[p] = "projected"
        /\ Row(projected'[p]) = Row(d) /\ Row(d) \in Rows
        /\ attempts'[row] = attempts[row] /\ lost'[row] = lost[row]
        /\ calls' = [calls EXCEPT ![Row(d)] = @ + 1]
    BY <1>4, <1>t DEF Project, TypeOK, tables, Row, PendingDeliveries, Rows
  <2>2. CASE row # Row(d)
    <3>1. InFlight(row)' = InFlight(row) /\ calls'[row] = calls[row]
      BY <2>1, <2>2, <1>t DEF InFlight, Row, TypeOK
    <3> QED BY <3>1, <2>1, <1>t DEF Accounted
  <2>3. CASE row = Row(d)
    <3>1. InFlight(row)' = InFlight(row) \cup {p} /\ p \notin InFlight(row)
      BY <2>1, <2>3 DEF InFlight, Row
    <3>2. calls'[row] = calls[row] + 1
      BY <2>1, <2>3, <1>t DEF TypeOK
    <3>3. /\ IsFiniteSet(InFlight(row)')
          /\ Cardinality(InFlight(row)') = Cardinality(InFlight(row)) + 1
      BY <3>1, <1>t, FS_AddElement DEF Accounted
    <3> QED BY <3>2, <3>3, <2>1, <1>t DEF Accounted
  <2> QED BY <2>2, <2>3
\* An outcome that is stored or lost is one process less in flight for its row.
<1>5. ASSUME NEW p \in Procs, pc[p] = "projected", pc'[p] # "projected",
             \A q \in Procs \ {p} : pc'[q] = pc[q] /\ projected'[q] = projected[q],
             calls' = calls,
             \A r \in Rows : attempts'[r] + lost'[r]
                = IF r = Row(projected[p]) THEN attempts[r] + lost[r] + 1 ELSE attempts[r] + lost[r]
      PROVE  Accounted(row)'
  <2>1. CASE row # Row(projected[p])
    <3>1. InFlight(row)' = InFlight(row)
      BY <2>1, <1>5 DEF InFlight, Row
    <3> QED BY <3>1, <2>1, <1>5, <1>t DEF Accounted
  <2>2. CASE row = Row(projected[p])
    <3>1. InFlight(row)' = InFlight(row) \ {p} /\ p \in InFlight(row)
      BY <2>2, <1>5 DEF InFlight, Row
    <3>2. /\ IsFiniteSet(InFlight(row)')
          /\ Cardinality(InFlight(row)') = Cardinality(InFlight(row)) - 1
      BY <3>1, <1>t, FS_RemoveElement DEF Accounted
    <3> QED BY <3>2, <2>2, <1>5, <1>t DEF Accounted
  <2> QED BY <2>1, <2>2
<1>6. ASSUME NEW p \in Procs, StoreOutcome(p) PROVE Accounted(row)'
  <2>1. Row(projected[p]) \in Rows
    BY <1>6, <1>t DEF StoreOutcome, LocalsTyped, Projections, Row, Rows
  <2>2. \A r \in Rows : /\ attempts'[r] = IF r = Row(projected[p]) THEN attempts[r] + 1 ELSE attempts[r]
                        /\ attempts[r] \in Nat /\ lost[r] \in Nat /\ lost'[r] = lost[r]
    BY <1>6, <2>1, <1>t DEF StoreOutcome, TypeOK, AttemptsAfter, Row, outside
  <2>3. /\ pc[p] = "projected" /\ pc'[p] # "projected" /\ calls' = calls
        /\ \A q \in Procs \ {p} : pc'[q] = pc[q] /\ projected'[q] = projected[q]
    BY <1>6, <1>t DEF StoreOutcome, TypeOK, outside
  <2>4. \A r \in Rows : attempts'[r] + lost'[r]
          = IF r = Row(projected[p]) THEN attempts[r] + lost[r] + 1 ELSE attempts[r] + lost[r]
    BY <2>2
  <2> QED BY <2>3, <2>4, <1>5
<1>7. ASSUME NEW p \in Procs, Abandon(p) PROVE Accounted(row)'
  <2>1. CASE pc[p] = "projected"
    <3>1. Row(projected[p]) \in Rows
      BY <2>1, <1>t DEF LocalsTyped, Projections, Row, Rows
    <3>2. \A r \in Rows : /\ lost'[r] = IF r = Row(projected[p]) THEN lost[r] + 1 ELSE lost[r]
                          /\ attempts[r] \in Nat /\ lost[r] \in Nat /\ attempts'[r] = attempts[r]
      BY <1>7, <2>1, <3>1, <1>t DEF Abandon, TypeOK, Row, tables
    <3>3. /\ pc'[p] # "projected" /\ calls' = calls
          /\ \A q \in Procs \ {p} : pc'[q] = pc[q] /\ projected'[q] = projected[q]
      BY <1>7, <1>t DEF Abandon, TypeOK
    <3>4. \A r \in Rows : attempts'[r] + lost'[r]
            = IF r = Row(projected[p]) THEN attempts[r] + lost[r] + 1 ELSE attempts[r] + lost[r]
      BY <3>2
    <3> QED BY <2>1, <3>3, <3>4, <1>5
  <2>2. CASE pc[p] # "projected"
    BY <1>7, <2>2, <1>t, AccountKept DEF Abandon, TypeOK, tables
  <2> QED BY <2>1, <2>2
<1>8. CASE UNCHANGED vars
  BY <1>8, <1>t, AccountKept DEF vars, tables, locals, outside
<1> QED
  BY <1>1, <1>2, <1>3, <1>4, <1>6, <1>7, <1>8, SyncersAssumption, AskedForDestinations
  DEF Next, RecordStep, SyncStep

(* For any number of processes and over any crash, attempts falls short of the
   calls of the projector only by those in flight and those lost in a crash. *)
THEOREM AttemptsCountCalls == Spec => []AttemptsAreCalls
<1>1. Init => CallsInv
  <2> SUFFICES ASSUME Init, NEW row \in Rows PROVE Accounted(row)
    BY DEF CallsInv
  <2>1. InFlight(row) = {}
    BY DEF Init, InFlight
  <2>2. calls[row] = 0 /\ attempts[row] = 0 /\ lost[row] = 0
    BY DEF Init
  <2> QED BY <2>1, <2>2, FS_EmptySet DEF Accounted
<1>2. Typing /\ CallsInv => AttemptsAreCalls
  BY DEF Typing, CallsInv, Accounted, InFlight, Row, AttemptsAreCalls
<1> QED BY <1>1, <1>2, StepCalls, Typed, PTL DEF Spec

=============================================================================
