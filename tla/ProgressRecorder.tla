-------------------------- MODULE ProgressRecorder --------------------------
(***************************************************************************)
(* The Progress Recorder of gareji-core (progress/mod.rs): processes that  *)
(* each hold a connection to one SQLite ledger and record checkpoints or   *)
(* run sync passes over it.                                                *)
(*                                                                         *)
(* A step is one SQLite statement or transaction, or one call of the       *)
(* external projector.  `record` is therefore two steps (the Immediate     *)
(* transaction, then the read that builds the receipt) and a sync pass is  *)
(* one read of the open deliveries, then a projection and an UPDATE for    *)
(* each.  Between any two steps another process may run, and the process   *)
(* may crash or its connection may fail.                                   *)
(***************************************************************************)
EXTENDS Naturals, FiniteSets

CONSTANTS
    Procs,          \* processes with the ledger open
    Syncers,        \* the processes that run sync passes
    Ids, Contents, Destinations, NoContent,
    DeliverySets,   \* the sets of destinations that callers ask for with each content
    MaxCalls,       \* a delivery whose projector was called this often no longer fails
    MaxCrashes      \* bound on crashes and storage errors

ASSUME SyncersAssumption == Syncers \subseteq Procs
ASSUME DeliverySetsAssumption == DeliverySets \in [Contents -> SUBSET SUBSET Destinations]
ASSUME NoContentAssumption == NoContent \notin Contents
ASSUME BoundsAssumption == MaxCalls \in Nat /\ MaxCrashes \in Nat

VARIABLES
    checkpoints,    \* table gareji_checkpoints: identity -> payload
    rowid,          \* its rowid, the order of insertion (0: no row)
    deliveries,     \* table gareji_checkpoint_deliveries: <<id, destination>> -> status
    attempts,       \* its attempts column
    pc,             \* where each process is
    request,        \* the record call a process has committed
    pending,        \* the deliveries a sync pass still has to project
    projected,      \* the projection whose outcome is not yet stored
    \* what the outside world has seen
    receipts,       \* the receipts returned to callers of record
    accepted,       \* the deliveries that reached their destination
    calls,          \* how often the projector was called for each delivery
    lost,           \* calls whose outcome was lost before it was stored
    overlapped,     \* whether a pass was begun while another was under way
    crashes

tables == <<checkpoints, rowid, deliveries, attempts>>
locals == <<pc, request, pending, projected>>
outside == <<receipts, accepted, calls, lost, overlapped, crashes>>
vars == <<tables, locals, outside>>

Ledger == INSTANCE CheckpointLedger WITH content <- checkpoints, delivery <- deliveries

Rows == Ids \X Destinations
Open == {"pending", "failed"}
Outcomes == {"synced", "conflict", "failed"}

Requests == [id : Ids, content : Contents, targets : SUBSET Destinations,
             duplicate : BOOLEAN]
NoRequest == [id |-> NoContent]
Receipts == [proc : Procs, id : Ids, content : Contents, targets : SUBSET Destinations,
             duplicate : BOOLEAN, rows : SUBSET Destinations]
\* A PendingDelivery carries the payload read by the snapshot query.
PendingDeliveries == [id : Ids, dest : Destinations, content : Contents]
Projections == [id : Ids, dest : Destinations, content : Contents, outcome : Outcomes]
NoProjection == [id |-> NoContent]

TypeOK ==
    /\ checkpoints \in [Ids -> Contents \cup {NoContent}]
    /\ rowid \in [Ids -> Nat]
    /\ deliveries \in [Rows -> {"absent", "pending"} \cup Outcomes]
    /\ attempts \in [Rows -> Nat]
    /\ pc \in [Procs -> {"idle", "committed", "syncing", "projected"}]
    /\ request \in [Procs -> Requests \cup {NoRequest}]
    /\ pending \in [Procs -> SUBSET PendingDeliveries]
    /\ projected \in [Procs -> Projections \cup {NoProjection}]
    /\ receipts \in SUBSET Receipts
    /\ accepted \in SUBSET PendingDeliveries
    /\ calls \in [Rows -> Nat]
    /\ lost \in [Rows -> Nat]
    /\ overlapped \in BOOLEAN
    /\ crashes \in Nat

Init ==
    /\ checkpoints = [id \in Ids |-> NoContent]
    /\ rowid = [id \in Ids |-> 0]
    /\ deliveries = [row \in Rows |-> "absent"]
    /\ attempts = [row \in Rows |-> 0]
    /\ pc = [p \in Procs |-> "idle"]
    /\ request = [p \in Procs |-> NoRequest]
    /\ pending = [p \in Procs |-> {}]
    /\ projected = [p \in Procs |-> NoProjection]
    /\ receipts = {}
    /\ accepted = {}
    /\ calls = [row \in Rows |-> 0]
    /\ lost = [row \in Rows |-> 0]
    /\ overlapped = FALSE
    /\ crashes = 0

-----------------------------------------------------------------------------
(* record *)

Recorded(id) == checkpoints[id] # NoContent
Targets(id) == {d \in Destinations : deliveries[<<id, d>>] # "absent"}
\* SQLite gives an inserted row the rowid after the largest one; no row is ever deleted.
NextRowid == Cardinality({id \in Ids : Recorded(id)}) + 1

\* Faulty variant: an upsert, or an existence check outside the transaction.
MayAlwaysInsert(id) == TRUE
\* The existence check is made under the write lock of the same transaction.
MayInsert(id) == ~Recorded(id)

(* The Immediate transaction inserts the checkpoint and one pending delivery
   per target, and commits them together. *)
InsertCheckpoint(p, id, c, ds) ==
    /\ pc[p] = "idle"
    /\ MayInsert(id)
    /\ checkpoints' = [checkpoints EXCEPT ![id] = c]
    /\ rowid' = [rowid EXCEPT ![id] = NextRowid]
    /\ deliveries' = [row \in Rows |->
                        IF row[1] = id /\ row[2] \in ds THEN "pending" ELSE deliveries[row]]
    /\ pc' = [pc EXCEPT ![p] = "committed"]
    /\ request' = [request EXCEPT ![p] =
                     [id |-> id, content |-> c, targets |-> ds, duplicate |-> FALSE]]
    /\ UNCHANGED <<attempts, pending, projected, outside>>

\* Faulty variant: the destination set is not compared.
SameFingerprint(id, c, ds) == checkpoints[id] = c
(* The identity is recorded: only the same fingerprint and the same
   destination set are a duplicate.  A CheckpointConflict or a
   DeliverySetMismatch returns an error and changes nothing. *)
SameRecord(id, c, ds) == checkpoints[id] = c /\ Targets(id) = ds

DuplicateCheckpoint(p, id, c, ds) ==
    /\ pc[p] = "idle"
    /\ Recorded(id)
    /\ SameRecord(id, c, ds)
    /\ pc' = [pc EXCEPT ![p] = "committed"]
    /\ request' = [request EXCEPT ![p] =
                     [id |-> id, content |-> c, targets |-> ds, duplicate |-> TRUE]]
    /\ UNCHANGED <<tables, pending, projected, outside>>

(* After the commit, `status` reads the delivery rows in a statement of its
   own and the receipt goes back to the caller. *)
ReturnReceipt(p) ==
    /\ pc[p] = "committed"
    /\ receipts' = receipts \cup
         {[proc |-> p, id |-> request[p].id, content |-> request[p].content,
           targets |-> request[p].targets, duplicate |-> request[p].duplicate,
           rows |-> Targets(request[p].id)]}
    /\ pc' = [pc EXCEPT ![p] = "idle"]
    /\ request' = [request EXCEPT ![p] = NoRequest]
    /\ UNCHANGED <<tables, pending, projected, accepted, calls, lost, overlapped, crashes>>

-----------------------------------------------------------------------------
(* sync_pending *)

\* Faulty variants: a pass that takes up conflicts again, one that forgets failures.
SelectedUnlessSynced(row) == deliveries[row] \notin {"absent", "synced"}
SelectedOnce(row) == deliveries[row] = "pending"
\* The WHERE clause of the snapshot query.
Selected(row) == deliveries[row] \in Open

OpenDeliveries ==
    {d \in PendingDeliveries : Selected(<<d.id, d.dest>>) /\ d.content = checkpoints[d.id]}

InPass(p) == pc[p] \in {"syncing", "projected"}

\* pending_deliveries is read once, before the first projection.
BeginSync(p) ==
    /\ pc[p] = "idle"
    /\ OpenDeliveries # {}
    /\ pending' = [pending EXCEPT ![p] = OpenDeliveries]
    /\ pc' = [pc EXCEPT ![p] = "syncing"]
    /\ overlapped' = (overlapped \/ \E q \in Procs : InPass(q))
    /\ UNCHANGED <<tables, request, projected, receipts, accepted, calls, lost, crashes>>

\* The query orders by rowid, then by destination (here: any).
NextInPass(p) ==
    {d \in pending[p] : \A e \in pending[p] : rowid[d.id] <= rowid[e.id]}

(* The projector is external.  It may fail after the destination accepted the
   checkpoint, and a destination does not fail for ever (MaxCalls). *)
Project(p, delivery, outcome, lands) ==
    /\ pc[p] = "syncing"
    /\ delivery \in NextInPass(p)
    /\ outcome = "synced" => lands
    /\ outcome = "conflict" => ~lands
    /\ outcome = "failed" => calls[<<delivery.id, delivery.dest>>] < MaxCalls
    /\ pending' = [pending EXCEPT ![p] = @ \ {delivery}]
    /\ projected' = [projected EXCEPT ![p] =
                       [id |-> delivery.id, dest |-> delivery.dest,
                        content |-> delivery.content, outcome |-> outcome]]
    /\ accepted' = IF lands THEN accepted \cup {delivery} ELSE accepted
    /\ calls' = [calls EXCEPT ![<<delivery.id, delivery.dest>>] = @ + 1]
    /\ pc' = [pc EXCEPT ![p] = "projected"]
    /\ UNCHANGED <<tables, request, receipts, lost, overlapped, crashes>>

\* Faulty variants: a conflict stored as success, attempts that count failures only.
StatusOfConflictIsSynced(outcome) == IF outcome = "conflict" THEN "synced" ELSE outcome
FailedAttempts(row, outcome) == IF outcome = "failed" THEN attempts[row] + 1 ELSE attempts[row]
StatusOf(outcome) == outcome
AttemptsAfter(row, outcome) == attempts[row] + 1

(* The UPDATE is a statement of its own, on the primary key alone: it does not
   look at the status it overwrites. *)
StoreOutcome(p) ==
    /\ pc[p] = "projected"
    /\ LET row == <<projected[p].id, projected[p].dest>> IN
         /\ deliveries' = [deliveries EXCEPT ![row] = StatusOf(projected[p].outcome)]
         /\ attempts' = [attempts EXCEPT ![row] = AttemptsAfter(row, projected[p].outcome)]
    /\ projected' = [projected EXCEPT ![p] = NoProjection]
    /\ pc' = [pc EXCEPT ![p] = IF pending[p] = {} THEN "idle" ELSE "syncing"]
    /\ UNCHANGED <<checkpoints, rowid, request, pending, outside>>

-----------------------------------------------------------------------------
(* A crash, or a storage error that makes the call return early (the read of
   the receipt, the UPDATE of a pass).  What was committed stays; the call's
   local state is gone. *)
Abandon(p) ==
    /\ pc[p] # "idle"
    /\ crashes < MaxCrashes
    /\ crashes' = crashes + 1
    /\ lost' = IF pc[p] = "projected"
               THEN [lost EXCEPT ![<<projected[p].id, projected[p].dest>>] = @ + 1]
               ELSE lost
    /\ pc' = [pc EXCEPT ![p] = "idle"]
    /\ request' = [request EXCEPT ![p] = NoRequest]
    /\ pending' = [pending EXCEPT ![p] = {}]
    /\ projected' = [projected EXCEPT ![p] = NoProjection]
    /\ UNCHANGED <<tables, receipts, accepted, calls, overlapped>>

RecordStep(p) ==
    \/ \E id \in Ids, c \in Contents : \E ds \in DeliverySets[c] :
         InsertCheckpoint(p, id, c, ds) \/ DuplicateCheckpoint(p, id, c, ds)
    \/ ReturnReceipt(p)

SyncStep(p) ==
    \/ BeginSync(p)
    \/ \E delivery \in pending[p], outcome \in Outcomes, lands \in BOOLEAN :
         Project(p, delivery, outcome, lands)
    \/ StoreOutcome(p)

Next ==
    \/ \E p \in Procs : RecordStep(p) \/ Abandon(p)
    \/ \E p \in Syncers : SyncStep(p)

Spec == Init /\ [][Next]_vars

(* A caller may stop calling record, but a call that is under way goes on, and
   the operator keeps asking for sync passes.  The pass is requested again and
   again although other calls of the same process come between (SF). *)
Fairness ==
    /\ \A p \in Procs : WF_vars(ReturnReceipt(p))
    /\ \A p \in Syncers : SF_vars(BeginSync(p)) /\ WF_vars(SyncStep(p))

FairSpec == Spec /\ Fairness

-----------------------------------------------------------------------------
(* Properties *)

(* A receipt stays true: whatever other callers, passes and crashes follow,
   the ledger holds the content and the destination set the caller was told
   were recorded, and the rows the caller was shown were that set.  (record
   reads its receipt after the commit, in another statement.) *)
ReceiptsHold ==
    \A r \in receipts :
        /\ checkpoints[r.id] = r.content
        /\ Targets(r.id) = r.targets
        /\ r.rows = r.targets

(* At most one call is ever told that it recorded an identity first; every
   other receipt says duplicate, also when the first caller crashed between
   its commit and its receipt. *)
FirstRecords(id) ==
    {p \in Procs : \/ pc[p] = "committed" /\ request[p].id = id /\ ~request[p].duplicate
                   \/ \E r \in receipts : r.proc = p /\ r.id = id /\ ~r.duplicate}
FirstRecordIsUnique == \A id \in Ids : \A p, q \in FirstRecords(id) : p = q

(* The first record captures both the payload and the destination set: no
   later step changes either, and a row never returns to pending. *)
KeepsRecords ==
    \A id \in Ids : Recorded(id) =>
        /\ checkpoints'[id] = checkpoints[id]
        /\ Targets(id)' = Targets(id)
        /\ \A d \in Destinations : deliveries'[<<id, d>>] = "pending" => deliveries[<<id, d>>] = "pending"
LedgerIsImmutable == [][KeepsRecords]_vars

(* Every content that ever reached a destination is the one the ledger holds,
   and it went only to destinations of its delivery set: a pass works on the
   payload of its snapshot, which may be old when it is used. *)
AcceptedIsRecorded ==
    \A a \in accepted : checkpoints[a.id] = a.content /\ a.dest \in Targets(a.id)

(* A delivery is only reported synced if its destination accepted the payload. *)
SyncedWasAccepted ==
    \A id \in Ids, d \in Destinations :
        deliveries[<<id, d>>] = "synced" => \E a \in accepted : a.id = id /\ a.dest = d

(* attempts counts every call of the projector whose outcome was stored,
   whichever process made it and however the passes interleave: it falls
   short of the calls only by those in flight and those lost in a crash. *)
AttemptsAreCalls ==
    /\ TypeOK
    /\ \A row \in Rows :
          calls[row] = attempts[row] + lost[row]
                       + Cardinality({p \in Procs : /\ pc[p] = "projected"
                                                    /\ <<projected[p].id, projected[p].dest>> = row})

(* As long as no two passes overlapped, what a pass still has to project is
   open in the ledger, and so is the row whose outcome it is about to store. *)
OpenRow(row) == deliveries[row] \in Open
PassWorksOnOpenRows ==
    ~overlapped => \A p \in Syncers :
        /\ \A d \in pending[p] : OpenRow(<<d.id, d.dest>>)
        /\ pc[p] = "projected" => OpenRow(<<projected[p].id, projected[p].dest>>)

(* "synced is complete and is not retried", "conflict requires review"
   (docs/progress-recorder-v0.md): a settled delivery does not change, as long
   as no two passes overlapped. *)
Settled == {"synced", "conflict"}
KeepsSettled == \A row \in Rows : deliveries[row] \in Settled => deliveries'[row] = deliveries[row]
SettledIsFinal == [][~overlapped => KeepsSettled]_vars

(* The tables implement the promise of CheckpointLedger: content and rows appear
   together and once, and only open deliveries are reported until two passes
   overlap. *)
LedgerIsImplemented == Ledger!Spec

(* Every open delivery is settled, over crashes, storage errors and failures of
   the destination, as long as passes go on.  With several syncing processes a
   settled delivery may be reopened by a stale outcome, but not for ever. *)
DeliveriesStaySettled ==
    \A row \in Rows : (deliveries[row] \in Open) ~> [](deliveries[row] \in Settled)

=============================================================================
