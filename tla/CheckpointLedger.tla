-------------------------- MODULE CheckpointLedger --------------------------
(***************************************************************************)
(* What the Progress Recorder promises its callers, with no processes, no  *)
(* SQL and no clock: a ledger of checkpoints whose content and delivery    *)
(* set are fixed by the first record, and one delivery per destination     *)
(* that leaves the open states only once, unless passes overlap.           *)
(*                                                                         *)
(* The promise is that of the Rust types: a ProgressCheckpoint is recorded *)
(* once with its DeliveryTargets, a DeliveryReceipt carries one            *)
(* DeliveryStatus, and sync_pending only works on pending and failed rows. *)
(* Nothing keeps two processes from syncing at once, and then an outcome   *)
(* may overwrite a settled delivery.  ProgressRecorder implements this.    *)
(***************************************************************************)

CONSTANTS
    Ids,            \* checkpoint identities
    Contents,       \* checkpoint payloads, told apart by their fingerprint
    Destinations,   \* delivery destinations
    NoContent       \* the content of an identity that is not recorded

VARIABLES
    content,        \* the recorded payload of each identity
    delivery,       \* the delivery state of each identity at each destination
    overlapped      \* a sync pass was begun while another was under way

vars == <<content, delivery, overlapped>>

\* A delivery that a sync pass still has to work on.
Open == {"pending", "failed"}
\* What a projection reports.
Outcomes == {"synced", "conflict", "failed"}
\* "absent": the destination was not a target of the first record.
Statuses == {"absent", "pending"} \cup Outcomes

TypeOK ==
    /\ content \in [Ids -> Contents \cup {NoContent}]
    /\ delivery \in [Ids \X Destinations -> Statuses]
    /\ overlapped \in BOOLEAN

Init ==
    /\ content = [id \in Ids |-> NoContent]
    /\ delivery = [row \in Ids \X Destinations |-> "absent"]
    /\ overlapped = FALSE

(* The first record of an identity fixes its content and, in the same step,
   creates one pending delivery for every destination of its target set. *)
Record(id, c, ds) ==
    /\ content[id] = NoContent
    /\ content' = [content EXCEPT ![id] = c]
    /\ delivery' = [row \in Ids \X Destinations |->
                      IF row[1] = id /\ row[2] \in ds THEN "pending" ELSE delivery[row]]
    /\ overlapped' = overlapped

(* One projection of a delivery is reported: of an open one, or of any once
   passes have overlapped. *)
Report(id, d, outcome) ==
    /\ delivery[<<id, d>>] \in Open \/ (overlapped /\ delivery[<<id, d>>] # "absent")
    /\ delivery' = [delivery EXCEPT ![<<id, d>>] = outcome]
    /\ content' = content /\ overlapped' = overlapped

Overlap ==
    /\ ~overlapped
    /\ overlapped' = TRUE
    /\ UNCHANGED <<content, delivery>>

Next ==
    \/ \E id \in Ids, c \in Contents, ds \in SUBSET Destinations : Record(id, c, ds)
    \/ \E id \in Ids, d \in Destinations, outcome \in Outcomes : Report(id, d, outcome)
    \/ Overlap

Spec == Init /\ [][Next]_vars

=============================================================================
