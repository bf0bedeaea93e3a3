----------------------------- MODULE CoreBridge -----------------------------
(***************************************************************************)
(* The Core bridge of gareji-core (bridge.rs) over the project registry    *)
(* (registry.rs), Board (board.rs) and the progress ledger.                *)
(*                                                                         *)
(* Every transport starts a bridge process of its own; the operator's CLI  *)
(* registers projects in the same database.  One bridge handles a request  *)
(* at a time, but a request is several transactions: it reads the          *)
(* registration, asks Board or checks the workspace, and then writes what  *)
(* it decided from the registration it read.  The ledger is used through   *)
(* its promise, CheckpointLedger, which ProgressRecorder implements.       *)
(***************************************************************************)
EXTENDS Naturals, FiniteSets

CONSTANTS
    Bridges,        \* bridge processes
    Projects, Items, Ids, Destinations, Workspaces, Bodies,
    Registrations,  \* the registrations the operator may make
    None,
    MaxCrashes      \* bound on bridge crashes

Grants == {"read_context", "select_active_work", "write_progress"}
ASSUME RegistrationsAssumption ==
    Registrations \subseteq [grants : SUBSET Grants, workspace : Workspaces,
                             targets : SUBSET Destinations]
ASSUME BoundAssumption == MaxCrashes \in Nat

\* A checkpoint, as far as Core looks into it.
Contents == [project : Projects, workspace : Workspaces, body : Bodies]
ASSUME NoneAssumption == None \notin Contents

VARIABLES
    registered,     \* table gareji_projects
    active,         \* table gareji_active_work
    content, delivery,  \* the progress ledger
    eligible,       \* what Board would call eligible now
    bridge,         \* the request each bridge is working on
    \* history
    versions,       \* every registration a project has had
    cleared,        \* pairs Board called eligible for a bridge that had the grant
    refused,        \* identities whose unchanged content was answered with a conflict
    crashes

ledger == <<content, delivery>>
history == <<versions, cleared, refused, crashes>>
vars == <<registered, active, ledger, eligible, bridge, history>>

Ledger == INSTANCE CheckpointLedger WITH NoContent <- None, overlapped <- FALSE

Idle == [at |-> "idle"]
Selects == [at : {"granted", "assessed"}, project : Projects, item : Items]
Records == [at : {"authorized"}, id : Ids, content : Contents, seen : Registrations]

TypeOK ==
    /\ registered \in [Projects -> Registrations \cup {None}]
    /\ active \in [Projects -> Items \cup {None}]
    /\ Ledger!TypeOK
    /\ eligible \in SUBSET (Projects \X Items)
    /\ bridge \in [Bridges -> {Idle} \cup Selects \cup Records]
    /\ versions \in [Projects -> SUBSET Registrations]
    /\ cleared \in SUBSET (Projects \X Items)
    /\ refused \in SUBSET Ids
    /\ crashes \in 0 .. MaxCrashes

Init ==
    /\ registered = [p \in Projects |-> None]
    /\ active = [p \in Projects |-> None]
    /\ Ledger!Init
    /\ eligible \in SUBSET (Projects \X Items)
    /\ bridge = [b \in Bridges |-> Idle]
    /\ versions = [p \in Projects |-> {}]
    /\ cleared = {}
    /\ refused = {}
    /\ crashes = 0

-----------------------------------------------------------------------------
(* Operator and Board *)

\* project register: create or replace; the active work reference is left alone.
Register(p, reg) ==
    /\ registered' = [registered EXCEPT ![p] = reg]
    /\ versions' = [versions EXCEPT ![p] = @ \cup {reg}]
    /\ UNCHANGED <<active, ledger, eligible, bridge, cleared, refused, crashes>>

\* Work items move on Board whenever people move them.
BoardChanges(p, i) ==
    /\ eligible' = IF <<p, i>> \in eligible THEN eligible \ {<<p, i>>} ELSE eligible \cup {<<p, i>>}
    /\ UNCHANGED <<registered, active, ledger, bridge, history>>

-----------------------------------------------------------------------------
(* Requests: an answer of any kind returns the bridge to its input. *)

IsIdle(b) == bridge[b].at = "idle"
Answer(b) == bridge' = [bridge EXCEPT ![b] = Idle]
GoOn(b, request) == bridge' = [bridge EXCEPT ![b] = request]

\* require_grant, on the registration the request has just read.
Granted(reg, grant) == grant \in reg.grants

(* set_active_work_item, first read: a project that is not registered or does
   not grant the operation is answered with an error at once, which changes
   nothing. *)
SelectStart(b, p, i) ==
    /\ IsIdle(b)
    /\ registered[p] # None
    /\ Granted(registered[p], "select_active_work")
    /\ GoOn(b, [at |-> "granted", project |-> p, item |-> i])
    /\ UNCHANGED <<registered, active, ledger, eligible, history>>

\* Faulty variant: an unavailable Board is taken for a yes.
ClearedUnlessDenied(p, i, reply) == reply \in {"eligible", "unavailable"}
Clears(p, i, reply) == reply = "eligible"

(* The Board is asked; Ineligible, a missing project or item, an unavailable
   Board and an invalid response are all answered with an error. *)
Assess(b, reply) ==
    /\ bridge[b].at = "granted"
    /\ LET p == bridge[b].project
           i == bridge[b].item
       IN  /\ reply = "eligible" => <<p, i>> \in eligible
           /\ reply = "ineligible" => <<p, i>> \notin eligible
           /\ IF Clears(p, i, reply)
              THEN GoOn(b, [bridge[b] EXCEPT !.at = "assessed"])
              ELSE Answer(b)
           /\ cleared' = IF reply = "eligible" THEN cleared \cup {<<p, i>>} ELSE cleared
    /\ UNCHANGED <<registered, active, ledger, eligible, versions, refused, crashes>>

(* registry.set_active_work_item: the project is still registered (no operation
   removes one); the upsert is one Immediate transaction. *)
SelectCommit(b) ==
    /\ bridge[b].at = "assessed"
    /\ active' = [active EXCEPT ![bridge[b].project] = bridge[b].item]
    /\ Answer(b)
    /\ UNCHANGED <<registered, ledger, eligible, history>>

\* Faulty variant: the workspace of the checkpoint is not compared.
AnyWorkspace(reg, c) == TRUE
Connected(reg, c) == reg.workspace = c.workspace

(* record_progress, first read: registration, grant and workspace. *)
RecordStart(b, id, c) ==
    /\ IsIdle(b)
    /\ registered[c.project] # None
    /\ Granted(registered[c.project], "write_progress")
    /\ Connected(registered[c.project], c)
    /\ GoOn(b, [at |-> "authorized", id |-> id, content |-> c, seen |-> registered[c.project]])
    /\ UNCHANGED <<registered, active, ledger, eligible, history>>

\* Faulty variant: only destinations that have the checkpoint are compared.
DeliveredTargets(id) == {d \in Destinations : delivery[<<id, d>>] = "synced"}
LedgerTargets(id) == {d \in Destinations : delivery[<<id, d>>] # "absent"}

(* progress.record, with the targets of the registration read before. *)
RecordNew(b) ==
    /\ bridge[b].at = "authorized"
    /\ Ledger!Record(bridge[b].id, bridge[b].content, bridge[b].seen.targets)
    /\ Answer(b)
    /\ UNCHANGED <<registered, active, eligible, history>>

\* The identity is recorded: a duplicate, or a conflict that is only answered.
RecordAgain(b) ==
    /\ bridge[b].at = "authorized"
    /\ content[bridge[b].id] # None
    /\ Answer(b)
    /\ refused' = IF /\ content[bridge[b].id] = bridge[b].content
                     /\ LedgerTargets(bridge[b].id) # bridge[b].seen.targets
                  THEN refused \cup {bridge[b].id}
                  ELSE refused
    /\ UNCHANGED <<registered, active, ledger, eligible, versions, cleared, crashes>>

\* The transport closed the pipe or the process died: the request is not answered.
Crash(b) ==
    /\ ~IsIdle(b)
    /\ crashes < MaxCrashes
    /\ crashes' = crashes + 1
    /\ Answer(b)
    /\ UNCHANGED <<registered, active, ledger, eligible, versions, cleared, refused>>

Replies == {"eligible", "ineligible", "unavailable"}

Handle(b) ==
    \/ \E p \in Projects, i \in Items : SelectStart(b, p, i)
    \/ \E reply \in Replies : Assess(b, reply)
    \/ SelectCommit(b)
    \/ \E id \in Ids, c \in Contents : RecordStart(b, id, c)
    \/ RecordNew(b)
    \/ RecordAgain(b)

Next ==
    \/ \E p \in Projects, reg \in Registrations : Register(p, reg)
    \/ \E p \in Projects, i \in Items : BoardChanges(p, i)
    \/ \E b \in Bridges : Handle(b) \/ Crash(b)

Spec == Init /\ [][Next]_vars

-----------------------------------------------------------------------------
(* Properties *)

(* Work becomes active only after Board called that very item of that very
   project eligible for a request whose project granted the selection, whatever
   requests other bridges have under way ("Board must confirm the project
   relationship and active-work eligibility before Core changes its operational
   reference", docs/core-bridge-v0.md). *)
ActiveWasCleared ==
    /\ TypeOK
    /\ \A p \in Projects : active[p] # None =>
         /\ <<p, active[p]>> \in cleared
         /\ \E v \in versions[p] : "select_active_work" \in v.grants

(* Grant, workspace and delivery set of a recorded checkpoint come from one
   registration of its project, although the registration may be replaced while
   the request is under way. *)
RecordedFromOneRegistration ==
    \A id \in Ids : content[id] # None =>
        \E v \in versions[content[id].project] :
            /\ "write_progress" \in v.grants
            /\ v.workspace = content[id].workspace
            /\ v.targets = LedgerTargets(id)

(* A retry of an unchanged checkpoint is a duplicate: it is answered with a
   conflict only if the project was registered with other destinations. *)
RetryIsRefusedOnlyAfterChange ==
    \A id \in refused :
        \E v, w \in versions[content[id].project] : v.targets # w.targets

=============================================================================
