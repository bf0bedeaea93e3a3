------------------------------ MODULE StopHook ------------------------------
(***************************************************************************)
(* The Codex Stop hook of the gareji-progress plugin (record_stop.py): for *)
(* every Stop event a short-lived process lists the registered projects,   *)
(* picks the one whose workspace holds the working directory, collects the *)
(* git state and records a checkpoint through a `gareji-core bridge` child *)
(* of its own.  Codex may deliver a Stop event again.                      *)
(*                                                                         *)
(* The hook gives every command a timeout and kills it when that expires,  *)
(* whatever it has done by then; Codex does the same to the hook, whose    *)
(* bridge child then works on.                                             *)
(***************************************************************************)
EXTENDS Naturals, FiniteSets, FiniteSetsExt

CONSTANTS
    Runs,           \* hook processes
    Turns,          \* Codex turns, each with its Stop event
    Projects,       \* project identities, numbered in the order Core lists them
    MaxDepth,       \* depth of the directory chain below
    Destinations,
    Registrations,  \* the registrations the operator may make
    None,
    MaxChanges,     \* bound on changes of the working tree
    MaxVersions     \* bound on the different registrations of all projects

ASSUME ProjectsAssumption == Projects \subseteq Nat \ {0}
ASSUME BoundsAssumption == MaxDepth \in Nat /\ MaxChanges \in Nat /\ MaxVersions \in Nat

(* Directories are nested in one chain and told apart by their depth; workspace
   0 is a logical identity, which is no directory. *)
Directories == 1 .. MaxDepth
Workspaces == 0 .. MaxDepth
Contains(workspace, dir) == workspace <= dir

ASSUME RegistrationsAssumption ==
    Registrations \subseteq
        [workspace : Workspaces, writes : BOOLEAN, targets : SUBSET Destinations]

VARIABLES
    registered,     \* table gareji_projects
    content, delivery,  \* the progress ledger
    cwd,            \* the working directory each turn reports
    tree,           \* the state of the working tree, as git sees it
    hook,           \* each hook process
    bridge,         \* the bridge child of each hook process
    versions        \* history: every registration a project has had

ledger == <<content, delivery>>
vars == <<registered, ledger, cwd, tree, hook, bridge, versions>>

\* checkpoint_id is a digest of session, turn and project.
Ids == Turns \X Projects
\* recorded_at is the time of the hook process, which no two of them share.
Contents == [run : Runs, project : Projects, workspace : Workspaces, tree : 0 .. MaxChanges]
ASSUME NoneAssumption == None \notin Contents \cup Registrations
Ledger == INSTANCE CheckpointLedger WITH NoContent <- None, overlapped <- FALSE

NotStarted == [at |-> "waiting"]
Selections == [at : {"selected"}, turn : Turns, project : Projects, workspace : Workspaces,
               configured : BOOLEAN]
Captures == [at : {"sent", "recorded", "warned", "killed"}, turn : Turns, content : Contents,
             configured : BOOLEAN]
Ends == [at : {"ignored", "warned", "killed"}]
BridgeStates == [at : {"none", "started", "ok", "refused", "dead"}]
                    \cup [at : {"authorized"}, targets : SUBSET Destinations]

TypeOK ==
    /\ registered \in [Projects -> Registrations \cup {None}]
    /\ Ledger!TypeOK
    /\ cwd \in [Turns -> Directories]
    /\ tree \in 0 .. MaxChanges
    /\ hook \in [Runs -> {NotStarted} \cup Selections \cup Captures \cup Ends]
    /\ bridge \in [Runs -> BridgeStates]
    /\ versions \in [Projects -> SUBSET Registrations]
    \* a project is named for a reason: its workspace holds the directory, or it was configured
    /\ \A h \in Runs : hook[h].at = "selected" /\ ~hook[h].configured =>
           hook[h].workspace # 0 /\ Contains(hook[h].workspace, cwd[hook[h].turn])

Init ==
    /\ registered = [p \in Projects |-> None]
    /\ Ledger!Init
    /\ cwd \in [Turns -> Directories]
    /\ tree = 0
    /\ hook = [h \in Runs |-> NotStarted]
    /\ bridge = [h \in Runs |-> [at |-> "none"]]
    /\ versions = [p \in Projects |-> {}]

-----------------------------------------------------------------------------
(* Operator and working tree *)

Register(p, reg) ==
    /\ reg \notin versions[p] => MapThenSumSet(LAMBDA q : Cardinality(versions[q]), Projects)
                                  < MaxVersions
    /\ registered[p] # reg
    /\ registered' = [registered EXCEPT ![p] = reg]
    /\ versions' = [versions EXCEPT ![p] = @ \cup {reg}]
    /\ UNCHANGED <<ledger, cwd, tree, hook, bridge>>

TreeChanges ==
    /\ tree < MaxChanges
    /\ tree' = tree + 1
    /\ UNCHANGED <<registered, ledger, cwd, hook, bridge, versions>>

-----------------------------------------------------------------------------
(* The hook process *)

GoTo(h, state) == hook' = [hook EXCEPT ![h] = state]

Listed == {p \in Projects : registered[p] # None}
\* Logical identities are skipped, only directories are compared.
Matches(p, dir) == registered[p].workspace # 0 /\ Contains(registered[p].workspace, dir)

Nearest(dir) == {p \in Listed : /\ Matches(p, dir)
                                /\ \A q \in Listed : Matches(q, dir) =>
                                      registered[q].workspace <= registered[p].workspace}
\* max() keeps the first of equals.
Chosen(dir) == CHOOSE p \in Nearest(dir) : \A q \in Nearest(dir) : p <= q

Select(h, t, p, configured) ==
    IF registered[p].writes
    THEN GoTo(h, [at |-> "selected", turn |-> t, project |-> p,
                  workspace |-> registered[p].workspace, configured |-> configured])
    ELSE GoTo(h, [at |-> "warned"])

(* `gareji-core project list`, then the choice by working directory.  No match
   ends the hook without a word. *)
ListAndMatch(h, t) ==
    /\ hook[h] = NotStarted
    /\ IF Nearest(cwd[t]) = {}
       THEN GoTo(h, [at |-> "ignored"])
       ELSE Select(h, t, Chosen(cwd[t]), FALSE)
    /\ UNCHANGED <<registered, ledger, cwd, tree, bridge, versions>>

(* The environment names the project and the directory of its workspace, which
   has to hold the working directory. *)
ListConfigured(h, t, p, path) ==
    /\ hook[h] = NotStarted
    /\ IF p \in Listed /\ Contains(path, cwd[t])
       THEN Select(h, t, p, TRUE)
       ELSE GoTo(h, [at |-> "warned"])
    /\ UNCHANGED <<registered, ledger, cwd, tree, bridge, versions>>

(* The git commands are run and the checkpoint is built; the bridge child gets
   the request with all of its input. *)
Capture(h) ==
    /\ hook[h].at = "selected"
    /\ GoTo(h, [at |-> "sent", turn |-> hook[h].turn, configured |-> hook[h].configured,
                content |-> [run |-> h, project |-> hook[h].project,
                             workspace |-> hook[h].workspace, tree |-> tree]])
    /\ bridge' = [bridge EXCEPT ![h] = [at |-> "started"]]
    /\ UNCHANGED <<registered, ledger, cwd, tree, versions>>

\* Faulty variant: the bridge child is awaited without a timeout.
GitCanFail(h) == hook[h].at \in {"waiting", "selected"}
CanFail(h) == hook[h].at \in {"waiting", "selected", "sent"}

(* A command cannot be started, fails or runs into its timeout.  The child of
   record_checkpoint is killed first. *)
CommandFails(h) ==
    /\ CanFail(h)
    /\ IF hook[h].at = "sent"
       THEN /\ GoTo(h, [hook[h] EXCEPT !.at = "warned"])
            /\ bridge' = [bridge EXCEPT ![h] = [at |-> "dead"]]
       ELSE GoTo(h, [at |-> "warned"]) /\ UNCHANGED bridge
    /\ UNCHANGED <<registered, ledger, cwd, tree, versions>>

\* Faulty variant: whatever the bridge answers, the hook is content.
AnyAnswerIsGood(answer) == answer \in {"ok", "refused"}
IsGood(answer) == answer = "ok"

\* The response line is read: anything but status ok becomes a warning.
ReadAnswer(h) ==
    /\ hook[h].at = "sent"
    /\ bridge[h].at \in {"ok", "refused"}
    /\ GoTo(h, [hook[h] EXCEPT !.at = IF IsGood(bridge[h].at) THEN "recorded" ELSE "warned"])
    /\ UNCHANGED <<registered, ledger, cwd, tree, bridge, versions>>

\* Codex kills a hook that exceeds its own timeout.
Killed(h) ==
    /\ hook[h].at \in {"waiting", "selected", "sent"}
    /\ IF hook[h].at = "sent"
       THEN GoTo(h, [hook[h] EXCEPT !.at = "killed"])
       ELSE GoTo(h, [at |-> "killed"])
    /\ UNCHANGED <<registered, ledger, cwd, tree, bridge, versions>>

-----------------------------------------------------------------------------
(* The bridge child: record_progress of CoreBridge *)

BridgeTo(h, state) == bridge' = [bridge EXCEPT ![h] = state]

\* Faulty variant: Core trusts the hook's choice of project.
TrustsHook(reg, c) == reg # None
Authorizes(reg, c) == reg # None /\ reg.writes /\ reg.workspace = c.workspace

BridgeAuthorizes(h) ==
    /\ bridge[h].at = "started"
    /\ LET c == hook[h].content
           reg == registered[c.project]
       IN  IF Authorizes(reg, c)
           THEN BridgeTo(h, [at |-> "authorized", targets |-> reg.targets])
           ELSE BridgeTo(h, [at |-> "refused"])
    /\ UNCHANGED <<registered, ledger, cwd, tree, hook, versions>>

Identity(h) == <<hook[h].turn, hook[h].content.project>>

BridgeRecords(h) ==
    /\ bridge[h].at = "authorized"
    /\ \/ /\ Ledger!Record(Identity(h), hook[h].content, bridge[h].targets)
          /\ BridgeTo(h, [at |-> "ok"])
       \/ /\ content[Identity(h)] # None
          /\ LET same == /\ content[Identity(h)] = hook[h].content
                         /\ bridge[h].targets =
                              {d \in Destinations : delivery[<<Identity(h), d>>] # "absent"}
             IN  BridgeTo(h, [at |-> IF same THEN "ok" ELSE "refused"])
          /\ UNCHANGED ledger
    /\ UNCHANGED <<registered, cwd, tree, hook, versions>>

HookStep(h) ==
    \/ \E t \in Turns : ListAndMatch(h, t)
    \/ Capture(h)
    \/ CommandFails(h)
    \/ ReadAnswer(h)

Next ==
    \/ \E p \in Projects, reg \in Registrations : Register(p, reg)
    \/ TreeChanges
    \/ \E h \in Runs :
         \/ HookStep(h)
         \/ \E t \in Turns, p \in Projects, path \in Directories : ListConfigured(h, t, p, path)
         \/ Killed(h)
         \/ BridgeAuthorizes(h)
         \/ BridgeRecords(h)

Spec == Init /\ [][Next]_vars

(* A started hook goes on: a command that does not end runs into its timeout.
   Nothing is assumed of Core or git. *)
FairSpec == Spec /\ \A h \in Runs : WF_vars(hook[h] # NotStarted /\ HookStep(h))

-----------------------------------------------------------------------------
(* Properties *)

(* A hook that ends without a warning after it found a project has its own
   checkpoint in the ledger: silence means recorded, whatever timeouts, kills
   and other hooks of the same turn came between. *)
SilenceMeansRecorded ==
    /\ TypeOK
    /\ \A h \in Runs : hook[h].at = "recorded" => content[Identity(h)] = hook[h].content

(* The hook chose the project and its workspace from a listing that may be out
   of date; what is recorded all the same agrees with one registration the
   project really had ("Core still validates the project grant, workspace
   identity ... before recording", docs/codex-stop-hook-v0.md). *)
RecordedIsConnected ==
    \A id \in Ids : content[id] # None =>
        \E v \in versions[id[2]] :
            /\ v.writes
            /\ v.workspace = content[id].workspace
            /\ \A d \in Destinations : (d \in v.targets) <=> (delivery[<<id, d>>] # "absent")

(* The hook cannot trap Codex: it ends although the commands it runs may
   block ("observational and non-blocking", docs/codex-stop-hook-v0.md). *)
HookEnds ==
    \A h \in Runs : (hook[h].at # "waiting") ~> (hook[h].at \notin {"selected", "sent"})

(* "Re-running the same Hook input therefore reaches the Recorder's normal
   idempotent path" (docs/codex-stop-hook-v0.md): when neither the registration
   nor the working tree changed, no run for a recorded turn is refused. *)
RerunIsIdempotent ==
    \A h \in Runs : bridge[h].at = "refused" =>
        tree > 0 \/ Cardinality(versions[hook[h].content.project]) > 1

=============================================================================
