---------------------------- MODULE RunExecution ----------------------------
(***************************************************************************)
(* RunExecutor::execute (gareji-core runner.rs) with its capability gate   *)
(* (policy.rs) and the Codex Runner Adapter behind it                      *)
(* (gareji-codex-runner): validate the request, authorize it against local *)
(* policy and the trusted approvals, start Codex in the sandbox the        *)
(* authorization maps to, watch its deadline, drain its pipes, translate   *)
(* what it wrote and validate the report.                                  *)
(*                                                                         *)
(* The approvals (changed by an operator while a run is in flight) and the *)
(* Codex process (which writes what it likes, ends when it likes, and may  *)
(* leave a descendant on its pipes) are external.                          *)
(***************************************************************************)
EXTENDS Naturals, FiniteSets

CONSTANTS
    None,
    Runs,           \* run identities, which are the gate's operation ids
    Capabilities,   \* capability names, well formed or not
    IllFormed,      \* those validate_capabilities refuses
    Approvable,     \* those the approval store may come to hold
    Policies        \* the configured policies to consider, valid or not

CONSTANTS ContextRead, WorkspaceWrite

ASSUME CapabilitiesAssumption ==
    /\ {ContextRead, WorkspaceWrite} \subseteq Capabilities \ IllFormed
    /\ Approvable \subseteq Capabilities
    /\ Policies \subseteq [allowed : SUBSET Capabilities, approval_required : SUBSET Capabilities]

Categories == {"configuration", "execution", "timeout", "cancelled", "protocol", "internal"}
Outcomes == {"succeeded", "failed", "cancelled"}
Reports == [outcome : Outcomes, failure : Categories \cup {None}]

\* What Codex's stdout holds: a turn.completed event, a turn.failed or error
\* event, or what translate_output cannot accept: a line or byte parse_events
\* refuses, or more than MAX_STDOUT_BYTES.
Texts == {"completed", "failure", "invalid"}
Codes == {"zero", "nonzero", "interrupted", "signalled"}   \* interrupted: 130

ASSUME NoneAssumption ==
    None \notin Categories \cup Codes \cup {"running", "read-only", "workspace-write"}

VARIABLES
    policy, approvals,
    pc, request,
    approved,       \* what the approval source answered
    held,           \* history: the approvals held for this run at the lookup
    sandbox, child, prompt, text,
    holder,         \* a descendant of Codex holds its pipes
    expired,        \* the execution deadline has passed
    timed_out,
    report, answer

gate == <<approved, held>>
codex == <<sandbox, child, prompt, text, holder>>
clock == <<expired, timed_out>>
vars == <<policy, approvals, pc, request, gate, codex, clock, report, answer>>

Answers == {"none", "error", "rejected", "finished"}   \* finished: with the report

TypeOK ==
    /\ policy \in Policies
    /\ approvals \in [Runs -> SUBSET Approvable]
    /\ pc \in {"idle", "authorize", "decide", "start", "watch", "kill", "drain", "validate"}
    /\ request = None \/
       request \in [run : Runs, requested : SUBSET Capabilities]
    /\ approved \subseteq Capabilities /\ held \subseteq Capabilities
    /\ sandbox \in {"read-only", "workspace-write", None}
    /\ child \in Codes \cup {"running", None}
    /\ prompt \in {"sending", "sent"}
    /\ text \subseteq Texts
    /\ holder \in BOOLEAN /\ expired \in BOOLEAN /\ timed_out \in BOOLEAN
    /\ report = None \/ report \in Reports
    /\ answer \in Answers
    \* Codex has a sandbox from the moment it exists
    /\ child # None => sandbox # None

Init ==
    /\ policy \in Policies
    /\ approvals = [r \in Runs |-> {}]
    /\ pc = "idle"
    /\ request = None
    /\ approved = {} /\ held = {}
    /\ sandbox = None /\ child = None /\ prompt = "sending" /\ text = {} /\ holder = FALSE
    /\ expired = FALSE /\ timed_out = FALSE
    /\ report = None
    /\ answer = "none"

-----------------------------------------------------------------------------
(* The capability gate *)

\* validate_capabilities: every name is well formed.
WellFormed(names) == names \cap IllFormed = {}

\* CapabilityPolicy::validate.
PolicyIsValid ==
    /\ WellFormed(policy.allowed) /\ WellFormed(policy.approval_required)
    /\ policy.approval_required \subseteq policy.allowed

Answered(result) ==
    /\ pc' = "idle"
    /\ answer' = result

NeedsApproval == request.requested \cap policy.approval_required # {}

\* Faulty variant: the lookup forgets the operation.
ApprovedForAny(run) == UNION {approvals[r] : r \in Runs}
\* approved_capabilities(operation_id).
ApprovedFor(run) == approvals[run]

\* evaluate_verified: the requested capabilities that are refused.
RefusedBy(evidence) ==
    {c \in request.requested :
        \/ c \notin policy.allowed
        \/ c \in policy.approval_required /\ c \notin evidence}

\* validate_request, and a run that begins with nothing of the last one (a Codex
\* that one left behind is not followed any further).
Execute ==
    /\ pc = "idle"
    /\ \/ Answered("error") /\ request' = None      \* validate_request refuses
       \/ /\ \E r \in Runs, requested \in SUBSET Capabilities :
               request' = [run |-> r, requested |-> requested]
          /\ pc' = "authorize"
          /\ answer' = "none"
    /\ approved' = {} /\ held' = {}
    /\ sandbox' = None /\ child' = None /\ prompt' = "sending" /\ text' = {} /\ holder' = FALSE
    /\ expired' = FALSE /\ timed_out' = FALSE
    /\ report' = None
    /\ UNCHANGED <<policy, approvals>>

\* CapabilityGate::authorize up to the approval source's answer.
Authorize ==
    /\ pc = "authorize"
    /\ held' = approvals[request.run]
    /\ LET valid == PolicyIsValid /\ WellFormed(request.requested)
           evidence == ApprovedFor(request.run)
       IN  \/ ~valid /\ Answered("error") /\ UNCHANGED approved
           \/ valid /\ ~NeedsApproval /\ pc' = "decide" /\ UNCHANGED <<answer, approved>>
           \/ valid /\ NeedsApproval /\ Answered("error")   \* the source is unavailable
              /\ UNCHANGED approved
           \/ valid /\ NeedsApproval /\ ~WellFormed(evidence) /\ Answered("error")
              /\ UNCHANGED approved
           \/ valid /\ NeedsApproval /\ WellFormed(evidence)
              /\ approved' = evidence /\ pc' = "decide" /\ UNCHANGED answer
    /\ UNCHANGED <<policy, approvals, request, codex, clock, report>>

Decide ==
    /\ pc = "decide"
    /\ IF RefusedBy(approved) = {} THEN pc' = "start" /\ UNCHANGED answer
                                   ELSE Answered("rejected")
    /\ UNCHANGED <<policy, approvals, request, gate, codex, clock, report>>

-----------------------------------------------------------------------------
(* The Codex Adapter *)

Failure(category) == [outcome |-> "failed", failure |-> category]

Reported(result) ==
    /\ report' = result
    /\ pc' = "validate"

SupportedCapabilities == {ContextRead, WorkspaceWrite}

\* The sandbox the authorized capabilities map to.
Sandbox == IF WorkspaceWrite \in request.requested THEN "workspace-write" ELSE "read-only"

Start ==
    /\ pc = "start"
    /\ \/ /\ Reported(Failure("configuration"))   \* a bad payload, or no Codex to spawn
          /\ UNCHANGED <<sandbox, child>>
       \/ /\ request.requested \subseteq SupportedCapabilities
          /\ sandbox' = Sandbox
          /\ child' = "running"
          /\ pc' = "watch"
          /\ UNCHANGED report
    /\ UNCHANGED <<policy, approvals, request, gate, prompt, text, holder, clock, answer>>

HasEnded == child \in Codes

\* A call on the process fails (ProcessInvokeError::Io): the adapter gives up
\* and reports an internal failure.  Dropping the handle does not end Codex.
GivesUp ==
    /\ Reported(Failure("internal"))
    /\ UNCHANGED timed_out

\* capture_child's loop: try_wait first, then the deadline.  Codex may still
\* end between the two.
Watch ==
    /\ pc = "watch"
    /\ \/ HasEnded /\ pc' = "drain" /\ UNCHANGED <<report, timed_out>>
       \/ child = "running" /\ expired /\ pc' = "kill" /\ UNCHANGED <<report, timed_out>>
       \/ GivesUp                              \* try_wait fails
    /\ UNCHANGED <<policy, approvals, request, gate, codex, expired, answer>>

\* child.kill(): signals Codex unless it has ended.
Killed == child' = IF child = "running" THEN "signalled" ELSE child

\* kill and wait.  The descendants are not signalled.
KillAtDeadline ==
    /\ pc = "kill"
    /\ \/ Killed /\ timed_out' = TRUE /\ Reported(Failure("timeout"))
       \/ Killed /\ GivesUp            \* wait fails
       \/ UNCHANGED child /\ GivesUp   \* kill fails
    /\ UNCHANGED <<policy, approvals, request, gate, sandbox, prompt, text, holder, expired, answer>>

\* Faulty variant: the event stream alone decides.
CompletedIsSuccess(code, output) ==
    IF "completed" \in output THEN [outcome |-> "succeeded", failure |-> None]
                              ELSE Failure("protocol")

\* translate_output of a process that was not timed out.
Translated(code, output) ==
    CASE "invalid" \in output -> Failure("protocol")
      [] OTHER ->
         CASE code = "interrupted" -> [outcome |-> "cancelled", failure |-> "cancelled"]
           [] code \in {"nonzero", "signalled"} -> Failure("execution")
           [] code = "zero" /\ "failure" \in output -> Failure("execution")
           [] code = "zero" /\ output = {} -> Failure("protocol")
           [] code = "zero" /\ output = {"completed"} ->
                [outcome |-> "succeeded", failure |-> None]

\* The three channels answered before the drain deadline: the prompt's writer
\* has ended (its result is ignored) and both readers met the end of the pipe.
Drain ==
    /\ pc = "drain"
    /\ prompt = "sent" /\ ~holder
    /\ Reported(Translated(child, text))
    /\ UNCHANGED <<policy, approvals, request, gate, codex, clock, answer>>

\* Faulty variant: recv instead of recv_timeout.
WaitsForever == FALSE
\* receive_before: PIPE_DRAIN_GRACE after Codex ended.
GraceExpires == TRUE

DrainExpires ==
    /\ pc = "drain"
    /\ GraceExpires
    /\ Reported(Failure("internal"))
    /\ UNCHANGED <<policy, approvals, request, gate, codex, clock, answer>>

\* validate_report, as far as outcome and failure go.
ReportIsValid(r) ==
    /\ (r.outcome = "succeeded") = (r.failure = None)
    /\ (r.outcome = "cancelled") = (r.failure = "cancelled")

Validate ==
    /\ pc = "validate"
    /\ Answered(IF ReportIsValid(report) THEN "finished" ELSE "error")
    /\ UNCHANGED <<policy, approvals, request, gate, codex, clock, report>>

-----------------------------------------------------------------------------
(* The surroundings *)

executor == <<policy, pc, request, gate, report, answer>>

\* An operator approves or revokes.
ChangeApprovals ==
    /\ \E r \in Runs, c \in Approvable :
         approvals' = [approvals EXCEPT ![r] = IF c \in @ THEN @ \ {c} ELSE @ \cup {c}]
    /\ UNCHANGED <<executor, codex, clock>>

DeadlinePasses ==
    /\ pc = "watch" /\ ~expired
    /\ expired' = TRUE
    /\ UNCHANGED <<executor, approvals, codex, timed_out>>

\* Codex, or a descendant on its pipes, writes to stdout.
CodexWrites ==
    /\ pc \in {"watch", "kill", "drain"}
    /\ child = "running" \/ holder
    /\ \E t \in Texts : text' = text \cup {t}
    /\ UNCHANGED <<executor, approvals, sandbox, child, prompt, holder, clock>>

\* Codex reads its prompt, or the last reader is gone and the write fails.
PromptEnds ==
    /\ pc \in {"watch", "kill", "drain"} /\ prompt = "sending"
    /\ child = "running" \/ ~holder
    /\ prompt' = "sent"
    /\ UNCHANGED <<executor, approvals, sandbox, child, text, holder, clock>>

CodexForks ==
    /\ child = "running" /\ ~holder
    /\ holder' = TRUE
    /\ UNCHANGED <<executor, approvals, sandbox, child, prompt, text, clock>>

DescendantEnds ==
    /\ holder
    /\ holder' = FALSE
    /\ UNCHANGED <<executor, approvals, sandbox, child, prompt, text, clock>>

CodexEnds ==
    /\ child = "running"
    /\ child' \in Codes
    /\ UNCHANGED <<executor, approvals, sandbox, prompt, text, holder, clock>>

Executor ==
    Authorize \/ Decide \/ Start \/ Watch \/ KillAtDeadline \/ Drain \/ DrainExpires \/ Validate

Next ==
    \/ Execute \/ Executor
    \/ ChangeApprovals \/ DeadlinePasses
    \/ CodexWrites \/ PromptEnds \/ CodexForks \/ DescendantEnds \/ CodexEnds

Spec == Init /\ [][Next]_vars

\* The executor's thread runs and the clock moves; nothing is assumed of the
\* operator, of Codex or of its descendants.
FairSpec == Spec /\ WF_vars(Executor) /\ WF_vars(DeadlinePasses)

-----------------------------------------------------------------------------
(* Properties *)

\* Every capability a started Codex was authorized for was allowed by a
\* consistent policy and, where the policy asks, approved for this very run
\* when the gate looked, and the write sandbox exists only where writing was
\* asked for: a later grant, another run's approval or a broken policy file
\* never widens a run (policy.rs authorize, lib.rs execute).
SandboxIsAuthorized ==
    sandbox # None =>
        /\ policy.approval_required \subseteq policy.allowed
        /\ request.requested \subseteq policy.allowed
        /\ request.requested \cap policy.approval_required \subseteq held
        /\ sandbox = "workspace-write" => WorkspaceWrite \in request.requested

\* A run is reported as a success only when Codex itself ended with status
\* zero before it was killed, nobody held its pipes any longer, and the whole
\* stream was readable and said the turn completed and nothing failed.  Core
\* never has to refuse a report of the adapter.  A run that is over has left no
\* Codex at work, unless it says that it failed internally: no success, no
\* cancellation and no timeout is reported of a Codex that still runs.
SuccessIsCodexs ==
    /\ TypeOK
    /\ answer = "finished" /\ report.outcome = "succeeded" =>
         /\ child = "zero" /\ ~timed_out /\ ~holder
         /\ text = {"completed"}
    /\ pc = "validate" => ReportIsValid(report)
    /\ pc \in {"idle", "validate"} /\ child = "running" => report = Failure("internal")

\* Every request is answered, whatever Codex and its descendants do.
RequestsAreAnswered == [](pc # "idle" => <>(pc = "idle"))
=============================================================================
