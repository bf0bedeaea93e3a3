------------------------- MODULE RunExecutionProofs -------------------------
(***************************************************************************)
(* Proofs about RunExecution, for every set of runs, capabilities and      *)
(* policies.                                                               *)
(***************************************************************************)
EXTENDS RunExecution, TLAPS

Deciding == {"authorize", "decide", "start"}
AtWork == {"watch", "kill", "drain"}

(* The gate: what it looked at is what it was shown for this run, and by the
   time Codex may start nothing it asked for is refused. *)
Authorized ==
    /\ policy.approval_required \subseteq policy.allowed
    /\ request.requested \subseteq policy.allowed
    /\ request.requested \cap policy.approval_required \subseteq held
GateInv ==
    /\ approved \subseteq held
    /\ pc \in Deciding => request \in [run : Runs, requested : SUBSET Capabilities]
    /\ pc = "authorize" => approved = {}
    /\ pc = "decide" => PolicyIsValid
    /\ pc \in {"start"} \cup AtWork => Authorized
    /\ sandbox # None =>
         /\ Authorized
         /\ sandbox = "workspace-write" => WorkspaceWrite \in request.requested
    /\ pc \in Deciding => sandbox = None

\* The process: where Codex can be at each place, and what a report rests on.
CodexInv ==
    /\ pc \in Deciding => child = None
    /\ pc \in {"watch", "kill"} => child \in Codes \cup {"running"}
    /\ pc = "drain" => child \in Codes
    /\ pc \in {"idle", "validate"} /\ child = "running" => report = Failure("internal")
    /\ pc \notin {"idle", "validate"} => ~timed_out /\ answer # "finished"
    /\ pc = "validate" => report \in Reports /\ ReportIsValid(report)
    /\ answer = "finished" => report \in Reports
    /\ pc = "validate" \/ answer = "finished" =>
         (report.outcome = "succeeded" =>
            child = "zero" /\ ~timed_out /\ ~holder /\ text = {"completed"})
ExecInv == TypeOK /\ GateInv /\ CodexInv

\* Nothing runs in the initial state.
LEMMA InitExec == Init => ExecInv
BY NoneAssumption
DEF Init, ExecInv, TypeOK, GateInv, CodexInv, Deciding, AtWork, Answers, Codes

\* A request that passes the gate leaves nothing of an earlier run behind.
LEMMA ExecuteStep == ASSUME ExecInv, Execute PROVE ExecInv'
<1> USE DEF ExecInv, Deciding, AtWork
<1>1. TypeOK'
  <2>1. request' = None \/ request' \in [run : Runs, requested : SUBSET Capabilities]
    BY DEF Execute, Answered
  <2>2. pc' \in {"idle", "authorize"} /\ answer' \in {"error", "none"}
    BY DEF Execute, Answered
  <2> QED BY <2>1, <2>2 DEF Execute, TypeOK, Answers
<1>2. GateInv'
  <2>1. pc' = "authorize" => request' \in [run : Runs, requested : SUBSET Capabilities]
    BY DEF Execute, Answered
  <2> QED BY <2>1 DEF Execute, Answered, GateInv
<1>3. CodexInv'
  BY NoneAssumption DEF Execute, Answered, CodexInv, Codes
<1> QED BY <1>1, <1>2, <1>3

\* The gate: the lookup, then the decision.
LEMMA GateSteps == ASSUME ExecInv, Authorize \/ Decide PROVE ExecInv'
<1> USE DEF ExecInv, Deciding, AtWork
<1>1. CASE Authorize
  <2>1. /\ pc = "authorize" /\ held' = approvals[request.run]
        /\ UNCHANGED <<policy, approvals, request, codex, clock, report>>
        /\ \/ pc' = "idle" /\ answer' = "error" /\ approved' = approved
           \/ pc' = "decide" /\ answer' = answer /\ PolicyIsValid
              /\ approved' \in {approved, approvals[request.run]}
    BY <1>1 DEF Authorize, Answered, ApprovedFor
  <2>2. approvals[request.run] \subseteq Capabilities
    BY <2>1, CapabilitiesAssumption DEF TypeOK, GateInv
  <2>3. TypeOK'
    BY <2>1, <2>2 DEF TypeOK, codex, clock, Answers
  <2>4. GateInv'
    BY <2>1 DEF GateInv, codex, PolicyIsValid
  <2>5. CodexInv'
    BY <2>1, NoneAssumption DEF CodexInv, codex, clock
  <2> QED BY <2>3, <2>4, <2>5
<1>2. CASE Decide
  <2>1. /\ pc = "decide"
        /\ UNCHANGED <<policy, approvals, request, gate, codex, clock, report>>
        /\ \/ RefusedBy(approved) = {} /\ pc' = "start" /\ answer' = answer
           \/ pc' = "idle" /\ answer' = "rejected"
    BY <1>2 DEF Decide, Answered
  <2>2. TypeOK'
    BY <2>1 DEF TypeOK, gate, codex, clock, Answers
  <2>3. RefusedBy(approved) = {} => Authorized
    <3>1. RefusedBy(approved) = {} =>
            \A c \in request.requested :
               c \in policy.allowed /\ (c \in policy.approval_required => c \in approved)
      BY DEF RefusedBy
    <3> QED BY <2>1, <3>1 DEF Authorized, GateInv, PolicyIsValid
  <2>4. GateInv'
    BY <2>1, <2>3 DEF GateInv, gate, codex, Authorized
  <2>5. CodexInv'
    BY <2>1, NoneAssumption DEF CodexInv, codex, clock
  <2> QED BY <2>2, <2>4, <2>5
<1> QED BY <1>1, <1>2

\* A failure of the adapter is a report that Core accepts.
LEMMA FailureIsValid ==
    ASSUME NEW category \in Categories \ {"cancelled"}
    PROVE  /\ Failure(category) \in Reports /\ ReportIsValid(Failure(category))
           /\ Failure(category).outcome # "succeeded"
BY NoneAssumption DEF Failure, Reports, ReportIsValid, Categories, Outcomes

(* What the adapter makes of a process that ended is a report that Core accepts,
   and a success only of status zero and a completed turn. *)
LEMMA TranslationIsValid ==
    ASSUME NEW code \in Codes, NEW output \in SUBSET Texts
    PROVE  /\ Translated(code, output) \in Reports /\ ReportIsValid(Translated(code, output))
           /\ Translated(code, output).outcome = "succeeded" =>
                code = "zero" /\ output = {"completed"}
<1>1. CASE "invalid" \in output
  <2>1. Translated(code, output) = Failure("protocol")
    BY <1>1 DEF Translated
  <2> QED BY <2>1, FailureIsValid DEF Categories
<1>2. CASE "invalid" \notin output /\ code = "interrupted"
  <2>1. Translated(code, output) = [outcome |-> "cancelled", failure |-> "cancelled"]
    BY <1>2 DEF Translated
  <2> QED BY <2>1, NoneAssumption DEF Reports, ReportIsValid, Categories, Outcomes
<1>3. CASE "invalid" \notin output /\ code \in {"nonzero", "signalled"}
  <2>1. Translated(code, output) = Failure("execution")
    BY <1>3 DEF Translated
  <2> QED BY <2>1, FailureIsValid DEF Categories
<1>4. CASE "invalid" \notin output /\ code = "zero"
  <2>1. CASE "failure" \in output
    <3>1. Translated(code, output) = Failure("execution")
      BY <1>4, <2>1 DEF Translated
    <3> QED BY <3>1, FailureIsValid DEF Categories
  <2>2. CASE output = {}
    <3>1. Translated(code, output) = Failure("protocol")
      BY <1>4, <2>2 DEF Translated
    <3> QED BY <3>1, FailureIsValid DEF Categories
  <2>3. CASE output = {"completed"}
    <3>1. Translated(code, output) = [outcome |-> "succeeded", failure |-> None]
      BY <1>4, <2>3 DEF Translated
    <3> QED
      BY <1>4, <2>3, <3>1, NoneAssumption DEF Reports, ReportIsValid, Categories, Outcomes
  <2>4. "failure" \in output \/ output = {} \/ output = {"completed"}
    BY <1>4 DEF Texts
  <2> QED BY <2>1, <2>2, <2>3, <2>4
<1> QED BY <1>1, <1>2, <1>3, <1>4 DEF Codes

\* The executor's own steps once the gate is passed.
LEMMA AdapterSteps ==
    ASSUME ExecInv,
           Start \/ Watch \/ KillAtDeadline \/ Drain \/ DrainExpires \/ Validate
    PROVE  ExecInv'
<1> USE DEF ExecInv, Deciding, AtWork
<1>1. CASE Start
  <2>1. /\ pc = "start"
        /\ UNCHANGED <<policy, approvals, request, gate, prompt, text, holder, clock, answer>>
        /\ \/ /\ pc' = "validate" /\ report' = Failure("configuration")
              /\ UNCHANGED <<sandbox, child>>
           \/ /\ sandbox' = Sandbox /\ child' = "running" /\ pc' = "watch" /\ report' = report
    BY <1>1 DEF Start, Reported
  <2>2. \/ report' = report
        \/ report' \in Reports /\ ReportIsValid(report') /\ report'.outcome # "succeeded"
    <3>1. CASE report' = report
      BY <3>1
    <3>2. CASE report' = Failure("configuration")
      <4>1. "configuration" \in Categories \ {"cancelled"}
        BY DEF Categories
      <4>2. /\ Failure("configuration") \in Reports /\ ReportIsValid(Failure("configuration"))
            /\ Failure("configuration").outcome # "succeeded"
        BY <4>1, FailureIsValid
      <4> QED BY <3>2, <4>2
    <3> QED BY <2>1, <3>1, <3>2
  <2>3. /\ Sandbox \in {"read-only", "workspace-write"} /\ Sandbox # None
        /\ Sandbox = "workspace-write" => WorkspaceWrite \in request.requested
    BY NoneAssumption DEF Sandbox
  <2>4. TypeOK'
    BY <2>1, <2>2, <2>3 DEF TypeOK, gate, clock
  <2>5. GateInv'
    BY <2>1, <2>3 DEF GateInv, gate, Authorized
  <2>6. CodexInv'
    <3>1. report' = Failure("configuration") =>
            report' \in Reports /\ ReportIsValid(report') /\ report'.outcome # "succeeded"
      <4>1. "configuration" \in Categories \ {"cancelled"}
        BY DEF Categories
      <4> QED BY <4>1, FailureIsValid
    <3>2. child = None /\ None \notin Codes \cup {"running"}
      BY <2>1, NoneAssumption DEF CodexInv
    <3> QED BY <2>1, <3>1, <3>2 DEF CodexInv, clock, ReportIsValid
  <2> QED BY <2>4, <2>5, <2>6
<1>2. CASE Watch
  <2>1. /\ pc = "watch" /\ UNCHANGED <<policy, approvals, request, gate, codex, clock, answer>>
        /\ \/ pc' = "drain" /\ child \in Codes /\ report' = report
           \/ pc' = "kill" /\ child = "running" /\ report' = report
           \/ pc' = "validate" /\ report' = Failure("internal")
    BY <1>2 DEF Watch, HasEnded, GivesUp, Reported, clock
  <2>2. CASE pc' \in {"drain", "kill"} /\ (pc' = "drain" => child \in Codes) /\ report' = report
    BY <2>1, <2>2, NoneAssumption
    DEF TypeOK, GateInv, CodexInv, gate, codex, clock, Authorized, ReportIsValid
  <2>3. CASE pc' = "validate" /\ report' = Failure("internal")
    <3>1. report' \in Reports /\ ReportIsValid(report') /\ report'.outcome # "succeeded"
      BY <2>3, FailureIsValid DEF Categories
    <3>2. TypeOK'
      BY <2>1, <2>3, <3>1 DEF TypeOK, gate, codex, clock
    <3>3. GateInv'
      BY <2>1, <2>3 DEF GateInv, gate, codex, Authorized
    <3>4. CodexInv'
      BY <2>1, <2>3, <3>1 DEF CodexInv, codex, clock, ReportIsValid
    <3> QED BY <3>2, <3>3, <3>4
  <2> QED BY <2>1, <2>2, <2>3
<1>3. CASE KillAtDeadline
  <2>1. /\ pc = "kill" /\ pc' = "validate"
        /\ UNCHANGED <<policy, approvals, request, gate, sandbox, prompt, text, holder, expired, answer>>
    BY <1>3 DEF KillAtDeadline, GivesUp, Reported
  <2>2. /\ child' \in {"signalled", child} /\ timed_out' \in {TRUE, timed_out}
        /\ report' \in {Failure("timeout"), Failure("internal")}
        /\ child' = "running" => report' = Failure("internal")
    BY <1>3 DEF KillAtDeadline, Killed, GivesUp, Reported
  <2>3. report' \in Reports /\ ReportIsValid(report') /\ report'.outcome # "succeeded"
    BY <2>2, FailureIsValid DEF Categories
  <2>4. child \in Codes \cup {"running"} /\ child' \in Codes \cup {"running"} /\ child # None
    BY <2>1, <2>2, NoneAssumption DEF CodexInv, Codes
  <2>5. TypeOK'
    BY <2>1, <2>2, <2>3, <2>4 DEF TypeOK, gate
  <2>6. GateInv'
    BY <2>1 DEF GateInv, gate, Authorized
  <2>7. CodexInv'
    BY <2>1, <2>2, <2>3, <2>4 DEF CodexInv, ReportIsValid, Codes
  <2> QED BY <2>5, <2>6, <2>7
<1>4. CASE Drain
  <2>1. /\ pc = "drain" /\ ~holder /\ pc' = "validate" /\ report' = Translated(child, text)
        /\ UNCHANGED <<policy, approvals, request, gate, codex, clock, answer>>
    BY <1>4 DEF Drain, Reported
  <2>2. /\ report' \in Reports /\ ReportIsValid(report')
        /\ report'.outcome = "succeeded" => child = "zero" /\ text = {"completed"}
    BY <2>1, TranslationIsValid DEF CodexInv, TypeOK
  <2>4. TypeOK'
    BY <2>1, <2>2 DEF TypeOK, gate, codex, clock
  <2>5. GateInv'
    BY <2>1 DEF GateInv, gate, codex, Authorized
  <2>6. CodexInv'
    BY <2>1, <2>2 DEF CodexInv, codex, clock, ReportIsValid, Codes
  <2> QED BY <2>4, <2>5, <2>6
<1>5. CASE DrainExpires
  <2>1. /\ pc = "drain" /\ pc' = "validate" /\ report' = Failure("internal")
        /\ UNCHANGED <<policy, approvals, request, gate, codex, clock, answer>>
    BY <1>5 DEF DrainExpires, Reported
  <2>2. report' \in Reports /\ ReportIsValid(report') /\ report'.outcome # "succeeded"
    BY <2>1, FailureIsValid DEF Categories
  <2>4. TypeOK'
    BY <2>1, <2>2 DEF TypeOK, gate, codex, clock
  <2>5. GateInv'
    BY <2>1 DEF GateInv, gate, codex, Authorized
  <2>6. CodexInv'
    BY <2>1, <2>2 DEF CodexInv, codex, clock, ReportIsValid, Codes
  <2> QED BY <2>4, <2>5, <2>6
<1>6. CASE Validate
  <2>1. /\ pc = "validate" /\ pc' = "idle" /\ answer' = "finished"
        /\ UNCHANGED <<policy, approvals, request, gate, codex, clock, report>>
    BY <1>6 DEF Validate, Answered, CodexInv
  <2> QED
    BY <2>1 DEF TypeOK, GateInv, CodexInv, gate, codex, clock, Authorized, Answers
<1> QED BY <1>1, <1>2, <1>3, <1>4, <1>5, <1>6

\* Operators, the clock, Codex and its descendants break nothing.
LEMMA OtherSteps ==
    ASSUME ExecInv,
           \/ ChangeApprovals \/ DeadlinePasses
           \/ CodexWrites \/ PromptEnds \/ CodexForks \/ DescendantEnds \/ CodexEnds
           \/ UNCHANGED vars
    PROVE  ExecInv'
<1> USE DEF ExecInv, Deciding, AtWork
<1>1. CASE ChangeApprovals
  <2>1. UNCHANGED <<executor, codex, clock>> /\ approvals' \in [Runs -> SUBSET Approvable]
    BY <1>1 DEF ChangeApprovals, TypeOK
  <2> QED
    BY <2>1
    DEF TypeOK, GateInv, CodexInv, executor, gate, codex, clock, Authorized, PolicyIsValid,
        ReportIsValid
<1>2. CASE DeadlinePasses
  BY <1>2
  DEF DeadlinePasses, TypeOK, GateInv, CodexInv, executor, gate, codex, Authorized, PolicyIsValid,
      ReportIsValid
<1>3. CASE CodexWrites
  BY <1>3
  DEF CodexWrites, TypeOK, GateInv, CodexInv, executor, gate, clock, Authorized, PolicyIsValid,
      ReportIsValid
<1>4. CASE PromptEnds
  BY <1>4
  DEF PromptEnds, TypeOK, GateInv, CodexInv, executor, gate, clock, Authorized, PolicyIsValid,
      ReportIsValid
<1>5. CASE CodexForks
  <2>1. child = "running" /\ holder' = TRUE /\ UNCHANGED <<executor, approvals, sandbox, child, prompt, text, clock>>
    BY <1>5 DEF CodexForks
  <2>2. ~(pc = "validate" \/ answer = "finished") \/ report.outcome # "succeeded"
    BY <2>1, NoneAssumption DEF CodexInv
  <2> QED
    BY <2>1, <2>2
    DEF TypeOK, GateInv, CodexInv, executor, gate, clock, Authorized, PolicyIsValid, ReportIsValid, Failure
<1>6. CASE DescendantEnds
  <2>1. ~holder' /\ holder' \in BOOLEAN /\ UNCHANGED <<executor, approvals, sandbox, child, prompt, text, clock>>
    BY <1>6 DEF DescendantEnds
  <2> QED
    BY <2>1
    DEF TypeOK, GateInv, CodexInv, executor, gate, clock, Authorized, PolicyIsValid, ReportIsValid
<1>7. CASE CodexEnds
  <2>1. /\ child = "running" /\ child' \in Codes
        /\ UNCHANGED <<executor, approvals, sandbox, prompt, text, holder, clock>>
    BY <1>7 DEF CodexEnds
  <2>2. child # None /\ child \notin Codes /\ child # "zero"
    BY <2>1, NoneAssumption DEF Codes
  <2>3. pc \notin {"authorize", "decide", "start", "drain"}
    BY <2>2 DEF CodexInv
  <2>4. ~(pc = "validate" \/ answer = "finished") \/ report.outcome # "succeeded"
    BY <2>2 DEF CodexInv
  <2>5. TypeOK'
    BY <2>1, <2>2 DEF TypeOK, executor, gate, clock
  <2>6. GateInv'
    BY <2>1 DEF GateInv, executor, gate, Authorized, PolicyIsValid
  <2>7. CodexInv'
    BY <2>1, <2>3, <2>4, NoneAssumption DEF CodexInv, executor, clock, ReportIsValid, Failure
  <2> QED BY <2>5, <2>6, <2>7
<1>8. CASE UNCHANGED vars
  BY <1>8
  DEF vars, TypeOK, GateInv, CodexInv, gate, codex, clock, Authorized, PolicyIsValid,
      ReportIsValid
<1> QED BY <1>1, <1>2, <1>3, <1>4, <1>5, <1>6, <1>7, <1>8

\* The invariant holds in every reachable state.
LEMMA ExecHolds == Spec => []ExecInv
<1>1. ExecInv /\ [Next]_vars => ExecInv'
  BY ExecuteStep, GateSteps, AdapterSteps, OtherSteps DEF Next, Executor
<1> QED BY <1>1, InitExec, PTL DEF Spec

(* Whatever policies, approvals and runs there are, and however approvals change
   under a run: no Codex runs with what local policy did not allow and the
   approvals held for this run at the lookup did not cover. *)
THEOREM SandboxStaysAuthorized == Spec => []SandboxIsAuthorized
<1>1. ExecInv => SandboxIsAuthorized
  BY DEF ExecInv, GateInv, Authorized, SandboxIsAuthorized
<1> QED BY <1>1, ExecHolds, PTL

(* A reported success is Codex's own, Core accepts every report of the adapter,
   and only a run that reports an internal failure may leave a Codex at work. *)
THEOREM SuccessesAreCodexs == Spec => []SuccessIsCodexs
<1>1. ExecInv => SuccessIsCodexs
  BY DEF ExecInv, CodexInv, SuccessIsCodexs
<1> QED BY <1>1, ExecHolds, PTL

=============================================================================
