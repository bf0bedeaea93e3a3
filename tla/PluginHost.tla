----------------------------- MODULE PluginHost -----------------------------
(***************************************************************************)
(* One run of the Plugin Host (agentmesh-host, run.rs): validate, spawn    *)
(* the plugin, initialize, run, close its stdin, reap it, commit the audit *)
(* sidecar and write one compact envelope, with the failure coordinator    *)
(* (failure_coord.rs) that decides what the run is remembered for.         *)
(*                                                                         *)
(* The plugin is external and unreliable: it writes anything at any time,  *)
(* ignores its input, exits, or starts a descendant that inherits its      *)
(* pipes.  Timeouts may expire at any moment.                              *)
(***************************************************************************)
EXTENDS Naturals, Sequences, SequencesExt

CONSTANTS
    None,
    MaxTokens       \* bound on what the plugin writes

ASSUME BoundAssumption == MaxTokens \in Nat

InputCodes == {"input_schema_violation", "input_empty", "input_too_large",
               "input_invalid_json", "plugin_not_found", "plugin_spawn_failed"}
Codes == InputCodes \cup
    {"plugin_write_failed", "initialize_timeout", "run_timeout", "host_interrupted",
     "unexpected_eof", "frame_too_large", "invalid_framing", "schema_violation",
     "rpc_id_mismatch", "plugin_application_error", "protocol_version_mismatch",
     "unexpected_output", "plugin_exited", "plugin_exit_timeout",
     "sidecar_too_large", "sidecar_write_failed", "stdout_write_failed"}

(* What the plugin writes, as the frame decoder sees it: a proper beginning of
   a frame, bytes no frame begins with, a header that announces too much, or
   a complete response. *)
Responses == [id : {"initialize", "run"}, body : {"result", "error", "neither"}]
                \cup [id : {"initialize"}, body : {"old_version"}]
                \cup [id : {"other"}, body : {"result", "unparsable"}]
Fragments == {"part", "malformed", "oversized"}
Token(text) == [id |-> None, body |-> text]
Tokens == Responses \cup {Token(text) : text \in Fragments}

ASSUME NoneAssumption ==
    None \notin Codes \cup Responses \cup {"missing", "zero", "nonzero", "signalled"}
                \cup {0, 2, 10, 11, 12, 13, 70}
                \cup [cancelled : BOOLEAN, observed : BOOLEAN]

VARIABLES
    pc,             \* where the host is
    phase,          \* "initialize" or "run"
    primary, secondary,   \* the failure coordinator
    payload,        \* the plugin answered the run with a payload
    interruption,   \* termination: None or what was observed
    exitStatus,     \* exit status observed by the host
    sidecar,        \* the committed sidecar: the primary failure it names, or "missing"
    envelope,       \* what stdout got
    exitCode,
    cancelled,      \* the cancellation token
    \* the plugin
    plugin,         \* its process: running, doomed (signalled) or how it ended
    reads,          \* the run request gets through: it fits the pipe or the plugin reads
    descendant,     \* a process that inherited its pipes
    pipe,           \* its output that the host has not read
    written,        \* history: how much it has written
    accepted        \* history: the responses the host took

coordinator == <<primary, secondary>>
results == <<sidecar, envelope, exitCode>>
world == <<plugin, reads, descendant, pipe, written>>
vars == <<pc, phase, coordinator, payload, interruption, exitStatus, results, cancelled,
          world, accepted>>

Gone == {"zero", "nonzero", "signalled"}

TypeOK ==
    /\ pc \in {"validate", "write", "check", "read", "probe", "reap", "kill", "killing",
               "drain", "persist", "emit", "done"}
    /\ phase \in {"initialize", "run"}
    /\ primary \in Codes \cup {None}
    /\ secondary \in Seq(Codes)
    /\ payload \in BOOLEAN
    /\ interruption \in [cancelled : BOOLEAN, observed : BOOLEAN] \cup {None}
    /\ exitStatus \in Gone \cup {None}
    /\ sidecar \in Codes \cup {None, "missing"}
    /\ envelope \in Codes \cup {"ok", "nothing"}
    /\ exitCode \in {None, 0, 2, 10, 11, 12, 13, 70}
    /\ cancelled \in BOOLEAN
    /\ plugin \in {"none", "running", "doomed"} \cup Gone
    /\ reads \in BOOLEAN /\ descendant \in BOOLEAN
    /\ pipe \in Seq(Tokens)
    /\ written \in 0 .. MaxTokens
    /\ accepted \in Seq(Responses)
    \* the coordinator has a secondary failure only beside a primary one
    /\ secondary # <<>> => primary # None

Init ==
    /\ pc = "validate"
    /\ phase = "initialize"
    /\ primary = None /\ secondary = <<>>
    /\ payload = FALSE
    /\ interruption = None
    /\ exitStatus = None
    /\ sidecar = "missing" /\ envelope = "nothing" /\ exitCode = None
    /\ cancelled = FALSE
    /\ plugin = "none"
    /\ reads \in BOOLEAN
    /\ descendant = FALSE
    /\ pipe = <<>>
    /\ written = 0
    /\ accepted = <<>>

-----------------------------------------------------------------------------
(* Failure coordinator *)

\* Faulty variant: the latest failure becomes the primary one.
RecordLatest(code) ==
    /\ primary' = code
    /\ secondary' = IF primary = None THEN secondary ELSE Append(secondary, primary)
\* record and record_audit_failure: the first failure is primary.
Record(code) ==
    IF primary = None
    THEN primary' = code /\ UNCHANGED secondary
    ELSE secondary' = Append(secondary, code) /\ UNCHANGED primary

RecordStdoutFailure ==
    /\ primary' = "stdout_write_failed"
    /\ secondary' = IF primary = None THEN secondary ELSE <<primary>> \o secondary

ExitCodeOf(code) ==
    CASE code = None -> 0
      [] code \in InputCodes \ {"plugin_not_found", "plugin_spawn_failed"} -> 2
      [] code \in {"plugin_not_found", "plugin_spawn_failed", "plugin_write_failed",
                   "plugin_application_error", "plugin_exited"} -> 11
      [] code \in {"initialize_timeout", "run_timeout", "plugin_exit_timeout",
                   "host_interrupted"} -> 12
      [] code \in {"sidecar_too_large", "sidecar_write_failed"} -> 13
      [] code = "stdout_write_failed" -> 70
      [] OTHER -> 10

-----------------------------------------------------------------------------
(* Before the plugin runs *)

\* Redaction pointers, input, plugin path and spawn, in this order; each failure is final.
Invalid(code) ==
    /\ pc = "validate"
    /\ Record(code)
    /\ pc' = "persist"
    /\ UNCHANGED <<phase, payload, interruption, exitStatus, results, cancelled, world, accepted>>

Spawn ==
    /\ pc = "validate"
    /\ plugin' = "running"
    /\ pc' = "write"
    /\ UNCHANGED <<phase, coordinator, payload, interruption, exitStatus, results, cancelled,
                   reads, descendant, pipe, written, accepted>>

-----------------------------------------------------------------------------
(* A request and its response *)

\* Some process still holds the plugin's ends of the pipes.
Held == plugin \in {"running", "doomed"} \/ descendant

\* write_all: the initialize request always fits the pipe, the run request may not.
WriteRequest ==
    /\ pc = "write"
    /\ Held
    /\ phase = "initialize" \/ reads
    /\ pc' = "check"
    /\ UNCHANGED <<phase, coordinator, payload, interruption, exitStatus, results, cancelled,
                   world, accepted>>

\* A failure after which the child is terminated and the run is finished.
Abort(code) ==
    /\ Record(code)
    /\ pc' = "kill"
    /\ UNCHANGED <<phase, payload, interruption, exitStatus, results, cancelled>>

\* The plugin has closed its stdin or is gone.
WriteFails ==
    /\ pc = "write"
    /\ Abort("plugin_write_failed")
    /\ UNCHANGED <<world, accepted>>

TimeoutCode == IF phase = "initialize" THEN "initialize_timeout" ELSE "run_timeout"

\* Top of the read loop: the token is looked at here and nowhere else.
CheckCancelled ==
    /\ pc = "check"
    /\ IF cancelled
       THEN Abort("host_interrupted") /\ UNCHANGED <<world, accepted>>
       ELSE /\ pc' = "read"
            /\ UNCHANGED <<phase, coordinator, payload, interruption, exitStatus, results,
                           cancelled, world, accepted>>

ReadTimeout ==
    /\ pc = "read"
    /\ Abort(TimeoutCode)
    /\ UNCHANGED <<world, accepted>>

ReadEnd ==
    /\ pc = "read"
    /\ pipe = <<>>
    /\ ~Held
    /\ Abort("unexpected_eof")
    /\ UNCHANGED <<world, accepted>>

Complete(token) == token.body # "part"
Bad(token) == token.body \in {"malformed", "oversized"}

\* Faulty variant: the response's id is not looked at.
FaultOfAnyId(frame) ==
    CASE frame.body = "unparsable" -> "schema_violation"
      [] frame.body = "error" -> "plugin_application_error"
      [] frame.body = "neither" -> "schema_violation"
      [] frame.body = "old_version" -> "protocol_version_mismatch"
      [] OTHER -> None
(* The checks on a response in their order; None: it is what was asked for. *)
FaultOf(frame) ==
    CASE frame.body = "unparsable" -> "schema_violation"
      [] frame.id # phase -> "rpc_id_mismatch"
      [] frame.body = "error" -> "plugin_application_error"
      [] frame.body = "neither" -> "schema_violation"
      [] frame.body = "old_version" -> "protocol_version_mismatch"
      [] OTHER -> None

\* After an answer to the run that is its own, even an error, the plugin is closed in order.
ClosesInOrder(frame) == phase = "run" /\ frame.id = "run"

Respond(frame) ==
    LET fault == FaultOf(frame) IN
    /\ accepted' = Append(accepted, frame)
    /\ IF fault = None THEN UNCHANGED coordinator ELSE Record(fault)
    /\ payload' = (phase = "run" /\ fault = None)
    /\ CASE fault = None /\ phase = "initialize" -> pc' = "write" /\ phase' = "run"
         [] ClosesInOrder(frame) -> pc' = "probe" /\ UNCHANGED phase
         [] OTHER -> pc' = "kill" /\ UNCHANGED phase
    /\ UNCHANGED <<interruption, exitStatus, results, cancelled>>

(* One read returns what is there, or a beginning of it.  The first frame in it
   is the response; bytes behind it go with the decoder. *)
Read(n) ==
    /\ pc = "read"
    /\ n \in 1 .. Len(pipe)
    /\ \/ /\ \A k \in 1 .. n : ~Complete(pipe[k])
          /\ pc' = "check"
          /\ UNCHANGED <<phase, coordinator, payload, interruption, exitStatus, results,
                         cancelled, accepted>>
       \/ \E k \in 1 .. n :
            /\ Complete(pipe[k]) /\ \A j \in 1 .. k - 1 : ~Complete(pipe[j])
            /\ IF Bad(pipe[k])
               THEN /\ Abort(IF pipe[k].body = "malformed" THEN "invalid_framing"
                                                           ELSE "frame_too_large")
                    /\ UNCHANGED accepted
               ELSE Respond(pipe[k])
    /\ pipe' = SubSeq(pipe, n + 1, Len(pipe))
    /\ UNCHANGED <<plugin, reads, descendant, written>>

-----------------------------------------------------------------------------
(* close_and_reap, after stdin is closed *)

ToReap == pc' = "reap"

\* The loop top of the probe, then one byte, end of output or the end of the grace.
Probe ==
    /\ pc = "probe"
    /\ \/ cancelled /\ Record("host_interrupted")
       \/ ~cancelled /\ pipe # <<>> /\ Record("unexpected_output")
       \/ ~cancelled /\ pipe = <<>> /\ ~Held /\ UNCHANGED coordinator
       \/ UNCHANGED coordinator     \* the grace is over, also before the first look
    /\ ToReap
    /\ UNCHANGED <<phase, payload, interruption, exitStatus, results, cancelled, world, accepted>>

Reap ==
    /\ pc = "reap"
    /\ plugin \in Gone
    /\ exitStatus' = plugin
    /\ IF plugin # "zero" THEN Record("plugin_exited") ELSE UNCHANGED coordinator
    /\ pc' = "drain"
    /\ UNCHANGED <<phase, payload, interruption, results, cancelled, world, accepted>>

\* Faulty variant: the wait for the exit is not limited.
GraceNeverEnds == FALSE
GraceEnds == pc = "reap"

ReapTimeout ==
    /\ GraceEnds
    /\ Abort("plugin_exit_timeout")
    /\ UNCHANGED <<world, accepted>>

-----------------------------------------------------------------------------
(* terminate_child: kill, then wait for at most two seconds *)

\* Faulty variant: the termination is only noted.
Spared == plugin
Signalled == IF plugin = "running" THEN "doomed" ELSE plugin

Kill ==
    /\ pc = "kill"
    /\ plugin' = Signalled
    /\ pc' = "killing"
    /\ UNCHANGED <<phase, coordinator, payload, interruption, exitStatus, results, cancelled,
                   reads, descendant, pipe, written, accepted>>

KillEnds(observed) ==
    /\ pc = "killing"
    /\ observed => plugin \in Gone
    /\ exitStatus' = IF observed THEN plugin ELSE exitStatus
    /\ interruption' = [cancelled |-> cancelled, observed |-> observed]
    /\ pc' = "drain"
    /\ UNCHANGED <<phase, coordinator, payload, results, cancelled, world, accepted>>

-----------------------------------------------------------------------------
(* finish *)

\* The stderr task ends with the last process that holds the pipe; it has no timeout.
DrainStderr ==
    /\ pc = "drain"
    /\ ~Held
    /\ pc' = "persist"
    /\ UNCHANGED <<phase, coordinator, payload, interruption, exitStatus, results, cancelled,
                   world, accepted>>

\* The sidecar names the primary failure of the run so far.
Persist ==
    /\ pc = "persist"
    /\ sidecar' = primary
    /\ pc' = "emit"
    /\ UNCHANGED <<phase, coordinator, payload, interruption, exitStatus, envelope, exitCode,
                   cancelled, world, accepted>>

PersistFails(code) ==
    /\ pc = "persist"
    /\ Record(code)
    /\ pc' = "emit"
    /\ UNCHANGED <<phase, payload, interruption, exitStatus, results, cancelled, world, accepted>>

\* Faulty variant: only what went wrong with the plugin's answer counts.
UnlessAnswered == IF payload THEN None ELSE primary
Outcome == primary

Emit ==
    /\ pc = "emit"
    /\ envelope' = IF Outcome = None THEN "ok" ELSE Outcome
    /\ exitCode' = ExitCodeOf(Outcome)
    /\ pc' = "done"
    /\ UNCHANGED <<phase, coordinator, payload, interruption, exitStatus, sidecar, cancelled,
                   world, accepted>>

EmitFails ==
    /\ pc = "emit"
    /\ RecordStdoutFailure
    /\ exitCode' = ExitCodeOf("stdout_write_failed")
    /\ pc' = "done"
    /\ UNCHANGED <<phase, payload, interruption, exitStatus, sidecar, envelope, cancelled,
                   world, accepted>>

-----------------------------------------------------------------------------
(* Environment: the caller's cancellation and the plugin (external) *)

host == <<pc, phase, coordinator, payload, interruption, exitStatus, results, accepted>>

Cancel ==
    /\ ~cancelled
    /\ pc # "done"
    /\ cancelled' = TRUE
    /\ UNCHANGED <<host, world>>

\* Nothing is read any more once the host closes the run.
IsHeard == pc \in {"write", "check", "read", "probe"}

PluginWrites(token) ==
    /\ IsHeard
    /\ plugin = "running" \/ (descendant /\ plugin # "none")
    /\ written < MaxTokens
    /\ written' = written + 1
    /\ pipe' = Append(pipe, token)
    /\ UNCHANGED <<host, cancelled, plugin, reads, descendant>>

PluginForks ==
    /\ plugin = "running"
    /\ descendant' = TRUE
    /\ UNCHANGED <<host, cancelled, plugin, reads, pipe, written>>

DescendantEnds ==
    /\ descendant
    /\ descendant' = FALSE
    /\ UNCHANGED <<host, cancelled, plugin, reads, pipe, written>>

PluginExits(status) ==
    /\ plugin = "running"
    /\ plugin' = status
    /\ UNCHANGED <<host, cancelled, reads, descendant, pipe, written>>

\* A signalled process ends.
PluginDies ==
    /\ plugin = "doomed"
    /\ plugin' = "signalled"
    /\ UNCHANGED <<host, cancelled, reads, descendant, pipe, written>>

HostStep ==
    \/ \E code \in InputCodes : Invalid(code)
    \/ Spawn
    \/ WriteRequest \/ WriteFails
    \/ CheckCancelled \/ ReadTimeout \/ ReadEnd
    \/ \E n \in 1 .. MaxTokens : Read(n)
    \/ Probe \/ Reap \/ ReapTimeout
    \/ Kill \/ (\E observed \in BOOLEAN : KillEnds(observed))
    \/ DrainStderr
    \/ Persist \/ (\E code \in {"sidecar_too_large", "sidecar_write_failed"} : PersistFails(code))
    \/ Emit \/ EmitFails

PluginStep ==
    \/ \E token \in Tokens : PluginWrites(token)
    \/ PluginForks
    \/ DescendantEnds
    \/ \E status \in {"zero", "nonzero"} : PluginExits(status)
    \/ PluginDies

Next == Cancel \/ HostStep \/ PluginStep

Spec == Init /\ [][Next]_vars

(* The host goes on whenever it can, where a read, the probe and the reap end
   at their timeout at the latest, and the system ends a killed process.  The
   plugin owes nothing, and a write fails for certain only when nothing reads. *)
Progress ==
    HostStep /\ ~(pc = "write" /\ pc' = "kill" /\ Held)
FairSpec == Spec /\ WF_vars(Progress) /\ WF_vars(PluginDies)

-----------------------------------------------------------------------------
(* Properties *)

(* Exit code 0 is earned by the whole of the protocol: the plugin answered the
   initialize and then the run with results of its own, was not killed and
   exited with status 0, and the sidecar of a run without failure is there. *)
OkIsEarned ==
    exitCode = 0 =>
        /\ accepted = <<[id |-> "initialize", body |-> "result"], [id |-> "run", body |-> "result"]>>
        /\ payload
        /\ exitStatus = "zero" /\ plugin = "zero" /\ interruption = None
        /\ sidecar = None /\ envelope = "ok"

(* No plugin outlives its run unsignalled, and a plugin the host had to kill
   makes a run that failed and says in its sidecar what became of it. *)
PluginIsAccountedFor ==
    /\ TypeOK
    /\ pc \in {"drain", "persist", "emit", "done"} =>
         /\ plugin # "running"
         /\ plugin \in {"doomed", "signalled"} => primary # None /\ interruption # None
         /\ exitStatus = None => primary # None

(* The sidecar and the envelope of a run tell the same story: nothing that
   happens after the sidecar is committed changes the reported failure. *)
SidecarAgrees ==
    sidecar # "missing" /\ envelope # "nothing" =>
        envelope = (IF sidecar = None THEN "ok" ELSE sidecar)

(* "first terminal cause is primary_failure; later problems become ordered
   secondary_failures[]" (docs/protocol-v0.md), with the lost stdout as the one
   exception, which keeps the first cause in front of the others. *)
KeepsFirstCause ==
    \/ primary = None /\ secondary' = secondary
    \/ primary' = primary /\ IsPrefix(secondary, secondary')
    \/ primary' = "stdout_write_failed" /\ secondary' = <<primary>> \o secondary
FirstCauseStays == [][KeepsFirstCause]_coordinator

(* Every run ends, whatever the plugin writes, exits with or refuses to do,
   except where the host waits without a timeout: a run request larger than the
   pipe that nobody reads, and a stderr that a descendant of the plugin holds. *)
RunEnds ==
    \/ <>(pc = "done")
    \/ <>[](pc = "write" /\ Held /\ ~reads)
    \/ <>[](pc = "drain" /\ descendant)

=============================================================================
