-------------------------- MODULE PluginHostProofs --------------------------
(***************************************************************************)
(* Proofs about the parts of the plugin host.                              *)
(*                                                                         *)
(* PluginHost, for a plugin that writes any number of tokens: the          *)
(* invariant follows a run through its places, what was answered and       *)
(* recorded by then (Story), what has become of the plugin (Fate) and what *)
(* has been told of it (Telling).                                          *)
(*                                                                         *)
(* AuditStore, for any number of writers.                                  *)
(*                                                                         *)
(* FrameDecoder, for streams of any length and any limits: the decoder     *)
(* stands before the rest of the stream behind the frames it has returned  *)
(* (Exact), and what it holds of a header is what the reference finds.     *)
(***************************************************************************)
EXTENDS PluginHost, AuditStore, FrameDecoder, WellFoundedInduction, SequenceTheorems, TLAPS

Coming == {"validate", "write", "check", "read"}
Closing == {"drain", "persist", "emit", "done"}
InitAnswer == [id |-> "initialize", body |-> "result"]
RunAnswer == [id |-> "run", body |-> "result"]

Story ==
    /\ pc \in Coming =>
         /\ primary = None /\ interruption = None /\ exitStatus = None /\ ~payload
         /\ accepted = IF phase = "initialize" THEN <<>> ELSE <<InitAnswer>>
    /\ pc = "validate" => phase = "initialize"
    /\ pc \in {"probe", "reap", "kill", "killing"} => interruption = None /\ exitStatus = None
    /\ pc \in {"kill", "killing"} => primary # None
    /\ pc \in {"probe", "reap"} \cup Closing /\ primary = None =>
         /\ accepted = <<InitAnswer, RunAnswer>>
         /\ payload /\ interruption = None
    /\ pc \in Closing /\ primary = None => exitStatus = "zero" /\ plugin = "zero"

Fate ==
    /\ pc = "validate" => plugin = "none"
    /\ pc \notin {"validate", "persist", "emit", "done"} => plugin # "none"
    /\ pc \in Coming \cup {"probe", "reap", "kill"} => plugin \notin {"doomed", "signalled"}
    /\ pc \in {"killing"} \cup Closing => plugin # "running"
    /\ pc \in Closing =>
         /\ plugin \in {"doomed", "signalled"} => primary # None /\ interruption # None
         /\ exitStatus = None => primary # None

Committed == sidecar = primary \/ (sidecar = "missing" /\ primary # None)

Telling ==
    /\ pc \notin {"emit", "done"} => sidecar = "missing"
    /\ pc # "done" => envelope = "nothing" /\ exitCode = None
    /\ pc = "emit" => Committed
    /\ pc = "done" =>
         \/ exitCode = 70 /\ envelope = "nothing" /\ primary = "stdout_write_failed"
         \/ /\ Committed
            /\ envelope = (IF primary = None THEN "ok" ELSE primary)
            /\ exitCode = ExitCodeOf(primary)

HostInv == TypeOK /\ Story /\ Fate /\ Telling

LEMMA InitIsTold == Init => HostInv
<1> SUFFICES ASSUME Init PROVE HostInv
  OBVIOUS
<1>1. <<>> \in Seq(Codes) /\ <<>> \in Seq(Tokens) /\ <<>> \in Seq(Responses)
  BY EmptySeq
<1>2. TypeOK
  <2>1. /\ primary = None /\ interruption = None /\ exitStatus = None /\ exitCode = None
        /\ secondary = <<>> /\ pipe = <<>> /\ accepted = <<>> /\ written = 0
    BY DEF Init
  <2>2. secondary \in Seq(Codes) /\ pipe \in Seq(Tokens) /\ accepted \in Seq(Responses)
    BY <1>1, <2>1
  <2>3. written \in 0 .. MaxTokens
    BY <2>1, BoundAssumption
  <2>4. /\ primary \in Codes \cup {None} /\ exitStatus \in Gone \cup {None}
        /\ interruption \in [cancelled : BOOLEAN, observed : BOOLEAN] \cup {None}
        /\ exitCode \in {None, 0, 2, 10, 11, 12, 13, 70}
    BY <2>1
  <2>5. /\ pc = "validate" /\ phase = "initialize" /\ sidecar = "missing" /\ envelope = "nothing"
        /\ payload = FALSE /\ cancelled = FALSE /\ plugin = "none"
        /\ reads \in BOOLEAN /\ descendant = FALSE
    BY DEF Init
  <2> QED BY <2>1, <2>2, <2>3, <2>4, <2>5, Zenon DEF TypeOK
<1>3. Story /\ Fate /\ Telling
  BY DEF Init, Story, Fate, Telling, Coming, Closing
<1> QED BY <1>2, <1>3 DEF HostInv

\* What the coordinator makes of a further failure.
LEMMA RecordKeeps ==
    ASSUME TypeOK, NEW code \in Codes, Record(code)
    PROVE  /\ primary' \in Codes /\ primary' # None /\ secondary' \in Seq(Codes)
           /\ primary = None => primary' = code /\ secondary' = secondary
           /\ primary # None => primary' = primary /\ secondary' = Append(secondary, code)
<1>1. primary \in Codes \cup {None} /\ secondary \in Seq(Codes) /\ code # None
  BY NoneAssumption DEF TypeOK
<1>2. Append(secondary, code) \in Seq(Codes)
  BY <1>1, AppendProperties
<1> QED BY <1>1, <1>2, Zenon DEF Record

LEMMA ExitCodes ==
    ASSUME NEW code \in Codes \cup {None}
    PROVE  /\ ExitCodeOf(code) \in {0, 2, 10, 11, 12, 13, 70}
           /\ ExitCodeOf(code) = 0 => code = None
           /\ ExitCodeOf("stdout_write_failed") = 70
BY NoneAssumption DEF ExitCodeOf, Codes, InputCodes

\* A response without a fault is the result the phase asks for.
LEMMA FaultlessResponse ==
    ASSUME NEW frame \in Responses, phase \in {"initialize", "run"}
    PROVE  /\ FaultOf(frame) \in Codes \cup {None}
           /\ FaultOf(frame) = None => frame = [id |-> phase, body |-> "result"]
<1>1. /\ frame.id \in {"initialize", "run", "other"}
      /\ frame.body \in {"result", "error", "neither", "old_version", "unparsable"}
      /\ frame = [id |-> frame.id, body |-> frame.body]
  BY DEF Responses
<1>2. None \notin Codes
  BY NoneAssumption
<1>3. {"schema_violation", "rpc_id_mismatch", "plugin_application_error",
       "protocol_version_mismatch"} \subseteq Codes
  BY DEF Codes
<1>4. FaultOf(frame) \in {"schema_violation", "rpc_id_mismatch", "plugin_application_error",
                          "protocol_version_mismatch", None}
  BY DEF FaultOf
<1>5. FaultOf(frame) = None => frame.id = phase /\ frame.body = "result"
  <2>1. "schema_violation" # None /\ "rpc_id_mismatch" # None /\ "plugin_application_error" # None
        /\ "protocol_version_mismatch" # None
    BY <1>2, <1>3
  <2> QED BY <1>1, <2>1 DEF FaultOf
<1> QED BY <1>1, <1>3, <1>4, <1>5

-----------------------------------------------------------------------------
(* The host's steps *)

LEMMA BeforeThePlugin ==
    ASSUME HostInv, (\E code \in InputCodes : Invalid(code)) \/ Spawn \/ WriteRequest
    PROVE  HostInv'
<1> USE DEF HostInv
<1>1. CASE \E code \in InputCodes : Invalid(code)
  <2>1. PICK code \in InputCodes : Invalid(code)
    BY <1>1
  <2>2. /\ pc = "validate" /\ pc' = "persist"
        /\ UNCHANGED <<phase, payload, interruption, exitStatus, results, cancelled, world, accepted>>
    BY <2>1 DEF Invalid
  <2>3. primary' \in Codes /\ primary' # None /\ secondary' \in Seq(Codes)
    BY <2>1, RecordKeeps DEF Invalid, Codes
  <2>4. TypeOK'
    BY <2>2, <2>3 DEF TypeOK, results, world
  <2> QED
    BY <2>2, <2>3, <2>4 DEF Story, Fate, Telling, Coming, Closing, results, world
<1>2. CASE Spawn
  <2>1. TypeOK'
    BY <1>2 DEF Spawn, TypeOK, coordinator, results
  <2> QED
    BY <1>2, <2>1 DEF Spawn, Story, Fate, Telling, Coming, Closing, coordinator, results
<1>3. CASE WriteRequest
  <2>1. TypeOK'
    BY <1>3 DEF WriteRequest, TypeOK, coordinator, results, world
  <2> QED
    BY <1>3, <2>1
    DEF WriteRequest, Story, Fate, Telling, Coming, Closing, coordinator, results, world
<1> QED BY <1>1, <1>2, <1>3

\* Every way into terminate_child.
LEMMA AbortKeeps ==
    ASSUME HostInv, NEW code \in Codes, Abort(code),
           pc \in {"write", "check", "read", "reap"},
           pipe' \in Seq(Tokens), UNCHANGED <<plugin, reads, descendant, written, accepted>>
    PROVE  HostInv'
<1>1. /\ pc' = "kill"
      /\ UNCHANGED <<phase, payload, interruption, exitStatus, results, cancelled>>
  BY DEF Abort
<1>2. primary' \in Codes /\ primary' # None /\ secondary' \in Seq(Codes)
  BY RecordKeeps DEF Abort, HostInv
<1>3. TypeOK'
  BY <1>1, <1>2 DEF HostInv, TypeOK, results
<1>4. Story' /\ Fate' /\ Telling'
  BY <1>1, <1>2 DEF HostInv, Story, Fate, Telling, Coming, Closing, results
<1> QED BY <1>3, <1>4 DEF HostInv

LEMMA Aborts ==
    ASSUME HostInv, WriteFails \/ CheckCancelled \/ ReadTimeout \/ ReadEnd \/ ReapTimeout
    PROVE  HostInv'
<1>1. pipe \in Seq(Tokens)
  BY DEF HostInv, TypeOK
<1>2. CASE WriteFails
  <2>1. "plugin_write_failed" \in Codes
    BY DEF Codes
  <2> QED BY <1>1, <1>2, <2>1, AbortKeeps DEF WriteFails, world
<1>3. CASE CheckCancelled
  <2>1. CASE cancelled
    <3>1. "host_interrupted" \in Codes
      BY DEF Codes
    <3> QED BY <1>1, <1>3, <2>1, <3>1, AbortKeeps DEF CheckCancelled, world
  <2>2. CASE ~cancelled
    <3>1. /\ pc = "check" /\ pc' = "read"
          /\ UNCHANGED <<phase, coordinator, payload, interruption, exitStatus, results,
                         cancelled, world, accepted>>
      BY <1>3, <2>2 DEF CheckCancelled
    <3>2. TypeOK'
      BY <3>1 DEF HostInv, TypeOK, coordinator, results, world
    <3> QED
      BY <3>1, <3>2
      DEF HostInv, Story, Fate, Telling, Coming, Closing, coordinator, results, world
  <2> QED BY <2>1, <2>2
<1>4. CASE ReadTimeout
  <2>1. TimeoutCode \in Codes
    BY DEF TimeoutCode, Codes
  <2> QED BY <1>1, <1>4, <2>1, AbortKeeps DEF ReadTimeout, world
<1>5. CASE ReadEnd
  <2>1. "unexpected_eof" \in Codes
    BY DEF Codes
  <2> QED BY <1>1, <1>5, <2>1, AbortKeeps DEF ReadEnd, world
<1>6. CASE ReapTimeout
  <2>1. "plugin_exit_timeout" \in Codes
    BY DEF Codes
  <2> QED BY <1>1, <1>6, <2>1, AbortKeeps DEF ReapTimeout, GraceEnds, world
<1> QED BY <1>2, <1>3, <1>4, <1>5, <1>6

LEMMA ReadTypes ==
    ASSUME TypeOK, NEW n \in 1 .. Len(pipe), NEW k \in 1 .. n
    PROVE  /\ SubSeq(pipe, n + 1, Len(pipe)) \in Seq(Tokens)
           /\ pipe[k] \in Tokens
           /\ Complete(pipe[k]) /\ ~Bad(pipe[k]) => pipe[k] \in Responses
<1>1. pipe \in Seq(Tokens) /\ Len(pipe) \in Nat
  BY LenProperties DEF TypeOK
<1>2. \A i \in 1 .. Len(pipe) : pipe[i] \in Tokens
  BY <1>1, ElementOfSeq
<1>3. n + 1 \in Int /\ Len(pipe) \in Int /\ \A i \in n + 1 .. Len(pipe) : pipe[i] \in Tokens
  BY <1>1, <1>2
<1>4. SubSeq(pipe, n + 1, Len(pipe)) \in Seq(Tokens)
  BY <1>3, SubSeqProperties
<1>5. pipe[k] \in Tokens
  BY <1>1, <1>2
<1>6. ASSUME pipe[k] \notin Responses
      PROVE  pipe[k].body \in Fragments
  BY <1>5, <1>6 DEF Tokens, Token
<1> QED BY <1>4, <1>5, <1>6 DEF Complete, Bad, Fragments

LEMMA SecondOne == ASSUME NEW x, NEW y PROVE Append(<<x>>, y) = <<x, y>>
<1>1. <<x>> \in Seq({x, y}) /\ <<x, y>> \in Seq({x, y}) /\ y \in {x, y} /\ Len(<<x>>) = 1
  OBVIOUS
<1>2. PICK longer \in Seq({x, y}) : /\ longer = Append(<<x>>, y) /\ Len(longer) = 2
                                   /\ longer[1] = x /\ longer[2] = y
  <2>1. /\ Append(<<x>>, y) \in Seq({x, y})
        /\ Len(Append(<<x>>, y)) = Len(<<x>>) + 1
        /\ \A i \in 1 .. Len(<<x>>) : Append(<<x>>, y)[i] = <<x>>[i]
        /\ Append(<<x>>, y)[Len(<<x>>) + 1] = y
    BY <1>1, AppendProperties
  <2>2. Len(<<x>>) + 1 = 2 /\ 1 \in 1 .. Len(<<x>>) /\ <<x>>[1] = x
    BY <1>1
  <2>3. Append(<<x>>, y)[1] = x
    BY <2>1, <2>2
  <2>4. Append(<<x>>, y)[2] = y /\ Len(Append(<<x>>, y)) = 2
    BY <2>1, <2>2
  <2> QED BY <2>1, <2>3, <2>4
<1>3. longer = <<x, y>>
  <2>1. Len(<<x, y>>) = 2 /\ <<x, y>>[1] = x /\ <<x, y>>[2] = y
    OBVIOUS
  <2>2. \A i \in 1 .. 2 : longer[i] = <<x, y>>[i]
    <3> TAKE i \in 1 .. 2
    <3>1. i = 1 \/ i = 2
      OBVIOUS
    <3> QED BY <1>2, <2>1, <3>1
  <2> QED BY <1>1, <1>2, <2>1, <2>2, SeqEqual
<1> QED BY <1>2, <1>3

\* The first complete frame is taken as the response of the phase.
LEMMA RespondKeeps ==
    ASSUME HostInv, pc = "read", NEW frame \in Responses, Respond(frame),
           pipe' \in Seq(Tokens), UNCHANGED <<plugin, reads, descendant, written>>
    PROVE  HostInv'
<1>1. /\ phase \in {"initialize", "run"} /\ accepted \in Seq(Responses)
      /\ primary = None /\ secondary \in Seq(Codes)
      /\ accepted = IF phase = "initialize" THEN <<>> ELSE <<InitAnswer>>
  BY DEF HostInv, TypeOK, Story, Coming
<1>2. PICK fault \in Codes \cup {None} : fault = FaultOf(frame)
  BY <1>1, FaultlessResponse
<1>3. fault = None => frame = [id |-> phase, body |-> "result"]
  BY <1>1, <1>2, FaultlessResponse
<1>4. /\ accepted' = Append(accepted, frame)
      /\ payload' = (phase = "run" /\ fault = None)
      /\ UNCHANGED <<interruption, exitStatus, results, cancelled>>
  BY <1>2 DEF Respond
<1>5. accepted' \in Seq(Responses) /\ payload' \in BOOLEAN
  BY <1>1, <1>4, AppendProperties
<1>6. /\ primary' \in Codes \cup {None} /\ secondary' \in Seq(Codes)
      /\ fault = None => primary' = None
      /\ fault # None => primary' # None
      /\ secondary' # <<>> => primary' # None
  <2>1. CASE fault = None
    BY <1>1, <1>2, <2>1 DEF Respond, coordinator, HostInv, TypeOK
  <2>2. CASE fault # None
    <3>1. Record(fault)
      BY <1>2, <2>2 DEF Respond
    <3> QED BY <2>2, <3>1, RecordKeeps DEF HostInv
  <2> QED BY <2>1, <2>2
<1>7. /\ fault = None /\ phase = "initialize" => accepted' = <<InitAnswer>>
      /\ fault = None /\ phase = "run" => accepted' = <<InitAnswer, RunAnswer>>
  <2>1. ASSUME fault = None, phase = "initialize"
        PROVE  accepted' = <<InitAnswer>>
    <3>1. frame = InitAnswer /\ accepted = <<>>
      BY <1>1, <1>3, <2>1, Zenon DEF InitAnswer
    <3>2. accepted' = Append(<<>>, InitAnswer)
      BY <1>4, <3>1, Zenon
    <3> QED BY <3>2
  <2>2. ASSUME fault = None, phase = "run"
        PROVE  accepted' = <<InitAnswer, RunAnswer>>
    <3>1. frame = RunAnswer
      BY <1>3, <2>2, Zenon DEF RunAnswer
    <3>2. accepted = <<InitAnswer>>
      BY <1>1, <2>2
    <3>3. accepted' = Append(<<InitAnswer>>, RunAnswer)
      BY <1>4, <3>1, <3>2, Zenon
    <3> QED BY <3>3, SecondOne, Zenon
  <2> QED BY <2>1, <2>2
<1>8. \/ fault = None /\ phase = "initialize" /\ pc' = "write" /\ phase' = "run"
      \/ phase = "run" /\ frame.id = "run" /\ pc' = "probe" /\ phase' = phase
      \/ fault # None /\ pc' = "kill" /\ phase' = phase
  <2>1. CASE fault = None /\ phase = "initialize"
    BY <1>2, <2>1 DEF Respond, ClosesInOrder
  <2>2. CASE ~(fault = None /\ phase = "initialize") /\ ClosesInOrder(frame)
    BY <1>2, <2>2 DEF Respond, ClosesInOrder
  <2>3. CASE ~(fault = None /\ phase = "initialize") /\ ~ClosesInOrder(frame)
    <3>1. fault # None
      BY <1>1, <1>3, <2>3 DEF ClosesInOrder
    <3>2. pc' = "kill" /\ phase' = phase
      BY <1>2, <2>3 DEF Respond
    <3> QED BY <3>1, <3>2
  <2> QED BY <2>1, <2>2, <2>3
<1>9. TypeOK'
  BY <1>1, <1>4, <1>5, <1>6, <1>8 DEF HostInv, TypeOK, results
<1>10. Story'
  BY <1>1, <1>4, <1>6, <1>7, <1>8 DEF HostInv, Story, Coming, Closing
<1>11. Fate' /\ Telling'
  BY <1>4, <1>8 DEF HostInv, Fate, Telling, Coming, Closing, results
<1> QED BY <1>9, <1>10, <1>11 DEF HostInv

LEMMA Reads == ASSUME HostInv, NEW n \in 1 .. MaxTokens, Read(n)
               PROVE  HostInv'
<1>1. /\ pc = "read" /\ n \in 1 .. Len(pipe)
      /\ pipe' = SubSeq(pipe, n + 1, Len(pipe))
      /\ UNCHANGED <<plugin, reads, descendant, written>>
  BY DEF Read
<1>2. pipe' \in Seq(Tokens)
  BY <1>1, ReadTypes DEF HostInv
<1>3. CASE /\ pc' = "check"
           /\ UNCHANGED <<phase, coordinator, payload, interruption, exitStatus, results,
                          cancelled, accepted>>
  <2>1. TypeOK'
    BY <1>1, <1>2, <1>3 DEF HostInv, TypeOK, coordinator, results
  <2> QED
    BY <1>1, <1>3, <2>1
    DEF HostInv, Story, Fate, Telling, Coming, Closing, coordinator, results
<1>4. CASE \E k \in 1 .. n :
             /\ Complete(pipe[k])
             /\ IF Bad(pipe[k])
                THEN /\ Abort(IF pipe[k].body = "malformed" THEN "invalid_framing"
                                                            ELSE "frame_too_large")
                     /\ UNCHANGED accepted
                ELSE Respond(pipe[k])
  <2>1. PICK k \in 1 .. n :
             /\ Complete(pipe[k])
             /\ IF Bad(pipe[k])
                THEN /\ Abort(IF pipe[k].body = "malformed" THEN "invalid_framing"
                                                            ELSE "frame_too_large")
                     /\ UNCHANGED accepted
                ELSE Respond(pipe[k])
    BY <1>4
  <2>2. CASE Bad(pipe[k])
    <3>1. PICK code : code = IF pipe[k].body = "malformed" THEN "invalid_framing"
                                                           ELSE "frame_too_large"
      OBVIOUS
    <3>2. code \in Codes
      BY <3>1 DEF Codes
    <3>3. Abort(code) /\ UNCHANGED accepted
      BY <2>1, <2>2, <3>1
    <3> QED BY <1>1, <1>2, <3>2, <3>3, AbortKeeps
  <2>3. CASE ~Bad(pipe[k])
    <3>1. PICK frame \in Responses : frame = pipe[k]
      BY <1>1, <2>1, <2>3, ReadTypes DEF HostInv
    <3>2. Respond(frame)
      BY <2>1, <2>3, <3>1
    <3> QED BY <1>1, <1>2, <3>2, RespondKeeps
  <2> QED BY <2>2, <2>3
<1> QED BY <1>3, <1>4 DEF Read

LEMMA Reaping == ASSUME HostInv, Probe \/ Reap
                 PROVE  HostInv'
<1>1. {"host_interrupted", "unexpected_output", "plugin_exited"} \subseteq Codes
  BY DEF Codes
<1>2. TypeOK
  BY DEF HostInv
<1>3. CASE Probe
  <2>1. /\ pc = "probe" /\ pc' = "reap"
        /\ UNCHANGED <<phase, payload, interruption, exitStatus, results, cancelled, world, accepted>>
    BY <1>3 DEF Probe, ToReap
  <2>2. UNCHANGED coordinator \/ \E code \in Codes : Record(code)
    BY <1>1, <1>3 DEF Probe
  <2>3. /\ primary' \in Codes \cup {None} /\ secondary' \in Seq(Codes)
        /\ primary' = None => primary = None
        /\ secondary' # <<>> => primary' # None
    <3>1. CASE UNCHANGED coordinator
      BY <1>2, <3>1 DEF coordinator, TypeOK
    <3>2. CASE \E code \in Codes : Record(code)
      BY <1>2, <3>2, RecordKeeps
    <3> QED BY <2>2, <3>1, <3>2
  <2>4. TypeOK'
    BY <1>2, <2>1, <2>3 DEF TypeOK, results, world
  <2> QED
    BY <2>1, <2>3, <2>4 DEF HostInv, Story, Fate, Telling, Coming, Closing, results, world
<1>4. CASE Reap
  <2>1. /\ pc = "reap" /\ pc' = "drain" /\ plugin \in Gone /\ exitStatus' = plugin
        /\ UNCHANGED <<phase, payload, interruption, results, cancelled, world, accepted>>
    BY <1>4 DEF Reap
  <2>2. /\ primary' \in Codes \cup {None} /\ secondary' \in Seq(Codes)
        /\ primary' = None => primary = None /\ plugin = "zero"
        /\ secondary' # <<>> => primary' # None
    <3>1. CASE plugin # "zero"
      <4>1. Record("plugin_exited")
        BY <1>4, <3>1 DEF Reap
      <4> QED BY <1>1, <1>2, <4>1, RecordKeeps
    <3>2. CASE plugin = "zero"
      BY <1>2, <1>4, <3>2 DEF Reap, coordinator, TypeOK
    <3> QED BY <3>1, <3>2
  <2>3. exitStatus' # None
    BY <2>1, NoneAssumption DEF Gone
  <2>4. TypeOK'
    BY <1>2, <2>1, <2>2 DEF TypeOK, results, world
  <2>5. Story'
    BY <2>1, <2>2 DEF HostInv, Story, Coming, Closing, world
  <2>6. Fate' /\ Telling'
    BY <2>1, <2>2, <2>3 DEF HostInv, Fate, Telling, Coming, Closing, results, world, Gone
  <2> QED BY <2>4, <2>5, <2>6 DEF HostInv
<1> QED BY <1>3, <1>4

LEMMA Killing == ASSUME HostInv, Kill \/ \E observed \in BOOLEAN : KillEnds(observed)
                 PROVE  HostInv'
<1>1. CASE Kill
  <2>1. /\ pc = "kill" /\ pc' = "killing" /\ plugin' = Signalled
        /\ UNCHANGED <<phase, coordinator, payload, interruption, exitStatus, results, cancelled,
                       reads, descendant, pipe, written, accepted>>
    BY <1>1 DEF Kill
  <2>2. plugin' \in {"none", "running", "doomed"} \cup Gone /\ plugin' # "running"
        /\ (plugin' = "none" <=> plugin = "none")
    BY <2>1 DEF HostInv, TypeOK, Signalled, Gone
  <2>3. TypeOK'
    BY <2>1, <2>2 DEF HostInv, TypeOK, coordinator, results
  <2> QED
    BY <2>1, <2>2, <2>3
    DEF HostInv, Story, Fate, Telling, Coming, Closing, coordinator, results
<1>2. CASE \E observed \in BOOLEAN : KillEnds(observed)
  <2>1. PICK observed \in BOOLEAN : KillEnds(observed)
    BY <1>2
  <2>2. /\ pc = "killing" /\ pc' = "drain"
        /\ interruption' = [cancelled |-> cancelled, observed |-> observed]
        /\ UNCHANGED <<phase, coordinator, payload, results, cancelled, world, accepted>>
    BY <2>1 DEF KillEnds
  <2>3. exitStatus' \in Gone \cup {None}
    BY <2>1 DEF KillEnds, HostInv, TypeOK
  <2>4. interruption' \in [cancelled : BOOLEAN, observed : BOOLEAN] /\ interruption' # None
    BY <2>1, <2>2, NoneAssumption DEF HostInv, TypeOK
  <2>5. primary # None /\ plugin # "running" /\ plugin # "none"
    BY <2>2 DEF HostInv, Story, Fate
  <2>6. TypeOK'
    BY <2>2, <2>3, <2>4 DEF HostInv, TypeOK, coordinator, results, world
  <2> QED
    BY <2>2, <2>4, <2>5, <2>6
    DEF HostInv, Story, Fate, Telling, Coming, Closing, coordinator, results, world
<1> QED BY <1>1, <1>2

LEMMA Finishing ==
    ASSUME HostInv, \/ DrainStderr \/ Persist
                    \/ \E code \in {"sidecar_too_large", "sidecar_write_failed"} : PersistFails(code)
    PROVE  HostInv'
<1>1. TypeOK /\ "missing" \notin Codes /\ "missing" # None
  BY NoneAssumption DEF HostInv, Codes, InputCodes
<1>2. CASE DrainStderr
  <2>1. plugin # "none" /\ pc = "drain" /\ pc' = "persist"
        /\ UNCHANGED <<phase, coordinator, payload, interruption, exitStatus, results, cancelled,
                       world, accepted>>
    BY <1>2 DEF DrainStderr, HostInv, Fate
  <2>2. TypeOK'
    BY <1>1, <2>1 DEF TypeOK, coordinator, results, world
  <2> QED
    BY <2>1, <2>2 DEF HostInv, Story, Fate, Telling, Coming, Closing, coordinator, results, world
<1>3. CASE Persist
  <2>1. /\ pc = "persist" /\ pc' = "emit" /\ sidecar' = primary
        /\ UNCHANGED <<phase, coordinator, payload, interruption, exitStatus, envelope, exitCode,
                       cancelled, world, accepted>>
    BY <1>3 DEF Persist
  <2>2. TypeOK'
    BY <1>1, <2>1 DEF TypeOK, coordinator, world
  <2>3. Telling'
    BY <2>1 DEF HostInv, Telling, Committed, coordinator
  <2> QED
    BY <2>1, <2>2, <2>3 DEF HostInv, Story, Fate, Coming, Closing, coordinator, world
<1>4. CASE \E code \in {"sidecar_too_large", "sidecar_write_failed"} : PersistFails(code)
  <2>1. PICK code \in Codes : PersistFails(code)
    BY <1>4 DEF Codes
  <2>2. /\ pc = "persist" /\ pc' = "emit"
        /\ UNCHANGED <<phase, payload, interruption, exitStatus, results, cancelled, world, accepted>>
    BY <2>1 DEF PersistFails
  <2>3. primary' \in Codes /\ primary' # None /\ secondary' \in Seq(Codes)
    BY <1>1, <2>1, RecordKeeps DEF PersistFails
  <2>4. TypeOK'
    BY <1>1, <2>2, <2>3 DEF TypeOK, results, world
  <2>5. Telling'
    BY <2>2, <2>3 DEF HostInv, Telling, Committed, results
  <2> QED
    BY <2>2, <2>3, <2>4, <2>5 DEF HostInv, Story, Fate, Coming, Closing, results, world
<1> QED BY <1>2, <1>3, <1>4

LEMMA Emitting == ASSUME HostInv, Emit \/ EmitFails
                  PROVE  HostInv'
<1>1. /\ TypeOK /\ primary \in Codes \cup {None} /\ secondary \in Seq(Codes)
      /\ "stdout_write_failed" \in Codes /\ "stdout_write_failed" # None
  BY NoneAssumption DEF HostInv, TypeOK, Codes
<1>2. CASE Emit
  <2>1. /\ pc = "emit" /\ pc' = "done"
        /\ envelope' = (IF primary = None THEN "ok" ELSE primary)
        /\ exitCode' = ExitCodeOf(primary)
        /\ UNCHANGED <<phase, coordinator, payload, interruption, exitStatus, sidecar, cancelled,
                       world, accepted>>
    BY <1>2 DEF Emit, Outcome
  <2>2. envelope' \in Codes \cup {"ok", "nothing"}
    BY <1>1, <2>1
  <2>3. exitCode' \in {None, 0, 2, 10, 11, 12, 13, 70}
    BY <1>1, <2>1, ExitCodes
  <2>4. TypeOK'
    BY <1>1, <2>1, <2>2, <2>3 DEF TypeOK, coordinator, world
  <2>5. Telling'
    <3>1. primary' = primary /\ sidecar' = sidecar /\ Committed
      BY <2>1 DEF coordinator, HostInv, Telling
    <3>2. Committed'
      BY <3>1 DEF Committed
    <3>3. envelope' = (IF primary' = None THEN "ok" ELSE primary')
      BY <2>1, <3>1
    <3>4. exitCode' = ExitCodeOf(primary')
      BY <2>1, <3>1, Zenon
    <3>5. ExitCodeOf(primary)' = ExitCodeOf(primary')
      OBVIOUS
    <3> QED BY <2>1, <3>2, <3>3, <3>4, <3>5, Zenon DEF Telling
  <2> QED
    BY <2>1, <2>4, <2>5 DEF HostInv, Story, Fate, Coming, Closing, coordinator, world
<1>3. CASE EmitFails
  <2>1. /\ pc = "emit" /\ pc' = "done"
        /\ primary' = "stdout_write_failed" /\ exitCode' = 70
        /\ envelope' = envelope
        /\ secondary' = IF primary = None THEN secondary ELSE <<primary>> \o secondary
        /\ UNCHANGED <<phase, payload, interruption, exitStatus, sidecar, envelope, cancelled,
                       world, accepted>>
    BY <1>3, ExitCodes DEF EmitFails, RecordStdoutFailure
  <2>2. secondary' \in Seq(Codes)
    <3>1. CASE primary = None
      BY <1>1, <2>1, <3>1
    <3>2. CASE primary # None
      <4>1. <<primary>> \in Seq(Codes)
        BY <1>1, <3>2
      <4> QED BY <1>1, <2>1, <3>2, <4>1, ConcatProperties
    <3> QED BY <3>1, <3>2
  <2>3. envelope = "nothing"
    BY <2>1 DEF HostInv, Telling
  <2>4. TypeOK'
    BY <1>1, <2>1, <2>2 DEF TypeOK, world
  <2>5. Telling'
    BY <2>1, <2>3 DEF Telling
  <2> QED
    BY <1>1, <2>1, <2>4, <2>5 DEF HostInv, Story, Fate, Coming, Closing, world
<1> QED BY <1>2, <1>3

-----------------------------------------------------------------------------
(* The environment's steps *)

LEMMA Surroundings == ASSUME HostInv, Cancel \/ PluginStep
                      PROVE  HostInv'
<1>1. TypeOK
  BY DEF HostInv
<1>2. CASE Cancel
  <2>1. TypeOK'
    BY <1>1, <1>2 DEF Cancel, TypeOK, host, coordinator, results, world
  <2> QED
    BY <1>2, <2>1
    DEF HostInv, Cancel, Story, Fate, Telling, Committed, Coming, Closing, host, coordinator,
        results, world
<1>3. CASE PluginStep
  <2>1. UNCHANGED <<host, cancelled>>
    BY <1>3 DEF PluginStep, PluginWrites, PluginForks, DescendantEnds, PluginExits, PluginDies
  <2>2. /\ reads' \in BOOLEAN /\ descendant' \in BOOLEAN
        /\ pipe' \in Seq(Tokens) /\ written' \in 0 .. MaxTokens
    <3>1. CASE \E token \in Tokens : PluginWrites(token)
      <4>1. PICK token \in Tokens : PluginWrites(token)
        BY <3>1
      <4>2. pipe' = Append(pipe, token) /\ written < MaxTokens /\ written' = written + 1
            /\ UNCHANGED <<reads, descendant>>
        BY <4>1 DEF PluginWrites
      <4>3. pipe' \in Seq(Tokens)
        BY <1>1, <4>2, AppendProperties DEF TypeOK
      <4> QED BY <1>1, <4>2, <4>3, BoundAssumption DEF TypeOK
    <3>2. CASE ~\E token \in Tokens : PluginWrites(token)
      BY <1>1, <1>3, <3>2
      DEF TypeOK, PluginStep, PluginForks, DescendantEnds, PluginExits, PluginDies
    <3> QED BY <3>1, <3>2
  <2>3. \/ plugin' = plugin
        \/ plugin = "running" /\ plugin' \in {"zero", "nonzero"}
        \/ plugin = "doomed" /\ plugin' = "signalled"
    BY <1>3 DEF PluginStep, PluginWrites, PluginForks, DescendantEnds, PluginExits, PluginDies
  <2>4. TypeOK'
    BY <1>1, <2>1, <2>2, <2>3 DEF TypeOK, host, coordinator, results, Gone
  <2>5. Story' /\ Fate'
    BY <2>1, <2>3 DEF HostInv, Story, Fate, Coming, Closing, host, coordinator, results
  <2>6. Telling'
    BY <2>1 DEF HostInv, Telling, Committed, host, coordinator, results
  <2> QED BY <2>4, <2>5, <2>6 DEF HostInv
<1> QED BY <1>2, <1>3

LEMMA StepIsTold == HostInv /\ [Next]_vars => HostInv'
<1> SUFFICES ASSUME HostInv, [Next]_vars PROVE HostInv'
  OBVIOUS
<1>1. CASE UNCHANGED vars
  <2>1. TypeOK'
    BY <1>1 DEF HostInv, TypeOK, vars, coordinator, results, world
  <2> QED
    BY <1>1, <2>1
    DEF HostInv, Story, Fate, Telling, Committed, Coming, Closing, vars, coordinator, results, world
<1>2. CASE HostStep
  BY <1>2, BeforeThePlugin, Aborts, Reads, Reaping, Killing, Finishing, Emitting DEF HostStep
<1>3. CASE Cancel \/ PluginStep
  BY <1>3, Surroundings
<1> QED BY <1>1, <1>2, <1>3 DEF Next

LEMMA HostIsTold == Spec => []HostInv
BY InitIsTold, StepIsTold, PTL DEF Spec

-----------------------------------------------------------------------------
(* Theorems *)

(* A run that exits with 0 has had both answers, a plugin that ended by itself
   with status 0 and a sidecar without a failure, whatever the plugin writes.
   (What it writes behind a response may be dropped unread, run.rs:909.) *)
THEOREM RunsEarnTheirOk == Spec => []OkIsEarned
<1>1. HostInv => OkIsEarned
  <2> SUFFICES ASSUME HostInv, exitCode = 0 PROVE OkIsEarned
    BY DEF OkIsEarned
  <2>1. pc = "done"
    BY NoneAssumption DEF HostInv, TypeOK, Telling
  <2>2. /\ Committed /\ envelope = (IF primary = None THEN "ok" ELSE primary)
        /\ exitCode = ExitCodeOf(primary)
    BY <2>1 DEF HostInv, Telling
  <2>3. primary = None
    BY <2>2, ExitCodes DEF HostInv, TypeOK
  <2>4. sidecar = None /\ envelope = "ok"
    BY <2>2, <2>3 DEF Committed
  <2>5. /\ accepted = <<InitAnswer, RunAnswer>> /\ payload /\ interruption = None
        /\ exitStatus = "zero" /\ plugin = "zero"
    BY <2>1, <2>3 DEF HostInv, Story, Closing
  <2> QED BY <2>4, <2>5 DEF OkIsEarned, InitAnswer, RunAnswer
<1> QED BY <1>1, HostIsTold, PTL

(* The plugin is never left running without a signal, and a plugin that had to
   be killed makes a failed run. *)
THEOREM PluginsAreAccountedFor == Spec => []PluginIsAccountedFor
<1>1. HostInv => PluginIsAccountedFor
  BY DEF HostInv, Fate, Closing, PluginIsAccountedFor
<1> QED BY <1>1, HostIsTold, PTL

(* The failure in the envelope is the failure in the sidecar. *)
THEOREM SidecarsAgree == Spec => []SidecarAgrees
<1>1. HostInv => SidecarAgrees
  BY DEF HostInv, TypeOK, Telling, Committed, SidecarAgrees
<1> QED BY <1>1, HostIsTold, PTL

LEMMA AppendIsPrefixed == ASSUME NEW S, NEW s \in Seq(S), NEW x \in S
                          PROVE  IsPrefix(s, Append(s, x))
<1>1. PICK t \in Seq(S) : /\ t = Append(s, x) /\ Len(t) = Len(s) + 1
                           /\ \A i \in 1 .. Len(s) : t[i] = s[i]
  <2>1. /\ Append(s, x) \in Seq(S) /\ Len(Append(s, x)) = Len(s) + 1
        /\ \A i \in 1 .. Len(s) : Append(s, x)[i] = s[i]
    BY AppendProperties
  <2> QED BY <2>1, Zenon
<1>2. Len(s) \in Nat
  BY LenProperties
<1>3. \A i \in 1 .. Len(s) : s[i] \in S /\ t[i] \in S
  BY <1>1, <1>2, ElementOfSeq
<1>4. SubSeq(t, 1, Len(s)) = s
  <2>1. /\ SubSeq(t, 1, Len(s)) \in Seq(S)
        /\ Len(SubSeq(t, 1, Len(s))) = IF 1 <= Len(s) THEN Len(s) - 1 + 1 ELSE 0
        /\ \A i \in 1 .. Len(s) - 1 + 1 : SubSeq(t, 1, Len(s))[i] = t[1 + i - 1]
    BY <1>2, <1>3, SubSeqProperties
  <2>2. Len(SubSeq(t, 1, Len(s))) = Len(s) /\ Len(s) - 1 + 1 = Len(s)
    BY <1>2, <2>1
  <2>3. \A i \in 1 .. Len(s) : SubSeq(t, 1, Len(s))[i] = s[i]
    <3> TAKE i \in 1 .. Len(s)
    <3>1. i \in 1 .. Len(s) - 1 + 1 /\ 1 + i - 1 = i
      BY <1>2
    <3> QED BY <1>1, <2>1, <3>1
  <2> QED BY <2>1, <2>2, <2>3, SeqEqual
<1>5. SubSeq(s, 1, Len(s)) = s
  BY SubSeqFull
<1> QED BY <1>1, <1>2, <1>4, <1>5 DEF IsPrefix

(* No step takes the first cause of a failed run back or drops a later one. *)
THEOREM FirstCausesStay == Spec => FirstCauseStays
<1>1. ASSUME HostInv, [Next]_vars
      PROVE  [KeepsFirstCause]_coordinator
  <2>1. primary \in Codes \cup {None} /\ secondary \in Seq(Codes)
    BY <1>1 DEF HostInv, TypeOK
  <2>2. ASSUME NEW code \in Codes, Record(code)
        PROVE  KeepsFirstCause
    <3>1. CASE primary = None
      BY <2>2, <3>1 DEF Record, KeepsFirstCause
    <3>2. CASE primary # None
      <4>1. primary' = primary /\ secondary' = Append(secondary, code)
        BY <2>2, <3>2 DEF Record
      <4>2. IsPrefix(secondary, Append(secondary, code))
        BY <2>1, <2>2, AppendIsPrefixed
      <4> QED BY <4>1, <4>2, Zenon DEF KeepsFirstCause
    <3> QED BY <3>1, <3>2
  <2>3. ASSUME RecordStdoutFailure
        PROVE  KeepsFirstCause
    BY <2>3 DEF RecordStdoutFailure, KeepsFirstCause
  <2>4. \/ UNCHANGED coordinator
        \/ RecordStdoutFailure
        \/ \E code \in Codes : Record(code)
    <3>1. {"plugin_write_failed", "host_interrupted", "unexpected_eof", "frame_too_large",
           "invalid_framing", "unexpected_output", "plugin_exited", "plugin_exit_timeout",
           "sidecar_too_large", "sidecar_write_failed", TimeoutCode} \cup InputCodes \subseteq Codes
      BY DEF Codes, TimeoutCode
    <3>2. CASE UNCHANGED vars
      BY <3>2 DEF vars
    <3>3. CASE Cancel \/ PluginStep
      BY <3>3 DEF Cancel, PluginStep, PluginWrites, PluginForks, DescendantEnds, PluginExits,
                  PluginDies, host
    <3>4. CASE (\E code \in InputCodes : Invalid(code)) \/ Spawn \/ WriteRequest \/ WriteFails
      BY <3>1, <3>4 DEF Invalid, Spawn, WriteRequest, WriteFails, Abort
    <3>5. CASE CheckCancelled \/ ReadTimeout \/ ReadEnd \/ ReapTimeout
      BY <3>1, <3>5 DEF CheckCancelled, ReadTimeout, ReadEnd, ReapTimeout, Abort
    <3>6. CASE \E n \in 1 .. MaxTokens : Read(n)
      <4>1. PICK n \in 1 .. MaxTokens : Read(n)
        BY <3>6
      <4>2. CASE UNCHANGED coordinator
        BY <4>2
      <4>3. CASE ~UNCHANGED coordinator
        <5>1. PICK k \in 1 .. n :
                /\ Complete(pipe[k])
                /\ IF Bad(pipe[k])
                   THEN Abort(IF pipe[k].body = "malformed" THEN "invalid_framing"
                                                            ELSE "frame_too_large")
                   ELSE Respond(pipe[k])
          BY <4>1, <4>3 DEF Read
        <5>2. CASE Bad(pipe[k])
          BY <3>1, <5>1, <5>2 DEF Abort
        <5>3. CASE ~Bad(pipe[k])
          <6>1. n \in 1 .. Len(pipe)
            BY <4>1 DEF Read
          <6>2. PICK frame \in Responses : frame = pipe[k]
            BY <1>1, <5>1, <5>3, <6>1, ReadTypes DEF HostInv
          <6>3. phase \in {"initialize", "run"}
            BY <1>1 DEF HostInv, TypeOK
          <6>4. PICK fault \in Codes \cup {None} : fault = FaultOf(frame)
            BY <6>3, FaultlessResponse
          <6>5. fault # None /\ Record(fault)
            BY <4>3, <5>1, <5>3, <6>2, <6>4 DEF Respond
          <6> QED BY <6>4, <6>5
        <5> QED BY <5>2, <5>3
      <4> QED BY <4>2, <4>3
    <3>7. CASE Probe \/ Reap
      BY <3>1, <3>7 DEF Probe, Reap
    <3>8. CASE Kill \/ \E observed \in BOOLEAN : KillEnds(observed)
      BY <3>8 DEF Kill, KillEnds
    <3>9. CASE DrainStderr \/ Persist \/ Emit \/ EmitFails
      BY <3>9 DEF DrainStderr, Persist, Emit, EmitFails
    <3>10. CASE \E code \in {"sidecar_too_large", "sidecar_write_failed"} : PersistFails(code)
      BY <3>1, <3>10 DEF PersistFails
    <3> QED
      BY <1>1, <3>2, <3>3, <3>4, <3>5, <3>6, <3>7, <3>8, <3>9, <3>10 DEF Next, HostStep
  <2> QED BY <2>2, <2>3, <2>4
<1> QED BY <1>1, HostIsTold, PTL DEF Spec, FirstCauseStays
-----------------------------------------------------------------------------
(* AuditStore, where the sidecar of a run is persisted: for every set of
   processes and run ids, whether the runs of one id overlap or not. *)

Writing == {"write", "sync", "rename"}
Unborn == {"new", "check", "create"}

(* Whatever a directory entry, an open file or bytes refer to is of the same
   run: a race stays within one id. *)
Owned ==
    /\ \A r \in RunIds : tmp[r] # NoEntry => run[tmp[r]] = r /\ at[tmp[r]] \notin Unborn
    /\ \A r \in RunIds : final[r] # NoEntry => run[final[r]] = r /\ at[final[r]] \notin Unborn
    /\ \A p \in Processes : open[p] # NoEntry => run[open[p]] = run[p] /\ at[open[p]] \notin Unborn
    /\ \A i \in Processes : content[i] \in Processes =>
         run[content[i]] = run[i] /\ at[content[i]] \notin Unborn

\* Of an id that was not raced one process at a time counts on the free name.
Alone ==
    \A p, q \in Processes :
        p # q /\ run[p] = run[q] /\ at[p] \in Committing /\ at[q] \in Committing => run[p] \in raced

\* The sidecar of an id that was not raced is whole, and not the temporary too.
Clean(r) ==
    r \notin raced /\ final[r] # NoEntry => content[final[r]] \in Processes /\ final[r] # tmp[r]

(* What a process relies on between its calls unless its id was raced: nobody has
   taken the final name since it looked, and the temporary is the file it has
   open, with its own bytes once it wrote them. *)
Holds(p) ==
    /\ at[p] = "new" <=> run[p] = NoEntry
    /\ at[p] \in {"committed", "exists"} => final[run[p]] # NoEntry
    /\ run[p] \notin raced =>
         /\ at[p] \in Committing => final[run[p]] = NoEntry
         /\ at[p] \in Writing => tmp[run[p]] = open[p]
         /\ at[p] = "write" => content[open[p]] = NoEntry
         /\ at[p] \in {"sync", "rename"} => content[open[p]] = p
         /\ at[p] = "committed" => content[final[run[p]]] = p

StoreInv ==
    /\ AuditTypeOK /\ Owned /\ Alone
    /\ \A r \in RunIds : Clean(r)
    /\ \A p \in Processes : Holds(p)

\* No sidecar goes away, and only a race replaces or alters one.
FinalsStay ==
    \A r \in RunIds : final[r] # NoEntry =>
        /\ final'[r] # NoEntry
        /\ r \notin raced => final'[r] = final[r] /\ content'[final[r]] = content[final[r]]

\* Nothing is stored in the initial state.
LEMMA InitStore == AuditInit => StoreInv
BY NoEntryAssumption
DEF AuditInit, StoreInv, AuditTypeOK, Owned, Alone, Clean, Holds, Writing, Committing, Inodes

(* A process that counts on the free name of its run touches one inode of that
   run, the directory entries of that run and itself. *)
Touches(p, i) ==
    /\ at[p] \in Committing
    /\ i \in Processes /\ run[i] = run[p]
    /\ run' = run /\ raced' = raced
    /\ \A q \in Processes \ {p} : at'[q] = at[q] /\ open'[q] = open[q]
    /\ \A s \in RunIds \ {run[p]} : tmp'[s] = tmp[s] /\ final'[s] = final[s]
    /\ \A j \in Processes \ {i} : content'[j] = content[j]
    /\ final[run[p]] # NoEntry => final'[run[p]] # NoEntry

\* It harms nobody else.
LEMMA OthersAreSafe ==
    ASSUME StoreInv, NEW p \in Processes, NEW i \in Processes, Touches(p, i)
    PROVE  /\ \A q \in Processes \ {p} : Holds(q)'
           /\ \A s \in RunIds \ {run[p]} : Clean(s)'
           /\ Alone' /\ FinalsStay
<1> DEFINE r == run[p]
<1>t. AuditTypeOK /\ Owned /\ Alone /\ (\A s \in RunIds : Clean(s)) /\ \A q \in Processes : Holds(q)
  BY DEF StoreInv
<1>1. r \in RunIds /\ (r \notin raced => final[r] = NoEntry)
  BY <1>t, NoEntryAssumption DEF Touches, Holds, AuditTypeOK, Committing
<1>2. \A s \in RunIds \ {r} : final[s] # NoEntry =>
        final[s] \in Processes \ {i} /\ content'[final[s]] = content[final[s]]
  BY <1>t DEF Touches, Owned, AuditTypeOK, Inodes
<1>3. \A s \in RunIds \ {r} : Clean(s)'
  BY <1>t, <1>2 DEF Touches, Clean
<1>4. Alone'
  BY <1>t DEF Touches, Alone
<1>5. FinalsStay
  BY <1>1, <1>2 DEF Touches, FinalsStay
<1>6. ASSUME NEW q \in Processes \ {p} PROVE Holds(q)'
  <2>1. /\ at'[q] = at[q] /\ open'[q] = open[q] /\ run'[q] = run[q] /\ raced' = raced
        /\ at[q] # "new" => run[q] \in RunIds
        /\ at[q] = "new" <=> run[q] = NoEntry
    BY <1>t, <1>6, NoEntryAssumption DEF Touches, Holds, AuditTypeOK
  <2>2. CASE run[q] = r
    <3>1. r \notin raced => at[q] \notin Committing /\ at[q] # "committed"
      BY <1>t, <1>1, <1>6, <2>2 DEF Touches, Alone, Holds
    <3>2. at[q] \in {"committed", "exists"} => final'[r] # NoEntry
      BY <1>t, <1>6, <2>2 DEF Touches, Holds
    <3> QED BY <2>1, <2>2, <3>1, <3>2 DEF Holds, Writing, Committing
  <2>3. CASE run[q] # r /\ at[q] # "new"
    <3>1. tmp'[run[q]] = tmp[run[q]] /\ final'[run[q]] = final[run[q]]
      BY <2>1, <2>3 DEF Touches
    <3>2. final[run[q]] # NoEntry => content'[final[run[q]]] = content[final[run[q]]]
      BY <1>2, <2>1, <2>3
    <3>3. open[q] # NoEntry => content'[open[q]] = content[open[q]]
      BY <1>t, <2>3 DEF Touches, Owned, AuditTypeOK, Inodes
    <3>4. at[q] \in Writing => open[q] # NoEntry
      BY <1>t DEF AuditTypeOK, Writing
    <3>5. Holds(q)
      BY <1>t
    <3> QED BY <2>1, <2>3, <3>1, <3>2, <3>3, <3>4, <3>5 DEF Holds, Writing
  <2>4. CASE at[q] = "new"
    BY <2>1, <2>4 DEF Holds, Writing, Committing
  <2> QED BY <2>2, <2>3, <2>4
<1> QED BY <1>3, <1>4, <1>5, <1>6

\* A process comes to a run, whoever else is persisting it.
LEMMA StartStore ==
    ASSUME StoreInv, NEW p \in Processes, NEW r \in RunIds, Start(p, r)
    PROVE  StoreInv' /\ FinalsStay
<1>t. AuditTypeOK /\ Owned /\ Alone /\ (\A s \in RunIds : Clean(s)) /\ \A q \in Processes : Holds(q)
  BY DEF StoreInv
<1>1. /\ at[p] = "new" /\ run' = [run EXCEPT ![p] = r] /\ at' = [at EXCEPT ![p] = "check"]
      /\ open' = open /\ tmp' = tmp /\ final' = final /\ content' = content /\ raced' = raced
  BY DEF Start, Goes, files
<1>2. AuditTypeOK'
  BY <1>1, <1>t DEF AuditTypeOK
<1>3. Owned'
  <2>1. open[p] = NoEntry
    BY <1>1, <1>t DEF AuditTypeOK, Owned, Holds, Unborn, Inodes
  <2>2. \A x \in Processes : at[x] \notin Unborn =>
          x # p /\ run'[x] = run[x] /\ at'[x] = at[x]
    BY <1>1, <1>t DEF AuditTypeOK, Unborn
  <2>3. \A q \in Processes : open'[q] # NoEntry =>
          run'[open'[q]] = run'[q] /\ at'[open'[q]] \notin Unborn
    <3> SUFFICES ASSUME NEW q \in Processes, open[q] # NoEntry
                 PROVE  run'[open[q]] = run'[q] /\ at'[open[q]] \notin Unborn
      BY <1>1
    <3>1. q # p /\ run'[q] = run[q] /\ open[q] \in Processes
      BY <1>1, <1>t, <2>1 DEF AuditTypeOK, Inodes
    <3> QED BY <1>t, <2>2, <3>1 DEF Owned
  <2>4. \A i \in Processes : content'[i] \in Processes =>
          run'[content'[i]] = run'[i] /\ at'[content'[i]] \notin Unborn
    <3> SUFFICES ASSUME NEW i \in Processes, content[i] \in Processes
                 PROVE  run'[content[i]] = run'[i] /\ at'[content[i]] \notin Unborn
      BY <1>1
    <3>1. run[content[i]] = run[i] /\ at[content[i]] \notin Unborn
      BY <1>t DEF Owned
    <3>2. at[content[i]] # "new" /\ run[content[i]] # NoEntry
      BY <1>t, <3>1 DEF Holds, Unborn
    <3>3. i # p
      BY <1>1, <1>t, <3>1, <3>2 DEF Holds
    <3> QED BY <1>1, <1>t, <2>2, <3>1, <3>3 DEF AuditTypeOK
  <2> QED BY <1>1, <1>t, <2>2, <2>3, <2>4 DEF AuditTypeOK, Owned, Inodes
<1>4. Alone'
  BY <1>1, <1>t DEF AuditTypeOK, Alone, Committing
<1>5. \A s \in RunIds : Clean(s)'
  BY <1>1, <1>t DEF Clean
<1>6. \A q \in Processes : Holds(q)'
  BY <1>1, <1>t, NoEntryAssumption DEF AuditTypeOK, Holds, Writing, Committing
<1> QED BY <1>1, <1>2, <1>3, <1>4, <1>5, <1>6 DEF StoreInv, FinalsStay

(* The process looks for a sidecar, or is killed before: no file changes.  Who
   finds the name free while another counts on that makes it a race. *)
LEMMA LookStore ==
    ASSUME StoreInv, NEW p \in Processes, Check(p) \/ (KillProcess(p) /\ at[p] = "check")
    PROVE  StoreInv' /\ FinalsStay
<1>t. AuditTypeOK /\ Owned /\ Alone /\ (\A s \in RunIds : Clean(s)) /\ \A q \in Processes : Holds(q)
  BY DEF StoreInv
<1>1. PICK where \in {"failed", "exists", "create", "killed"} :
        /\ at[p] = "check" /\ at' = [at EXCEPT ![p] = where]
        /\ UNCHANGED <<run, open, tmp, final, content>>
        /\ where = "exists" => final[run[p]] # NoEntry
        /\ where = "create" => final[run[p]] = NoEntry
        /\ raced' = IF where = "create" /\ OthersCommit(p) THEN raced \cup {run[p]} ELSE raced
  BY DEF Check, KillProcess, Goes, Taken, files
<1>r. run[p] \in RunIds
  BY <1>1, <1>t DEF AuditTypeOK, Holds
<1>2. AuditTypeOK'
  BY <1>1, <1>r, <1>t DEF AuditTypeOK
<1>3. Owned'
  BY <1>1, <1>t DEF AuditTypeOK, Owned, Unborn, Inodes
<1>4. Alone'
  <2>1. CASE where = "create"
    BY <1>1, <1>t, <2>1 DEF AuditTypeOK, Alone, OthersCommit
  <2>2. CASE where # "create"
    BY <1>1, <1>t, <2>2 DEF AuditTypeOK, Alone, Committing
  <2> QED BY <2>1, <2>2
<1>5. raced \subseteq raced'
  BY <1>1
<1>6. \A s \in RunIds : Clean(s)'
  BY <1>1, <1>5, <1>t DEF Clean
<1>7. ASSUME NEW q \in Processes PROVE Holds(q)'
  <2>1. CASE q # p
    <3>1. at'[q] = at[q] /\ UNCHANGED <<run, open, tmp, final, content>> /\ Holds(q)
      BY <1>1, <1>t, <2>1 DEF AuditTypeOK
    <3> QED BY <1>5, <3>1 DEF Holds
  <2>2. CASE q = p
    <3>1. at'[p] = where /\ UNCHANGED <<run, open, tmp, final, content>> /\ run[p] # NoEntry
      BY <1>1, <1>r, <1>t, NoEntryAssumption DEF AuditTypeOK
    <3> QED BY <1>1, <2>2, <3>1 DEF Holds, Writing, Committing
  <2> QED BY <2>1, <2>2
<1> QED BY <1>1, <1>2, <1>3, <1>4, <1>6, <1>7 DEF StoreInv, FinalsStay

(* The file is synced, the call fails or the process is killed once it counts on
   the free name: at most its own file is torn. *)
LEMMA MoveStore ==
    ASSUME StoreInv, NEW p \in Processes, Sync(p) \/ Unlink(p) \/ (KillProcess(p) /\ at[p] # "check")
    PROVE  StoreInv' /\ FinalsStay
<1>t. AuditTypeOK /\ Owned /\ Alone /\ (\A s \in RunIds : Clean(s)) /\ \A q \in Processes : Holds(q)
  BY DEF StoreInv
<1> DEFINE r == run[p]
<1>1. PICK where \in {"failed", "rename", "killed"} :
        /\ at[p] \in Committing /\ at' = [at EXCEPT ![p] = where]
        /\ UNCHANGED <<run, open, final, raced>>
        /\ where = "rename" => at[p] = "sync" /\ tmp' = tmp
        /\ tmp' = tmp \/ tmp' = [tmp EXCEPT ![r] = NoEntry]
        /\ \/ content' = content
           \/ at[p] = "write" /\ where = "killed" /\ content' = [content EXCEPT ![open[p]] = Torn]
        /\ where = "rename" => content' = content
  BY <1>t DEF Sync, Unlink, KillProcess, Holding, Goes, Committing, Ended, files, AuditTypeOK
<1>r. r \in RunIds
  BY <1>1, <1>t DEF AuditTypeOK, Holds, Committing
<1>2. PICK i \in Processes :
        run[i] = r /\ (content' = content \/ (i = open[p] /\ content' = [content EXCEPT ![i] = Torn]))
  <2>1. CASE content' = content
    BY <2>1
  <2>2. CASE at[p] = "write" /\ content' = [content EXCEPT ![open[p]] = Torn]
    <3>1. open[p] # NoEntry /\ open[p] \in Processes
      BY <1>t, <2>2 DEF AuditTypeOK, Inodes
    <3>2. run[open[p]] = r
      BY <1>t, <3>1 DEF Owned
    <3> QED BY <2>2, <3>1, <3>2
  <2> QED BY <1>1, <2>1, <2>2
<1>3. Touches(p, i)
  BY <1>1, <1>2, <1>r, <1>t DEF Touches, AuditTypeOK, Inodes
<1>4. /\ \A q \in Processes \ {p} : Holds(q)'
      /\ \A s \in RunIds \ {r} : Clean(s)'
      /\ Alone' /\ FinalsStay
  BY <1>3, OthersAreSafe
<1>5. AuditTypeOK'
  BY <1>1, <1>2, <1>r, <1>t DEF AuditTypeOK, Inodes, Committing
<1>6. Owned'
  BY <1>1, <1>2, <1>r, <1>t, NoEntryAssumption DEF AuditTypeOK, Owned, Unborn, Inodes
<1>7. Clean(r)'
  BY <1>1, <1>t DEF Clean, Holds
<1>8. Holds(p)'
  BY <1>1, <1>r, <1>t, NoEntryAssumption DEF Holds, AuditTypeOK, Writing, Committing
<1>9. ASSUME NEW s \in RunIds PROVE Clean(s)'
  <2>1. CASE s = r
    BY <1>3, <1>7, <2>1 DEF Clean, Touches
  <2>2. CASE s # r
    BY <1>4, <2>2
  <2> QED BY <2>1, <2>2
<1>10. ASSUME NEW q \in Processes PROVE Holds(q)'
  <2>1. CASE q = p
    BY <1>8, <2>1
  <2>2. CASE q # p
    BY <1>4, <2>2
  <2> QED BY <2>1, <2>2
<1> QED BY <1>4, <1>5, <1>6, <1>9, <1>10 DEF StoreInv

(* The temporary is created or truncated: the inode is of this run, and not its
   sidecar unless the id was raced. *)
LEMMA CreateStore ==
    ASSUME StoreInv, NEW p \in Processes, Create(p)
    PROVE  StoreInv' /\ FinalsStay
<1>t. AuditTypeOK /\ Owned /\ Alone /\ (\A s \in RunIds : Clean(s)) /\ \A q \in Processes : Holds(q)
  BY DEF StoreInv
<1> DEFINE r == run[p]
           i == IF tmp[r] # NoEntry THEN tmp[r] ELSE p
<1>r. r \in RunIds /\ at[p] = "create" /\ i \in Processes /\ i # NoEntry
  BY <1>t, NoEntryAssumption DEF Create, AuditTypeOK, Holds, Inodes
<1>i. run[i] = r /\ (i = p \/ at[i] \notin Unborn)
  BY <1>t, <1>r DEF Owned
<1> HIDE DEF i
<1>c. \/ at' = [at EXCEPT ![p] = "failed"] /\ UNCHANGED <<open, tmp, final, content, run, raced>>
      \/ /\ open' = [open EXCEPT ![p] = i] /\ tmp' = [tmp EXCEPT ![r] = i]
         /\ content' = [content EXCEPT ![i] = NoEntry] /\ at' = [at EXCEPT ![p] = "write"]
         /\ UNCHANGED <<final, run, raced>>
  BY DEF Create, Goes, files, i
<1>3. Touches(p, i)
  BY <1>c, <1>i, <1>r, <1>t DEF Touches, AuditTypeOK, Inodes, Committing
<1>4. /\ \A q \in Processes \ {p} : Holds(q)'
      /\ \A s \in RunIds \ {r} : Clean(s)'
      /\ Alone' /\ FinalsStay
  BY <1>3, <1>r, OthersAreSafe
<1>5. AuditTypeOK'
  BY <1>c, <1>r, <1>t DEF AuditTypeOK, Inodes
<1>6. Owned'
  <2>1. CASE at' = [at EXCEPT ![p] = "failed"] /\ UNCHANGED <<open, tmp, final, content, run, raced>>
    BY <2>1, <1>r, <1>t DEF AuditTypeOK, Owned, Unborn, Inodes
  <2>2. CASE /\ open' = [open EXCEPT ![p] = i] /\ tmp' = [tmp EXCEPT ![r] = i]
             /\ content' = [content EXCEPT ![i] = NoEntry] /\ at' = [at EXCEPT ![p] = "write"]
             /\ UNCHANGED <<final, run, raced>>
    <3>1. at'[i] \notin Unborn /\ run'[i] = r
      BY <2>2, <1>i, <1>r, <1>t DEF AuditTypeOK, Unborn
    <3>2. \A x \in Processes : at[x] \notin Unborn => at'[x] \notin Unborn
      BY <2>2, <1>t DEF AuditTypeOK, Unborn
    <3>3. \A s \in RunIds : tmp'[s] # NoEntry => run'[tmp'[s]] = s /\ at'[tmp'[s]] \notin Unborn
      BY <2>2, <3>1, <3>2, <1>r, <1>t DEF AuditTypeOK, Owned, Inodes
    <3>4. \A s \in RunIds : final'[s] # NoEntry => run'[final'[s]] = s /\ at'[final'[s]] \notin Unborn
      BY <2>2, <3>2, <1>t DEF AuditTypeOK, Owned, Inodes
    <3>5. \A q \in Processes : open'[q] # NoEntry =>
            run'[open'[q]] = run'[q] /\ at'[open'[q]] \notin Unborn
      BY <2>2, <3>1, <3>2, <1>t DEF AuditTypeOK, Owned, Inodes
    <3>6. \A j \in Processes : content'[j] \in Processes =>
            run'[content'[j]] = run'[j] /\ at'[content'[j]] \notin Unborn
      BY <2>2, <3>2, <1>t, NoEntryAssumption DEF AuditTypeOK, Owned, Inodes
    <3> QED BY <3>3, <3>4, <3>5, <3>6 DEF Owned
  <2> QED BY <1>c, <2>1, <2>2
<1>7. Clean(r)'
  BY <1>c, <1>r, <1>t DEF Clean, Holds, Committing
<1>8. Holds(p)'
  BY <1>c, <1>r, <1>t, NoEntryAssumption DEF Holds, AuditTypeOK, Writing, Committing, Inodes
<1>9. ASSUME NEW s \in RunIds PROVE Clean(s)'
  <2>1. CASE s = r
    BY <1>3, <1>7, <2>1 DEF Clean, Touches
  <2>2. CASE s # r
    BY <1>4, <2>2
  <2> QED BY <2>1, <2>2
<1>10. ASSUME NEW q \in Processes PROVE Holds(q)'
  <2>1. CASE q = p
    BY <1>8, <2>1
  <2>2. CASE q # p
    BY <1>4, <2>2
  <2> QED BY <2>1, <2>2
<1> QED BY <1>4, <1>5, <1>6, <1>9, <1>10 DEF StoreInv

\* The bytes go to the file that is open, which is empty unless the id was raced.
LEMMA WriteStore ==
    ASSUME StoreInv, NEW p \in Processes, Write(p)
    PROVE  StoreInv' /\ FinalsStay
<1>t. AuditTypeOK /\ Owned /\ Alone /\ (\A s \in RunIds : Clean(s)) /\ \A q \in Processes : Holds(q)
  BY DEF StoreInv
<1> DEFINE r == run[p]
           i == open[p]
<1>r. r \in RunIds /\ at[p] = "write" /\ i \in Processes /\ i # NoEntry
  BY <1>t, NoEntryAssumption DEF Write, AuditTypeOK, Holds, Inodes
<1>i. run[i] = r
  BY <1>t, <1>r DEF Owned
<1>1. PICK where \in {"failed", "sync"}, c \in {p, Torn, content[i]} :
        /\ content' = [content EXCEPT ![i] = c] /\ at' = [at EXCEPT ![p] = where]
        /\ where = "sync" => c = p \/ content[i] # NoEntry
        /\ UNCHANGED <<run, open, tmp, final, raced>>
  <2>1. content = [content EXCEPT ![i] = content[i]]
    BY <1>t DEF AuditTypeOK
  <2> QED BY <2>1 DEF Write, Holding, Goes
<1>3. Touches(p, i)
  BY <1>1, <1>i, <1>r, <1>t DEF Touches, AuditTypeOK, Inodes, Committing
<1>4. /\ \A q \in Processes \ {p} : Holds(q)'
      /\ \A s \in RunIds \ {r} : Clean(s)'
      /\ Alone' /\ FinalsStay
  BY <1>3, <1>r, OthersAreSafe
<1>5. AuditTypeOK'
  BY <1>1, <1>r, <1>t DEF AuditTypeOK, Inodes
<1>6. Owned'
  <2>1. \A x \in Processes : at[x] \notin Unborn \/ x = p => at'[x] \notin Unborn
    BY <1>1, <1>t DEF AuditTypeOK, Unborn
  <2>2. \A j \in Processes : content'[j] \in Processes =>
          run'[content'[j]] = run'[j] /\ at'[content'[j]] \notin Unborn
    BY <1>1, <1>i, <1>r, <1>t, <2>1, NoEntryAssumption DEF AuditTypeOK, Owned, Inodes
  <2> QED BY <1>1, <1>t, <2>1, <2>2 DEF AuditTypeOK, Owned, Inodes
<1>7. Clean(r)'
  BY <1>1, <1>r, <1>t DEF Clean, Holds, Committing
<1>8. Holds(p)'
  BY <1>1, <1>r, <1>t, NoEntryAssumption DEF Holds, AuditTypeOK, Writing, Committing, Inodes
<1>9. ASSUME NEW s \in RunIds PROVE Clean(s)'
  <2>1. CASE s = r
    BY <1>3, <1>7, <2>1 DEF Clean, Touches
  <2>2. CASE s # r
    BY <1>4, <2>2
  <2> QED BY <2>1, <2>2
<1>10. ASSUME NEW q \in Processes PROVE Holds(q)'
  <2>1. CASE q = p
    BY <1>8, <2>1
  <2>2. CASE q # p
    BY <1>4, <2>2
  <2> QED BY <2>1, <2>2
<1> QED BY <1>4, <1>5, <1>6, <1>9, <1>10 DEF StoreInv

(* The rename gives the final name to a file of this run: a whole one, where there
   was none, unless the id was raced. *)
LEMMA RenameStore ==
    ASSUME StoreInv, NEW p \in Processes, Rename(p)
    PROVE  StoreInv' /\ FinalsStay
<1>t. AuditTypeOK /\ Owned /\ Alone /\ (\A s \in RunIds : Clean(s)) /\ \A q \in Processes : Holds(q)
  BY DEF StoreInv
<1> DEFINE r == run[p]
<1>r. /\ r \in RunIds /\ at[p] = "rename"
      /\ r \notin raced => /\ final[r] = NoEntry /\ tmp[r] = open[p] /\ content[open[p]] = p
      /\ open[p] \in Processes
  BY <1>t, NoEntryAssumption DEF Rename, MayRename, AuditTypeOK, Holds, Writing, Committing, Inodes
<1>1. /\ UNCHANGED <<run, open, content, raced>>
      /\ \/ /\ at' = [at EXCEPT ![p] = "committed"] /\ tmp[r] # NoEntry
            /\ final' = [final EXCEPT ![r] = tmp[r]] /\ tmp' = [tmp EXCEPT ![r] = NoEntry]
         \/ at' = [at EXCEPT ![p] = "unlink"] /\ UNCHANGED <<tmp, final>>
  BY DEF Rename, Goes
<1>3. Touches(p, p)
  BY <1>1, <1>r, <1>t DEF Touches, AuditTypeOK, Inodes, Committing
<1>4. /\ \A q \in Processes \ {p} : Holds(q)'
      /\ \A s \in RunIds \ {r} : Clean(s)'
      /\ Alone' /\ FinalsStay
  BY <1>3, <1>r, OthersAreSafe
<1>5. AuditTypeOK'
  BY <1>1, <1>r, <1>t, NoEntryAssumption DEF AuditTypeOK, Inodes
<1>6. Owned'
  <2>1. \A x \in Processes : at[x] \notin Unborn => at'[x] \notin Unborn
    BY <1>1, <1>t DEF AuditTypeOK, Unborn
  <2>2. \A s \in RunIds : tmp'[s] # NoEntry => tmp'[s] = tmp[s]
    BY <1>1, <1>r, <1>t DEF AuditTypeOK
  <2>3. \A s \in RunIds : final'[s] # NoEntry => final'[s] \in {final[s], tmp[s]}
    BY <1>1, <1>r, <1>t DEF AuditTypeOK
  <2> QED BY <1>1, <1>t, <2>1, <2>2, <2>3 DEF AuditTypeOK, Owned, Inodes
<1>7. Clean(r)'
  BY <1>1, <1>r, <1>t DEF Clean, AuditTypeOK
<1>8. Holds(p)'
  BY <1>1, <1>r, <1>t, NoEntryAssumption DEF Holds, AuditTypeOK, Writing, Committing, Inodes
<1>9. ASSUME NEW s \in RunIds PROVE Clean(s)'
  <2>1. CASE s = r
    BY <1>3, <1>7, <2>1 DEF Clean, Touches
  <2>2. CASE s # r
    BY <1>4, <2>2
  <2> QED BY <2>1, <2>2
<1>10. ASSUME NEW q \in Processes PROVE Holds(q)'
  <2>1. CASE q = p
    BY <1>8, <2>1
  <2>2. CASE q # p
    BY <1>4, <2>2
  <2> QED BY <2>1, <2>2
<1> QED BY <1>4, <1>5, <1>6, <1>9, <1>10 DEF StoreInv

\* Every step keeps the invariant and every sidecar of an id that was not raced.
LEMMA StepStore == StoreInv /\ [AuditNext]_auditVars => StoreInv' /\ FinalsStay
<1> SUFFICES ASSUME StoreInv, [AuditNext]_auditVars PROVE StoreInv' /\ FinalsStay
  OBVIOUS
<1>1. CASE UNCHANGED auditVars
  BY <1>1
  DEF auditVars, process, files, StoreInv, AuditTypeOK, Owned, Alone, Clean, Holds, FinalsStay
<1>2. CASE AuditNext
  BY <1>2, StartStore, LookStore, MoveStore, CreateStore, WriteStore, RenameStore DEF AuditNext
<1> QED BY <1>1, <1>2

\* The invariant holds in every reachable state.
LEMMA StoreHolds == AuditSpec => []StoreInv
<1>1. StoreInv /\ [AuditNext]_auditVars => StoreInv'
  BY StepStore
<1> QED BY <1>1, InitStore, PTL DEF AuditSpec

(* However many processes persist, fail and are killed, overlapping or not, with
   whatever leftovers of earlier ones: a sidecar under its final name is complete,
   and it is the one whose run was told it committed, unless two runs of its id
   found the name free in time to commit both; and such a race mixes the bytes of
   no other id and takes no sidecar away. *)
THEOREM FinalsStayComplete == AuditSpec => []FinalsAreComplete
<1>1. StoreInv => FinalsAreComplete
  <2> SUFFICES ASSUME StoreInv PROVE FinalsAreComplete
    OBVIOUS
  <2>1. \A r \in RunIds : final[r] # NoEntry =>
          /\ content[final[r]] \in Processes => run[content[final[r]]] = r
          /\ r \notin raced => content[final[r]] \in Processes
    BY DEF StoreInv, Owned, Clean, AuditTypeOK, Inodes
  <2>2. \A p \in Processes :
          /\ at[p] \in {"committed", "exists"} => final[run[p]] # NoEntry
          /\ at[p] = "committed" /\ run[p] \notin raced => content[final[run[p]]] = p
    BY DEF StoreInv, Holds
  <2> QED BY <2>1, <2>2 DEF StoreInv, FinalsAreComplete
<1> QED BY <1>1, StoreHolds, PTL

(* A committed sidecar never goes away, and it is neither replaced nor altered
   unless two runs of its id found the name free in time to commit both. *)
THEOREM CommittedIsWriteOnce == AuditSpec => WriteOnce
<1>1. StoreInv /\ [AuditNext]_auditVars =>
        [\A r \in RunIds : final[r] # NoEntry =>
            /\ final'[r] # NoEntry
            /\ r \notin raced =>
                 final'[r] = final[r] /\ content'[final[r]] = content[final[r]]]_auditVars
  BY StepStore DEF FinalsStay
<1> QED BY <1>1, StoreHolds, PTL DEF AuditSpec, WriteOnce

-----------------------------------------------------------------------------
(* Induction.  The library states it with an operator as a parameter; stated
   of a set it follows from the numbers being well-founded. *)

LEMMA LeastNumber ==
    ASSUME NEW S \in SUBSET Nat, S # {} PROVE \E m \in S : \A k \in S : m <= k
<1> DEFINE R == {ss \in Nat \X Nat : ss[1] < ss[2]}
<1>1. IsWellFoundedOn(R, Nat)
  BY NatLessThanWellFounded DEF OpToRel
<1> HIDE DEF R
<1>2. \E m \in S : \A k \in S : ~(<<k, m>> \in R)
  BY <1>1, WFMin
<1>3. ASSUME NEW m \in S, NEW k \in S, ~(<<k, m>> \in R) PROVE m <= k
  BY <1>3 DEF R
<1> QED BY <1>2, <1>3

LEMMA GreatestNumber ==
    ASSUME NEW N \in Nat, NEW S \in SUBSET (0 .. N), S # {}
    PROVE  \E m \in S : \A k \in S : k <= m
<1> DEFINE T == {n \in 0 .. N : N - n \in S}
<1>1. T \in SUBSET Nat /\ T # {}
  <2>1. PICK k \in S : TRUE
    OBVIOUS
  <2>2. N - k \in T
    OBVIOUS
  <2> QED BY <2>2
<1>2. PICK n \in T : \A k \in T : n <= k
  <2> HIDE DEF T
  <2> QED BY <1>1, LeastNumber
<1>3. N - n \in S /\ \A k \in S : N - k \in T
  OBVIOUS
<1>4. ASSUME NEW k \in S PROVE k <= N - n
  <2>1. n <= N - k /\ k \in Nat /\ n \in Nat
    BY <1>2, <1>3
  <2> QED BY <2>1
<1> QED BY <1>3, <1>4

LEMMA SetInduction ==
    ASSUME NEW S, 0 \in S, \A n \in Nat : n \in S => n + 1 \in S
    PROVE  Nat \subseteq S
<1> SUFFICES ASSUME Nat \ S # {} PROVE FALSE
  OBVIOUS
<1> DEFINE T == Nat \ S
<1>1. T \in SUBSET Nat /\ T # {}
  OBVIOUS
<1>2. PICK m \in T : \A k \in T : m <= k
  <2> HIDE DEF T
  <2> QED BY <1>1, LeastNumber
<1>3. m - 1 \in Nat /\ m - 1 \notin T
  BY <1>2
<1>4. m - 1 + 1 \in S
  BY <1>3
<1> QED BY <1>4

(* Recursive functions on an interval: one exists, and what holds at the
   start and is kept holds everywhere. *)
LEMMA Persists ==
    ASSUME NEW N \in Nat, NEW G, 0 \in G, \A n \in 1 .. N : n - 1 \in G => n \in G
    PROVE  0 .. N \subseteq G
<1> DEFINE S == {n \in Nat : n <= N => n \in G}
<1>1. 0 \in S
  OBVIOUS
<1>2. ASSUME NEW n \in Nat, n \in S PROVE n + 1 \in S
  <2> SUFFICES ASSUME n + 1 <= N PROVE n + 1 \in G
    OBVIOUS
  <2>1. n \in G /\ n + 1 \in 1 .. N /\ (n + 1) - 1 = n
    BY <1>2
  <2> QED BY <2>1
<1>3. Nat \subseteq S
  <2> HIDE DEF S
  <2> QED BY <1>1, <1>2, SetInduction
<1> QED BY <1>3

Steps(N, D) == [(1 .. N) \X D -> D]
Recurs(f, N, D, z, step) ==
    /\ f \in [0 .. N -> D]
    /\ f[0] = z
    /\ \A n \in 1 .. N : f[n] = step[<<n, f[n - 1]>>]

LEMMA RecursionExists ==
    ASSUME NEW N \in Nat, NEW D, NEW z \in D, NEW step \in Steps(N, D)
    PROVE  \E f : Recurs(f, N, D, z, step)
<1> USE DEF Steps
<1> DEFINE Is(f, n) == /\ f \in [0 .. n -> D] /\ f[0] = z
                       /\ \A k \in 1 .. n : f[k] = step[<<k, f[k - 1]>>]
           G == {n \in 0 .. N : \E f : Is(f, n)}
<1>1. 0 \in G
  <2>1. Is([k \in 0 .. 0 |-> z], 0)
    OBVIOUS
  <2> HIDE DEF Is
  <2> QED BY <2>1
<1>2. ASSUME NEW n \in 1 .. N, n - 1 \in G PROVE n \in G
  <2>1. PICK f : Is(f, n - 1)
    BY <1>2
  <2> DEFINE g == [k \in 0 .. n |-> IF k = n THEN step[<<n, f[n - 1]>>] ELSE f[k]]
  <2>2. f[n - 1] \in D
    BY <2>1
  <2>3. g \in [0 .. n -> D]
    <3>1. step[<<n, f[n - 1]>>] \in D
      BY <2>2
    <3>2. \A k \in 0 .. n : k # n => f[k] \in D
      BY <2>1
    <3> QED BY <3>1, <3>2
  <2>4. g[0] = z
    BY <2>1
  <2>5. \A k \in 1 .. n : g[k] = step[<<k, g[k - 1]>>]
    <3> SUFFICES ASSUME NEW k \in 1 .. n PROVE g[k] = step[<<k, g[k - 1]>>]
      OBVIOUS
    <3>1. g[k - 1] = f[k - 1]
      OBVIOUS
    <3>2. CASE k = n
      <4>1. g[k] = step[<<n, f[n - 1]>>] /\ g[k - 1] = f[n - 1]
        BY <3>1, <3>2
      <4> HIDE DEF g
      <4> QED BY <3>2, <4>1
    <3>3. CASE k # n
      <4>1. k \in 1 .. n - 1 /\ g[k] = f[k]
        BY <3>3
      <4> QED BY <2>1, <3>1, <4>1
    <3> QED BY <3>2, <3>3
  <2>6. Is(g, n)
    BY <2>3, <2>4, <2>5
  <2> HIDE DEF Is, g
  <2>7. n \in 0 .. N
    OBVIOUS
  <2> QED BY <2>6, <2>7
<1>3. N \in G
  <2> HIDE DEF G
  <2> QED BY <1>1, <1>2, Persists
<1> QED BY <1>3 DEF Recurs

-----------------------------------------------------------------------------
(* The parts of a header. *)

LEMMA BodiesJoined ==
    ASSUME NEW x \in Seq(Seq(Symbols)), NEW y \in Seq(Seq(Symbols)), NEW z \in Seq(Seq(Symbols))
    PROVE  (x \o y) \o z = x \o (y \o z)
BY ConcatAssociative, SMTT(30)

LEMMA Joined ==
    ASSUME NEW x \in Seq(Symbols), NEW y \in Seq(Symbols), NEW z \in Seq(Symbols)
    PROVE  (x \o y) \o z = x \o (y \o z)
BY ConcatAssociative

LEMMA OneOf ==
    ASSUME NEW S, NEW s \in Seq(S), NEW k \in 1 .. Len(s) PROVE SubSeq(s, k, k) = <<s[k]>>
<1> DEFINE x == SubSeq(s, k, k)
<1>1. k \in Int /\ k - k + 1 = 1 /\ k + 1 - 1 = k
  OBVIOUS
<1>2. \A i \in k .. k : s[i] \in S
  OBVIOUS
<1>3. x \in Seq(S) /\ Len(x) = 1 /\ x[1] = s[k]
  BY <1>1, <1>2, SubSeqProperties
<1> HIDE DEF x
<1>4. x = <<s[k]>>
  BY <1>3
<1> QED BY <1>4 DEF x

LEMMA ColonIsThere ==
    ASSUME NEW line \in Seq(Symbols), \E i \in 1 .. Len(line) : line[i] \in Colons
    PROVE  Colon(line) \in 1 .. Len(line)
<1> DEFINE S == {i \in 1 .. Len(line) : line[i] \in Colons}
<1>1. S \in SUBSET Nat /\ S # {}
  OBVIOUS
<1>2. PICK m \in S : \A k \in S : m <= k
  <2> HIDE DEF S
  <2> QED BY <1>1, LeastNumber
<1>3. \A j \in 1 .. m - 1 : line[j] \notin Colons
  BY <1>2
<1> QED BY <1>2, <1>3 DEF Colon

LEMMA TrimmedIsSeq ==
    ASSUME NEW s \in Seq(Symbols) PROVE Trimmed(s) \in Seq(Symbols)
<1>1. CASE Kept(s) = {}
  BY <1>1 DEF Trimmed
<1>2. CASE Kept(s) # {}
  <2> DEFINE first == CHOOSE i \in Kept(s) : \A j \in Kept(s) : i <= j
             last == CHOOSE i \in Kept(s) : \A j \in Kept(s) : i >= j
  <2>1. Kept(s) \in SUBSET Nat /\ Kept(s) \in SUBSET (0 .. Len(s)) /\ Len(s) \in Nat
    BY DEF Kept
  <2>2. \E i \in Kept(s) : \A j \in Kept(s) : i <= j
    BY <1>2, <2>1, LeastNumber
  <2>3. \E i \in Kept(s) : \A j \in Kept(s) : i >= j
    <3>1. PICK m \in Kept(s) : \A k \in Kept(s) : k <= m
      BY <1>2, <2>1, GreatestNumber
    <3>2. \A k \in Kept(s) : m >= k
      BY <2>1, <3>1
    <3> QED BY <3>2
  <2>4. first \in Kept(s) /\ last \in Kept(s)
    BY <2>2, <2>3
  <2>5. first \in 1 .. Len(s) /\ last \in 1 .. Len(s)
    BY <2>4 DEF Kept
  <2>6. Trimmed(s) = SubSeq(s, first, last)
    BY <1>2 DEF Trimmed
  <2> HIDE DEF first, last
  <2>7. \A i \in first .. last : s[i] \in Symbols
    BY <2>5
  <2>8. first \in Int /\ last \in Int
    BY <2>5
  <2> QED BY <2>6, <2>7, <2>8, SubSeqProperties
<1> QED BY <1>1, <1>2

LEMMA ValueIsSeq ==
    ASSUME NEW line \in Seq(Symbols), IsHeader(line) PROVE Value(line) \in Seq(Symbols)
<1>1. Colon(line) \in 1 .. Len(line) /\ Len(line) \in Nat
  BY ColonIsThere DEF IsHeader
<1>2. \A i \in Colon(line) + 1 .. Len(line) : line[i] \in Symbols
  BY <1>1
<1>3. Colon(line) + 1 \in Int /\ Len(line) \in Int
  BY <1>1
<1>4. SubSeq(line, Colon(line) + 1, Len(line)) \in Seq(Symbols)
  BY <1>2, <1>3, SubSeqProperties
<1> QED BY <1>4, TrimmedIsSeq DEF Value

(* The number that digits denote. *)
LEMMA NumberRecurs ==
    ASSUME NEW value \in Seq(Symbols), HasOnly(value, Digits)
    PROVE  \E f : /\ f[0] = 0
                  /\ \A n \in 1 .. Len(value) : f[n] = 10 * f[n - 1] + DigitValue[value[n]]
                  /\ Number(value) = f[Len(value)] /\ Number(value) \in Nat
<1> DEFINE N == Len(value)
           step == [nx \in (1 .. N) \X Nat |-> 10 * nx[2] + DigitValue[value[nx[1]]]]
           prefix == CHOOSE f : f = [n \in 0 .. N |->
                        IF n = 0 THEN 0 ELSE 10 * f[n - 1] + DigitValue[value[n]]]
<1>1. N \in Nat /\ \A n \in 1 .. N : DigitValue[value[n]] \in Nat
  BY DEF HasOnly, Digits, DigitValue
<1>2. step \in [(1 .. N) \X Nat -> Nat]
  <2>1. \A nx \in (1 .. N) \X Nat : 10 * nx[2] + DigitValue[value[nx[1]]] \in Nat
    BY <1>1
  <2> QED BY <2>1
<1>3. \E f : f = [n \in 0 .. N |-> IF n = 0 THEN 0 ELSE 10 * f[n - 1] + DigitValue[value[n]]]
  <2>1. \A n \in 1 .. N, x \in Nat : step[<<n, x>>] = 10 * x + DigitValue[value[n]]
    OBVIOUS
  <2> HIDE DEF step, N, prefix
  <2>2. \E f : Recurs(f, N, Nat, 0, step)
    BY <1>1, <1>2, 0 \in Nat, RecursionExists DEF Steps
  <2>3. PICK f \in [0 .. N -> Nat] : f[0] = 0 /\ \A n \in 1 .. N : f[n] = step[<<n, f[n - 1]>>]
    BY <2>2 DEF Recurs
  <2>4. ASSUME NEW n \in 1 .. N PROVE f[n] = 10 * f[n - 1] + DigitValue[value[n]]
    <3>1. n - 1 \in 0 .. N
      BY <1>1
    <3>2. f[n - 1] \in Nat
      BY <3>1
    <3> QED BY <2>1, <2>3, <3>2
  <2>5. \A n \in 0 .. N : f[n] = IF n = 0 THEN 0 ELSE 10 * f[n - 1] + DigitValue[value[n]]
    BY <1>1, <2>3, <2>4
  <2>6. f = [n \in 0 .. N |-> f[n]]
    OBVIOUS
  <2>7. f = [n \in 0 .. N |-> IF n = 0 THEN 0 ELSE 10 * f[n - 1] + DigitValue[value[n]]]
    BY <2>5, <2>6, Zenon
  <2> QED BY <2>7
<1>4. prefix = [n \in 0 .. N |-> IF n = 0 THEN 0 ELSE 10 * prefix[n - 1] + DigitValue[value[n]]]
  BY <1>3
<1>5. Number(value) = prefix[N]
  BY DEF Number
<1> HIDE DEF prefix, step
<1>6. prefix[0] = 0 /\ \A n \in 1 .. N : prefix[n] = 10 * prefix[n - 1] + DigitValue[value[n]]
  BY <1>1, <1>4
<1> HIDE DEF N
<1> DEFINE G == {n \in 0 .. N : prefix[n] \in Nat}
<1>7. /\ 0 \in G
      /\ \A n \in 1 .. N : n - 1 \in G => n \in G
  <2>1. ASSUME NEW n \in 1 .. N, prefix[n - 1] \in Nat PROVE prefix[n] \in Nat
    BY <1>1, <1>6, <2>1
  <2> QED BY <1>1, <1>6, <2>1
<1>8. 0 .. N \subseteq G
  <2> HIDE DEF G
  <2> QED BY <1>1, <1>7, Persists
<1>9. Number(value) \in Nat
  BY <1>1, <1>5, <1>8
<1> QED BY <1>5, <1>6, <1>9 DEF N

LEMMA NumberIsNat ==
    ASSUME NEW value \in Seq(Symbols), HasOnly(value, Digits) PROVE Number(value) \in Nat
BY NumberRecurs

(* The header parsed: a length within the limit, or a fault. *)
Findings ==
    {found \in [length : Nat \cup {NoLength}, fault : {NoLength, "framing", "too_large"}] :
        found.length # NoLength => found.length <= FrameMax}

LEMMA AfterLineIs ==
    ASSUME NEW before \in Findings, NEW line \in Seq(Symbols)
    PROVE  AfterLine(before, line) \in Findings
<1> DEFINE fault == LineFault(line, before.length)
<1>0. NoLength \notin Nat /\ NoLength # "framing" /\ NoLength # "too_large" /\ FrameMax \in Nat
  BY NoLengthAssumption, LimitsAssumption DEF Answers
<1>1. fault \in {NoLength, "framing", "too_large"}
  BY DEF LineFault, LengthFault
<1>2. CASE before.fault # NoLength
  BY <1>2 DEF AfterLine
<1>3. CASE before.fault = NoLength /\ fault # NoLength
  <2>1. AfterLine(before, line) = [before EXCEPT !.fault = fault]
    BY <1>3 DEF AfterLine
  <2> HIDE DEF fault
  <2> QED BY <1>1, <2>1 DEF Findings
<1>4. CASE before.fault = NoLength /\ fault = NoLength /\ IsContentLength(line)
  <2>1. IsHeader(line) /\ LengthFault(Value(line), before.length) = NoLength
    BY <1>0, <1>4 DEF LineFault
  <2>2. HasOnly(Value(line), Digits) /\ ~IsTooLarge(Value(line))
    BY <1>0, <2>1 DEF LengthFault
  <2>3. Number(Value(line)) \in Nat
    BY <2>1, <2>2, ValueIsSeq, NumberIsNat
  <2>4. Number(Value(line)) <= FrameMax
    BY <1>0, <2>2, <2>3 DEF IsTooLarge
  <2>5. AfterLine(before, line) = [before EXCEPT !.length = Number(Value(line))]
    BY <1>4 DEF AfterLine
  <2> QED BY <2>3, <2>4, <2>5 DEF Findings
<1>5. CASE before.fault = NoLength /\ fault = NoLength /\ ~IsContentLength(line)
  BY <1>5 DEF AfterLine
<1> QED BY <1>2, <1>3, <1>4, <1>5

NoFinding == [length |-> NoLength, fault |-> NoLength]

LEMMA ParsedRecurs ==
    ASSUME NEW headers \in Seq(Seq(Symbols))
    PROVE  \E f : /\ f[0] = NoFinding
                  /\ \A n \in 1 .. Len(headers) : f[n] = AfterLine(f[n - 1], headers[n])
                  /\ f[Len(headers)] \in Findings
                  /\ Parsed(headers) = AfterAll(f[Len(headers)])
<1> DEFINE N == Len(headers)
           start == [length |-> NoLength, fault |-> NoLength]
           step == [nx \in (1 .. N) \X Findings |-> AfterLine(nx[2], headers[nx[1]])]
           after == CHOOSE f : f = [n \in 0 .. N |->
                       IF n = 0 THEN start ELSE AfterLine(f[n - 1], headers[n])]
<1>1. N \in Nat /\ start \in Findings /\ \A n \in 1 .. N : headers[n] \in Seq(Symbols)
  BY DEF Findings
<1>2. step \in Steps(N, Findings)
  <2>1. \A nx \in (1 .. N) \X Findings : AfterLine(nx[2], headers[nx[1]]) \in Findings
    BY <1>1, AfterLineIs
  <2> QED BY <2>1 DEF Steps
<1>3. \E f : f = [n \in 0 .. N |-> IF n = 0 THEN start ELSE AfterLine(f[n - 1], headers[n])]
  <2>1. \A n \in 1 .. N, x \in Findings : step[<<n, x>>] = AfterLine(x, headers[n])
    OBVIOUS
  <2> HIDE DEF step, N, after, start
  <2>2. \E f : Recurs(f, N, Findings, start, step)
    BY <1>1, <1>2, RecursionExists
  <2>3. PICK f \in [0 .. N -> Findings] :
            f[0] = start /\ \A n \in 1 .. N : f[n] = step[<<n, f[n - 1]>>]
    BY <2>2 DEF Recurs
  <2>4. ASSUME NEW n \in 1 .. N PROVE f[n] = AfterLine(f[n - 1], headers[n])
    <3>1. n - 1 \in 0 .. N
      BY <1>1
    <3>2. f[n - 1] \in Findings
      BY <3>1
    <3> QED BY <2>1, <2>3, <3>2
  <2>5. \A n \in 0 .. N : f[n] = IF n = 0 THEN start ELSE AfterLine(f[n - 1], headers[n])
    BY <1>1, <2>3, <2>4
  <2>6. f = [n \in 0 .. N |-> f[n]]
    OBVIOUS
  <2>7. f = [n \in 0 .. N |-> IF n = 0 THEN start ELSE AfterLine(f[n - 1], headers[n])]
    BY <2>5, <2>6, Zenon
  <2> QED BY <2>7
<1>4. after = [n \in 0 .. N |-> IF n = 0 THEN start ELSE AfterLine(after[n - 1], headers[n])]
  BY <1>3
<1>5. Parsed(headers) = AfterAll(after[N])
  BY DEF Parsed
<1> HIDE DEF after, step
<1> HIDE DEF N, start
<1>6. after[0] = start /\ \A n \in 1 .. N : after[n] = AfterLine(after[n - 1], headers[n])
  BY <1>1, <1>4
<1> DEFINE G == {n \in 0 .. N : after[n] \in Findings}
<1>7. /\ 0 \in G
      /\ \A n \in 1 .. N : n - 1 \in G => n \in G
  <2>1. ASSUME NEW n \in 1 .. N, after[n - 1] \in Findings PROVE after[n] \in Findings
    BY <1>1, <1>6, <2>1, AfterLineIs
  <2> QED BY <1>1, <1>6, <2>1
<1>8. 0 .. N \subseteq G
  <2> HIDE DEF G
  <2> QED BY <1>1, <1>7, Persists
<1>9. after[N] \in Findings
  BY <1>1, <1>8
<1> QED BY <1>5, <1>6, <1>9 DEF N, start, NoFinding

LEMMA ParsedIs ==
    ASSUME NEW headers \in Seq(Seq(Symbols))
    PROVE  /\ Parsed(headers) \in Findings
           /\ Parsed(headers).fault = NoLength => Parsed(headers).length # NoLength
<1>1. PICK f : f[Len(headers)] \in Findings /\ Parsed(headers) = AfterAll(f[Len(headers)])
  BY ParsedRecurs
<1> QED BY <1>1, NoLengthAssumption DEF AfterAll, Findings, Answers

-----------------------------------------------------------------------------
(* The lines of a header. *)

LEMMA BreakIs ==
    ASSUME NEW s \in Seq(Symbols), NEW b \in Breaks(s)
    PROVE  /\ b \in 2 .. Len(s)
           /\ LineBefore(s, b) \in {0} \cup Breaks(s)
           /\ LineBefore(s, b) \in 0 .. b - 2
<1> DEFINE earlier == {0} \cup {c \in Breaks(s) : c < b}
<1>1. b \in 2 .. Len(s) /\ Len(s) \in Nat /\ s[b - 1] = "r"
  BY DEF Breaks
<1>2. ASSUME NEW c \in Breaks(s), c < b PROVE c \in 0 .. b - 2
  <2>1. c \in 2 .. Len(s) /\ s[c] = "n"
    BY DEF Breaks
  <2>2. c # b - 1
    BY <1>1, <2>1
  <2> QED BY <1>1, <1>2, <2>1, <2>2
<1>3. \A c \in earlier : c \in 0 .. b - 2 /\ c \in 0 .. b
  <2>1. 0 \in 0 .. b - 2 /\ \A c \in 0 .. b - 2 : c \in 0 .. b
    BY <1>1
  <2> QED BY <1>2, <2>1
<1>4. earlier \in SUBSET (0 .. b) /\ 0 \in earlier /\ b \in Nat
  <2>1. b \in Nat /\ 0 \in earlier
    BY <1>1
  <2> HIDE DEF earlier
  <2> QED BY <1>3, <2>1
<1>5. \E c \in earlier : \A d \in earlier : d <= c
  <2> HIDE DEF earlier
  <2> QED BY <1>4, GreatestNumber
<1>6. LineBefore(s, b) \in earlier
  BY <1>5 DEF LineBefore
<1>7. LineBefore(s, b) \in {0} \cup Breaks(s)
  BY <1>6
<1> HIDE DEF earlier
<1> QED BY <1>1, <1>3, <1>6, <1>7

\* What the recursion of HeaderLines satisfies.
CutsUpTo(f, s) ==
    /\ f[0] = <<>>
    /\ \A n \in 1 .. Len(s) :
         f[n] = IF n \in Breaks(s)
                THEN Append(f[n - 1], SubSeq(s, LineBefore(s, n) + 1, n - 2))
                ELSE f[n - 1]

LEMMA HeaderLinesCut ==
    ASSUME NEW s \in Seq(Symbols)
    PROVE  \E f \in [0 .. Len(s) -> Seq(Seq(Symbols))] : CutsUpTo(f, s) /\ HeaderLines(s) = f[Len(s)]
<1> DEFINE N == Len(s)
           D == Seq(Seq(Symbols))
           cut(n, x) == IF n \in Breaks(s) THEN Append(x, SubSeq(s, LineBefore(s, n) + 1, n - 2))
                        ELSE x
           step == [nx \in (1 .. N) \X D |-> cut(nx[1], nx[2])]
           upTo == CHOOSE f : f = [n \in 0 .. N |-> IF n = 0 THEN <<>> ELSE cut(n, f[n - 1])]
<1>1. N \in Nat /\ <<>> \in D
  OBVIOUS
<1>2. \A n \in 1 .. N, x \in D : cut(n, x) \in D
  <2> SUFFICES ASSUME NEW n \in 1 .. N, NEW x \in D PROVE cut(n, x) \in D
    OBVIOUS
  <2>1. CASE n \in Breaks(s)
    <3>1. n \in 2 .. N /\ LineBefore(s, n) \in 0 .. n - 2
      BY <2>1, BreakIs
    <3>2. \A i \in LineBefore(s, n) + 1 .. n - 2 : s[i] \in Symbols
      BY <1>1, <3>1
    <3>3. LineBefore(s, n) + 1 \in Int /\ n - 2 \in Int
      BY <3>1
    <3>4. SubSeq(s, LineBefore(s, n) + 1, n - 2) \in Seq(Symbols)
      BY <3>2, <3>3, SubSeqProperties
    <3> QED BY <2>1, <3>4
  <2>2. CASE n \notin Breaks(s)
    BY <2>2
  <2> QED BY <2>1, <2>2
<1>3. step \in Steps(N, D)
  <2> HIDE DEF cut, D
  <2> QED BY <1>2 DEF Steps
<1>4. \A n \in 1 .. N, x \in D : step[<<n, x>>] = cut(n, x)
  BY Zenon
<1> HIDE DEF step, D
<1>5. \E f : f = [n \in 0 .. N |-> IF n = 0 THEN <<>> ELSE cut(n, f[n - 1])]
  <2> HIDE DEF N, upTo, cut
  <2>2. \E f : Recurs(f, N, D, <<>>, step)
    BY <1>1, <1>3, RecursionExists
  <2>3. PICK f \in [0 .. N -> D] : f[0] = <<>> /\ \A n \in 1 .. N : f[n] = step[<<n, f[n - 1]>>]
    BY <2>2 DEF Recurs
  <2>4. ASSUME NEW n \in 1 .. N PROVE f[n] = cut(n, f[n - 1])
    <3>1. n - 1 \in 0 .. N
      BY <1>1
    <3>2. f[n - 1] \in D
      BY <3>1
    <3> QED BY <1>4, <2>3, <3>2
  <2>5. \A n \in 0 .. N : f[n] = IF n = 0 THEN <<>> ELSE cut(n, f[n - 1])
    BY <1>1, <2>3, <2>4
  <2>6. f = [n \in 0 .. N |-> f[n]]
    OBVIOUS
  <2>7. f = [n \in 0 .. N |-> IF n = 0 THEN <<>> ELSE cut(n, f[n - 1])]
    BY <2>5, <2>6, Zenon
  <2> QED BY <2>7
<1>6. upTo = [n \in 0 .. N |-> IF n = 0 THEN <<>> ELSE cut(n, upTo[n - 1])]
  BY <1>5
<1>7. HeaderLines(s) = upTo[N]
  BY DEF HeaderLines
<1> HIDE DEF upTo
<1>8. upTo[0] = <<>> /\ \A n \in 1 .. N : upTo[n] = cut(n, upTo[n - 1])
  <2> HIDE DEF cut
  <2> QED BY <1>1, <1>6
<1> DEFINE G == {n \in 0 .. N : upTo[n] \in D}
<1>9. 0 .. N \subseteq G
  <2> HIDE DEF N, cut
  <2>1. ASSUME NEW n \in 1 .. N, upTo[n - 1] \in D PROVE upTo[n] \in D
    BY <1>2, <1>8, <2>1
  <2>2. /\ 0 \in G
        /\ \A n \in 1 .. N : n - 1 \in G => n \in G
    BY <1>1, <1>8, <2>1
  <2> HIDE DEF G
  <2> QED BY <1>1, <2>2, Persists
<1>10. upTo \in [0 .. N -> D]
  <2> HIDE DEF cut, N
  <2>1. upTo = [n \in 0 .. N |-> upTo[n]]
    BY <1>6
  <2> QED BY <1>9, <2>1
<1>11. CutsUpTo(upTo, s)
  BY <1>8 DEF CutsUpTo
<1> QED BY <1>7, <1>10, <1>11 DEF D

LEMMA HeaderLinesAreSeqs ==
    ASSUME NEW s \in Seq(Symbols) PROVE HeaderLines(s) \in Seq(Seq(Symbols))
<1>1. PICK f \in [0 .. Len(s) -> Seq(Seq(Symbols))] : HeaderLines(s) = f[Len(s)]
  BY HeaderLinesCut
<1>2. Len(s) \in 0 .. Len(s)
  OBVIOUS
<1> QED BY <1>1, <1>2

-----------------------------------------------------------------------------
(* The decoder stays within its limits. *)

Within ==
    /\ DecoderTypeOK
    /\ call # "ended" => /\ Len(block) <= BlockMax /\ Len(block) - lineStart <= LineMax
                         /\ lines <= LinesMax
    /\ lines <= LinesMax + 1
    /\ length # NoLength => length <= FrameMax
    /\ call = "idle" /\ answer = "none" =>
         IF length = NoLength THEN buf = <<>> ELSE Len(buf) < length

LEMMA Limits ==
    /\ FrameMax \in Nat /\ BlockMax \in Nat /\ LineMax \in Nat /\ LinesMax \in Nat /\ DigitsMax \in Nat
    /\ NoLength \notin Nat /\ NoLength \notin Answers
BY LimitsAssumption, NoLengthAssumption

LEMMA WithinInit == DecoderInit => Within
BY Limits, StreamsAssumption DEF DecoderInit, Within, DecoderTypeOK, Answers

LEMMA WithinPush ==
    ASSUME Within, NEW n \in 1 .. Len(unread), Push(n) PROVE Within'
<1>1. unread \in Seq(Symbols) /\ Len(unread) \in Nat /\ buf \in Seq(Symbols) /\ pushed \in Seq(Symbols)
  BY DEF Within, DecoderTypeOK
<1>2. SubSeq(unread, 1, n) \in Seq(Symbols) /\ SubSeq(unread, n + 1, Len(unread)) \in Seq(Symbols)
  <2>1. \A i \in 1 .. n : unread[i] \in Symbols
    BY <1>1
  <2>2. \A i \in n + 1 .. Len(unread) : unread[i] \in Symbols
    BY <1>1
  <2>3. 1 \in Int /\ n \in Int /\ n + 1 \in Int /\ Len(unread) \in Int
    BY <1>1
  <2> QED BY <2>1, <2>2, <2>3, SubSeqProperties
<1>3. buf \o SubSeq(unread, 1, n) \in Seq(Symbols) /\ pushed \o SubSeq(unread, 1, n) \in Seq(Symbols)
  BY <1>1, <1>2, ConcatProperties
<1> QED BY <1>2, <1>3 DEF Push, Within, DecoderTypeOK

LEMMA WithinFinish ==
    ASSUME Within, Finish PROVE Within'
BY DEF Finish, Within, DecoderTypeOK, Answers

\* What Answer does to the call and its answer.
LEMMA AnswerIs ==
    ASSUME NEW what \in Answers, call \in {"push", "finish"}, Answer(what)
    PROVE  /\ answer' \in Answers /\ call' \in {"idle", "ended"}
           /\ what \in Faults => call' = "ended" /\ answer' = what
           /\ call' = "idle" => answer' = what /\ what \notin Faults
           /\ call' = "ended" /\ what \notin Faults =>
                answer' = IF what = "none" THEN "eof" ELSE what
BY DEF Answer, Answers, Faults

LEMMA WithinReturnFrame ==
    ASSUME Within, ReturnFrame PROVE Within'
<1>1. length \in Nat /\ Len(buf) \in Nat /\ length <= Len(buf) /\ buf \in Seq(Symbols)
      /\ frames \in Seq(Seq(Symbols))
  BY DEF ReturnFrame, Within, DecoderTypeOK
<1>2. SubSeq(buf, 1, length) \in Seq(Symbols) /\ SubSeq(buf, length + 1, Len(buf)) \in Seq(Symbols)
  <2>1. \A i \in 1 .. length : buf[i] \in Symbols
    BY <1>1
  <2>2. \A i \in length + 1 .. Len(buf) : buf[i] \in Symbols
    BY <1>1
  <2>3. 1 \in Int /\ length \in Int /\ length + 1 \in Int /\ Len(buf) \in Int
    BY <1>1
  <2> QED BY <2>1, <2>2, <2>3, SubSeqProperties
<1>3. frames' \in Seq(Seq(Symbols)) /\ buf' \in Seq(Symbols)
  BY <1>1, <1>2 DEF ReturnFrame, Rest
<1>4. answer' \in Answers /\ call' \in {"idle", "ended"} /\ (call' = "idle" => answer' = "frame")
  BY AnswerIs DEF ReturnFrame, Answers
<1>5. /\ block' = <<>> /\ lineStart' = 0 /\ lines' = 0 /\ length' = NoLength
      /\ UNCHANGED <<unread, pushed>>
  BY DEF ReturnFrame
<1>6. Len(block') = 0 /\ block' \in Seq(Symbols)
  BY <1>5
<1> QED BY <1>3, <1>4, <1>5, <1>6, Limits DEF Within, DecoderTypeOK

LEMMA WithinNeedMore ==
    ASSUME Within, NeedMore PROVE Within'
<1>1. answer' \in Answers /\ call' \in {"idle", "ended"}
  BY AnswerIs DEF NeedMore, Answers
<1>2. /\ call # "ended"
      /\ IF length = NoLength THEN buf = <<>> ELSE Len(buf) < length
      /\ UNCHANGED <<unread, buf, block, lineStart, lines, length, frames, pushed>>
  BY DEF NeedMore
<1> QED BY <1>1, <1>2 DEF Within, DecoderTypeOK

(* One more byte of the header, whatever it leads to. *)
LEMMA HeaderByteIs ==
    ASSUME Within, ReadHeaderByte
    PROVE  LET longer == Append(block, Head(buf))
               isBlank == lineStart = Len(longer) - 2
               parsed == Parsed(HeaderLines(SubSeq(longer, 1, lineStart)))
           IN  /\ call \in {"push", "finish"} /\ length = NoLength /\ buf # <<>>
               /\ buf' = Tail(buf) /\ block' = longer /\ UNCHANGED <<unread, frames, pushed>>
               /\ longer \in Seq(Symbols) /\ Len(longer) = Len(block) + 1 /\ Len(block) \in Nat
               /\ Tail(buf) \in Seq(Symbols)
               /\ \/ /\ Len(longer) > BlockMax \/ Len(longer) - lineStart > LineMax
                     /\ call' = "ended" /\ answer' = "framing"
                     /\ UNCHANGED <<lineStart, lines, length>>
                  \/ /\ Len(longer) <= BlockMax /\ Len(longer) - lineStart <= LineMax
                     /\ \/ /\ ~EndsLine(longer)
                           /\ UNCHANGED <<lineStart, lines, length, call, answer>>
                        \/ /\ EndsLine(longer) /\ isBlank /\ UNCHANGED <<lineStart, lines>>
                           /\ parsed.fault = NoLength
                           /\ length' = parsed.length /\ parsed.length \in 0 .. FrameMax
                           /\ UNCHANGED <<call, answer>>
                        \/ /\ EndsLine(longer) /\ isBlank /\ UNCHANGED <<lineStart, lines, length>>
                           /\ parsed.fault \in {"framing", "too_large"} /\ parsed.fault # NoLength
                           /\ call' = "ended" /\ answer' = parsed.fault
                        \/ /\ EndsLine(longer) /\ ~isBlank /\ lines + 1 > LinesMax
                           /\ lines' = lines + 1
                           /\ UNCHANGED <<lineStart, length>>
                           /\ call' = "ended" /\ answer' = "framing"
                        \/ /\ EndsLine(longer) /\ ~isBlank /\ lines + 1 <= LinesMax
                           /\ lines' = lines + 1 /\ lineStart' = Len(longer)
                           /\ UNCHANGED <<length, call, answer>>
<1> DEFINE longer == Append(block, Head(buf))
           isBlank == lineStart = Len(longer) - 2
           parsed == Parsed(HeaderLines(SubSeq(longer, 1, lineStart)))
<1>1. /\ call \in {"push", "finish"} /\ length = NoLength /\ buf # <<>>
      /\ buf' = Tail(buf) /\ block' = longer /\ UNCHANGED <<unread, frames, pushed>>
  BY DEF ReadHeaderByte
<1>2. block \in Seq(Symbols) /\ buf \in Seq(Symbols) /\ lineStart \in 0 .. Len(block) /\ lines \in Nat
  BY DEF Within, DecoderTypeOK
<1>3. Head(buf) \in Symbols /\ Tail(buf) \in Seq(Symbols)
  BY <1>1, <1>2, HeadTailProperties
<1>4. longer \in Seq(Symbols) /\ Len(longer) = Len(block) + 1 /\ Len(block) \in Nat
  BY <1>2, <1>3, AppendProperties
<1>5. /\ parsed \in Findings
      /\ parsed.fault = NoLength => parsed.length # NoLength
  <2>1. \A i \in 1 .. lineStart : longer[i] \in Symbols
    BY <1>2, <1>4
  <2>2. 1 \in Int /\ lineStart \in Int
    BY <1>2
  <2> HIDE DEF longer
  <2>3. SubSeq(longer, 1, lineStart) \in Seq(Symbols)
    BY <2>1, <2>2, SubSeqProperties
  <2>4. HeaderLines(SubSeq(longer, 1, lineStart)) \in Seq(Seq(Symbols))
    BY <2>3, HeaderLinesAreSeqs
  <2> QED BY <2>4, ParsedIs
<1>6. /\ parsed.fault = NoLength \/ parsed.fault \in {"framing", "too_large"}
      /\ parsed.fault = NoLength => parsed.length \in 0 .. FrameMax
  BY <1>5, Limits DEF Findings
<1>7. \A what \in {"framing", "too_large"} : Answer(what) => call' = "ended" /\ answer' = what
  BY DEF Answer, Faults
<1>8. \/ /\ Len(longer) > BlockMax \/ Len(longer) - lineStart > LineMax
         /\ Answer("framing")
         /\ UNCHANGED <<lineStart, lines, length>>
      \/ /\ Len(longer) <= BlockMax /\ Len(longer) - lineStart <= LineMax
         /\ \/ /\ ~EndsLine(longer)
               /\ UNCHANGED <<lineStart, lines, length, call, answer>>
            \/ /\ EndsLine(longer) /\ isBlank
               /\ EndHeader(parsed)
               /\ UNCHANGED <<lineStart, lines>>
            \/ /\ EndsLine(longer) /\ ~isBlank
               /\ lines' = lines + 1
               /\ lineStart' = IF lines' > LinesMax THEN lineStart ELSE Len(longer)
               /\ IF lines' > LinesMax THEN Answer("framing") ELSE UNCHANGED <<call, answer>>
               /\ UNCHANGED length
  BY DEF ReadHeaderByte
<1> HIDE DEF longer, isBlank, parsed
<1>9. EndHeader(parsed) =>
        \/ parsed.fault = NoLength /\ length' = parsed.length /\ UNCHANGED <<call, answer>>
        \/ /\ parsed.fault \in {"framing", "too_large"} /\ parsed.fault # NoLength
           /\ call' = "ended" /\ answer' = parsed.fault /\ UNCHANGED length
  BY <1>6, <1>7 DEF EndHeader
<1>10. \/ /\ Len(longer) > BlockMax \/ Len(longer) - lineStart > LineMax
          /\ call' = "ended" /\ answer' = "framing"
          /\ UNCHANGED <<lineStart, lines, length>>
       \/ /\ Len(longer) <= BlockMax /\ Len(longer) - lineStart <= LineMax
          /\ \/ /\ ~EndsLine(longer)
                /\ UNCHANGED <<lineStart, lines, length, call, answer>>
             \/ /\ EndsLine(longer) /\ isBlank /\ UNCHANGED <<lineStart, lines>>
                /\ parsed.fault = NoLength
                /\ length' = parsed.length /\ parsed.length \in 0 .. FrameMax
                /\ UNCHANGED <<call, answer>>
             \/ /\ EndsLine(longer) /\ isBlank /\ UNCHANGED <<lineStart, lines, length>>
                /\ parsed.fault \in {"framing", "too_large"} /\ parsed.fault # NoLength
                /\ call' = "ended" /\ answer' = parsed.fault
             \/ /\ EndsLine(longer) /\ ~isBlank /\ lines + 1 > LinesMax
                /\ lines' = lines + 1
                /\ UNCHANGED <<lineStart, length>>
                /\ call' = "ended" /\ answer' = "framing"
             \/ /\ EndsLine(longer) /\ ~isBlank /\ lines + 1 <= LinesMax
                /\ lines' = lines + 1 /\ lineStart' = Len(longer)
                /\ UNCHANGED <<length, call, answer>>
  <2>1. lines \in Nat /\ LinesMax \in Nat
    BY <1>2, Limits
  <2> QED BY <1>6, <1>7, <1>8, <1>9, <2>1
<1> QED BY <1>1, <1>3, <1>4, <1>10 DEF longer, isBlank, parsed

LEMMA WithinReadHeaderByte ==
    ASSUME Within, ReadHeaderByte PROVE Within'
<1> DEFINE longer == Append(block, Head(buf))
<1>1. /\ call \in {"push", "finish"} /\ length = NoLength
      /\ buf' = Tail(buf) /\ block' = longer /\ UNCHANGED <<unread, frames, pushed>>
      /\ longer \in Seq(Symbols) /\ Len(longer) = Len(block) + 1 /\ Len(block) \in Nat
      /\ Tail(buf) \in Seq(Symbols)
  BY HeaderByteIs
<1>2. lineStart \in 0 .. Len(block) /\ lines \in Nat /\ lines <= LinesMax /\ call # "ended"
  BY <1>1 DEF Within, DecoderTypeOK
<1>3. /\ lineStart' = lineStart \/ lineStart' = Len(longer)
      /\ lines' = lines \/ (lines' = lines + 1 /\ (call' = "ended" \/ lines + 1 <= LinesMax))
      /\ length' = length \/ length' \in 0 .. FrameMax
      /\ (call' = call /\ answer' = answer) \/ (call' = "ended" /\ answer' \in {"framing", "too_large"})
      /\ call' # "ended" => Len(longer) <= BlockMax /\ Len(longer) - lineStart <= LineMax
  BY <1>2, HeaderByteIs
<1> HIDE DEF longer
<1>4. DecoderTypeOK'
  <2>1. /\ unread' \in Seq(Symbols) /\ buf' \in Seq(Symbols) /\ block' \in Seq(Symbols)
        /\ frames' \in Seq(Seq(Symbols)) /\ pushed' \in Seq(Symbols)
    BY <1>1 DEF Within, DecoderTypeOK
  <2>2. lineStart' \in 0 .. Len(block')
    BY <1>1, <1>2, <1>3
  <2>3. lines' \in Nat
    BY <1>2, <1>3
  <2>4. length' \in Nat \cup {NoLength}
    <3>1. FrameMax \in Nat /\ length \in Nat \cup {NoLength}
      BY Limits DEF Within, DecoderTypeOK
    <3> QED BY <1>3, <3>1
  <2>5. call' \in {"idle", "push", "finish", "ended"} /\ answer' \in Answers
    <3>1. call \in {"idle", "push", "finish", "ended"} /\ answer \in Answers
      BY DEF Within, DecoderTypeOK
    <3> QED BY <1>3, <3>1 DEF Answers
  <2> QED BY <2>1, <2>2, <2>3, <2>4, <2>5 DEF DecoderTypeOK
<1>5. /\ call' # "ended" => /\ Len(block') <= BlockMax /\ Len(block') - lineStart' <= LineMax
                            /\ lines' <= LinesMax
      /\ lines' <= LinesMax + 1
      /\ length' # NoLength => length' <= FrameMax
      /\ call' # "idle"
  BY <1>1, <1>2, <1>3, Limits
<1> QED BY <1>4, <1>5 DEF Within

LEMMA WithinHolds == DecoderSpec => []Within
<1>1. Within /\ [DecoderNext]_decoderVars => Within'
  <2>1. Within /\ UNCHANGED decoderVars => Within'
    BY DEF Within, DecoderTypeOK, decoderVars
  <2> QED BY <2>1, WithinPush, WithinFinish, WithinReadHeaderByte, WithinReturnFrame, WithinNeedMore
          DEF DecoderNext
<1> QED BY <1>1, WithinInit, PTL DEF DecoderSpec

(* The decoder "never uses unbounded read_line" (framing.rs): no header grows
   beyond its block, its line or its number of lines, no body longer than a
   frame is waited for, and what is left in the buffer of a caller that was
   told to push more is less than one frame. *)
THEOREM DecoderIsBounded == DecoderSpec => []BufferIsBounded
<1>1. Within => BufferIsBounded
  BY DEF Within, BufferIsBounded
<1> QED BY <1>1, WithinHolds, PTL

-----------------------------------------------------------------------------
(* What a prefix of a stream settles: its breaks, its lines and whether a byte
   is within the limits do not depend on what follows. *)

Agree(s, t, n) == \A i \in 1 .. n : s[i] = t[i]

\* What LineBefore chooses.
LEMMA LineBeforeIs ==
    ASSUME NEW s \in Seq(Symbols), NEW b \in 1 .. Len(s) + 1
    PROVE  /\ LineBefore(s, b) \in 0 .. b - 1
           /\ LineBefore(s, b) \in {0} \cup Breaks(s)
           /\ \A c \in Breaks(s) : c < b => c <= LineBefore(s, b)
           /\ \A m \in 0 .. b - 1 :
                m \in {0} \cup Breaks(s) /\ (\A c \in Breaks(s) : c < b => c <= m)
                => LineBefore(s, b) = m
<1> DEFINE earlier == {0} \cup {c \in Breaks(s) : c < b}
<1>1. Len(s) \in Nat /\ b \in Nat \ {0} /\ \A c \in Breaks(s) : c \in Nat
  BY DEF Breaks
<1>2. \A c \in earlier : c \in 0 .. b - 1 /\ c \in 0 .. b
  BY <1>1
<1>3. earlier \in SUBSET (0 .. b) /\ earlier # {}
  <2>1. 0 \in earlier
    OBVIOUS
  <2> HIDE DEF earlier
  <2> QED BY <1>2, <2>1
<1>4. \E c \in earlier : \A d \in earlier : d <= c
  <2> HIDE DEF earlier
  <2> QED BY <1>1, <1>3, GreatestNumber
<1>5. LineBefore(s, b) \in earlier /\ \A d \in earlier : d <= LineBefore(s, b)
  BY <1>4 DEF LineBefore
<1>6. ASSUME NEW m \in 0 .. b - 1, m \in {0} \cup Breaks(s), \A c \in Breaks(s) : c < b => c <= m
      PROVE  LineBefore(s, b) = m
  <2>1. m \in earlier
    BY <1>1, <1>6
  <2>2. \A d \in earlier : d <= m
    BY <1>6
  <2> HIDE DEF earlier
  <2>3. m <= LineBefore(s, b) /\ LineBefore(s, b) <= m
    BY <1>5, <2>1, <2>2
  <2>4. LineBefore(s, b) \in 0 .. b - 1
    BY <1>2, <1>5
  <2> QED BY <1>1, <2>3, <2>4
<1>7. LineBefore(s, b) \in 0 .. b - 1
  <2> HIDE DEF earlier
  <2> QED BY <1>2, <1>5
<1>8. LineBefore(s, b) \in {0} \cup Breaks(s)
  BY <1>5
<1>9. \A c \in Breaks(s) : c < b => c <= LineBefore(s, b)
  BY <1>5
<1> QED BY <1>6, <1>7, <1>8, <1>9

LEMMA AgreeOnBreaks ==
    ASSUME NEW s \in Seq(Symbols), NEW t \in Seq(Symbols), NEW n \in Nat,
           n <= Len(s), n <= Len(t), Agree(s, t, n)
    PROVE  /\ \A b \in 1 .. n : b \in Breaks(s) <=> b \in Breaks(t)
           /\ \A b \in 1 .. n + 1 : LineBefore(s, b) = LineBefore(t, b)
           /\ \A b \in 1 .. n : b \in HeaderEnds(s) <=> b \in HeaderEnds(t)
<1>1. Len(s) \in Nat /\ Len(t) \in Nat
  OBVIOUS
<1>2. \A b \in 1 .. n : b \in Breaks(s) <=> b \in Breaks(t)
  BY <1>1 DEF Breaks, Agree
<1>3. ASSUME NEW b \in 1 .. n + 1 PROVE LineBefore(s, b) = LineBefore(t, b)
  <2> DEFINE m == LineBefore(t, b)
  <2>1. b \in 1 .. Len(s) + 1 /\ b \in 1 .. Len(t) + 1
    BY <1>1
  <2>2. /\ m \in 0 .. b - 1 /\ m \in {0} \cup Breaks(t)
        /\ \A c \in Breaks(t) : c < b => c <= m
    BY <2>1, LineBeforeIs
  <2> HIDE DEF m
  <2>3. m \in {0} \cup Breaks(s)
    BY <1>2, <2>2
  <2>4. ASSUME NEW c \in Breaks(s), c < b PROVE c <= m
    <3>1. c \in 1 .. n
      BY <1>1, <2>4 DEF Breaks
    <3> QED BY <1>2, <2>2, <2>4, <3>1
  <2>5. LineBefore(s, b) = m
    BY <2>1, <2>2, <2>3, <2>4, LineBeforeIs
  <2> QED BY <2>5 DEF m
<1>4. \A b \in 1 .. n : LineBefore(s, b) = LineBefore(t, b)
  BY <1>3
<1> QED BY <1>2, <1>3, <1>4 DEF HeaderEnds

LEMMA PrefixIs ==
    ASSUME NEW s \in Seq(Symbols), NEW n \in Nat, n <= Len(s)
    PROVE  /\ SubSeq(s, 1, n) \in Seq(Symbols) /\ Len(SubSeq(s, 1, n)) = n
           /\ \A i \in 1 .. n : SubSeq(s, 1, n)[i] = s[i]
<1>1. \A i \in 1 .. n : s[i] \in Symbols
  OBVIOUS
<1>2. 1 \in Int /\ n \in Int
  OBVIOUS
<1>3. /\ SubSeq(s, 1, n) \in Seq(Symbols)
      /\ Len(SubSeq(s, 1, n)) = IF 1 <= n THEN n - 1 + 1 ELSE 0
      /\ \A i \in 1 .. n - 1 + 1 : SubSeq(s, 1, n)[i] = s[1 + i - 1]
  BY <1>1, <1>2, SubSeqProperties
<1> QED BY <1>3

LEMMA AgreeOnPrefix ==
    ASSUME NEW s \in Seq(Symbols), NEW t \in Seq(Symbols), NEW n \in Nat,
           n <= Len(s), n <= Len(t), Agree(s, t, n)
    PROVE  SubSeq(s, 1, n) = SubSeq(t, 1, n)
<1> DEFINE a == SubSeq(s, 1, n)
           b == SubSeq(t, 1, n)
<1>1. /\ a \in Seq(Symbols) /\ Len(a) = n /\ \A i \in 1 .. n : a[i] = s[i]
      /\ b \in Seq(Symbols) /\ Len(b) = n /\ \A i \in 1 .. n : b[i] = t[i]
  BY PrefixIs
<1> HIDE DEF a, b
<1>2. Len(a) = Len(b) /\ \A i \in 1 .. Len(a) : a[i] = b[i]
  BY <1>1 DEF Agree
<1>3. a = b
  BY <1>1, <1>2, SeqEqual
<1> QED BY <1>3 DEF a, b

\* Byte i of a header is within the limits.
Inside(s, i) ==
    /\ i <= BlockMax
    /\ i - LineBefore(s, i) <= LineMax
    /\ Len(HeaderLines(SubSeq(s, 1, i))) <= (IF i \in HeaderEnds(s) THEN LinesMax + 1 ELSE LinesMax)

LEMMA AgreeOnInside ==
    ASSUME NEW s \in Seq(Symbols), NEW t \in Seq(Symbols), NEW n \in Nat,
           n <= Len(s), n <= Len(t), Agree(s, t, n), NEW i \in 1 .. n
    PROVE  Inside(s, i) <=> Inside(t, i)
<1>1. i \in 1 .. n + 1 /\ i \in Nat /\ i <= Len(s) /\ i <= Len(t)
  OBVIOUS
<1>2. LineBefore(s, i) = LineBefore(t, i) /\ (i \in HeaderEnds(s) <=> i \in HeaderEnds(t))
  BY <1>1, AgreeOnBreaks
<1>3. Agree(s, t, i)
  BY <1>1 DEF Agree
<1>4. SubSeq(s, 1, i) = SubSeq(t, 1, i)
  BY <1>1, <1>3, AgreeOnPrefix
<1> QED BY <1>2, <1>4 DEF Inside

LEMMA BeyondIsNotInside ==
    ASSUME NEW s \in Seq(Symbols), HeaderEnd(s) \in 0 .. Len(s)
    PROVE  IsBeyondLimits(s) <=> \E i \in 1 .. HeaderEnd(s) : ~Inside(s, i)
<1>1. ASSUME NEW i \in 1 .. HeaderEnd(s)
      PROVE  ~Inside(s, i) <=>
                \/ i > BlockMax
                \/ i - LineBefore(s, i) > LineMax
                \/ Len(HeaderLines(SubSeq(s, 1, i))) >
                       (IF i \in HeaderEnds(s) THEN LinesMax + 1 ELSE LinesMax)
  <2>1. i \in Nat /\ i <= Len(s) /\ i \in 1 .. Len(s) + 1
    OBVIOUS
  <2>2. LineBefore(s, i) \in Nat
    BY <2>1, LineBeforeIs
  <2>3. SubSeq(s, 1, i) \in Seq(Symbols)
    BY <2>1, PrefixIs
  <2>4. HeaderLines(SubSeq(s, 1, i)) \in Seq(Seq(Symbols))
    BY <2>3, HeaderLinesAreSeqs
  <2>5. Len(HeaderLines(SubSeq(s, 1, i))) \in Nat
    BY <2>4
  <2> QED BY <2>1, <2>2, <2>5, Limits DEF Inside
<1> QED BY <1>1 DEF IsBeyondLimits

LEMMA AppendIsLonger ==
    ASSUME NEW S, NEW s \in Seq(S), NEW e PROVE Len(Append(s, e)) = Len(s) + 1
<1>1. s \in Seq(S \cup {e}) /\ e \in S \cup {e}
  OBVIOUS
<1> QED BY <1>1, AppendProperties

\* A byte more: one line more when it ends one.
LEMMA LinesGrow ==
    ASSUME NEW s \in Seq(Symbols), NEW x \in Symbols
    PROVE  Len(HeaderLines(Append(s, x))) =
               Len(HeaderLines(s)) + (IF Len(s) + 1 \in Breaks(Append(s, x)) THEN 1 ELSE 0)
<1> DEFINE t == Append(s, x)
           N == Len(s)
<1>1. t \in Seq(Symbols) /\ Len(t) = N + 1 /\ N \in Nat /\ Agree(s, t, N)
  BY AppendProperties DEF Agree
<1> HIDE DEF t, N
<1>2. PICK f \in [0 .. Len(s) -> Seq(Seq(Symbols))] : CutsUpTo(f, s) /\ HeaderLines(s) = f[Len(s)]
  BY HeaderLinesCut
<1>3. PICK g \in [0 .. Len(t) -> Seq(Seq(Symbols))] : CutsUpTo(g, t) /\ HeaderLines(t) = g[Len(t)]
  BY <1>1, HeaderLinesCut
<1>4. /\ f[0] = <<>> /\ g[0] = <<>>
      /\ \A n \in 0 .. N : f[n] \in Seq(Seq(Symbols)) /\ Len(f[n]) \in Nat
      /\ \A n \in 0 .. N + 1 : g[n] \in Seq(Seq(Symbols)) /\ Len(g[n]) \in Nat
  <2>1. f[0] = <<>> /\ g[0] = <<>>
    BY <1>2, <1>3 DEF CutsUpTo
  <2>2. ASSUME NEW n \in 0 .. N PROVE f[n] \in Seq(Seq(Symbols)) /\ Len(f[n]) \in Nat
    BY <1>2 DEF N
  <2>3. ASSUME NEW n \in 0 .. N + 1 PROVE g[n] \in Seq(Seq(Symbols)) /\ Len(g[n]) \in Nat
    BY <1>1, <1>3
  <2> QED BY <2>1, <2>2, <2>3
<1>5. ASSUME NEW n \in 1 .. N
      PROVE  Len(f[n]) = Len(f[n - 1]) + (IF n \in Breaks(s) THEN 1 ELSE 0)
  <2>1. f[n] = IF n \in Breaks(s) THEN Append(f[n - 1], SubSeq(s, LineBefore(s, n) + 1, n - 2))
               ELSE f[n - 1]
    BY <1>2 DEF CutsUpTo, N
  <2>2. n - 1 \in 0 .. N
    BY <1>1
  <2>3. f[n - 1] \in Seq(Seq(Symbols)) /\ Len(f[n - 1]) \in Nat
    BY <1>4, <2>2
  <2>4. \A e : Len(Append(f[n - 1], e)) = Len(f[n - 1]) + 1
    BY <2>3, AppendIsLonger
  <2>5. CASE n \in Breaks(s)
    <3>1. f[n] = Append(f[n - 1], SubSeq(s, LineBefore(s, n) + 1, n - 2))
      BY <2>1, <2>5
    <3>2. Len(f[n]) = Len(f[n - 1]) + 1
      BY <2>4, <3>1
    <3> QED BY <2>5, <3>2
  <2>6. CASE n \notin Breaks(s)
    <3>1. f[n] = f[n - 1]
      BY <2>1, <2>6
    <3> QED BY <2>3, <2>6, <3>1
  <2> QED BY <2>5, <2>6
<1>6. ASSUME NEW n \in 1 .. N + 1
      PROVE  Len(g[n]) = Len(g[n - 1]) + (IF n \in Breaks(t) THEN 1 ELSE 0)
  <2>1. g[n] = IF n \in Breaks(t) THEN Append(g[n - 1], SubSeq(t, LineBefore(t, n) + 1, n - 2))
               ELSE g[n - 1]
    BY <1>1, <1>3 DEF CutsUpTo
  <2>2. n - 1 \in 0 .. N + 1
    BY <1>1
  <2>3. g[n - 1] \in Seq(Seq(Symbols)) /\ Len(g[n - 1]) \in Nat
    BY <1>4, <2>2
  <2>4. \A e : Len(Append(g[n - 1], e)) = Len(g[n - 1]) + 1
    BY <2>3, AppendIsLonger
  <2>5. CASE n \in Breaks(t)
    <3>1. g[n] = Append(g[n - 1], SubSeq(t, LineBefore(t, n) + 1, n - 2))
      BY <2>1, <2>5
    <3>2. Len(g[n]) = Len(g[n - 1]) + 1
      BY <2>4, <3>1
    <3> QED BY <2>5, <3>2
  <2>6. CASE n \notin Breaks(t)
    <3>1. g[n] = g[n - 1]
      BY <2>1, <2>6
    <3> QED BY <2>3, <2>6, <3>1
  <2> QED BY <2>5, <2>6
<1>7. \A b \in 1 .. N : b \in Breaks(s) <=> b \in Breaks(t)
  <2>1. N <= Len(s) /\ N <= Len(t)
    BY <1>1 DEF N
  <2> QED BY <1>1, <2>1, AgreeOnBreaks
<1> DEFINE G == {n \in 0 .. N : Len(f[n]) = Len(g[n])}
<1>8. /\ 0 \in G
      /\ \A n \in 1 .. N : n - 1 \in G => n \in G
  <2>1. ASSUME NEW n \in 1 .. N, Len(f[n - 1]) = Len(g[n - 1]) PROVE Len(f[n]) = Len(g[n])
    <3>1. n \in 1 .. N + 1
      BY <1>1
    <3>2. /\ Len(f[n]) = Len(f[n - 1]) + (IF n \in Breaks(s) THEN 1 ELSE 0)
          /\ Len(g[n]) = Len(g[n - 1]) + (IF n \in Breaks(t) THEN 1 ELSE 0)
          /\ n \in Breaks(s) <=> n \in Breaks(t)
      BY <1>5, <1>6, <1>7, <3>1
    <3> QED BY <2>1, <3>2
  <2> QED BY <1>1, <1>4, <2>1
<1>9. 0 .. N \subseteq G
  <2> HIDE DEF G
  <2> QED BY <1>1, <1>8, Persists
<1>10. Len(f[N]) = Len(g[N]) /\ N + 1 \in 1 .. N + 1 /\ (N + 1) - 1 = N
  BY <1>1, <1>9
<1>11. Len(g[N + 1]) = Len(f[N]) + (IF N + 1 \in Breaks(t) THEN 1 ELSE 0)
  BY <1>6, <1>10
<1>12. HeaderLines(s) = f[N] /\ HeaderLines(t) = g[N + 1]
  BY <1>1, <1>2, <1>3 DEF N
<1> QED BY <1>11, <1>12 DEF t, N

(* A header that is not finished and within the limits, its last line starting
   at "start" after n lines, and a whole one. *)
Partial(h, start, n) ==
    /\ HeaderEnds(h) = {}
    /\ start = LineBefore(h, Len(h) + 1)
    /\ n = Len(HeaderLines(h))
    /\ \A i \in 1 .. Len(h) : Inside(h, i)

Whole(h) == HeaderEnds(h) = {Len(h)} /\ \A i \in 1 .. Len(h) : Inside(h, i)

LEMMA NothingIsPartial == Partial(<<>>, 0, 0)
<1> DEFINE h == <<>>
<1>1. h \in Seq(Symbols) /\ Len(h) = 0 /\ Breaks(h) = {}
  BY DEF Breaks
<1>2. 1 \in 1 .. Len(h) + 1
  BY <1>1
<1>3. LineBefore(h, 1) \in 0 .. 1 - 1
  BY <1>1, <1>2, LineBeforeIs
<1>4. LineBefore(h, Len(h) + 1) = 0
  BY <1>1, <1>3
<1>5. PICK f \in [0 .. Len(h) -> Seq(Seq(Symbols))] : CutsUpTo(f, h) /\ HeaderLines(h) = f[Len(h)]
  BY <1>1, HeaderLinesCut
<1>6. HeaderLines(h) = <<>>
  BY <1>1, <1>5 DEF CutsUpTo
<1>7. Len(HeaderLines(h)) = 0
  BY <1>6
<1>8. HeaderEnds(h) = {}
  BY <1>1 DEF HeaderEnds
<1>9. \A i \in 1 .. Len(h) : Inside(h, i)
  BY <1>1
<1> QED BY <1>4, <1>7, <1>8, <1>9 DEF Partial

\* What t is, a header like that of N bytes and a byte more.
OneLonger(t, N, start, n) ==
    /\ t \in Seq(Symbols) /\ Len(t) = N + 1 /\ N \in Nat
    /\ start \in 0 .. N /\ n \in Nat
    /\ N + 1 \in HeaderEnds(t) <=> EndsLine(t) /\ start = N - 1
    /\ HeaderEnds(t) \subseteq {N + 1}
    /\ LineBefore(t, N + 2) = IF EndsLine(t) THEN N + 1 ELSE start
    /\ Len(HeaderLines(t)) = IF EndsLine(t) THEN n + 1 ELSE n
    /\ \A i \in 1 .. N : Inside(t, i)
    /\ Inside(t, N + 1) <=>
         /\ N + 1 <= BlockMax /\ (N + 1) - start <= LineMax
         /\ Len(HeaderLines(t)) <= (IF N + 1 \in HeaderEnds(t) THEN LinesMax + 1 ELSE LinesMax)

LEMMA OneMore ==
    ASSUME NEW h \in Seq(Symbols), NEW x \in Symbols, NEW start, NEW n, Partial(h, start, n),
           NEW t, t = Append(h, x), NEW N, N = Len(h)
    PROVE  OneLonger(t, N, start, n)
<1>1. /\ t \in Seq(Symbols) /\ Len(t) = N + 1 /\ N \in Nat /\ Agree(h, t, N)
  BY AppendProperties DEF Agree
<1>2. N <= Len(h) /\ N <= Len(t) /\ N + 1 \in 1 .. N + 1 /\ N + 1 \in 1 .. Len(h) + 1
  BY <1>1
<1>3. /\ \A b \in 1 .. N : b \in Breaks(h) <=> b \in Breaks(t)
      /\ LineBefore(h, N + 1) = LineBefore(t, N + 1)
      /\ \A b \in 1 .. N : b \in HeaderEnds(h) <=> b \in HeaderEnds(t)
  BY <1>1, <1>2, AgreeOnBreaks
<1>4. /\ HeaderEnds(h) = {} /\ start = LineBefore(h, N + 1) /\ n = Len(HeaderLines(h))
      /\ \A i \in 1 .. N : Inside(h, i)
  BY DEF Partial
<1>5. LineBefore(t, N + 1) = start /\ start \in 0 .. N
  <2>1. LineBefore(h, N + 1) \in 0 .. (N + 1) - 1
    BY <1>2, LineBeforeIs
  <2> QED BY <1>1, <1>3, <1>4, <2>1
<1>6. N + 1 \in Breaks(t) <=> EndsLine(t)
  BY <1>1 DEF Breaks, EndsLine
<1>7. N + 1 \in HeaderEnds(t) <=> EndsLine(t) /\ start = N - 1
  BY <1>1, <1>5, <1>6 DEF HeaderEnds
<1>8. HeaderEnds(t) \subseteq {N + 1}
  <2> SUFFICES ASSUME NEW b \in HeaderEnds(t) PROVE b = N + 1
    OBVIOUS
  <2>1. b \in 2 .. N + 1
    BY <1>1 DEF HeaderEnds, Breaks
  <2>2. b \notin 1 .. N
    BY <1>3, <1>4
  <2> QED BY <1>1, <2>1, <2>2
<1>9. LineBefore(t, N + 2) = IF EndsLine(t) THEN N + 1 ELSE start
  <2> DEFINE m == IF EndsLine(t) THEN N + 1 ELSE start
  <2>1. N + 2 \in 1 .. Len(t) + 1 /\ N + 1 \in 1 .. Len(t) + 1
    BY <1>1
  <2>2. m \in 0 .. (N + 2) - 1
    BY <1>1, <1>5
  <2>3. start \in {0} \cup Breaks(t) /\ \A c \in Breaks(t) : c < N + 1 => c <= start
    <3>1. /\ LineBefore(t, N + 1) \in {0} \cup Breaks(t)
          /\ \A c \in Breaks(t) : c < N + 1 => c <= LineBefore(t, N + 1)
      BY <1>1, <2>1, LineBeforeIs
    <3> QED BY <1>5, <3>1
  <2>4. m \in {0} \cup Breaks(t)
    BY <1>6, <2>3
  <2>5. ASSUME NEW c \in Breaks(t), c < N + 2 PROVE c <= m
    <3>1. c \in 2 .. N + 1
      BY <1>1 DEF Breaks
    <3> QED BY <1>1, <1>5, <1>6, <2>3, <3>1
  <2> HIDE DEF m
  <2>6. LineBefore(t, N + 2) = m
    BY <1>1, <2>1, <2>2, <2>4, <2>5, LineBeforeIs
  <2> QED BY <2>6 DEF m
<1>10. n \in Nat
  <2>1. HeaderLines(h) \in Seq(Seq(Symbols))
    BY HeaderLinesAreSeqs
  <2> QED BY <1>4, <2>1
<1>11. Len(HeaderLines(t)) = IF EndsLine(t) THEN n + 1 ELSE n
  <2>1. Len(HeaderLines(t)) = n + (IF N + 1 \in Breaks(t) THEN 1 ELSE 0)
    BY <1>4, LinesGrow
  <2> QED BY <1>6, <1>10, <2>1
<1>12. \A i \in 1 .. N : Inside(t, i)
  BY <1>1, <1>2, <1>4, AgreeOnInside
<1>13. SubSeq(t, 1, N + 1) = t
  BY <1>1, SubSeqFull
<1>14. Inside(t, N + 1) <=>
         /\ N + 1 <= BlockMax /\ (N + 1) - start <= LineMax
         /\ Len(HeaderLines(t)) <= (IF N + 1 \in HeaderEnds(t) THEN LinesMax + 1 ELSE LinesMax)
  <2> DEFINE k == N + 1
  <2>1. LineBefore(t, k) = start /\ SubSeq(t, 1, k) = t
    BY <1>5, <1>13
  <2> HIDE DEF k
  <2>2. Inside(t, k) <=>
          /\ k <= BlockMax /\ k - start <= LineMax
          /\ Len(HeaderLines(t)) <= (IF k \in HeaderEnds(t) THEN LinesMax + 1 ELSE LinesMax)
    BY <2>1 DEF Inside
  <2> QED BY <2>2 DEF k
<1> QED BY <1>1, <1>5, <1>7, <1>8, <1>9, <1>10, <1>11, <1>12, <1>14 DEF OneLonger

\* What a header followed by anything says.
LEMMA ConcatAgrees ==
    ASSUME NEW h \in Seq(Symbols), NEW r \in Seq(Symbols), NEW s, s = h \o r
    PROVE  /\ s \in Seq(Symbols) /\ Len(s) = Len(h) + Len(r) /\ Len(h) \in Nat /\ Len(r) \in Nat
           /\ Len(h) <= Len(s) /\ Agree(h, s, Len(h))
           /\ \A i \in 1 .. Len(r) : s[Len(h) + i] = r[i]
<1>1. /\ s \in Seq(Symbols) /\ Len(s) = Len(h) + Len(r) /\ Len(h) \in Nat /\ Len(r) \in Nat
      /\ \A i \in 1 .. Len(h) + Len(r) : s[i] = IF i <= Len(h) THEN h[i] ELSE r[i - Len(h)]
  BY ConcatProperties
<1>2. Agree(h, s, Len(h))
  BY <1>1 DEF Agree
<1>3. ASSUME NEW i \in 1 .. Len(r) PROVE s[Len(h) + i] = r[i]
  <2>1. Len(h) + i \in 1 .. Len(h) + Len(r) /\ ~(Len(h) + i <= Len(h)) /\ (Len(h) + i) - Len(h) = i
    BY <1>1
  <2> QED BY <1>1, <2>1
<1> QED BY <1>1, <1>2, <1>3

LEMMA EndOfWhole ==
    ASSUME NEW h \in Seq(Symbols), NEW r \in Seq(Symbols), HeaderEnds(h) = {Len(h)},
           NEW s, s = h \o r
    PROVE  /\ HeaderEnds(s) # {} /\ HeaderEnd(s) = Len(h) /\ Len(h) \in 2 .. Len(s)
           /\ IsBeyondLimits(s) <=> \E i \in 1 .. Len(h) : ~Inside(h, i)
           /\ SubSeq(s, 1, Len(h) - 2) = SubSeq(h, 1, Len(h) - 2)
<1> DEFINE N == Len(h)
<1>1. /\ s \in Seq(Symbols) /\ N \in Nat /\ N <= Len(s) /\ Len(s) \in Nat /\ Agree(h, s, N) /\ N <= Len(h)
  <2>1. /\ s \in Seq(Symbols) /\ Len(h) \in Nat /\ Len(h) <= Len(s)
        /\ Agree(h, s, Len(h))
    BY ConcatAgrees
  <2> QED BY <2>1
<1>2. N \in 2 .. N
  BY DEF HeaderEnds, Breaks
<1> HIDE DEF N
<1>3. \A b \in 1 .. N : b \in HeaderEnds(h) <=> b \in HeaderEnds(s)
  BY <1>1, AgreeOnBreaks
<1>4. HeaderEnds(h) = {N}
  BY DEF N
<1>5. N \in HeaderEnds(s)
  BY <1>2, <1>3, <1>4
<1>6. ASSUME NEW c \in HeaderEnds(s) PROVE N <= c /\ c \in Nat
  <2>1. c \in 2 .. Len(s)
    BY DEF HeaderEnds, Breaks
  <2>2. c \in 1 .. N => c = N
    BY <1>3, <1>4
  <2> QED BY <1>1, <2>1, <2>2
<1>7. HeaderEnd(s) = N
  <2>1. \E b \in HeaderEnds(s) : \A c \in HeaderEnds(s) : b <= c
    BY <1>5, <1>6
  <2>2. HeaderEnd(s) \in HeaderEnds(s) /\ \A c \in HeaderEnds(s) : HeaderEnd(s) <= c
    BY <1>5, <2>1 DEF HeaderEnd
  <2>3. HeaderEnd(s) <= N /\ N <= HeaderEnd(s) /\ HeaderEnd(s) \in Nat
    BY <1>5, <1>6, <2>2
  <2> QED BY <1>1, <2>3
<1>8. IsBeyondLimits(s) <=> \E i \in 1 .. N : ~Inside(h, i)
  <2>1. HeaderEnd(s) \in 0 .. Len(s)
    BY <1>1, <1>7
  <2>2. IsBeyondLimits(s) <=> \E i \in 1 .. N : ~Inside(s, i)
    BY <1>1, <1>7, <2>1, BeyondIsNotInside
  <2>3. \A i \in 1 .. N : Inside(h, i) <=> Inside(s, i)
    BY <1>1, AgreeOnInside
  <2> QED BY <2>2, <2>3
<1>9. SubSeq(s, 1, N - 2) = SubSeq(h, 1, N - 2)
  <2>1. N - 2 \in Nat /\ N - 2 <= Len(h) /\ N - 2 <= Len(s) /\ Agree(h, s, N - 2)
    BY <1>1, <1>2 DEF Agree
  <2> QED BY <1>1, <2>1, AgreeOnPrefix
<1>10. N \in 2 .. Len(s)
  BY <1>1, <1>2
<1> QED BY <1>5, <1>7, <1>8, <1>9, <1>10 DEF N

HeaderOf(h) == Parsed(HeaderLines(SubSeq(h, 1, Len(h) - 2)))

LEMMA FirstOfHeader ==
    ASSUME NEW h \in Seq(Symbols), NEW r \in Seq(Symbols), HeaderEnds(h) = {Len(h)},
           NEW s, s = h \o r
    PROVE  First(s) =
             IF \E i \in 1 .. Len(h) : ~Inside(h, i) THEN [says |-> "framing", body |-> <<>>, end |-> 0]
             ELSE IF HeaderOf(h).fault # NoLength
                  THEN [says |-> HeaderOf(h).fault, body |-> <<>>, end |-> 0]
             ELSE IF Len(s) < Len(h) + HeaderOf(h).length
                  THEN [says |-> "none", body |-> <<>>, end |-> 0]
             ELSE [says |-> "frame", body |-> SubSeq(s, Len(h) + 1, Len(h) + HeaderOf(h).length),
                   end |-> Len(h) + HeaderOf(h).length]
<1>1. /\ HeaderEnds(s) # {} /\ HeaderEnd(s) = Len(h)
      /\ IsBeyondLimits(s) <=> \E i \in 1 .. Len(h) : ~Inside(h, i)
      /\ SubSeq(s, 1, Len(h) - 2) = SubSeq(h, 1, Len(h) - 2)
  BY EndOfWhole
<1>2. First(s) = FirstWith(s, Len(h), HeaderOf(h))
  BY <1>1 DEF First, HeaderOf
<1> QED BY <1>1, <1>2 DEF FirstWith

\* A header that is not finished says nothing, unless a byte of it is beyond the limits.
LEMMA FirstOfPartial ==
    ASSUME NEW h \in Seq(Symbols), NEW start, NEW n, Partial(h, start, n)
    PROVE  First(h).says = "none"
<1>1. HeaderEnd(h) = Len(h) /\ HeaderEnds(h) = {} /\ \A i \in 1 .. Len(h) : Inside(h, i)
  BY DEF Partial, HeaderEnd
<1>2. HeaderEnd(h) \in 0 .. Len(h)
  BY <1>1
<1>3. ~IsBeyondLimits(h)
  BY <1>1, <1>2, BeyondIsNotInside
<1> QED BY <1>1, <1>3 DEF First, FirstWith

LEMMA FirstBeyond ==
    ASSUME NEW t \in Seq(Symbols), NEW r \in Seq(Symbols), t # <<>>,
           HeaderEnds(t) \subseteq {Len(t)}, ~Inside(t, Len(t)), NEW s, s = t \o r
    PROVE  First(s).says = "framing"
<1> DEFINE N == Len(t)
<1>1. /\ s \in Seq(Symbols) /\ N \in Nat /\ N <= Len(s) /\ Len(s) \in Nat /\ Agree(t, s, N)
      /\ N <= Len(t) /\ N \in 1 .. N
  <2>1. N # 0
    BY EmptySeq
  <2>2. /\ s \in Seq(Symbols) /\ Len(t) \in Nat /\ Len(t) <= Len(s)
        /\ Agree(t, s, Len(t))
    BY ConcatAgrees
  <2> QED BY <2>1, <2>2
<1> HIDE DEF N
<1>2. \A b \in 1 .. N : b \in HeaderEnds(t) <=> b \in HeaderEnds(s)
  BY <1>1, AgreeOnBreaks
<1>3. ~Inside(s, N)
  BY <1>1, AgreeOnInside DEF N
<1>4. ASSUME NEW c \in HeaderEnds(s) PROVE N <= c /\ c \in 2 .. Len(s)
  <2>1. c \in 2 .. Len(s)
    BY DEF HeaderEnds, Breaks
  <2>2. c \in 1 .. N => c = N
    BY <1>2 DEF N
  <2> QED BY <1>1, <2>1, <2>2
<1>5. HeaderEnd(s) \in N .. Len(s)
  <2>1. CASE HeaderEnds(s) = {}
    BY <1>1, <2>1 DEF HeaderEnd
  <2>2. CASE HeaderEnds(s) # {}
    <3>1. HeaderEnds(s) \in SUBSET Nat
      BY <1>4
    <3>2. \E b \in HeaderEnds(s) : \A c \in HeaderEnds(s) : b <= c
      BY <2>2, <3>1, LeastNumber
    <3>3. HeaderEnd(s) \in HeaderEnds(s)
      BY <2>2, <3>2 DEF HeaderEnd
    <3> QED BY <1>1, <1>4, <3>3
  <2> QED BY <2>1, <2>2
<1>6. HeaderEnd(s) \in 0 .. Len(s) /\ N \in 1 .. HeaderEnd(s)
  BY <1>1, <1>5
<1>7. IsBeyondLimits(s)
  BY <1>1, <1>3, <1>6, BeyondIsNotInside
<1> QED BY <1>7 DEF First, FirstWith

-----------------------------------------------------------------------------
(* Suffixes of a stream, and the first frame of one. *)

LEMMA SuffixIs ==
    ASSUME NEW p \in Seq(Symbols), NEW a \in 0 .. Len(p)
    PROVE  /\ Suffix(p, a) \in Seq(Symbols) /\ Len(Suffix(p, a)) = Len(p) - a
           /\ \A i \in 1 .. Len(p) - a : Suffix(p, a)[i] = p[a + i]
<1>1. \A i \in a + 1 .. Len(p) : p[i] \in Symbols
  OBVIOUS
<1>2. a + 1 \in Int /\ Len(p) \in Int
  OBVIOUS
<1>3. /\ Suffix(p, a) \in Seq(Symbols)
      /\ Len(Suffix(p, a)) = IF a + 1 <= Len(p) THEN Len(p) - (a + 1) + 1 ELSE 0
      /\ \A i \in 1 .. Len(p) - (a + 1) + 1 : Suffix(p, a)[i] = p[(a + 1) + i - 1]
  BY <1>1, <1>2, SubSeqProperties DEF Suffix
<1>4. Len(Suffix(p, a)) = Len(p) - a
  BY <1>2, <1>3
<1>5. ASSUME NEW i \in 1 .. Len(p) - a PROVE Suffix(p, a)[i] = p[a + i]
  <2>1. i \in 1 .. Len(p) - (a + 1) + 1 /\ (a + 1) + i - 1 = a + i
    BY <1>2
  <2> QED BY <1>3, <2>1
<1> QED BY <1>3, <1>4, <1>5

LEMMA SuffixOfSuffix ==
    ASSUME NEW p \in Seq(Symbols), NEW a \in 0 .. Len(p), NEW b \in 0 .. Len(p) - a
    PROVE  Suffix(Suffix(p, a), b) = Suffix(p, a + b)
<1> DEFINE s == Suffix(p, a)
           u == Suffix(s, b)
           v == Suffix(p, a + b)
<1>1. a + b \in 0 .. Len(p) /\ Len(p) \in Nat
  OBVIOUS
<1>2. s \in Seq(Symbols) /\ Len(s) = Len(p) - a /\ \A i \in 1 .. Len(p) - a : s[i] = p[a + i]
  BY SuffixIs
<1> HIDE DEF s
<1>3. b \in 0 .. Len(s)
  BY <1>2
<1>4. /\ u \in Seq(Symbols) /\ Len(u) = Len(s) - b /\ \A i \in 1 .. Len(s) - b : u[i] = s[b + i]
  BY <1>2, <1>3, SuffixIs
<1>5. /\ v \in Seq(Symbols) /\ Len(v) = Len(p) - (a + b)
      /\ \A i \in 1 .. Len(p) - (a + b) : v[i] = p[(a + b) + i]
  BY <1>1, SuffixIs
<1> HIDE DEF u, v
<1>6. Len(u) = Len(v) /\ Len(u) = Len(p) - (a + b)
  BY <1>1, <1>2, <1>4, <1>5
<1>7. ASSUME NEW i \in 1 .. Len(u) PROVE u[i] = v[i]
  <2>0. /\ Len(s) = Len(p) - a /\ Len(u) = Len(s) - b /\ Len(u) = Len(p) - (a + b) /\ Len(p) \in Nat
    BY <1>1, <1>2, <1>4, <1>6
  <2>1. /\ i \in 1 .. Len(s) - b /\ i \in 1 .. Len(p) - (a + b) /\ b + i \in 1 .. Len(p) - a
        /\ a + (b + i) = (a + b) + i
    BY <2>0
  <2> QED BY <1>2, <1>4, <1>5, <2>1
<1>8. u = v
  BY <1>4, <1>5, <1>6, <1>7, SeqEqual
<1> QED BY <1>8 DEF s, u, v

LEMMA SuffixExtends ==
    ASSUME NEW p \in Seq(Symbols), NEW a \in 0 .. Len(p), NEW t \in Seq(Symbols)
    PROVE  Suffix(p \o t, a) = Suffix(p, a) \o t
<1> DEFINE q == p \o t
           s == Suffix(p, a)
           u == Suffix(q, a)
           v == s \o t
<1>1. /\ q \in Seq(Symbols) /\ Len(q) = Len(p) + Len(t) /\ Len(p) \in Nat /\ Len(t) \in Nat
      /\ \A i \in 1 .. Len(p) + Len(t) : q[i] = IF i <= Len(p) THEN p[i] ELSE t[i - Len(p)]
  BY ConcatProperties
<1>2. s \in Seq(Symbols) /\ Len(s) = Len(p) - a /\ \A i \in 1 .. Len(p) - a : s[i] = p[a + i]
  BY SuffixIs
<1> HIDE DEF q, s
<1>3. /\ v \in Seq(Symbols) /\ Len(v) = Len(s) + Len(t)
      /\ \A i \in 1 .. Len(s) + Len(t) : v[i] = IF i <= Len(s) THEN s[i] ELSE t[i - Len(s)]
  BY <1>2, ConcatProperties
<1>4. a \in 0 .. Len(q)
  BY <1>1
<1>5. u \in Seq(Symbols) /\ Len(u) = Len(q) - a /\ \A i \in 1 .. Len(q) - a : u[i] = q[a + i]
  BY <1>1, <1>4, SuffixIs
<1> HIDE DEF u, v
<1>6. Len(u) = Len(v) /\ Len(u) = (Len(p) + Len(t)) - a
  BY <1>1, <1>2, <1>3, <1>5
<1>7. ASSUME NEW i \in 1 .. Len(u) PROVE u[i] = v[i]
  <2>1. u[i] = q[a + i] /\ a + i \in 1 .. Len(p) + Len(t) /\ i \in 1 .. Len(s) + Len(t)
    BY <1>1, <1>2, <1>5, <1>6
  <2>2. CASE i <= Len(p) - a
    <3>1. a + i <= Len(p) /\ i \in 1 .. Len(p) - a /\ i <= Len(s)
      BY <1>1, <1>2, <2>2
    <3> QED BY <1>1, <1>2, <1>3, <2>1, <3>1
  <2>3. CASE ~(i <= Len(p) - a)
    <3>1. ~(a + i <= Len(p)) /\ ~(i <= Len(s)) /\ (a + i) - Len(p) = i - Len(s)
      BY <1>1, <1>2, <2>3
    <3> QED BY <1>1, <1>3, <2>1, <3>1
  <2> QED BY <2>2, <2>3
<1>8. u = v
  BY <1>3, <1>5, <1>6, <1>7, SeqEqual
<1> QED BY <1>8 DEF q, s, u, v

LEMMA MiddleIs ==
    ASSUME NEW s \in Seq(Symbols), NEW a \in Nat, NEW b \in Nat, a + b <= Len(s)
    PROVE  /\ SubSeq(s, a + 1, a + b) \in Seq(Symbols) /\ Len(SubSeq(s, a + 1, a + b)) = b
           /\ \A i \in 1 .. b : SubSeq(s, a + 1, a + b)[i] = s[a + i]
<1> DEFINE m == a + 1
           n == a + b
<1>1. \A i \in m .. n : s[i] \in Symbols
  OBVIOUS
<1>2. m \in Int /\ n \in Int
  OBVIOUS
<1>3. m + b = n + 1 /\ (m <= n <=> b >= 1)
  OBVIOUS
<1> HIDE DEF m, n
<1>4. /\ SubSeq(s, m, n) \in Seq(Symbols)
      /\ Len(SubSeq(s, m, n)) = IF m <= n THEN n - m + 1 ELSE 0
      /\ \A i \in 1 .. n - m + 1 : SubSeq(s, m, n)[i] = s[m + i - 1]
  BY <1>1, <1>2, SubSeqProperties
<1>5. Len(SubSeq(s, m, n)) = b
  BY <1>2, <1>3, <1>4
<1>6. ASSUME NEW i \in 1 .. b PROVE SubSeq(s, m, n)[i] = s[a + i]
  <2>1. i \in 1 .. n - m + 1
    BY <1>2, <1>3
  <2>2. m + i - 1 = a + i
    BY DEF m
  <2> QED BY <1>4, <2>1, <2>2
<1> QED BY <1>4, <1>5, <1>6 DEF m, n

\* What follows a header h: its body, and what is behind the body.
PastHead(s, h, r, b) ==
    /\ Suffix(s, Len(h) + b) = Suffix(r, b)
    /\ SubSeq(s, Len(h) + 1, Len(h) + b) = SubSeq(r, 1, b)

LEMMA SuffixPastHead ==
    ASSUME NEW h \in Seq(Symbols), NEW r \in Seq(Symbols), NEW s, s = h \o r, NEW b \in 0 .. Len(r)
    PROVE  PastHead(s, h, r, b)
<1> DEFINE N == Len(h)
           u == Suffix(s, N + b)
           v == Suffix(r, b)
           x == SubSeq(s, N + 1, N + b)
           y == SubSeq(r, 1, b)
<1>1. /\ s \in Seq(Symbols) /\ Len(s) = N + Len(r) /\ N \in Nat /\ Len(r) \in Nat
      /\ \A i \in 1 .. Len(r) : s[N + i] = r[i]
  BY ConcatAgrees
<1> HIDE DEF N
<1>2. N + b \in 0 .. Len(s)
  BY <1>1
<1>3. /\ u \in Seq(Symbols) /\ Len(u) = Len(s) - (N + b)
      /\ \A i \in 1 .. Len(s) - (N + b) : u[i] = s[(N + b) + i]
  BY <1>1, <1>2, SuffixIs
<1>4. /\ v \in Seq(Symbols) /\ Len(v) = Len(r) - b /\ \A i \in 1 .. Len(r) - b : v[i] = r[b + i]
  BY SuffixIs
<1>5. u = v
  <2> HIDE DEF u, v
  <2>1. Len(u) = Len(v)
    BY <1>1, <1>3, <1>4
  <2>2. ASSUME NEW i \in 1 .. Len(u) PROVE u[i] = v[i]
    <3>1. /\ i \in 1 .. Len(s) - (N + b) /\ i \in 1 .. Len(r) - b /\ b + i \in 1 .. Len(r)
          /\ (N + b) + i = N + (b + i)
      BY <1>1, <1>3
    <3> QED BY <1>1, <1>3, <1>4, <3>1
  <2> QED BY <1>3, <1>4, <2>1, <2>2, SeqEqual
<1>6. /\ y \in Seq(Symbols) /\ Len(y) = b /\ \A i \in 1 .. b : y[i] = r[i]
  <2>1. b \in Nat /\ b <= Len(r)
    BY <1>1
  <2> QED BY <2>1, PrefixIs
<1>7. /\ x \in Seq(Symbols) /\ Len(x) = b /\ \A i \in 1 .. b : x[i] = s[N + i]
  <2>1. N + b <= Len(s) /\ b \in Nat
    BY <1>1
  <2> QED BY <1>1, <2>1, MiddleIs
<1>8. x = y
  <2> HIDE DEF x, y
  <2>1. Len(x) = Len(y)
    BY <1>6, <1>7
  <2>2. ASSUME NEW i \in 1 .. Len(x) PROVE x[i] = y[i]
    <3>1. i \in 1 .. b /\ i \in 1 .. Len(r)
      BY <1>1, <1>7
    <3>2. x[i] = s[N + i] /\ s[N + i] = r[i] /\ y[i] = r[i]
      BY <1>1, <1>6, <1>7, <3>1
    <3> QED BY <3>2
  <2> QED BY <1>6, <1>7, <2>1, <2>2, SeqEqual
<1> QED BY <1>5, <1>8 DEF N, PastHead

LEMMA HeaderIs ==
    ASSUME NEW h \in Seq(Symbols), HeaderEnds(h) = {Len(h)}
    PROVE  /\ HeaderOf(h) \in Findings
           /\ HeaderOf(h).fault = NoLength => HeaderOf(h).length \in Nat
           /\ Len(h) \in Nat /\ Len(h) >= 2
<1>1. Len(h) \in 2 .. Len(h) /\ Len(h) \in Nat
  BY DEF HeaderEnds, Breaks
<1>2. Len(h) - 2 \in Nat /\ Len(h) - 2 <= Len(h)
  BY <1>1
<1>3. SubSeq(h, 1, Len(h) - 2) \in Seq(Symbols)
  BY <1>2, PrefixIs
<1>4. HeaderLines(SubSeq(h, 1, Len(h) - 2)) \in Seq(Seq(Symbols))
  BY <1>3, HeaderLinesAreSeqs
<1>5. /\ HeaderOf(h) \in Findings
      /\ HeaderOf(h).fault = NoLength => HeaderOf(h).length # NoLength
  BY <1>4, ParsedIs DEF HeaderOf
<1> QED BY <1>1, <1>5 DEF Findings

\* A stream with a header begins with it.
LEMMA BeginsWithHeader ==
    ASSUME NEW s \in Seq(Symbols), HeaderEnds(s) # {}
    PROVE  \E h, r \in Seq(Symbols) : s = h \o r /\ HeaderEnds(h) = {Len(h)}
<1> DEFINE e == HeaderEnd(s)
           h == SubSeq(s, 1, e)
           r == SubSeq(s, e + 1, Len(s))
<1>1. HeaderEnds(s) \in SUBSET Nat /\ \A c \in HeaderEnds(s) : c \in 2 .. Len(s)
  BY DEF HeaderEnds, Breaks
<1>2. \E b \in HeaderEnds(s) : \A c \in HeaderEnds(s) : b <= c
  BY <1>1, LeastNumber
<1>3. e \in HeaderEnds(s) /\ \A c \in HeaderEnds(s) : e <= c
  BY <1>2 DEF HeaderEnd
<1>4. e \in 2 .. Len(s) /\ Len(s) \in Nat /\ e \in Nat /\ e <= Len(s)
  BY <1>1, <1>3
<1> HIDE DEF e
<1>5. h \in Seq(Symbols) /\ Len(h) = e /\ \A i \in 1 .. e : h[i] = s[i]
  BY <1>4, PrefixIs
<1>6. r \in Seq(Symbols)
  <2>1. \A i \in e + 1 .. Len(s) : s[i] \in Symbols
    BY <1>4
  <2>2. e + 1 \in Int /\ Len(s) \in Int
    BY <1>4
  <2> QED BY <2>1, <2>2, SubSeqProperties
<1>7. s = h \o r
  <2>1. 1 \in 1 .. Len(s) + 1 /\ e \in 1 - 1 .. Len(s) /\ Len(s) \in e .. Len(s)
    BY <1>4
  <2>2. SubSeq(s, 1, e) \o SubSeq(s, e + 1, Len(s)) = SubSeq(s, 1, Len(s))
    BY <2>1, ConcatAdjacentSubSeq
  <2> QED BY <2>2, SubSeqFull
<1> HIDE DEF h, r
<1>8. HeaderEnds(h) = {e}
  <2>1. Agree(h, s, e) /\ e <= Len(h)
    BY <1>4, <1>5 DEF Agree
  <2>2. \A b \in 1 .. e : b \in HeaderEnds(h) <=> b \in HeaderEnds(s)
    BY <1>4, <1>5, <2>1, AgreeOnBreaks
  <2>3. \A b \in HeaderEnds(h) : b \in 2 .. e
    BY <1>5 DEF HeaderEnds, Breaks
  <2>4. e \in HeaderEnds(h)
    BY <1>3, <1>4, <2>2
  <2>5. ASSUME NEW b \in HeaderEnds(h) PROVE b = e
    <3>1. b \in 1 .. e /\ b \in HeaderEnds(s)
      BY <2>2, <2>3
    <3> QED BY <1>3, <1>4, <3>1
  <2> QED BY <2>4, <2>5
<1> QED BY <1>5, <1>6, <1>7, <1>8

Says == {"none", "frame", "framing", "too_large"}

LEMMA FirstWithoutHeader ==
    ASSUME NEW s \in Seq(Symbols), HeaderEnds(s) = {}
    PROVE  First(s).says \in {"none", "framing"}
BY DEF First, FirstWith

LEMMA FirstIs ==
    ASSUME NEW s \in Seq(Symbols)
    PROVE  /\ First(s).says \in Says
           /\ First(s).says = "frame" =>
                First(s).end \in 2 .. Len(s) /\ First(s).body \in Seq(Symbols)
<1>1. CASE HeaderEnds(s) = {}
  BY <1>1, FirstWithoutHeader DEF Says
<1>2. CASE HeaderEnds(s) # {}
  <2>1. PICK h, r \in Seq(Symbols) : s = h \o r /\ HeaderEnds(h) = {Len(h)}
    BY <1>2, BeginsWithHeader
  <2>2. First(s) =
             IF \E i \in 1 .. Len(h) : ~Inside(h, i) THEN [says |-> "framing", body |-> <<>>, end |-> 0]
             ELSE IF HeaderOf(h).fault # NoLength
                  THEN [says |-> HeaderOf(h).fault, body |-> <<>>, end |-> 0]
             ELSE IF Len(s) < Len(h) + HeaderOf(h).length
                  THEN [says |-> "none", body |-> <<>>, end |-> 0]
             ELSE [says |-> "frame", body |-> SubSeq(s, Len(h) + 1, Len(h) + HeaderOf(h).length),
                   end |-> Len(h) + HeaderOf(h).length]
    BY <2>1, FirstOfHeader
  <2>3. /\ HeaderOf(h).fault \in {NoLength, "framing", "too_large"}
        /\ HeaderOf(h).fault = NoLength => HeaderOf(h).length \in Nat
        /\ Len(h) \in Nat /\ Len(h) >= 2 /\ Len(s) \in Nat
    BY <2>1, HeaderIs DEF Findings
  <2>4. First(s).says \in Says
    BY <2>2, <2>3 DEF Says
  <2>5. ASSUME First(s).says = "frame"
        PROVE  /\ HeaderOf(h).length \in Nat /\ Len(s) >= Len(h) + HeaderOf(h).length
               /\ First(s).end = Len(h) + HeaderOf(h).length
               /\ First(s).body = SubSeq(s, Len(h) + 1, Len(h) + HeaderOf(h).length)
    <3>1. ~\E i \in 1 .. Len(h) : ~Inside(h, i)
      BY <2>2, <2>5
    <3>2. HeaderOf(h).fault = NoLength
      BY <2>2, <2>3, <2>5, <3>1
    <3>3. ~(Len(s) < Len(h) + HeaderOf(h).length)
      BY <2>2, <2>5, <3>1, <3>2
    <3>4. First(s) = [says |-> "frame", body |-> SubSeq(s, Len(h) + 1, Len(h) + HeaderOf(h).length),
                      end |-> Len(h) + HeaderOf(h).length]
      BY <2>2, <3>1, <3>2, <3>3
    <3> QED BY <2>3, <3>2, <3>3, <3>4
  <2>6. ASSUME First(s).says = "frame" PROVE First(s).body \in Seq(Symbols)
    <3>1. Len(h) + HeaderOf(h).length <= Len(s) /\ HeaderOf(h).length \in Nat /\ Len(h) \in Nat
      BY <2>3, <2>5, <2>6
    <3>2. SubSeq(s, Len(h) + 1, Len(h) + HeaderOf(h).length) \in Seq(Symbols)
      BY <3>1, MiddleIs
    <3> QED BY <2>5, <2>6, <3>2
  <2>7. First(s).says = "frame" => First(s).end \in 2 .. Len(s)
    BY <2>3, <2>5
  <2> QED BY <2>4, <2>6, <2>7
<1> QED BY <1>1, <1>2

\* A frame that is there stays, whatever comes after it.
LEMMA FirstExtends ==
    ASSUME NEW s \in Seq(Symbols), NEW t \in Seq(Symbols), First(s).says = "frame"
    PROVE  First(s \o t) = First(s)
<1>1. HeaderEnds(s) # {}
  BY FirstWithoutHeader
<1>2. PICK h, r \in Seq(Symbols) : s = h \o r /\ HeaderEnds(h) = {Len(h)}
  BY <1>1, BeginsWithHeader
<1> DEFINE u == s \o t
           n == HeaderOf(h).length
<1>3. u = h \o (r \o t) /\ r \o t \in Seq(Symbols)
  <2>1. u = (h \o r) \o t
    BY <1>2
  <2>2. (h \o r) \o t = h \o (r \o t)
    BY <1>2, Joined
  <2>3. r \o t \in Seq(Symbols)
    BY <1>2, ConcatProperties
  <2> QED BY <2>1, <2>2, <2>3
<1>4. /\ u \in Seq(Symbols) /\ Len(u) = Len(s) + Len(t) /\ Len(s) \in Nat /\ Len(t) \in Nat
      /\ Agree(s, u, Len(s)) /\ Len(s) = Len(h) + Len(r) /\ Len(h) \in Nat /\ Len(r) \in Nat
  BY <1>2, ConcatAgrees
<1>5. \A w, x : x \in Seq(Symbols) /\ w = h \o x => First(w) =
             IF \E i \in 1 .. Len(h) : ~Inside(h, i) THEN [says |-> "framing", body |-> <<>>, end |-> 0]
             ELSE IF HeaderOf(h).fault # NoLength
                  THEN [says |-> HeaderOf(h).fault, body |-> <<>>, end |-> 0]
             ELSE IF Len(w) < Len(h) + n
                  THEN [says |-> "none", body |-> <<>>, end |-> 0]
             ELSE [says |-> "frame", body |-> SubSeq(w, Len(h) + 1, Len(h) + n), end |-> Len(h) + n]
  BY <1>2, FirstOfHeader
<1>6. /\ HeaderOf(h).fault \in {NoLength, "framing", "too_large"}
      /\ HeaderOf(h).fault = NoLength => n \in Nat
  BY <1>2, HeaderIs DEF Findings
<1> HIDE DEF n, u
<1>7. /\ ~\E i \in 1 .. Len(h) : ~Inside(h, i)
      /\ HeaderOf(h).fault = NoLength
      /\ ~(Len(s) < Len(h) + n)
      /\ First(s) = [says |-> "frame", body |-> SubSeq(s, Len(h) + 1, Len(h) + n), end |-> Len(h) + n]
  <2>1. First(s) =
             IF \E i \in 1 .. Len(h) : ~Inside(h, i) THEN [says |-> "framing", body |-> <<>>, end |-> 0]
             ELSE IF HeaderOf(h).fault # NoLength
                  THEN [says |-> HeaderOf(h).fault, body |-> <<>>, end |-> 0]
             ELSE IF Len(s) < Len(h) + n
                  THEN [says |-> "none", body |-> <<>>, end |-> 0]
             ELSE [says |-> "frame", body |-> SubSeq(s, Len(h) + 1, Len(h) + n), end |-> Len(h) + n]
    BY <1>2, <1>5
  <2>2. ~\E i \in 1 .. Len(h) : ~Inside(h, i)
    BY <2>1
  <2>3. HeaderOf(h).fault = NoLength
    BY <1>6, <2>1, <2>2
  <2>4. ~(Len(s) < Len(h) + n)
    BY <2>1, <2>2, <2>3
  <2> QED BY <2>1, <2>2, <2>3, <2>4
<1>8. ~(Len(u) < Len(h) + n) /\ n \in 0 .. Len(r) /\ n \in 0 .. Len(r \o t)
  <2>1. Len(r \o t) = Len(r) + Len(t)
    BY ConcatProperties
  <2> QED BY <1>4, <1>6, <1>7, <2>1
<1>9. First(u) = [says |-> "frame", body |-> SubSeq(u, Len(h) + 1, Len(h) + n), end |-> Len(h) + n]
  BY <1>3, <1>5, <1>7, <1>8
<1>10. SubSeq(u, Len(h) + 1, Len(h) + n) = SubSeq(s, Len(h) + 1, Len(h) + n)
  <2>1. SubSeq(s, Len(h) + 1, Len(h) + n) = SubSeq(r, 1, n)
    <3>1. PastHead(s, h, r, n)
      BY <1>2, <1>8, SuffixPastHead
    <3> QED BY <3>1 DEF PastHead
  <2>2. SubSeq(u, Len(h) + 1, Len(h) + n) = SubSeq(r \o t, 1, n)
    <3>1. PastHead(u, h, r \o t, n)
      BY <1>2, <1>3, <1>8, SuffixPastHead
    <3> QED BY <3>1 DEF PastHead
  <2>3. SubSeq(r \o t, 1, n) = SubSeq(r, 1, n)
    <3>1. /\ r \o t \in Seq(Symbols) /\ Len(r) <= Len(r \o t) /\ Agree(r, r \o t, Len(r))
      BY ConcatAgrees
    <3>2. n \in Nat /\ n <= Len(r) /\ n <= Len(r \o t) /\ Agree(r, r \o t, n)
      BY <1>4, <1>8, <3>1 DEF Agree
    <3> QED BY <3>1, <3>2, AgreeOnPrefix
  <2> QED BY <2>1, <2>2, <2>3
<1> QED BY <1>7, <1>9, <1>10 DEF u

-----------------------------------------------------------------------------
(* The reference: the frames from each offset on, and those up to one. *)

Rows == [bodies : Seq(Seq(Symbols)), says : Says, rest : Nat]
RowOf(first, later, left) ==
    IF first.says = "frame" THEN [later EXCEPT !.bodies = <<first.body>> \o @]
    ELSE [bodies |-> <<>>, says |-> first.says, rest |-> left]
FirstAt(s, i) == First(Suffix(s, i))
EndAt(s, i) == i + FirstAt(s, i).end

LEMMA RowIs ==
    ASSUME NEW s \in Seq(Symbols), NEW i \in 0 .. Len(s), NEW later,
           FirstAt(s, i).says = "frame" => later \in Rows
    PROVE  RowOf(FirstAt(s, i), later, Len(s) - i) \in Rows
<1> DEFINE first == FirstAt(s, i)
<1>1. Suffix(s, i) \in Seq(Symbols)
  BY SuffixIs
<1>2. first.says \in Says /\ (first.says = "frame" => first.body \in Seq(Symbols))
  BY <1>1, FirstIs DEF FirstAt
<1>3. Len(s) - i \in Nat
  OBVIOUS
<1> HIDE DEF first
<1>4. CASE first.says = "frame"
  <2>1. later \in Rows
    BY <1>4 DEF first
  <2>2. <<first.body>> \in Seq(Seq(Symbols)) /\ later.bodies \in Seq(Seq(Symbols))
    BY <1>2, <1>4, <2>1 DEF Rows
  <2>3. <<first.body>> \o later.bodies \in Seq(Seq(Symbols))
    BY <2>2, ConcatProperties
  <2>4. [later EXCEPT !.bodies = <<first.body>> \o @] \in Rows
    BY <2>1, <2>3 DEF Rows
  <2> QED BY <1>4, <2>4 DEF RowOf, first
<1>5. CASE first.says # "frame"
  <2>1. [bodies |-> <<>>, says |-> first.says, rest |-> Len(s) - i] \in Rows
    BY <1>2, <1>3 DEF Rows
  <2> QED BY <1>5, <2>1 DEF RowOf, first
<1> QED BY <1>4, <1>5

\* A frame ends behind the offset where it starts.
LEMMA EndAtIs ==
    ASSUME NEW s \in Seq(Symbols), NEW i \in 0 .. Len(s), FirstAt(s, i).says = "frame"
    PROVE  EndAt(s, i) \in i + 1 .. Len(s)
<1>1. Suffix(s, i) \in Seq(Symbols) /\ Len(Suffix(s, i)) = Len(s) - i
  BY SuffixIs
<1>2. FirstAt(s, i).end \in 2 .. Len(s) - i
  BY <1>1, FirstIs DEF FirstAt
<1> QED BY <1>2 DEF EndAt

\* What the recursion of Reference satisfies, from an offset on.
RefersFrom(f, s, from) ==
    /\ f \in [from .. Len(s) -> Rows]
    /\ \A i \in from .. Len(s) : f[i] = RowOf(FirstAt(s, i), f[EndAt(s, i)], Len(s) - i)

LEMMA RefersEarlier ==
    ASSUME NEW s \in Seq(Symbols), NEW n \in 0 .. Len(s), NEW f,
           n # Len(s) => RefersFrom(f, s, n + 1)
    PROVE  \E g : RefersFrom(g, s, n)
<1> DEFINE N == Len(s)
           row == RowOf(FirstAt(s, n), f[EndAt(s, n)], N - n)
           g == [i \in n .. N |-> IF i = n THEN row ELSE f[i]]
<1>1. N \in Nat /\ n \in 0 .. N
  OBVIOUS
<1>2. /\ \A i \in n + 1 .. N : f[i] \in Rows
      /\ \A i \in n + 1 .. N : f[i] = RowOf(FirstAt(s, i), f[EndAt(s, i)], N - i)
  BY <1>1 DEF RefersFrom
<1>3. row \in Rows
  <2>1. FirstAt(s, n).says = "frame" => f[EndAt(s, n)] \in Rows
    BY <1>2, EndAtIs
  <2> QED BY <2>1, RowIs
<1> HIDE DEF row
<1>4. g \in [n .. N -> Rows]
  BY <1>1, <1>2, <1>3
<1>5. \A i \in n + 1 .. N : g[i] = f[i]
  BY <1>1
<1>6. g[n] = row
  BY <1>1
<1> HIDE DEF g, N
<1>7. ASSUME NEW i \in n .. N PROVE g[i] = RowOf(FirstAt(s, i), g[EndAt(s, i)], N - i)
  <2>1. i \in 0 .. N
    BY <1>1
  <2>2. FirstAt(s, i).says = "frame" => g[EndAt(s, i)] = f[EndAt(s, i)]
    <3>1. FirstAt(s, i).says = "frame" => EndAt(s, i) \in i + 1 .. N
      BY <2>1, EndAtIs DEF N
    <3> QED BY <1>1, <1>5, <3>1
  <2>3. RowOf(FirstAt(s, i), g[EndAt(s, i)], N - i) = RowOf(FirstAt(s, i), f[EndAt(s, i)], N - i)
    BY <2>2 DEF RowOf
  <2>4. CASE i = n
    BY <1>6, <2>3, <2>4 DEF row
  <2>5. CASE i # n
    <3>1. i \in n + 1 .. N
      BY <1>1, <2>5
    <3> QED BY <1>2, <1>5, <2>3, <3>1
  <2> QED BY <2>4, <2>5
<1>8. RefersFrom(g, s, n)
  BY <1>4, <1>7 DEF RefersFrom, N
<1> QED BY <1>8

LEMMA ReferenceIs ==
    ASSUME NEW s \in Seq(Symbols)
    PROVE  \E f : RefersFrom(f, s, 0) /\ Reference(s) = f[0]
<1> DEFINE N == Len(s)
           body(f) == [i \in 0 .. N |-> LET first == First(Suffix(s, i))
                                        IN IF first.says = "frame"
                                           THEN [f[i + first.end] EXCEPT !.bodies = <<first.body>> \o @]
                                           ELSE [bodies |-> <<>>, says |-> first.says, rest |-> N - i]]
           from == CHOOSE f : f = body(f)
           G == {n \in 0 .. N : \E f : RefersFrom(f, s, N - n)}
<1>1. N \in Nat
  OBVIOUS
<1>2. \A f : body(f) = [i \in 0 .. N |-> RowOf(FirstAt(s, i), f[EndAt(s, i)], N - i)]
  BY Zenon DEF RowOf, FirstAt, EndAt
<1>3. 0 .. N \subseteq G
  <2>1. 0 \in G
    <3>1. \E g : RefersFrom(g, s, N)
      BY <1>1, RefersEarlier
    <3> QED BY <1>1, <3>1
  <2>2. ASSUME NEW n \in 1 .. N, n - 1 \in G PROVE n \in G
    <3>1. PICK f : RefersFrom(f, s, N - (n - 1))
      BY <2>2
    <3>2. N - (n - 1) = (N - n) + 1 /\ N - n \in 0 .. N
      BY <1>1
    <3>3. RefersFrom(f, s, (N - n) + 1)
      BY <3>1, <3>2
    <3>4. \E g : RefersFrom(g, s, N - n)
      BY <3>2, <3>3, RefersEarlier
    <3> QED BY <1>1, <3>4
  <2> HIDE DEF G
  <2> QED BY <1>1, <2>1, <2>2, Persists
<1>4. PICK f : RefersFrom(f, s, 0)
  <2>1. N \in G /\ N - N = 0
    BY <1>1, <1>3
  <2>2. \E f : RefersFrom(f, s, N - N)
    BY <2>1
  <2> QED BY <2>1, <2>2
<1> HIDE DEF body, G
<1>5. f = body(f)
  <2>1. f \in [0 .. N -> Rows] /\ \A i \in 0 .. N : f[i] = RowOf(FirstAt(s, i), f[EndAt(s, i)], N - i)
    BY <1>4 DEF RefersFrom
  <2>2. f = [i \in 0 .. N |-> f[i]]
    BY <2>1
  <2>3. f = [i \in 0 .. N |-> RowOf(FirstAt(s, i), f[EndAt(s, i)], N - i)]
    BY <2>1, <2>2, Zenon
  <2> QED BY <1>2, <2>3
<1>6. from = body(from)
  BY <1>5
<1>7. Reference(s) = from[0]
  BY DEF Reference, body
<1> HIDE DEF from
<1>8. from = [i \in 0 .. N |-> RowOf(FirstAt(s, i), from[EndAt(s, i)], N - i)]
  BY <1>2, <1>6
<1>9. \A i \in 0 .. N : from[i] = RowOf(FirstAt(s, i), from[EndAt(s, i)], N - i)
  BY <1>8, Zenon
<1> DEFINE H == {n \in 0 .. N : \A i \in N - n .. N : from[i] \in Rows}
<1>10. 0 .. N \subseteq H
  <2>1. ASSUME NEW n \in 0 .. N, \A i \in (N - n) + 1 .. N : from[i] \in Rows
        PROVE  n \in H
    <3>1. N - n \in 0 .. N
      BY <1>1
    <3>2. FirstAt(s, N - n).says = "frame" => EndAt(s, N - n) \in (N - n) + 1 .. N
      BY <3>1, EndAtIs
    <3>3. RowOf(FirstAt(s, N - n), from[EndAt(s, N - n)], N - (N - n)) \in Rows
      BY <2>1, <3>1, <3>2, RowIs
    <3>4. from[N - n] \in Rows
      BY <1>9, <3>1, <3>3
    <3>5. ASSUME NEW i \in N - n .. N PROVE from[i] \in Rows
      <4>1. i = N - n \/ i \in (N - n) + 1 .. N
        BY <1>1
      <4> QED BY <2>1, <3>4, <4>1
    <3> QED BY <3>5
  <2>2. 0 \in H
    <3>1. 0 \in 0 .. N /\ \A i \in (N - 0) + 1 .. N : from[i] \in Rows
      BY <1>1
    <3> HIDE DEF H
    <3> QED BY <2>1, <3>1
  <2>3. ASSUME NEW n \in 1 .. N, n - 1 \in H PROVE n \in H
    <3>1. \A i \in N - (n - 1) .. N : from[i] \in Rows
      BY <2>3
    <3>2. N - (n - 1) = (N - n) + 1 /\ n \in 0 .. N
      BY <1>1
    <3>3. \A i \in (N - n) + 1 .. N : from[i] \in Rows
      BY <3>1, <3>2
    <3> HIDE DEF H
    <3> QED BY <2>1, <3>2, <3>3
  <2> HIDE DEF H
  <2> QED BY <1>1, <2>2, <2>3, Persists
<1>11. \A i \in 0 .. N : from[i] \in Rows
  <2>1. N \in H
    BY <1>1, <1>10
  <2>2. \A i \in N - N .. N : from[i] \in Rows
    BY <2>1
  <2> QED BY <1>1, <2>2
<1>12. from \in [0 .. N -> Rows]
  <2>1. from = [i \in 0 .. N |-> from[i]]
    BY <1>8
  <2> QED BY <1>11, <2>1
<1>13. RefersFrom(from, s, 0)
  BY <1>9, <1>12 DEF RefersFrom
<1> QED BY <1>7, <1>13

\* The frames of p that fs holds end at the offsets of o.
Follows(o, p, fs) ==
    /\ o \in [0 .. Len(fs) -> 0 .. Len(p)]
    /\ o[0] = 0
    /\ \A k \in 1 .. Len(fs) :
         /\ FirstAt(p, o[k - 1]).says = "frame"
         /\ FirstAt(p, o[k - 1]).body = fs[k]
         /\ o[k] = EndAt(p, o[k - 1])

LEMMA NothingFollows ==
    ASSUME NEW p \in Seq(Symbols) PROVE Follows([k \in 0 .. 0 |-> 0], p, <<>>)
BY DEF Follows

\* More that is pushed leaves the frames there are.
LEMMA FollowsLonger ==
    ASSUME NEW p \in Seq(Symbols), NEW t \in Seq(Symbols), NEW fs \in Seq(Seq(Symbols)), NEW o,
           Follows(o, p, fs)
    PROVE  Follows(o, p \o t, fs)
<1> DEFINE q == p \o t
<1>1. q \in Seq(Symbols) /\ Len(q) = Len(p) + Len(t) /\ Len(p) \in Nat /\ Len(t) \in Nat
  BY ConcatProperties
<1>2. /\ o \in [0 .. Len(fs) -> 0 .. Len(p)] /\ o[0] = 0 /\ Len(fs) \in Nat
      /\ \A k \in 1 .. Len(fs) : /\ FirstAt(p, o[k - 1]).says = "frame"
                                 /\ FirstAt(p, o[k - 1]).body = fs[k]
                                 /\ o[k] = EndAt(p, o[k - 1])
  BY DEF Follows
<1>3. o \in [0 .. Len(fs) -> 0 .. Len(q)]
  BY <1>1, <1>2
<1>4. ASSUME NEW k \in 1 .. Len(fs)
      PROVE  FirstAt(q, o[k - 1]) = FirstAt(p, o[k - 1])
  <2>1. k - 1 \in 0 .. Len(fs)
    BY <1>2
  <2>2. o[k - 1] \in 0 .. Len(p)
    BY <1>2, <2>1
  <2>3. Suffix(p, o[k - 1]) \in Seq(Symbols) /\ Suffix(q, o[k - 1]) = Suffix(p, o[k - 1]) \o t
    BY <2>2, SuffixIs, SuffixExtends
  <2>4. First(Suffix(p, o[k - 1])).says = "frame"
    BY <1>2 DEF FirstAt
  <2>5. First(Suffix(p, o[k - 1]) \o t) = First(Suffix(p, o[k - 1]))
    BY <2>3, <2>4, FirstExtends
  <2> QED BY <2>3, <2>5 DEF FirstAt
<1> HIDE DEF q
<1>5. ASSUME NEW k \in 1 .. Len(fs)
      PROVE  /\ FirstAt(q, o[k - 1]).says = "frame"
             /\ FirstAt(q, o[k - 1]).body = fs[k]
             /\ o[k] = EndAt(q, o[k - 1])
  BY <1>2, <1>4 DEF EndAt
<1>6. Follows(o, q, fs)
  BY <1>2, <1>3, <1>5 DEF Follows
<1> QED BY <1>6 DEF q

\* The frames of p that gs holds end at that offset.
Reaches(p, gs, end) == \E u : Follows(u, p, gs) /\ u[Len(gs)] = end

\* One frame more.
LEMMA FollowsFurther ==
    ASSUME NEW p \in Seq(Symbols), NEW fs \in Seq(Seq(Symbols)), NEW o, Follows(o, p, fs),
           NEW i, i = o[Len(fs)], FirstAt(p, i).says = "frame",
           NEW gs, gs = Append(fs, FirstAt(p, i).body)
    PROVE  Reaches(p, gs, EndAt(p, i))
<1> DEFINE K == Len(fs)
           u == [k \in 0 .. K + 1 |-> IF k = K + 1 THEN EndAt(p, i) ELSE o[k]]
<1>1. /\ o \in [0 .. K -> 0 .. Len(p)] /\ o[0] = 0 /\ K \in Nat
      /\ \A k \in 1 .. K : /\ FirstAt(p, o[k - 1]).says = "frame"
                           /\ FirstAt(p, o[k - 1]).body = fs[k]
                           /\ o[k] = EndAt(p, o[k - 1])
  BY DEF Follows
<1>2. i \in 0 .. Len(p)
  <2>1. K \in 0 .. K /\ i = o[K]
    BY <1>1
  <2> QED BY <1>1, <2>1
<1>3. EndAt(p, i) \in 0 .. Len(p)
  <2>1. EndAt(p, i) \in i + 1 .. Len(p)
    BY <1>2, EndAtIs
  <2> QED BY <1>2, <2>1
<1>4. FirstAt(p, i).body \in Seq(Symbols)
  <2>1. Suffix(p, i) \in Seq(Symbols)
    BY <1>2, SuffixIs
  <2> QED BY <2>1, FirstIs DEF FirstAt
<1>5. /\ gs \in Seq(Seq(Symbols)) /\ Len(gs) = K + 1
      /\ \A k \in 1 .. K : gs[k] = fs[k]
      /\ gs[K + 1] = FirstAt(p, i).body
  BY <1>1, <1>4, AppendProperties
<1>6. u \in [0 .. K + 1 -> 0 .. Len(p)] /\ u[0] = 0 /\ u[K + 1] = EndAt(p, i)
  BY <1>1, <1>3
<1>7. \A k \in 0 .. K : u[k] = o[k]
  BY <1>1
<1> HIDE DEF K, u
<1>8. ASSUME NEW k \in 1 .. K + 1
      PROVE  /\ FirstAt(p, u[k - 1]).says = "frame"
             /\ FirstAt(p, u[k - 1]).body = gs[k]
             /\ u[k] = EndAt(p, u[k - 1])
  <2>1. u[k - 1] = o[k - 1]
    BY <1>1, <1>7
  <2>2. CASE k = K + 1
    <3>1. u[k - 1] = i
      BY <1>1, <2>1, <2>2 DEF K
    <3> QED BY <1>5, <1>6, <2>2, <3>1
  <2>3. CASE k # K + 1
    <3>1. k \in 1 .. K /\ u[k] = o[k]
      BY <1>1, <1>7, <2>3
    <3> QED BY <1>1, <1>5, <2>1, <3>1
  <2> QED BY <2>2, <2>3
<1>9. Follows(u, p, gs)
  BY <1>5, <1>6, <1>8 DEF Follows
<1> QED BY <1>5, <1>6, <1>9 DEF Reaches

\* The reference begins with the frames that follow.
LEMMA ReferenceFollows ==
    ASSUME NEW p \in Seq(Symbols), NEW fs \in Seq(Seq(Symbols)), NEW o, Follows(o, p, fs)
    PROVE  \E row \in Rows :
             /\ Reference(p) = [row EXCEPT !.bodies = fs \o @]
             /\ LET first == FirstAt(p, o[Len(fs)]) IN
                  first.says # "frame" =>
                    row = [bodies |-> <<>>, says |-> first.says, rest |-> Len(p) - o[Len(fs)]]
<1> DEFINE K == Len(fs)
<1>1. PICK f : RefersFrom(f, p, 0) /\ Reference(p) = f[0]
  BY ReferenceIs
<1>2. /\ f \in [0 .. Len(p) -> Rows] /\ Len(p) \in Nat
      /\ \A i \in 0 .. Len(p) : f[i] = RowOf(FirstAt(p, i), f[EndAt(p, i)], Len(p) - i)
  BY <1>1 DEF RefersFrom
<1>3. /\ o \in [0 .. K -> 0 .. Len(p)] /\ o[0] = 0 /\ K \in Nat
      /\ \A k \in 1 .. K : /\ FirstAt(p, o[k - 1]).says = "frame"
                           /\ FirstAt(p, o[k - 1]).body = fs[k]
                           /\ o[k] = EndAt(p, o[k - 1])
  BY DEF Follows
<1>4. \A k \in 0 .. K : /\ SubSeq(fs, 1, k) \in Seq(Seq(Symbols)) /\ f[o[k]] \in Rows
                        /\ f[o[k]].bodies \in Seq(Seq(Symbols))
  <2> SUFFICES ASSUME NEW k \in 0 .. K
               PROVE /\ SubSeq(fs, 1, k) \in Seq(Seq(Symbols)) /\ f[o[k]] \in Rows
                     /\ f[o[k]].bodies \in Seq(Seq(Symbols))
    OBVIOUS
  <2>1. \A j \in 1 .. k : fs[j] \in Seq(Symbols)
    BY <1>3
  <2>2. 1 \in Int /\ k \in Int
    OBVIOUS
  <2>3. SubSeq(fs, 1, k) \in Seq(Seq(Symbols))
    BY <2>1, <2>2, SubSeqProperties
  <2>4. f[o[k]] \in Rows
    BY <1>2, <1>3
  <2> QED BY <2>3, <2>4 DEF Rows
<1> DEFINE Unfolds(k) == Reference(p) = [f[o[k]] EXCEPT !.bodies = SubSeq(fs, 1, k) \o @]
           G == {k \in 0 .. K : Unfolds(k)}
<1>5. Unfolds(0)
  <2>1. SubSeq(fs, 1, 0) = <<>>
    BY SubSeqEmpty
  <2>2. f[0] \in Rows /\ f[o[0]] = f[0]
    <3>1. 0 \in 0 .. K /\ o[0] = 0
      BY <1>3
    <3> QED BY <1>4, <3>1
  <2>3. <<>> \o f[0].bodies = f[0].bodies
    BY <2>2, ConcatEmptySeq DEF Rows
  <2>4. [f[0] EXCEPT !.bodies = f[0].bodies] = f[0]
    BY <2>2 DEF Rows
  <2> QED BY <1>1, <2>1, <2>2, <2>3, <2>4
<1>6. ASSUME NEW k \in 1 .. K, Unfolds(k - 1) PROVE Unfolds(k)
  <2> DEFINE a == SubSeq(fs, 1, k - 1)
             b == <<fs[k]>>
             row == f[o[k]]
  <2>1. k - 1 \in 0 .. K /\ k \in 0 .. K
    BY <1>3
  <2>2. a \in Seq(Seq(Symbols)) /\ row \in Rows /\ row.bodies \in Seq(Seq(Symbols))
    BY <1>4, <2>1
  <2>3. b \in Seq(Seq(Symbols))
    BY <1>3
  <2>4. o[k - 1] \in 0 .. Len(p)
    BY <1>3, <2>1
  <2>5. f[o[k - 1]] = RowOf(FirstAt(p, o[k - 1]), f[EndAt(p, o[k - 1])], Len(p) - o[k - 1])
    BY <1>2, <2>4
  <2>6. f[o[k - 1]] = [row EXCEPT !.bodies = b \o @]
    BY <1>3, <2>5 DEF RowOf
  <2>7. SubSeq(fs, 1, k) = a \o b
    <3>1. 1 \in 1 .. Len(fs) + 1 /\ k - 1 \in 1 - 1 .. Len(fs) /\ k \in k - 1 .. Len(fs)
      BY <1>3
    <3>2. SubSeq(fs, 1, k - 1) \o SubSeq(fs, (k - 1) + 1, k) = SubSeq(fs, 1, k)
      BY <3>1, ConcatAdjacentSubSeq
    <3>3. (k - 1) + 1 = k
      BY <2>1
    <3>4. SubSeq(fs, k, k) = <<fs[k]>>
      BY <1>3, OneOf
    <3> QED BY <3>2, <3>3, <3>4
  <2> HIDE DEF a, b, row
  <2>8. (a \o b) \o row.bodies = a \o (b \o row.bodies)
    <3> DEFINE c == row.bodies
    <3>1. a \in Seq(Seq(Symbols)) /\ b \in Seq(Seq(Symbols)) /\ c \in Seq(Seq(Symbols))
      BY <2>2, <2>3
    <3> HIDE DEF c
    <3>2. (a \o b) \o c = a \o (b \o c)
      BY <3>1, BodiesJoined, ZenonT(30)
    <3> QED BY <3>2 DEF c
  <2>9. [[row EXCEPT !.bodies = b \o @] EXCEPT !.bodies = a \o @]
          = [row EXCEPT !.bodies = (a \o b) \o @]
    BY <2>2, <2>8 DEF Rows
  <2>10. Reference(p) = [f[o[k - 1]] EXCEPT !.bodies = a \o @]
    BY <1>6 DEF a
  <2> QED BY <2>6, <2>7, <2>9, <2>10 DEF row
<1>7. Unfolds(K)
  <2>1. \A k \in 1 .. K : k - 1 \in G => k \in G
    <3> HIDE DEF Unfolds
    <3> QED BY <1>6
  <2>2. 0 \in G
    <3>1. 0 \in 0 .. K
      BY <1>3
    <3> HIDE DEF Unfolds
    <3> QED BY <1>5, <3>1
  <2>3. 0 .. K \subseteq G
    <3> HIDE DEF G
    <3> QED BY <1>3, <2>1, <2>2, Persists
  <2>4. K \in 0 .. K
    BY <1>3
  <2>5. K \in G
    BY <2>3, <2>4
  <2> HIDE DEF Unfolds
  <2> QED BY <2>5
<1>8. SubSeq(fs, 1, K) = fs
  BY SubSeqFull
<1> HIDE DEF G
<1>9. Reference(p) = [f[o[K]] EXCEPT !.bodies = fs \o @] /\ f[o[K]] \in Rows /\ o[K] \in 0 .. Len(p)
  <2>1. K \in 0 .. K
    BY <1>3
  <2>2. f[o[K]] \in Rows /\ o[K] \in 0 .. Len(p)
    BY <1>3, <1>4, <2>1
  <2> QED BY <1>7, <1>8, <2>2
<1>10. FirstAt(p, o[K]).says # "frame" =>
         f[o[K]] = [bodies |-> <<>>, says |-> FirstAt(p, o[K]).says, rest |-> Len(p) - o[K]]
  BY <1>2, <1>9 DEF RowOf
<1> QED BY <1>9, <1>10

-----------------------------------------------------------------------------
(* Exactness: what the decoder has looked at, and what is left of the stream
   behind the last frame it returned. *)

\* A decoder that stands before the rest s of what was pushed.
At(s) ==
    /\ call # "ended" =>
         /\ s = block \o buf
         /\ answer \in {"none", "frame"}
         /\ IF length = NoLength THEN Partial(block, lineStart, lines)
            ELSE Whole(block) /\ HeaderOf(block).fault = NoLength /\ HeaderOf(block).length = length
    /\ call = "idle" /\ length # NoLength => Len(buf) < length
    /\ call = "finish" => s # <<>>
    /\ call = "ended" =>
         /\ answer \in {"framing", "too_large"} => First(s).says = answer
         /\ answer = "eof" => First(s).says = "none" /\ s # <<>>
         /\ answer = "none" => s = <<>>

Exact == \E o : Follows(o, pushed, frames) /\ At(Suffix(pushed, o[Len(frames)]))

\* A header that is not finished, or a body that is not, is no frame yet.
LEMMA NotYet ==
    ASSUME Within, NEW s, s = block \o buf,
           IF length = NoLength THEN Partial(block, lineStart, lines) /\ buf = <<>>
           ELSE /\ Whole(block) /\ HeaderOf(block).fault = NoLength /\ HeaderOf(block).length = length
                /\ Len(buf) < length
    PROVE  First(s).says = "none"
<1>1. block \in Seq(Symbols) /\ buf \in Seq(Symbols) /\ length \in Nat \cup {NoLength}
  BY DEF Within, DecoderTypeOK
<1>2. CASE length = NoLength
  <2>1. s = block
    BY <1>1, <1>2, ConcatEmptySeq
  <2> QED BY <1>1, <1>2, <2>1, FirstOfPartial
<1>3. CASE length # NoLength
  <2>1. HeaderEnds(block) = {Len(block)} /\ ~\E i \in 1 .. Len(block) : ~Inside(block, i)
    BY <1>3 DEF Whole
  <2>2. Len(s) = Len(block) + Len(buf) /\ Len(block) \in Nat /\ Len(buf) \in Nat
    BY <1>1, ConcatProperties
  <2>3. Len(s) < Len(block) + length
    BY <1>1, <1>3, <2>2
  <2>4. HeaderOf(block).fault = NoLength /\ HeaderOf(block).length = length
    BY <1>3
  <2>5. First(s) = [says |-> "none", body |-> <<>>, end |-> 0]
    BY <1>1, <2>1, <2>3, <2>4, FirstOfHeader
  <2> QED BY <2>5
<1> QED BY <1>2, <1>3

LEMMA AtPush ==
    ASSUME Within, NEW s \in Seq(Symbols), At(s), NEW n \in 1 .. Len(unread), Push(n),
           NEW t, t = SubSeq(unread, 1, n)
    PROVE  t \in Seq(Symbols) /\ At(s \o t)'
<1>1. block \in Seq(Symbols) /\ buf \in Seq(Symbols) /\ unread \in Seq(Symbols)
  BY DEF Within, DecoderTypeOK
<1>2. t \in Seq(Symbols)
  <2>1. n \in Nat /\ n <= Len(unread)
    BY <1>1
  <2> QED BY <1>1, <2>1, PrefixIs
<1>3. /\ call = "idle" /\ call' = "push" /\ buf' = buf \o t
      /\ UNCHANGED <<block, lineStart, lines, length, answer>>
  BY DEF Push
<1>4. /\ s = block \o buf /\ answer \in {"none", "frame"}
      /\ IF length = NoLength THEN Partial(block, lineStart, lines)
         ELSE Whole(block) /\ HeaderOf(block).fault = NoLength /\ HeaderOf(block).length = length
  BY <1>3 DEF At
<1>5. s \o t = block \o (buf \o t)
  <2>1. block \in Seq(Symbols) /\ buf \in Seq(Symbols) /\ t \in Seq(Symbols)
    BY <1>1, <1>2
  <2>2. (block \o buf) \o t = block \o (buf \o t)
    BY <2>1, Joined
  <2> QED BY <1>4, <2>2
<1> QED BY <1>2, <1>3, <1>4, <1>5 DEF At

LEMMA AtFinish ==
    ASSUME Within, NEW s \in Seq(Symbols), At(s), Finish PROVE At(s)'
<1>1. block \in Seq(Symbols) /\ buf \in Seq(Symbols) /\ length \in Nat \cup {NoLength}
  BY DEF Within, DecoderTypeOK
<1>2. call = "idle" /\ UNCHANGED <<buf, block, lineStart, lines, length>>
  BY DEF Finish
<1>3. /\ s = block \o buf /\ answer \in {"none", "frame"}
      /\ IF length = NoLength THEN Partial(block, lineStart, lines)
         ELSE Whole(block) /\ HeaderOf(block).fault = NoLength /\ HeaderOf(block).length = length
  BY <1>2 DEF At
<1>4. Len(s) = Len(block) + Len(buf) /\ Len(block) \in Nat /\ Len(buf) \in Nat
  BY <1>1, <1>3, ConcatProperties
<1>5. CASE buf # <<>>
  <2>1. call' = "finish" /\ answer' = answer
    BY <1>5 DEF Finish
  <2>2. s # <<>>
    <3>1. Len(buf) # 0
      BY <1>1, <1>5, EmptySeq
    <3> QED BY <1>4, <3>1
  <2> QED BY <1>2, <1>3, <2>1, <2>2 DEF At
<1>6. CASE buf = <<>>
  <2>1. /\ call' = "ended"
        /\ answer' = IF length = NoLength /\ block = <<>> THEN "none" ELSE "eof"
    BY <1>6 DEF Finish
  <2>2. s = block
    BY <1>1, <1>3, <1>6, ConcatEmptySeq
  <2>3. CASE length = NoLength /\ block = <<>>
    BY <2>1, <2>2, <2>3 DEF At
  <2>4. CASE ~(length = NoLength /\ block = <<>>)
    <3>1. length # NoLength => Len(buf) < length
      BY <1>2 DEF At
    <3>2. First(s).says = "none"
      BY <1>3, <1>6, <3>1, NotYet
    <3>3. s # <<>>
      <4>1. CASE length = NoLength
        BY <2>2, <2>4, <4>1
      <4>2. CASE length # NoLength
        <5>1. Len(buf) = 0 /\ Len(buf) < length
          BY <1>6, <3>1, <4>2
        <5>2. HeaderEnds(block) = {Len(block)}
          BY <1>3, <4>2 DEF Whole
        <5>3. Len(block) >= 2
          BY <1>1, <5>2, HeaderIs
        <5> QED BY <1>4, <5>3, <2>2
      <4> QED BY <4>1, <4>2
    <3>4. answer' = "eof"
      BY <2>1, <2>4
    <3> QED BY <2>1, <3>2, <3>3, <3>4 DEF At
  <2> QED BY <2>3, <2>4
<1> QED BY <1>5, <1>6

LEMMA AtNeedMore ==
    ASSUME Within, NEW s \in Seq(Symbols), At(s), NeedMore PROVE At(s)'
<1>1. /\ call \in {"push", "finish"} /\ Answer("none")
      /\ IF length = NoLength THEN buf = <<>> ELSE Len(buf) < length
      /\ UNCHANGED <<buf, block, lineStart, lines, length>>
  BY DEF NeedMore
<1>2. /\ s = block \o buf /\ answer \in {"none", "frame"}
      /\ IF length = NoLength THEN Partial(block, lineStart, lines)
         ELSE Whole(block) /\ HeaderOf(block).fault = NoLength /\ HeaderOf(block).length = length
  BY <1>1 DEF At
<1>3. First(s).says = "none"
  BY <1>1, <1>2, NotYet
<1>4. CASE call = "finish"
  <2>1. call' = "ended" /\ answer' = "eof"
    BY <1>1, <1>4 DEF Answer
  <2>2. s # <<>>
    BY <1>4 DEF At
  <2> QED BY <1>3, <2>1, <2>2 DEF At
<1>5. CASE call = "push"
  <2>1. call' = "idle" /\ answer' = "none"
    BY <1>1, <1>5 DEF Answer, Faults
  <2>2. length # NoLength => Len(buf) < length
    BY <1>1
  <2> QED BY <1>1, <1>2, <2>1, <2>2 DEF At
<1> QED BY <1>1, <1>4, <1>5

LEMMA AtReturnFrame ==
    ASSUME Within, NEW s \in Seq(Symbols), At(s), ReturnFrame
    PROVE  /\ First(s).says = "frame"
           /\ frames' = Append(frames, First(s).body)
           /\ \E r : r = Suffix(s, First(s).end) /\ At(r)'
<1>1. block \in Seq(Symbols) /\ buf \in Seq(Symbols) /\ length \in Nat \cup {NoLength}
  BY DEF Within, DecoderTypeOK
<1>2. /\ call \in {"push", "finish"} /\ length # NoLength /\ Len(buf) >= length
      /\ frames' = Append(frames, SubSeq(buf, 1, length))
      /\ buf' = Suffix(buf, length)
      /\ block' = <<>> /\ lineStart' = 0 /\ lines' = 0 /\ length' = NoLength
      /\ Answer("frame")
  BY DEF ReturnFrame, Rest, Suffix
<1>3. /\ s = block \o buf
      /\ Whole(block) /\ HeaderOf(block).fault = NoLength /\ HeaderOf(block).length = length
  BY <1>2 DEF At
<1>4. HeaderEnds(block) = {Len(block)} /\ ~\E i \in 1 .. Len(block) : ~Inside(block, i)
  BY <1>3 DEF Whole
<1>5. Len(s) = Len(block) + Len(buf) /\ Len(block) \in Nat /\ Len(buf) \in Nat
  BY <1>1, <1>3, ConcatProperties
<1>6. ~(Len(s) < Len(block) + length) /\ length \in 0 .. Len(buf)
  BY <1>1, <1>2, <1>5
<1>7. First(s) = [says |-> "frame", body |-> SubSeq(s, Len(block) + 1, Len(block) + length),
                  end |-> Len(block) + length]
  BY <1>1, <1>3, <1>4, <1>6, FirstOfHeader
<1>8. /\ Suffix(s, Len(block) + length) = Suffix(buf, length)
      /\ SubSeq(s, Len(block) + 1, Len(block) + length) = SubSeq(buf, 1, length)
  <2>1. block \in Seq(Symbols) /\ buf \in Seq(Symbols) /\ s = block \o buf
    BY <1>1, <1>3
  <2>2. PastHead(s, block, buf, length)
    BY <1>6, <2>1, SuffixPastHead
  <2> QED BY <2>2 DEF PastHead
<1> DEFINE rest == Suffix(buf, length)
<1>9. rest \in Seq(Symbols)
  BY <1>1, <1>6, SuffixIs
<1>10. <<>> \o rest = rest
  BY <1>9, ConcatEmptySeq
<1> HIDE DEF rest
<1>11. \/ call' = "ended" /\ answer' = "frame"
       \/ call' = "idle" /\ answer' = "frame"
  BY <1>2 DEF Answer, Faults
<1>12. Suffix(s, First(s).end) = rest /\ buf' = rest
  BY <1>2, <1>7, <1>8 DEF rest
<1>13. PICK r \in Seq(Symbols) : r = Suffix(s, First(s).end) /\ r = buf' /\ <<>> \o r = r
  BY <1>9, <1>10, <1>12
<1>14. At(r)'
  BY <1>2, <1>11, <1>13, NothingIsPartial DEF At
<1>15. First(s).says = "frame" /\ First(s).body = SubSeq(buf, 1, length)
  <2> DEFINE x == SubSeq(s, Len(block) + 1, Len(block) + length)
             e == Len(block) + length
  <2>1. First(s) = [says |-> "frame", body |-> x, end |-> e]
    BY <1>7
  <2>2. x = SubSeq(buf, 1, length)
    BY <1>8
  <2> HIDE DEF x, e
  <2>3. [says |-> "frame", body |-> x, end |-> e].body = x
    OBVIOUS
  <2>4. First(s).says = "frame"
    BY <2>1
  <2>5. First(s).body = x
    BY <2>1, <2>3, Zenon
  <2> QED BY <2>2, <2>4, <2>5, Zenon
<1> QED BY <1>2, <1>13, <1>14, <1>15

LEMMA AtHeaderByte ==
    ASSUME Within, NEW s \in Seq(Symbols), At(s), ReadHeaderByte PROVE At(s)'
<1> DEFINE t == Append(block, Head(buf))
           N == Len(block)
           r == Tail(buf)
           parsed == Parsed(HeaderLines(SubSeq(t, 1, lineStart)))
<1>1. /\ block \in Seq(Symbols) /\ buf \in Seq(Symbols) /\ length \in Nat \cup {NoLength}
      /\ call # "ended" => lines <= LinesMax
  BY DEF Within, DecoderTypeOK
<1>2. /\ call \in {"push", "finish"} /\ length = NoLength /\ buf # <<>>
      /\ buf' = r /\ block' = t /\ r \in Seq(Symbols)
      /\ t \in Seq(Symbols) /\ Len(t) = N + 1 /\ N \in Nat
  BY HeaderByteIs
<1>3. s = block \o buf /\ answer \in {"none", "frame"} /\ Partial(block, lineStart, lines)
  BY <1>2 DEF At
<1>4. Head(buf) \in Symbols /\ buf = <<Head(buf)>> \o r
  BY <1>1, <1>2, HeadTailProperties
<1>5. s = t \o r
  <2> DEFINE x == Head(buf)
             b == block
  <2>1. <<x>> \in Seq(Symbols) /\ b \in Seq(Symbols) /\ s = b \o (<<x>> \o r)
    BY <1>1, <1>3, <1>4
  <2>2. t = b \o <<x>>
    BY <1>1, <1>4, AppendIsConcat
  <2> HIDE DEF x, b, t, r
  <2>3. (b \o <<x>>) \o r = b \o (<<x>> \o r)
    BY <1>2, <2>1, ConcatAssociative
  <2> QED BY <2>1, <2>2, <2>3
<1>6. /\ lineStart \in 0 .. N /\ lines \in Nat
      /\ N + 1 \in HeaderEnds(t) <=> EndsLine(t) /\ lineStart = N - 1
      /\ HeaderEnds(t) \subseteq {N + 1}
      /\ LineBefore(t, N + 2) = IF EndsLine(t) THEN N + 1 ELSE lineStart
      /\ Len(HeaderLines(t)) = IF EndsLine(t) THEN lines + 1 ELSE lines
      /\ \A i \in 1 .. N : Inside(t, i)
      /\ Inside(t, N + 1) <=>
           /\ N + 1 <= BlockMax /\ (N + 1) - lineStart <= LineMax
           /\ Len(HeaderLines(t)) <= (IF N + 1 \in HeaderEnds(t) THEN LinesMax + 1 ELSE LinesMax)
  <2> DEFINE x == Head(buf)
             b == block
  <2>1. b \in Seq(Symbols) /\ x \in Symbols /\ Partial(b, lineStart, lines) /\ t = Append(b, x) /\ N = Len(b)
    BY <1>1, <1>3, <1>4
  <2> HIDE DEF x, b, t, N
  <2>2. OneLonger(t, N, lineStart, lines)
    BY <2>1, OneMore
  <2> QED BY <2>2 DEF OneLonger
<1>7. \/ /\ Len(t) > BlockMax \/ Len(t) - lineStart > LineMax
         /\ call' = "ended" /\ answer' = "framing"
         /\ UNCHANGED <<lineStart, lines, length>>
      \/ /\ Len(t) <= BlockMax /\ Len(t) - lineStart <= LineMax
         /\ \/ /\ ~EndsLine(t)
               /\ UNCHANGED <<lineStart, lines, length, call, answer>>
            \/ /\ EndsLine(t) /\ lineStart = Len(t) - 2 /\ UNCHANGED <<lineStart, lines>>
               /\ parsed.fault = NoLength
               /\ length' = parsed.length /\ parsed.length \in 0 .. FrameMax
               /\ UNCHANGED <<call, answer>>
            \/ /\ EndsLine(t) /\ lineStart = Len(t) - 2 /\ UNCHANGED <<lineStart, lines, length>>
               /\ parsed.fault \in {"framing", "too_large"} /\ parsed.fault # NoLength
               /\ call' = "ended" /\ answer' = parsed.fault
            \/ /\ EndsLine(t) /\ ~(lineStart = Len(t) - 2) /\ lines + 1 > LinesMax
               /\ lines' = lines + 1
               /\ UNCHANGED <<lineStart, length>>
               /\ call' = "ended" /\ answer' = "framing"
            \/ /\ EndsLine(t) /\ ~(lineStart = Len(t) - 2) /\ lines + 1 <= LinesMax
               /\ lines' = lines + 1 /\ lineStart' = Len(t)
               /\ UNCHANGED <<length, call, answer>>
  BY HeaderByteIs
<1>8. lineStart = Len(t) - 2 => parsed = HeaderOf(t)
  BY DEF HeaderOf
<1>9. call = "finish" => s # <<>>
  BY DEF At
<1> HIDE DEF t, N, r, parsed
<1>10. ~Inside(t, N + 1) => First(s).says = "framing"
  <2>1. t # <<>> /\ Len(t) = N + 1
    BY <1>2, EmptySeq
  <2> QED BY <1>2, <1>5, <1>6, <2>1, FirstBeyond
<1>11. LinesMax \in Nat /\ BlockMax \in Nat /\ LineMax \in Nat /\ NoLength \notin Nat
  BY Limits
<1>12. CASE call' = "ended" /\ answer' = "framing" /\ ~Inside(t, N + 1)
  BY <1>10, <1>12 DEF At
\* The header goes on.
<1>13. ASSUME Partial(t, lineStart', lines'), UNCHANGED <<length, call, answer>> PROVE At(s)'
  <2>1. /\ s = block' \o buf' /\ answer' \in {"none", "frame"} /\ length' = NoLength
        /\ call' \in {"push", "finish"} /\ (call' = "finish" => s # <<>>)
        /\ Partial(block', lineStart', lines')
    BY <1>2, <1>3, <1>5, <1>9, <1>13
  <2> QED BY <2>1 DEF At
<1>14. \A i \in 1 .. N : Inside(t, i)
  BY <1>6
<1>15. ASSUME Inside(t, N + 1) PROVE \A i \in 1 .. Len(t) : Inside(t, i)
  <2> SUFFICES ASSUME NEW i \in 1 .. N + 1 PROVE Inside(t, i)
    BY <1>2
  <2>1. i \in 1 .. N \/ i = N + 1
    BY <1>2
  <2> QED BY <1>14, <1>15, <2>1
<1>16. CASE Len(t) > BlockMax \/ Len(t) - lineStart > LineMax
  <2>1. ~Inside(t, N + 1)
    BY <1>2, <1>6, <1>11, <1>16
  <2>2. call' = "ended" /\ answer' = "framing"
    BY <1>2, <1>6, <1>7, <1>11, <1>16
  <2> QED BY <1>12, <2>1, <2>2
<1> DEFINE inLimits == Len(t) <= BlockMax /\ Len(t) - lineStart <= LineMax
<1>17. CASE /\ inLimits /\ ~EndsLine(t)
            /\ UNCHANGED <<lineStart, lines, length, call, answer>>
  <2>1. N + 1 \notin HeaderEnds(t) /\ HeaderEnds(t) = {}
    BY <1>6, <1>17
  <2>2. Len(HeaderLines(t)) = lines /\ lines <= LinesMax
    BY <1>1, <1>2, <1>6, <1>17
  <2>3. Inside(t, N + 1)
    BY <1>2, <1>6, <1>17, <2>1, <2>2
  <2>4. LineBefore(t, Len(t) + 1) = lineStart
    <3>1. Len(t) + 1 = N + 2
      BY <1>2
    <3> QED BY <1>6, <1>17, <3>1
  <2>5. Partial(t, lineStart, lines)
    BY <1>15, <2>1, <2>2, <2>3, <2>4 DEF Partial
  <2> QED BY <1>13, <1>17, <2>5
<1>18. ASSUME inLimits, EndsLine(t), lineStart = Len(t) - 2
       PROVE  Whole(t) /\ HeaderEnds(t) = {Len(t)}
  <2>1. lineStart = N - 1 /\ N + 1 \in HeaderEnds(t)
    BY <1>2, <1>6, <1>18
  <2>2. Len(HeaderLines(t)) = lines + 1 /\ lines <= LinesMax
    BY <1>1, <1>2, <1>6, <1>18
  <2>3. Inside(t, N + 1)
    BY <1>2, <1>6, <1>11, <1>18, <2>1, <2>2
  <2>4. HeaderEnds(t) = {Len(t)}
    BY <1>2, <1>6, <2>1
  <2> QED BY <1>15, <2>3, <2>4 DEF Whole
<1>19. CASE /\ inLimits /\ EndsLine(t) /\ lineStart = Len(t) - 2
            /\ parsed.fault = NoLength
            /\ length' = parsed.length /\ parsed.length \in 0 .. FrameMax
            /\ UNCHANGED <<call, answer>>
  <2>1. Whole(t) /\ HeaderOf(t).fault = NoLength /\ HeaderOf(t).length = length' /\ length' # NoLength
    BY <1>8, <1>11, <1>18, <1>19
  <2>2. /\ s = block' \o buf' /\ answer' \in {"none", "frame"}
        /\ call' \in {"push", "finish"} /\ (call' = "finish" => s # <<>>)
        /\ Whole(block') /\ HeaderOf(block').fault = NoLength /\ HeaderOf(block').length = length'
    BY <1>2, <1>3, <1>5, <1>9, <1>19, <2>1
  <2> QED BY <2>1, <2>2 DEF At
<1>20. CASE /\ inLimits /\ EndsLine(t) /\ lineStart = Len(t) - 2
            /\ parsed.fault \in {"framing", "too_large"} /\ parsed.fault # NoLength
            /\ call' = "ended" /\ answer' = parsed.fault
  <2>1. /\ HeaderEnds(t) = {Len(t)} /\ ~\E i \in 1 .. Len(t) : ~Inside(t, i)
        /\ HeaderOf(t).fault # NoLength /\ HeaderOf(t).fault = answer'
    BY <1>8, <1>18, <1>20 DEF Whole
  <2>2. First(s) = [says |-> HeaderOf(t).fault, body |-> <<>>, end |-> 0]
    BY <1>2, <1>5, <2>1, FirstOfHeader
  <2>3. First(s).says = answer' /\ call' = "ended" /\ answer' \in {"framing", "too_large"}
    BY <1>20, <2>1, <2>2
  <2> QED BY <2>3 DEF At
<1>21. CASE /\ inLimits /\ EndsLine(t) /\ ~(lineStart = Len(t) - 2) /\ lines + 1 > LinesMax
            /\ call' = "ended" /\ answer' = "framing"
  <2>1. N + 1 \notin HeaderEnds(t)
    BY <1>2, <1>6, <1>21
  <2>2. ~Inside(t, N + 1)
    BY <1>6, <1>11, <1>21, <2>1
  <2> QED BY <1>12, <1>21, <2>2
<1>22. CASE /\ inLimits /\ EndsLine(t) /\ ~(lineStart = Len(t) - 2) /\ lines + 1 <= LinesMax
            /\ lines' = lines + 1 /\ lineStart' = Len(t)
            /\ UNCHANGED <<length, call, answer>>
  <2>1. N + 1 \notin HeaderEnds(t) /\ HeaderEnds(t) = {}
    BY <1>2, <1>6, <1>22
  <2>2. Len(HeaderLines(t)) = lines'
    BY <1>6, <1>22
  <2>3. Inside(t, N + 1)
    BY <1>2, <1>6, <1>22, <2>1, <2>2
  <2>4. LineBefore(t, Len(t) + 1) = lineStart'
    <3>1. Len(t) + 1 = N + 2 /\ Len(t) = N + 1
      BY <1>2
    <3> QED BY <1>6, <1>22, <3>1
  <2>5. Partial(t, lineStart', lines')
    BY <1>15, <2>1, <2>2, <2>3, <2>4 DEF Partial
  <2> QED BY <1>13, <1>22, <2>5
<1> QED BY <1>7, <1>16, <1>17, <1>19, <1>20, <1>21, <1>22

LEMMA ExactInit == DecoderInit => Exact
<1> SUFFICES ASSUME DecoderInit PROVE Exact
  OBVIOUS
<1>1. /\ pushed = <<>> /\ frames = <<>> /\ buf = <<>> /\ block = <<>> /\ lineStart = 0 /\ lines = 0
      /\ length = NoLength /\ call = "idle" /\ answer = "none"
  BY DEF DecoderInit
<1> DEFINE o == [k \in 0 .. 0 |-> 0]
<1>2. Follows(o, pushed, frames)
  BY <1>1, NothingFollows
<1>3. Suffix(pushed, o[Len(frames)]) = <<>>
  <2>1. Len(pushed) = 0 /\ o[Len(frames)] = 0 /\ pushed \in Seq(Symbols)
    BY <1>1
  <2>2. Suffix(pushed, 0) \in Seq(Symbols) /\ Len(Suffix(pushed, 0)) = 0
    BY <2>1, SuffixIs
  <2> QED BY <2>1, <2>2, EmptySeq
<1>4. <<>> = block \o buf
  BY <1>1
<1>5. At(<<>>)
  BY <1>1, <1>4, NothingIsPartial DEF At
<1> HIDE DEF o
<1> QED BY <1>2, <1>3, <1>5 DEF Exact

\* What was pushed is known to have frames, and the decoder stands behind them.
LEMMA Standing ==
    ASSUME Within, NEW o, Follows(o, pushed, frames)
    PROVE  /\ o[Len(frames)] \in 0 .. Len(pushed)
           /\ Suffix(pushed, o[Len(frames)]) \in Seq(Symbols)
<1>1. pushed \in Seq(Symbols) /\ Len(frames) \in 0 .. Len(frames)
  BY DEF Within, DecoderTypeOK
<1>2. o[Len(frames)] \in 0 .. Len(pushed)
  BY <1>1 DEF Follows
<1> QED BY <1>1, <1>2, SuffixIs

LEMMA ExactKept ==
    ASSUME Within, Exact, UNCHANGED <<pushed, frames>>,
           \A s \in Seq(Symbols) : At(s) => At(s)'
    PROVE  Exact'
<1>1. PICK o : Follows(o, pushed, frames) /\ At(Suffix(pushed, o[Len(frames)]))
  BY DEF Exact
<1>2. PICK s \in Seq(Symbols) : s = Suffix(pushed, o[Len(frames)])
  BY <1>1, Standing
<1>3. At(s)'
  BY <1>1, <1>2
<1>4. PICK p, fs : p = pushed /\ fs = frames
  OBVIOUS
<1>5. Follows(o, p, fs) /\ p = pushed' /\ fs = frames' /\ s = Suffix(p, o[Len(fs)])
  BY <1>1, <1>2, <1>4
<1> QED BY <1>3, <1>5 DEF Exact

LEMMA ExactPush ==
    ASSUME Within, Exact, NEW n \in 1 .. Len(unread), Push(n) PROVE Exact'
<1>1. PICK o : Follows(o, pushed, frames) /\ At(Suffix(pushed, o[Len(frames)]))
  BY DEF Exact
<1>2. PICK s \in Seq(Symbols) : s = Suffix(pushed, o[Len(frames)])
  BY <1>1, Standing
<1>3. PICK t : t = SubSeq(unread, 1, n)
  OBVIOUS
<1>4. t \in Seq(Symbols) /\ At(s \o t)'
  BY <1>1, <1>2, <1>3, AtPush
<1>5. PICK p, fs : p = pushed /\ fs = frames
  OBVIOUS
<1>6. p \in Seq(Symbols) /\ fs \in Seq(Seq(Symbols))
  BY <1>5 DEF Within, DecoderTypeOK
<1>7. pushed' = p \o t /\ frames' = fs
  BY <1>3, <1>5 DEF Push
<1>8. Follows(o, p \o t, fs)
  BY <1>1, <1>4, <1>5, <1>6, FollowsLonger
<1>9. Suffix(p \o t, o[Len(fs)]) = s \o t
  <2>1. o[Len(fs)] \in 0 .. Len(p)
    BY <1>1, <1>5, Standing
  <2>2. Suffix(p \o t, o[Len(fs)]) = Suffix(p, o[Len(fs)]) \o t
    BY <1>4, <1>6, <2>1, SuffixExtends
  <2> QED BY <1>2, <1>5, <2>2
<1>10. PICK q, v : q = p \o t /\ v = s \o t
  OBVIOUS
<1>11. Follows(o, q, fs) /\ q = pushed' /\ fs = frames' /\ v = Suffix(q, o[Len(fs)]) /\ At(v)'
  BY <1>4, <1>7, <1>8, <1>9, <1>10
<1> QED BY <1>11 DEF Exact

LEMMA ExactReturnFrame ==
    ASSUME Within, Exact, ReturnFrame PROVE Exact'
<1>1. PICK o : Follows(o, pushed, frames) /\ At(Suffix(pushed, o[Len(frames)]))
  BY DEF Exact
<1>2. PICK p, fs : p = pushed /\ fs = frames
  OBVIOUS
<1>3. p \in Seq(Symbols) /\ fs \in Seq(Seq(Symbols)) /\ pushed' = p
  BY <1>2 DEF Within, DecoderTypeOK, ReturnFrame
<1>4. PICK i : i = o[Len(fs)]
  OBVIOUS
<1>5. PICK s \in Seq(Symbols) : s = Suffix(p, i)
  BY <1>1, <1>2, <1>4, Standing
<1>6. i \in 0 .. Len(p)
  BY <1>1, <1>2, <1>4, Standing
<1>7. At(s)
  BY <1>1, <1>2, <1>4, <1>5
<1>8. /\ First(s).says = "frame"
      /\ frames' = Append(fs, First(s).body)
      /\ \E r : r = Suffix(s, First(s).end) /\ At(r)'
  BY <1>2, <1>7, AtReturnFrame
<1>9. PICK r : r = Suffix(s, First(s).end) /\ At(r)'
  BY <1>8
<1>10. FirstAt(p, i) = First(s)
  BY <1>5 DEF FirstAt
<1>11. r = Suffix(p, EndAt(p, i))
  <2>1. First(s).end \in 0 .. Len(s) /\ Len(s) = Len(p) - i
    <3>1. First(s).end \in 2 .. Len(s)
      BY <1>8, FirstIs
    <3>2. Len(s) = Len(p) - i
      BY <1>3, <1>5, <1>6, SuffixIs
    <3> QED BY <1>3, <3>1, <3>2
  <2>2. Suffix(Suffix(p, i), First(s).end) = Suffix(p, i + First(s).end)
    BY <1>3, <1>6, <2>1, SuffixOfSuffix
  <2> QED BY <1>5, <1>9, <1>10, <2>2 DEF EndAt
<1>12. PICK gs : gs = Append(fs, First(s).body)
  OBVIOUS
<1>13. \E u : Follows(u, p, gs) /\ u[Len(gs)] = EndAt(p, i)
  <2>1. Follows(o, p, fs) /\ FirstAt(p, i).says = "frame" /\ gs = Append(fs, FirstAt(p, i).body)
    BY <1>1, <1>2, <1>8, <1>10, <1>12
  <2>2. i = o[Len(fs)] /\ p \in Seq(Symbols) /\ fs \in Seq(Seq(Symbols))
    BY <1>3, <1>4
  <2>3. Reaches(p, gs, EndAt(p, i))
    BY <2>1, <2>2, FollowsFurther
  <2> QED BY <2>3 DEF Reaches
<1>14. PICK u : Follows(u, p, gs) /\ u[Len(gs)] = EndAt(p, i)
  BY <1>13
<1>15. p = pushed' /\ gs = frames' /\ r = Suffix(p, u[Len(gs)])
  BY <1>3, <1>8, <1>11, <1>12, <1>14
<1> QED BY <1>9, <1>14, <1>15 DEF Exact

LEMMA ExactHolds == DecoderSpec => []Exact
<1>1. Within /\ Exact /\ [DecoderNext]_decoderVars => Exact'
  <2> SUFFICES ASSUME Within, Exact, [DecoderNext]_decoderVars PROVE Exact'
    OBVIOUS
  <2>1. ASSUME NEW n \in 1 .. Len(unread), Push(n) PROVE Exact'
    BY <2>1, ExactPush
  <2>2. CASE Finish
    <3>1. UNCHANGED <<pushed, frames>>
      BY <2>2 DEF Finish
    <3>2. \A s \in Seq(Symbols) : At(s) => At(s)'
      BY <2>2, AtFinish
    <3> QED BY <3>1, <3>2, ExactKept
  <2>3. CASE ReadHeaderByte
    <3>1. UNCHANGED <<pushed, frames>>
      BY <2>3 DEF ReadHeaderByte
    <3>2. \A s \in Seq(Symbols) : At(s) => At(s)'
      BY <2>3, AtHeaderByte
    <3> QED BY <3>1, <3>2, ExactKept
  <2>4. CASE ReturnFrame
    BY <2>4, ExactReturnFrame
  <2>5. CASE NeedMore
    <3>1. UNCHANGED <<pushed, frames>>
      BY <2>5 DEF NeedMore
    <3>2. \A s \in Seq(Symbols) : At(s) => At(s)'
      BY <2>5, AtNeedMore
    <3> QED BY <3>1, <3>2, ExactKept
  <2>6. CASE UNCHANGED decoderVars
    <3>1. UNCHANGED <<pushed, frames>>
      BY <2>6 DEF decoderVars
    <3>2. \A s \in Seq(Symbols) : At(s) => At(s)'
      BY <2>6 DEF decoderVars, At
    <3> QED BY <3>1, <3>2, ExactKept
  <2> QED BY <2>1, <2>2, <2>3, <2>4, <2>5, <2>6 DEF DecoderNext
<1> QED BY <1>1, ExactInit, WithinHolds, PTL DEF DecoderSpec

LEMMA DecodedIsExact ==
    ASSUME Within, Exact, call \in {"idle", "ended"} PROVE IsExact(Reference(pushed))
<1>1. PICK o : Follows(o, pushed, frames) /\ At(Suffix(pushed, o[Len(frames)]))
  BY DEF Exact
<1>2. pushed \in Seq(Symbols) /\ frames \in Seq(Seq(Symbols)) /\ Len(frames) \in Nat /\ answer \in Answers
  BY DEF Within, DecoderTypeOK
<1> DEFINE i == o[Len(frames)]
           s == Suffix(pushed, i)
           first == First(s)
<1>3. i \in 0 .. Len(pushed) /\ s \in Seq(Symbols) /\ Len(s) = Len(pushed) - i
  BY <1>1, <1>2, Standing, SuffixIs
<1>4. At(s)
  BY <1>1
<1>5. PICK row \in Rows :
        /\ Reference(pushed) = [row EXCEPT !.bodies = frames \o @]
        /\ FirstAt(pushed, i).says # "frame" =>
             row = [bodies |-> <<>>, says |-> FirstAt(pushed, i).says, rest |-> Len(pushed) - i]
  BY <1>1, <1>2, ReferenceFollows
<1>6. FirstAt(pushed, i) = first
  BY DEF FirstAt
<1> DEFINE ref == Reference(pushed)
<1>7. /\ ref.bodies = frames \o row.bodies /\ ref.says = row.says /\ ref.rest = row.rest
      /\ row.bodies \in Seq(Seq(Symbols))
  BY <1>5 DEF Rows
<1> HIDE DEF ref, s, i
<1>8. /\ Len(frames) <= Len(ref.bodies)
      /\ frames = SubSeq(ref.bodies, 1, Len(frames))
  <2> DEFINE S == Seq(Symbols)
             all == frames \o row.bodies
  <2>1. frames \in Seq(S) /\ row.bodies \in Seq(S)
    BY <1>2, <1>7
  <2> HIDE DEF S
  <2>2. /\ all \in Seq(S) /\ Len(all) = Len(frames) + Len(row.bodies) /\ Len(row.bodies) \in Nat
        /\ \A k \in 1 .. Len(frames) + Len(row.bodies) :
             all[k] = IF k <= Len(frames) THEN frames[k] ELSE row.bodies[k - Len(frames)]
    BY <2>1, ConcatProperties
  <2> HIDE DEF all
  <2>3. Len(frames) <= Len(all)
    BY <1>2, <2>2
  <2>4. \A k \in 1 .. Len(frames) : all[k] = frames[k] /\ all[k] \in S
    BY <1>2, <2>1, <2>2
  <2> DEFINE x == SubSeq(all, 1, Len(frames))
  <2>5. x \in Seq(S) /\ Len(x) = Len(frames) /\ \A k \in 1 .. Len(frames) : x[k] = all[k]
    <3>1. 1 \in Int /\ Len(frames) \in Int /\ Len(frames) - 1 + 1 = Len(frames)
      BY <1>2
    <3>2. \A k \in 1 .. Len(frames) : all[k] \in S
      BY <2>4
    <3>3. /\ x \in Seq(S)
          /\ Len(x) = IF 1 <= Len(frames) THEN Len(frames) - 1 + 1 ELSE 0
          /\ \A k \in 1 .. Len(frames) - 1 + 1 : x[k] = all[1 + k - 1]
      BY <3>1, <3>2, SubSeqProperties
    <3> HIDE DEF x
    <3>4. Len(x) = Len(frames)
      BY <1>2, <3>3
    <3>5. ASSUME NEW k \in 1 .. Len(frames) PROVE x[k] = all[k]
      <4>1. 1 + k - 1 = k /\ k \in 1 .. Len(frames) - 1 + 1
        BY <3>1
      <4> QED BY <3>3, <4>1
    <3> QED BY <3>3, <3>4, <3>5
  <2> HIDE DEF x
  <2>6. x = frames
    BY <2>1, <2>4, <2>5, SeqEqual
  <2> QED BY <1>7, <2>3, <2>6 DEF all, x
<1>9. ASSUME first.says # "frame"
      PROVE  frames = ref.bodies /\ ref.says = first.says /\ ref.rest = Len(s)
  <2>1. row = [bodies |-> <<>>, says |-> first.says, rest |-> Len(pushed) - i]
    BY <1>5, <1>6, <1>9
  <2>2. row.bodies = <<>> /\ row.says = first.says /\ row.rest = Len(pushed) - i
    BY <2>1
  <2>3. frames \o <<>> = frames
    BY <1>2, ConcatEmptySeq
  <2> QED BY <1>3, <1>7, <2>2, <2>3
<1>10. answer = "none" => first.says = "none" /\ (call = "ended" => Len(s) = 0)
  <2> SUFFICES ASSUME answer = "none" PROVE first.says = "none" /\ (call = "ended" => Len(s) = 0)
    OBVIOUS
  <2>1. CASE call = "idle"
    <3>1. /\ s = block \o buf
          /\ IF length = NoLength THEN Partial(block, lineStart, lines) /\ buf = <<>>
             ELSE /\ Whole(block) /\ HeaderOf(block).fault = NoLength
                  /\ HeaderOf(block).length = length
                  /\ Len(buf) < length
      BY <1>4, <2>1 DEF At, Within
    <3> QED BY <2>1, <3>1, NotYet
  <2>2. CASE call = "ended"
    <3>1. s = <<>>
      BY <1>4, <2>2 DEF At
    <3>2. First(<<>>).says = "none"
      <4>1. <<>> \in Seq(Symbols)
        OBVIOUS
      <4> QED BY <4>1, NothingIsPartial, FirstOfPartial
    <3> QED BY <3>1, <3>2
  <2> QED BY <2>1, <2>2
<1>11. answer \in {"framing", "too_large"} => first.says = answer
  BY <1>4 DEF At
<1>12. answer = "eof" => first.says = "none" /\ Len(s) > 0
  <2> SUFFICES ASSUME answer = "eof" PROVE first.says = "none" /\ Len(s) > 0
    OBVIOUS
  <2>1. call = "ended"
    BY <1>4 DEF At
  <2>2. first.says = "none" /\ s # <<>>
    BY <1>4, <2>1 DEF At
  <2>3. Len(s) # 0 /\ Len(s) \in Nat
    BY <1>3, <2>2, EmptySeq
  <2> QED BY <2>2, <2>3
<1> HIDE DEF first
<1>13. IsExact(ref)
  <2>1. answer = "none" => frames = ref.bodies /\ ref.says = "none" /\ (call = "ended" => ref.rest = 0)
    BY <1>9, <1>10
  <2>2. answer \in {"framing", "too_large"} => frames = ref.bodies /\ ref.says = answer
    BY <1>9, <1>11
  <2>3. answer = "eof" => frames = ref.bodies /\ ref.says = "none" /\ ref.rest > 0
    BY <1>9, <1>12
  <2> QED BY <1>8, <2>1, <2>2, <2>3 DEF IsExact
<1> QED BY <1>13 DEF ref

(* However a stream is cut into pieces, FrameDecoder (framing.rs) returns the
   frames of the stream and no others, in order; reports the fault of the
   stream, after the frames that precede it; asks for more only when what was
   pushed holds no further frame; and ends well only on whole frames. *)
THEOREM DecoderIsExact == DecoderSpec => []DecodingIsExact
<1>1. Within /\ Exact => DecodingIsExact
  BY DecodedIsExact DEF DecodingIsExact
<1> QED BY <1>1, WithinHolds, ExactHolds, PTL

-----------------------------------------------------------------------------
(* What FrameEncoder::encode writes, the decoder reads. *)

\* The header goes on, its line or the header itself ends.
GoesOn(t, start, n) ==
    /\ t \in Seq(Symbols)
    /\ ~EndsLine(t) => Partial(t, start, n)
    /\ EndsLine(t) /\ start = Len(t) - 2 => Whole(t)
    /\ EndsLine(t) /\ start # Len(t) - 2 /\ n + 1 <= LinesMax => Partial(t, Len(t), n + 1)

LEMMA HeaderGoesOn ==
    ASSUME NEW h \in Seq(Symbols), NEW x \in Symbols, NEW start, NEW n, Partial(h, start, n),
           Len(h) + 1 <= BlockMax, (Len(h) + 1) - start <= LineMax, n <= LinesMax
    PROVE  GoesOn(Append(h, x), start, n)
<1> DEFINE t == Append(h, x)
           N == Len(h)
<1>1. OneLonger(t, N, start, n)
  BY OneMore
<1> HIDE DEF t
<1>2. /\ t \in Seq(Symbols) /\ Len(t) = N + 1 /\ N \in Nat
      /\ start \in 0 .. N /\ n \in Nat
      /\ N + 1 \in HeaderEnds(t) <=> EndsLine(t) /\ start = N - 1
      /\ HeaderEnds(t) \subseteq {N + 1}
      /\ LineBefore(t, Len(t) + 1) = IF EndsLine(t) THEN N + 1 ELSE start
      /\ Len(HeaderLines(t)) = IF EndsLine(t) THEN n + 1 ELSE n
      /\ \A i \in 1 .. N : Inside(t, i)
  BY <1>1 DEF OneLonger
<1>3. Inside(t, N + 1) <=> Len(HeaderLines(t)) <= (IF N + 1 \in HeaderEnds(t) THEN LinesMax + 1 ELSE LinesMax)
  BY <1>1 DEF OneLonger
<1>4. LinesMax \in Nat
  BY Limits
<1>5. ASSUME Inside(t, N + 1) PROVE \A i \in 1 .. Len(t) : Inside(t, i)
  <2> SUFFICES ASSUME NEW i \in 1 .. N + 1 PROVE Inside(t, i)
    BY <1>2
  <2>1. i \in 1 .. N \/ i = N + 1
    BY <1>2
  <2> QED BY <1>2, <1>5, <2>1
<1>6. ASSUME ~EndsLine(t) PROVE Partial(t, start, n)
  <2>1. HeaderEnds(t) = {} /\ Len(HeaderLines(t)) = n /\ Inside(t, N + 1)
    BY <1>2, <1>3, <1>6
  <2> QED BY <1>2, <1>5, <1>6, <2>1 DEF Partial
<1>7. ASSUME EndsLine(t), start = N - 1 PROVE Whole(t)
  <2>1. HeaderEnds(t) = {Len(t)} /\ Inside(t, N + 1)
    BY <1>2, <1>3, <1>4, <1>7
  <2> QED BY <1>2, <1>5, <1>7, <2>1 DEF Whole
<1>8. ASSUME EndsLine(t), start # N - 1, n + 1 <= LinesMax PROVE Partial(t, N + 1, n + 1)
  <2>1. HeaderEnds(t) = {} /\ Len(HeaderLines(t)) = n + 1 /\ Inside(t, N + 1)
    BY <1>2, <1>3, <1>8
  <2> QED BY <1>2, <1>5, <1>8, <2>1 DEF Partial
<1>9. Len(t) - 2 = N - 1
  BY <1>2
<1> QED BY <1>2, <1>6, <1>7, <1>8, <1>9 DEF GoesOn, t

\* The limits that the header of an encoded frame keeps: those of its line and of
\* its block leave room for the digits that a length may have, and these can write
\* the limit of a frame.
RoomForHeader ==
    /\ BlockMax >= DigitsMax + 5 /\ LineMax >= DigitsMax + 3 /\ LinesMax >= 1
    /\ \E w \in Decimals : FrameMax <= Number(w)

\* A string of digits, and one that writes a number with k digits at most.
IsDigits(w) == w \in Seq(Symbols) /\ HasOnly(w, Digits)
Writes(w, n, k) ==
    /\ IsDigits(w) /\ Len(w) \in 1 .. k /\ Number(w) = n
    /\ Len(w) = 1 \/ w[1] # "0"

LEMMA PrefixGrows ==
    ASSUME NEW s \in Seq(Symbols), NEW k \in 1 .. Len(s)
    PROVE  SubSeq(s, 1, k) = Append(SubSeq(s, 1, k - 1), s[k])
<1> DEFINE a == SubSeq(s, 1, k - 1)
<1>1. 1 \in 1 .. Len(s) + 1 /\ k - 1 \in 1 - 1 .. Len(s) /\ k \in k - 1 .. Len(s)
  OBVIOUS
<1>2. a \o SubSeq(s, (k - 1) + 1, k) = SubSeq(s, 1, k)
  BY <1>1, ConcatAdjacentSubSeq
<1>3. SubSeq(s, (k - 1) + 1, k) = <<s[k]>>
  <2>1. (k - 1) + 1 = k
    OBVIOUS
  <2> QED BY <2>1, OneOf
<1>4. a \in Seq(Symbols) /\ s[k] \in Symbols
  <2>1. k - 1 \in Nat /\ k - 1 <= Len(s)
    OBVIOUS
  <2> QED BY <2>1, PrefixIs
<1> HIDE DEF a
<1>5. Append(a, s[k]) = a \o <<s[k]>>
  BY <1>4, AppendIsConcat
<1> QED BY <1>2, <1>3, <1>5 DEF a

LEMMA NoDigitsAreZero == Number(<<>>) = 0
<1>1. <<>> \in Seq(Symbols) /\ HasOnly(<<>>, Digits) /\ Len(<<>>) = 0
  BY DEF HasOnly
<1> QED BY <1>1, NumberRecurs

LEMMA NumberOfOne ==
    ASSUME NEW d \in Digits PROVE IsDigits(<<d>>) /\ Number(<<d>>) = DigitValue[d]
<1>1. <<d>> \in Seq(Symbols) /\ HasOnly(<<d>>, Digits) /\ Len(<<d>>) = 1 /\ <<d>>[1] = d
  BY DEF Symbols, HasOnly
<1>2. DigitValue[d] \in Nat
  BY DEF Digits, DigitValue
<1>3. PICK f : /\ f[0] = 0
               /\ \A n \in 1 .. 1 : f[n] = 10 * f[n - 1] + DigitValue[<<d>>[n]]
               /\ Number(<<d>>) = f[1]
  BY <1>1, NumberRecurs
<1>4. f[1] = 10 * f[0] + DigitValue[d]
  BY <1>1, <1>3
<1> QED BY <1>1, <1>2, <1>3, <1>4 DEF IsDigits

\* Each further digit counts the number before it tenfold.
LEMMA NumberOfAppend ==
    ASSUME NEW v, IsDigits(v), NEW d \in Digits
    PROVE  IsDigits(Append(v, d)) /\ Number(Append(v, d)) = 10 * Number(v) + DigitValue[d]
<1> DEFINE t == Append(v, d)
           N == Len(v)
<1>1. /\ v \in Seq(Symbols) /\ HasOnly(v, Digits) /\ N \in Nat
      /\ t \in Seq(Symbols) /\ Len(t) = N + 1 /\ t[N + 1] = d
      /\ \A i \in 1 .. N : t[i] = v[i]
  BY DEF IsDigits, Symbols
<1> HIDE DEF t
<1>2. HasOnly(t, Digits)
  <2>1. ASSUME NEW i \in 1 .. N + 1 PROVE t[i] \in Digits
    <3>1. i \in 1 .. N \/ i = N + 1
      BY <1>1
    <3> QED BY <1>1, <3>1 DEF HasOnly
  <2> QED BY <1>1, <2>1 DEF HasOnly
<1>3. PICK f : /\ f[0] = 0
               /\ \A n \in 1 .. N : f[n] = 10 * f[n - 1] + DigitValue[v[n]]
               /\ Number(v) = f[N]
  BY <1>1, NumberRecurs
<1>4. PICK g : /\ g[0] = 0
               /\ \A n \in 1 .. N + 1 : g[n] = 10 * g[n - 1] + DigitValue[t[n]]
               /\ Number(t) = g[N + 1]
  BY <1>1, <1>2, NumberRecurs
<1> HIDE DEF N
<1> DEFINE G == {n \in 0 .. N : g[n] = f[n]}
<1>5. /\ 0 \in G
      /\ \A n \in 1 .. N : n - 1 \in G => n \in G
  <2>1. ASSUME NEW n \in 1 .. N, g[n - 1] = f[n - 1] PROVE g[n] = f[n]
    <3>1. n \in 1 .. N + 1 /\ t[n] = v[n]
      BY <1>1
    <3> QED BY <1>3, <1>4, <2>1, <3>1
  <2> QED BY <1>1, <1>3, <1>4, <2>1
<1>6. 0 .. N \subseteq G
  <2> HIDE DEF G
  <2> QED BY <1>1, <1>5, Persists
<1>7. g[N] = f[N]
  BY <1>1, <1>6
<1>8. g[N + 1] = 10 * g[N] + DigitValue[d]
  <2>1. N + 1 \in 1 .. N + 1 /\ (N + 1) - 1 = N
    BY <1>1
  <2> QED BY <1>1, <1>4, <2>1
<1> QED BY <1>1, <1>2, <1>3, <1>4, <1>7, <1>8 DEF t, IsDigits

\* There is a digit for every remainder, and none is worth more than nine.
LEMMA DigitOf == /\ \A r \in 0 .. 9 : \E d \in Digits : DigitValue[d] = r
                 /\ \A d \in Digits : DigitValue[d] \in 0 .. 9
                 /\ "0" \in Digits /\ DigitValue["0"] = 0
<1>1. \A d \in Digits : DigitValue[d] \in 0 .. 9
  BY DEF Digits, DigitValue
<1>2. /\ DigitValue["0"] = 0 /\ DigitValue["1"] = 1 /\ DigitValue["2"] = 2 /\ DigitValue["3"] = 3
      /\ DigitValue["4"] = 4 /\ DigitValue["5"] = 5 /\ DigitValue["6"] = 6 /\ DigitValue["7"] = 7
      /\ DigitValue["8"] = 8 /\ DigitValue["9"] = 9
  BY DEF Digits, DigitValue
<1>3. Digits = {"0", "1", "2", "3", "4", "5", "6", "7", "8", "9"}
  BY DEF Digits
<1>4. \A r \in 0 .. 9 : \E d \in Digits : DigitValue[d] = r
  <2> SUFFICES ASSUME NEW r \in 0 .. 9 PROVE \E d \in Digits : DigitValue[d] = r
    OBVIOUS
  <2>1. \/ r = 0 \/ r = 1 \/ r = 2 \/ r = 3 \/ r = 4
        \/ r = 5 \/ r = 6 \/ r = 7 \/ r = 8 \/ r = 9
    OBVIOUS
  <2> QED BY <1>2, <1>3, <2>1
<1> QED BY <1>1, <1>2, <1>3, <1>4

\* A number that is not greater than one of k digits is written with k digits.
LEMMA Written ==
    ASSUME NEW v, IsDigits(v), NEW k \in Nat, Len(v) <= k, 1 <= k, NEW n \in 0 .. Number(v)
    PROVE  \E w : Writes(w, n, k)
<1> DEFINE N == Len(v)
           upTo(j) == SubSeq(v, 1, j)
           Most(j) == IF j = 0 THEN 1 ELSE j
           Can(j) == \A m \in 0 .. Number(upTo(j)) : \E w : Writes(w, m, Most(j))
           G == {j \in 0 .. N : Can(j)}
<1>1. v \in Seq(Symbols) /\ HasOnly(v, Digits) /\ N \in Nat
  BY DEF IsDigits
<1>2. ASSUME NEW j \in 0 .. N PROVE IsDigits(upTo(j)) /\ Number(upTo(j)) \in Nat
  <2>1. /\ upTo(j) \in Seq(Symbols) /\ Len(upTo(j)) = j
        /\ \A i \in 1 .. j : upTo(j)[i] = v[i]
    BY <1>1, PrefixIs
  <2> HIDE DEF upTo
  <2>2. HasOnly(upTo(j), Digits)
    BY <1>1, <2>1 DEF HasOnly
  <2> QED BY <2>1, <2>2, NumberIsNat DEF IsDigits
<1>3. ASSUME NEW m \in 0 .. 9, NEW j \in Nat, 1 <= j PROVE \E w : Writes(w, m, j)
  <2>1. PICK d \in Digits : DigitValue[d] = m
    BY DigitOf
  <2>2. IsDigits(<<d>>) /\ Number(<<d>>) = m
    BY <2>1, NumberOfOne
  <2>3. Len(<<d>>) = 1 /\ 1 \in 1 .. j
    BY <1>3
  <2>4. Writes(<<d>>, m, j)
    BY <2>2, <2>3 DEF Writes
  <2> QED BY <2>4
<1>4. Can(0)
  <2>1. upTo(0) = <<>>
    BY <1>1, SubSeqEmpty
  <2>2. Number(upTo(0)) = 0
    BY <2>1, NoDigitsAreZero
  <2>3. \E w : Writes(w, 0, 1)
    BY <1>3
  <2> HIDE DEF upTo
  <2> QED BY <2>2, <2>3
<1>5. ASSUME NEW j \in 1 .. N, Can(j - 1) PROVE Can(j)
  <2> DEFINE M == Number(upTo(j - 1))
  <2>1. upTo(j) = Append(upTo(j - 1), v[j])
    BY <1>1, PrefixGrows
  <2>2. v[j] \in Digits
    BY <1>1 DEF HasOnly
  <2>3. j - 1 \in 0 .. N /\ j \in 0 .. N
    BY <1>1
  <2>4. IsDigits(upTo(j - 1)) /\ M \in Nat
    BY <1>2, <2>3
  <2> HIDE DEF upTo
  <2>5. Number(upTo(j)) = 10 * M + DigitValue[v[j]]
    BY <2>1, <2>2, <2>4, NumberOfAppend
  <2>6. DigitValue[v[j]] \in 0 .. 9
    BY <2>2, DigitOf
  <2> SUFFICES ASSUME NEW m \in 0 .. Number(upTo(j)) PROVE \E w : Writes(w, m, j)
    BY <2>3
  <2> DEFINE q == m \div 10
             r == m % 10
  <2>7. m = 10 * q + r /\ r \in 0 .. 9 /\ q \in Nat /\ m \in Nat
    OBVIOUS
  <2>8. q \in 0 .. M
    <3>1. m <= 10 * M + 9
      <4> HIDE DEF M
      <4> QED BY <2>4, <2>5, <2>6
    <3> HIDE DEF M, q, r
    <3>2. 10 * q <= 10 * M + 9
      BY <2>4, <2>7, <3>1
    <3> QED BY <2>4, <2>7, <3>2
  <2> HIDE DEF q, r, M
  <2>9. CASE q = 0
    <3>1. m \in 0 .. 9 /\ j \in Nat /\ 1 <= j
      BY <2>7, <2>9
    <3> QED BY <1>3, <3>1
  <2>10. CASE q # 0
    <3>1. PICK w : Writes(w, q, Most(j - 1))
      <4>1. \A x \in 0 .. M : \E w : Writes(w, x, Most(j - 1))
        BY <1>5 DEF M
      <4> HIDE DEF Most, Can
      <4> QED BY <2>8, <4>1
    <3>2. PICK d \in Digits : DigitValue[d] = r
      BY <2>7, DigitOf
    <3>3. /\ w \in Seq(Symbols) /\ HasOnly(w, Digits) /\ Number(w) = q
          /\ Len(w) >= 1 /\ Len(w) <= Most(j - 1) /\ Len(w) \in Nat
      BY <3>1 DEF Writes, IsDigits
    <3>4. IsDigits(Append(w, d)) /\ Number(Append(w, d)) = m
      BY <2>7, <3>2, <3>3, NumberOfAppend DEF IsDigits
    <3>5. j # 1
      <4>1. upTo(0) = <<>>
        BY <1>1, SubSeqEmpty DEF upTo
      <4>2. j = 1 => M = 0
        BY <4>1, NoDigitsAreZero DEF M
      <4> QED BY <2>8, <2>10, <4>2
    <3>6. Len(Append(w, d)) \in 1 .. j
      <4>1. Most(j - 1) = j - 1
        BY <3>5
      <4>2. Len(Append(w, d)) = Len(w) + 1
        BY <3>3
      <4> QED BY <3>3, <4>1, <4>2
    <3>7. Append(w, d)[1] # "0"
      <4>1. w[1] # "0"
        <5>1. CASE Len(w) = 1
          <6>1. w = <<w[1]>> /\ w[1] \in Digits
            BY <3>3, <5>1 DEF HasOnly
          <6>2. Number(w) = DigitValue[w[1]]
            BY <6>1, NumberOfOne
          <6> QED BY <2>10, <3>3, <6>2, DigitOf
        <5>2. CASE Len(w) # 1
          BY <3>1, <5>2 DEF Writes
        <5> QED BY <5>1, <5>2
      <4>2. Append(w, d)[1] = w[1]
        BY <3>3
      <4> QED BY <4>1, <4>2
    <3>8. Writes(Append(w, d), m, j)
      BY <3>4, <3>6, <3>7 DEF Writes
    <3> QED BY <3>8
  <2> QED BY <2>9, <2>10
<1>6. Can(N)
  <2>1. \A j \in 1 .. N : j - 1 \in G => j \in G
    <3>1. ASSUME NEW j \in 1 .. N, j - 1 \in G PROVE j \in G
      <4>1. Can(j - 1) /\ j \in 0 .. N
        BY <3>1
      <4> HIDE DEF Can
      <4> QED BY <1>5, <4>1
    <3> QED BY <3>1
  <2>2. 0 \in G
    <3>1. 0 \in 0 .. N
      BY <1>1
    <3> HIDE DEF Can
    <3> QED BY <1>4, <3>1
  <2>3. 0 .. N \subseteq G
    <3> HIDE DEF G
    <3> QED BY <1>1, <2>1, <2>2, Persists
  <2>4. N \in 0 .. N
    BY <1>1
  <2>5. N \in G
    BY <2>3, <2>4
  <2> HIDE DEF Can
  <2> QED BY <2>5
<1>7. PICK w : Writes(w, n, Most(N))
  <2>1. upTo(N) = v
    BY <1>1, SubSeqFull
  <2> HIDE DEF upTo, Most
  <2> QED BY <1>6, <2>1
<1>8. Most(N) <= k /\ Most(N) \in Nat
  BY <1>1
<1> HIDE DEF Most
<1>9. Writes(w, n, k)
  <2>1. Len(w) \in 1 .. k
    BY <1>7, <1>8 DEF Writes
  <2> QED BY <1>7, <2>1 DEF Writes
<1> QED BY <1>9

\* The digits that the encoder writes: a length that may be read, and the right one.
LEMMA DecimalIs ==
    ASSUME RoomForHeader, NEW n \in Nat, n <= FrameMax
    PROVE  Writes(Decimal(n), n, DigitsMax)
<1>1. DigitsMax \in Nat /\ FrameMax \in Nat
  BY LimitsAssumption
<1>2. ASSUME NEW w \in Decimals PROVE IsDigits(w) /\ Len(w) \in 1 .. DigitsMax
  <2>1. PICK k \in 1 .. DigitsMax : w \in [1 .. k -> Digits]
    BY DEF Decimals
  <2>2. w \in Seq(Symbols) /\ Len(w) = k
    <3>1. w \in [1 .. k -> Symbols] /\ k \in Nat
      BY <1>1, <2>1 DEF Symbols
    <3> QED BY <3>1
  <2>3. HasOnly(w, Digits)
    BY <2>1, <2>2 DEF HasOnly
  <2> QED BY <2>2, <2>3 DEF IsDigits
<1>3. PICK v \in Decimals : FrameMax <= Number(v)
  BY DEF RoomForHeader
<1>4. IsDigits(v) /\ Len(v) <= DigitsMax /\ 1 <= DigitsMax
  BY <1>1, <1>2
<1>5. Number(v) \in Nat
  BY <1>4, NumberIsNat DEF IsDigits
<1>6. n \in 0 .. Number(v)
  BY <1>1, <1>3, <1>5
<1>7. PICK w : Writes(w, n, DigitsMax)
  BY <1>1, <1>4, <1>6, Written
<1>8. w \in Decimals
  <2>1. w \in Seq(Symbols) /\ Len(w) \in 1 .. DigitsMax /\ \A i \in 1 .. Len(w) : w[i] \in Digits
    BY <1>7 DEF Writes, IsDigits, HasOnly
  <2>2. w \in [1 .. Len(w) -> Digits]
    BY <2>1
  <2> QED BY <2>1, <2>2 DEF Decimals
<1>9. Decimal(n) \in Decimals /\ Number(Decimal(n)) = n
      /\ (Len(Decimal(n)) = 1 \/ Decimal(n)[1] # "0")
  <2>1. \E u \in Decimals : Number(u) = n /\ (Len(u) = 1 \/ u[1] # "0")
    BY <1>7, <1>8 DEF Writes
  <2> QED BY <2>1 DEF Decimal
<1> QED BY <1>2, <1>9 DEF Writes

\* The line of an encoded frame, and its header.
LineOf(w) == <<"L">> \o w
HeaderWith(w) == LineOf(w) \o <<"r", "n", "r", "n">>

LEMMA LineIs ==
    ASSUME NEW w, IsDigits(w), NEW k \in 0 .. Len(w)
    PROVE  /\ LineOf(SubSeq(w, 1, k)) \in Seq(Symbols) /\ Len(LineOf(SubSeq(w, 1, k))) = k + 1
           /\ LineOf(SubSeq(w, 1, k))[1] = "L"
           /\ \A i \in 1 .. k : LineOf(SubSeq(w, 1, k))[i + 1] = w[i]
           /\ k > 0 => LineOf(SubSeq(w, 1, k)) = Append(LineOf(SubSeq(w, 1, k - 1)), w[k])
<1> DEFINE a == SubSeq(w, 1, k)
           l == LineOf(a)
<1>1. w \in Seq(Symbols) /\ k \in Nat /\ k <= Len(w) /\ Len(w) \in Nat
  BY DEF IsDigits
<1>2. a \in Seq(Symbols) /\ Len(a) = k /\ \A i \in 1 .. k : a[i] = w[i]
  BY <1>1, PrefixIs
<1>3. <<"L">> \in Seq(Symbols) /\ Len(<<"L">>) = 1 /\ <<"L">>[1] = "L"
  BY DEF Symbols
<1>4. k > 0 => l = Append(LineOf(SubSeq(w, 1, k - 1)), w[k])
  <2> SUFFICES ASSUME k > 0 PROVE l = Append(LineOf(SubSeq(w, 1, k - 1)), w[k])
    OBVIOUS
  <2> DEFINE b == SubSeq(w, 1, k - 1)
  <2>1. a = Append(b, w[k])
    BY <1>1, PrefixGrows
  <2>2. b \in Seq(Symbols) /\ w[k] \in Symbols
    <3>1. k - 1 \in Nat /\ k - 1 <= Len(w) /\ k \in 1 .. Len(w)
      BY <1>1
    <3> QED BY <1>1, <3>1, PrefixIs
  <2> HIDE DEF a, b
  <2>3. Append(b, w[k]) = b \o <<w[k]>> /\ <<w[k]>> \in Seq(Symbols)
    BY <2>2, AppendIsConcat
  <2>4. (<<"L">> \o b) \o <<w[k]>> = <<"L">> \o (b \o <<w[k]>>)
    BY <1>3, <2>2, <2>3, Joined
  <2>5. <<"L">> \o b \in Seq(Symbols)
    BY <1>3, <2>2, ConcatProperties
  <2>6. Append(<<"L">> \o b, w[k]) = (<<"L">> \o b) \o <<w[k]>>
    <3> DEFINE c == <<"L">> \o b
    <3>1. c \in Seq(Symbols)
      BY <2>5
    <3> HIDE DEF c
    <3> QED BY <2>2, <3>1, AppendIsConcat
  <2> QED BY <2>1, <2>3, <2>4, <2>6 DEF LineOf, b
<1> HIDE DEF a
<1>5. /\ l \in Seq(Symbols) /\ Len(l) = 1 + k
      /\ l[1] = "L" /\ \A i \in 1 .. k : l[i + 1] = a[i]
  <2> DEFINE o == <<"L">>
  <2>1. l = o \o a /\ o \in Seq(Symbols) /\ Len(o) = 1 /\ o[1] = "L"
    BY <1>3 DEF LineOf
  <2> HIDE DEF l, o
  <2>2. /\ l \in Seq(Symbols) /\ Len(l) = Len(o) + Len(a)
        /\ \A i \in 1 .. Len(o) + Len(a) : l[i] = IF i <= Len(o) THEN o[i] ELSE a[i - Len(o)]
    BY <1>2, <2>1, ConcatProperties
  <2>3. l[1] = "L"
    BY <1>1, <1>2, <2>1, <2>2
  <2>4. ASSUME NEW i \in 1 .. k PROVE l[i + 1] = a[i]
    <3>1. i + 1 \in 1 .. 1 + k /\ ~(i + 1 <= 1) /\ (i + 1) - 1 = i
      BY <1>1
    <3> QED BY <1>2, <2>1, <2>2, <3>1
  <2> QED BY <1>2, <2>1, <2>2, <2>3, <2>4
<1> HIDE DEF l
<1>6. Len(l) = k + 1
  BY <1>1, <1>5
<1> QED BY <1>2, <1>4, <1>5, <1>6 DEF l, a

\* What ends a header, byte by byte.
LEMMA TwoBreaks == <<"r", "n">> \o <<"r", "n">> = <<"r", "n", "r", "n">>
<1> DEFINE e == <<"r", "n">>
           t == <<"r", "n", "r", "n">>
           s == e \o e
<1>1. e \in Seq(Symbols) /\ Len(e) = 2 /\ e[1] = "r" /\ e[2] = "n"
  BY DEF Symbols
<1>2. /\ t \in Seq(Symbols) /\ Len(t) = 4
      /\ t[1] = "r" /\ t[2] = "n" /\ t[3] = "r" /\ t[4] = "n"
  BY DEF Symbols
<1> HIDE DEF e, t
<1>3. /\ s \in Seq(Symbols) /\ Len(s) = Len(e) + Len(e)
      /\ Agree(e, s, Len(e)) /\ \A i \in 1 .. Len(e) : s[Len(e) + i] = e[i]
  BY <1>1, ConcatAgrees
<1> HIDE DEF s
<1>4. s[1] = "r" /\ s[2] = "n" /\ s[3] = "r" /\ s[4] = "n"
  <2>1. 1 \in 1 .. Len(e) /\ 2 \in 1 .. Len(e) /\ Len(e) + 1 = 3 /\ Len(e) + 2 = 4
    BY <1>1
  <2>2. s[1] = e[1] /\ s[2] = e[2]
    BY <1>3, <2>1 DEF Agree
  <2>3. s[3] = e[1] /\ s[4] = e[2]
    BY <1>3, <2>1
  <2> QED BY <1>1, <2>2, <2>3
<1>5. \A i \in 1 .. 4 : s[i] = t[i]
  BY <1>2, <1>4
<1>6. s = t
  BY <1>1, <1>2, <1>3, <1>5, SeqEqual
<1> QED BY <1>6 DEF s, e, t

LEMMA FourMore ==
    ASSUME NEW l \in Seq(Symbols)
    PROVE  /\ Append(Append(Append(Append(l, "r"), "n"), "r"), "n") = l \o <<"r", "n", "r", "n">>
           /\ Append(Append(l, "r"), "n") = l \o <<"r", "n">>
<1>1. {"r", "n"} \subseteq Symbols
  BY DEF Symbols
<1> DEFINE x == Append(Append(l, "r"), "n")
           y == Append(Append(x, "r"), "n")
<1>2. ASSUME NEW s \in Seq(Symbols), NEW t, t = Append(Append(s, "r"), "n") PROVE t = s \o <<"r", "n">>
  <2>1. s \o <<"r", "n">> \in Seq(Symbols)
    BY <1>1
  <2> QED BY <1>1, <1>2
<1>3. x = l \o <<"r", "n">>
  BY <1>2
<1>4. x \in Seq(Symbols) /\ <<"r", "n">> \in Seq(Symbols)
  BY <1>1
<1> HIDE DEF x
<1>5. y = x \o <<"r", "n">>
  BY <1>2, <1>4
<1>6. (l \o <<"r", "n">>) \o <<"r", "n">> = l \o (<<"r", "n">> \o <<"r", "n">>)
  BY <1>4, Joined
<1>7. <<"r", "n">> \o <<"r", "n">> = <<"r", "n", "r", "n">>
  BY TwoBreaks
<1> QED BY <1>3, <1>5, <1>6, <1>7 DEF x

LEMMA EncodedHeader ==
    ASSUME RoomForHeader, NEW w, IsDigits(w), Len(w) <= DigitsMax
    PROVE  Whole(HeaderWith(w))
<1> DEFINE K == Len(w)
           upTo(k) == LineOf(SubSeq(w, 1, k))
           G == {k \in 0 .. K : Partial(upTo(k), 0, 0)}
<1>1. /\ BlockMax \in Nat /\ LineMax \in Nat /\ LinesMax \in Nat /\ DigitsMax \in Nat
      /\ BlockMax >= DigitsMax + 5 /\ LineMax >= DigitsMax + 3 /\ LinesMax >= 1
  BY Limits, LimitsAssumption DEF RoomForHeader
<1>2. w \in Seq(Symbols) /\ HasOnly(w, Digits) /\ K \in Nat /\ K <= DigitsMax
  BY DEF IsDigits
<1>3. \A k \in 0 .. K :
        /\ upTo(k) \in Seq(Symbols) /\ Len(upTo(k)) = k + 1
        /\ upTo(k)[k + 1] # "n"
        /\ k > 0 => upTo(k) = Append(upTo(k - 1), w[k])
  <2> SUFFICES ASSUME NEW k \in 0 .. K
               PROVE  /\ upTo(k) \in Seq(Symbols) /\ Len(upTo(k)) = k + 1
                      /\ upTo(k)[k + 1] # "n"
                      /\ k > 0 => upTo(k) = Append(upTo(k - 1), w[k])
    OBVIOUS
  <2>1. /\ upTo(k) \in Seq(Symbols) /\ Len(upTo(k)) = k + 1
        /\ upTo(k)[1] = "L"
        /\ \A i \in 1 .. k : upTo(k)[i + 1] = w[i]
        /\ k > 0 => upTo(k) = Append(upTo(k - 1), w[k])
    BY LineIs
  <2> HIDE DEF upTo
  <2>2. CASE k = 0
    BY <2>1, <2>2
  <2>3. CASE k > 0
    <3>1. upTo(k)[k + 1] = w[k] /\ w[k] \in Digits
      BY <1>2, <2>1, <2>3 DEF HasOnly
    <3> QED BY <2>1, <3>1 DEF Digits
  <2> QED BY <1>2, <2>1, <2>2, <2>3
<1>4. upTo(0) = Append(<<>>, "L")
  <2>1. SubSeq(w, 1, 0) = <<>>
    BY SubSeqEmpty
  <2>2. <<"L">> \o <<>> = <<"L">> /\ Append(<<>>, "L") = <<"L">>
    OBVIOUS
  <2> QED BY <2>1, <2>2 DEF LineOf
<1> HIDE DEF upTo
<1>5. Partial(upTo(0), 0, 0)
  <2>1. Partial(<<>>, 0, 0)
    BY NothingIsPartial
  <2>2. Len(<<>>) + 1 <= BlockMax /\ (Len(<<>>) + 1) - 0 <= LineMax /\ 0 <= LinesMax
    BY <1>1
  <2>3. <<>> \in Seq(Symbols) /\ "L" \in Symbols
    BY DEF Symbols
  <2>4. GoesOn(Append(<<>>, "L"), 0, 0)
    BY <2>1, <2>2, <2>3, HeaderGoesOn
  <2>5. ~EndsLine(upTo(0))
    BY <1>2, <1>3 DEF EndsLine
  <2> QED BY <1>4, <2>4, <2>5 DEF GoesOn
<1>6. ASSUME NEW k \in 1 .. K, Partial(upTo(k - 1), 0, 0) PROVE Partial(upTo(k), 0, 0)
  <2>1. k - 1 \in 0 .. K /\ k \in 0 .. K /\ k > 0
    BY <1>2
  <2>2. upTo(k - 1) \in Seq(Symbols) /\ Len(upTo(k - 1)) = (k - 1) + 1 /\ w[k] \in Symbols
    BY <1>2, <1>3, <2>1
  <2>3. Len(upTo(k - 1)) + 1 <= BlockMax /\ (Len(upTo(k - 1)) + 1) - 0 <= LineMax /\ 0 <= LinesMax
    BY <1>1, <1>2, <2>2
  <2>4. GoesOn(Append(upTo(k - 1), w[k]), 0, 0)
    BY <1>6, <2>2, <2>3, HeaderGoesOn
  <2>5. upTo(k) = Append(upTo(k - 1), w[k])
    BY <1>3, <2>1
  <2>6. ~EndsLine(upTo(k))
    BY <1>2, <1>3, <2>1 DEF EndsLine
  <2> QED BY <2>4, <2>5, <2>6 DEF GoesOn
<1>7. Partial(upTo(K), 0, 0)
  <2>1. /\ 0 \in G
        /\ \A k \in 1 .. K : k - 1 \in G => k \in G
    <3>1. \A k \in 1 .. K : k \in 0 .. K
      BY <1>2
    <3> QED BY <1>2, <1>5, <1>6, <3>1
  <2>2. 0 .. K \subseteq G
    <3> HIDE DEF G
    <3> QED BY <1>2, <2>1, Persists
  <2> QED BY <1>2, <2>2
<1> DEFINE t0 == LineOf(w)
           t1 == Append(t0, "r")
           t2 == Append(t1, "n")
           t3 == Append(t2, "r")
           t4 == Append(t3, "n")
<1>8. upTo(K) = t0
  BY <1>2, SubSeqFull DEF upTo
<1>9. t0 \in Seq(Symbols) /\ Len(t0) = K + 1 /\ Partial(t0, 0, 0)
  <2>1. K \in 0 .. K
    BY <1>2
  <2> HIDE DEF t0
  <2> QED BY <1>3, <1>7, <1>8, <2>1
<1>10. HeaderWith(w) = t4
  BY <1>9, FourMore DEF HeaderWith
<1> HIDE DEF t0
<1>11. "r" \in Symbols /\ "n" \in Symbols
  BY DEF Symbols
<1>12. /\ t1 \in Seq(Symbols) /\ Len(t1) = K + 2 /\ t1[K + 2] = "r"
       /\ t2 \in Seq(Symbols) /\ Len(t2) = K + 3 /\ t2[K + 2] = "r" /\ t2[K + 3] = "n"
  BY <1>2, <1>9, <1>11
<1>13. ~EndsLine(t1) /\ EndsLine(t2)
  <2> HIDE DEF t1, t2
  <2> QED BY <1>2, <1>12 DEF EndsLine
<1> HIDE DEF t1
<1>14. Partial(t1, 0, 0)
  <2>1. Len(t0) + 1 <= BlockMax /\ (Len(t0) + 1) - 0 <= LineMax /\ 0 <= LinesMax
    BY <1>1, <1>2, <1>9
  <2>2. GoesOn(Append(t0, "r"), 0, 0)
    BY <1>9, <1>11, <2>1, HeaderGoesOn
  <2> QED BY <1>13, <2>2 DEF GoesOn, t1
<1>15. Partial(t2, K + 3, 1)
  <2>1. Len(t1) + 1 <= BlockMax /\ (Len(t1) + 1) - 0 <= LineMax /\ 0 <= LinesMax
    BY <1>1, <1>2, <1>12
  <2>2. GoesOn(t2, 0, 0)
    BY <1>11, <1>12, <1>14, <2>1, HeaderGoesOn
  <2>3. 0 # Len(t2) - 2 /\ 0 + 1 <= LinesMax /\ Len(t2) = K + 3 /\ 0 + 1 = 1
    BY <1>1, <1>2, <1>12
  <2> HIDE DEF t2
  <2> QED BY <1>13, <2>2, <2>3 DEF GoesOn
<1> HIDE DEF t2
<1>16. /\ t3 \in Seq(Symbols) /\ Len(t3) = K + 4 /\ t3[K + 4] = "r" /\ t3[K + 3] = "n"
       /\ t4 \in Seq(Symbols) /\ Len(t4) = K + 5 /\ t4[K + 4] = "r" /\ t4[K + 5] = "n"
  BY <1>2, <1>11, <1>12
<1>17. ~EndsLine(t3) /\ EndsLine(t4)
  <2> HIDE DEF t3, t4
  <2> QED BY <1>2, <1>16 DEF EndsLine
<1> HIDE DEF t3
<1>18. Partial(t3, K + 3, 1)
  <2>1. Len(t2) + 1 <= BlockMax /\ (Len(t2) + 1) - (K + 3) <= LineMax /\ 1 <= LinesMax
    BY <1>1, <1>2, <1>12
  <2>2. GoesOn(Append(t2, "r"), K + 3, 1)
    BY <1>11, <1>12, <1>15, <2>1, HeaderGoesOn
  <2> QED BY <1>17, <2>2 DEF GoesOn, t3
<1>19. Whole(t4)
  <2>1. Len(t3) + 1 <= BlockMax /\ (Len(t3) + 1) - (K + 3) <= LineMax /\ 1 <= LinesMax
    BY <1>1, <1>2, <1>16
  <2>2. GoesOn(t4, K + 3, 1)
    BY <1>11, <1>16, <1>18, <2>1, HeaderGoesOn
  <2>3. K + 3 = Len(t4) - 2
    BY <1>2, <1>16
  <2> HIDE DEF t4
  <2> QED BY <1>17, <2>2, <2>3 DEF GoesOn
<1> QED BY <1>10, <1>19

\* The line of an encoded frame: its name, its value, its number.
LEMMA TrimmedWhole ==
    ASSUME NEW s \in Seq(Symbols), s # <<>>, \A i \in 1 .. Len(s) : s[i] \notin Blank
    PROVE  Trimmed(s) = s
<1> DEFINE N == Len(s)
<1>1. N \in Nat /\ N >= 1
  BY EmptySeq
<1>2. Kept(s) = 1 .. N
  BY DEF Kept
<1>3. Trimmed(s) = SubSeq(s, CHOOSE i \in 1 .. N : \A j \in 1 .. N : i <= j,
                             CHOOSE i \in 1 .. N : \A j \in 1 .. N : i >= j)
  <2>1. 1 .. N # {}
    BY <1>1
  <2> HIDE DEF N
  <2> QED BY <1>2, <2>1 DEF Trimmed
<1> HIDE DEF N
<1>4. (CHOOSE i \in 1 .. N : \A j \in 1 .. N : i <= j) = 1
  <2>1. 1 \in 1 .. N /\ \A j \in 1 .. N : 1 <= j
    BY <1>1
  <2>2. \A i \in 1 .. N : (\A j \in 1 .. N : i <= j) => i = 1
    BY <1>1
  <2> QED BY <2>1, <2>2
<1>5. (CHOOSE i \in 1 .. N : \A j \in 1 .. N : i >= j) = N
  <2>1. N \in 1 .. N /\ \A j \in 1 .. N : N >= j
    BY <1>1
  <2>2. \A i \in 1 .. N : (\A j \in 1 .. N : i >= j) => i = N
    BY <1>1
  <2> QED BY <2>1, <2>2
<1>6. SubSeq(s, 1, N) = s
  BY SubSeqFull DEF N
<1> QED BY <1>3, <1>4, <1>5, <1>6

LEMMA EncodedLine ==
    ASSUME NEW w, IsDigits(w), w # <<>>
    PROVE  /\ LineOf(w) \in Seq(Symbols) /\ Len(LineOf(w)) = Len(w) + 1
           /\ IsHeader(LineOf(w)) /\ IsContentLength(LineOf(w)) /\ Value(LineOf(w)) = w
<1> DEFINE line == LineOf(w)
           N == Len(w)
<1>1. w \in Seq(Symbols) /\ N \in Nat /\ N >= 1 /\ \A i \in 1 .. N : w[i] \in Digits
  BY EmptySeq DEF IsDigits, HasOnly
<1>2. /\ line \in Seq(Symbols) /\ Len(line) = N + 1 /\ line[1] = "L"
      /\ \A i \in 1 .. N : line[i + 1] = w[i]
  <2>1. N \in 0 .. N /\ SubSeq(w, 1, N) = w
    BY <1>1, SubSeqFull
  <2> HIDE DEF N
  <2>2. N \in 0 .. Len(w)
    BY <2>1 DEF N
  <2>3. /\ LineOf(SubSeq(w, 1, N)) \in Seq(Symbols) /\ Len(LineOf(SubSeq(w, 1, N))) = N + 1
        /\ LineOf(SubSeq(w, 1, N))[1] = "L"
        /\ \A i \in 1 .. N : LineOf(SubSeq(w, 1, N))[i + 1] = w[i]
    BY <2>2, LineIs
  <2> QED BY <2>1, <2>3
<1>3. line = <<"L">> \o w
  BY DEF LineOf
<1> HIDE DEF line
<1>4. Colon(line) = 1
  <2>1. 1 \in 1 .. Len(line) /\ line[1] \in Colons /\ \A j \in 1 .. 1 - 1 : line[j] \notin Colons
    BY <1>1, <1>2 DEF Colons
  <2>2. ASSUME NEW i \in 1 .. Len(line), line[i] \in Colons PROVE i = 1
    <3>1. CASE i > 1
      <4>1. i - 1 \in 1 .. N /\ (i - 1) + 1 = i
        BY <1>1, <1>2, <3>1
      <4>2. line[i] \in Digits
        BY <1>1, <1>2, <4>1
      <4> QED BY <2>2, <4>2 DEF Colons, Digits
    <3> QED BY <3>1
  <2>3. ASSUME NEW i \in 1 .. Len(line), line[i] \in Colons, \A j \in 1 .. i - 1 : line[j] \notin Colons
        PROVE  i = 1
    BY <2>2, <2>3
  <2> QED BY <2>1, <2>3 DEF Colon
<1>5. SubSeq(line, 1, 1) = <<"L">>
  <2>1. 1 \in 1 .. Len(line)
    BY <1>1, <1>2
  <2> QED BY <1>2, <2>1, OneOf
<1>6. SubSeq(line, 2, Len(line)) = w
  <2> DEFINE x == SubSeq(line, 2, Len(line))
  <2>1. 2 \in Int /\ Len(line) \in Int /\ \A i \in 2 .. Len(line) : line[i] \in Symbols
    BY <1>1, <1>2
  <2>2. /\ x \in Seq(Symbols) /\ Len(x) = (IF 2 <= Len(line) THEN Len(line) - 2 + 1 ELSE 0)
        /\ \A i \in 1 .. Len(line) - 2 + 1 : x[i] = line[2 + i - 1]
    BY <2>1, SubSeqProperties
  <2> HIDE DEF x
  <2>3. Len(x) = N
    BY <1>1, <1>2, <2>2
  <2>4. ASSUME NEW i \in 1 .. N PROVE x[i] = w[i]
    <3>1. i \in 1 .. Len(line) - 2 + 1 /\ 2 + i - 1 = i + 1
      BY <1>1, <1>2
    <3> QED BY <1>2, <2>2, <3>1
  <2>5. x = w
    BY <1>1, <2>2, <2>3, <2>4, SeqEqual
  <2> QED BY <2>5 DEF x
<1>7. Name(line) = <<"L">>
  <2> DEFINE o == <<"L">>
  <2>1. o \in Seq(Symbols) /\ o # <<>> /\ \A i \in 1 .. Len(o) : o[i] \notin Blank
    BY DEF Symbols, Blank
  <2> HIDE DEF o
  <2>2. Trimmed(o) = o
    BY <2>1, TrimmedWhole
  <2> QED BY <1>4, <1>5, <2>2 DEF Name, o
<1>8. Value(line) = w
  <2>1. \A i \in 1 .. Len(w) : w[i] \notin Blank
    BY <1>1 DEF Blank, Digits
  <2>2. Trimmed(w) = w
    BY <1>1, <2>1, TrimmedWhole
  <2>3. Colon(line) + 1 = 2
    BY <1>4
  <2> QED BY <1>6, <2>2, <2>3 DEF Value
<1>9. IsHeader(line)
  <2>1. HasOnly(<<"L">>, Symbols \ {"r", "n", "x"})
    BY DEF HasOnly, Symbols
  <2>2. HasOnly(w, Symbols \ {"r", "n", "x"})
    BY <1>1 DEF HasOnly, Symbols, Digits
  <2>3. \E i \in 1 .. Len(line) : line[i] \in Colons
    BY <1>1, <1>2 DEF Colons
  <2> QED BY <1>7, <1>8, <2>1, <2>2, <2>3 DEF IsHeader
<1> QED BY <1>2, <1>7, <1>8, <1>9 DEF IsContentLength, line

LEMMA EncodedSays ==
    ASSUME NEW w, NEW n \in Nat, n <= FrameMax, Writes(w, n, DigitsMax)
    PROVE  HeaderOf(HeaderWith(w)).length = n /\ HeaderOf(HeaderWith(w)).fault = NoLength
<1> DEFINE line == LineOf(w)
           h == HeaderWith(w)
           N == Len(line)
           t == line \o <<"r", "n">>
           M == N + 2
<1>1. /\ IsDigits(w) /\ w # <<>> /\ Number(w) = n /\ HasOnly(w, Digits)
      /\ w \in Seq(Symbols) /\ Len(w) \in Nat /\ Len(w) <= DigitsMax
  BY DEF Writes, IsDigits
<1>2. /\ line \in Seq(Symbols) /\ N = Len(w) + 1 /\ N \in Nat
      /\ IsHeader(line) /\ IsContentLength(line) /\ Value(line) = w
  BY <1>1, EncodedLine
<1>3. \A i \in 1 .. N : line[i] # "n"
  <2>1. Len(w) \in 0 .. Len(w) /\ SubSeq(w, 1, Len(w)) = w
    BY <1>1, SubSeqFull
  <2>2. line[1] = "L" /\ \A i \in 1 .. Len(w) : line[i + 1] = w[i]
    <3> HIDE DEF line
    <3>1. line = LineOf(SubSeq(w, 1, Len(w)))
      BY <2>1 DEF line
    <3>2. /\ LineOf(SubSeq(w, 1, Len(w)))[1] = "L"
          /\ \A i \in 1 .. Len(w) : LineOf(SubSeq(w, 1, Len(w)))[i + 1] = w[i]
      BY <1>1, <2>1, LineIs
    <3> QED BY <3>1, <3>2
  <2> HIDE DEF line
  <2> SUFFICES ASSUME NEW i \in 1 .. N PROVE line[i] # "n"
    OBVIOUS
  <2>3. CASE i = 1
    BY <2>2, <2>3
  <2>4. CASE i > 1
    <3>1. i - 1 \in 1 .. Len(w) /\ (i - 1) + 1 = i
      BY <1>1, <1>2, <2>4
    <3>2. line[i] = w[i - 1] /\ w[i - 1] \in Digits
      BY <1>1, <2>2, <3>1 DEF HasOnly
    <3> QED BY <3>2 DEF Digits
  <2> QED BY <1>2, <2>3, <2>4
<1> HIDE DEF line
<1>4. /\ t \in Seq(Symbols) /\ Len(t) = M /\ M \in Nat
      /\ t[N + 1] = "r" /\ t[N + 2] = "n" /\ \A i \in 1 .. N : t[i] = line[i]
  <2> DEFINE e == <<"r", "n">>
  <2>1. e \in Seq(Symbols) /\ Len(e) = 2 /\ e[1] = "r" /\ e[2] = "n"
    BY DEF Symbols
  <2>2. t = line \o e
    OBVIOUS
  <2> HIDE DEF e, t
  <2>3. /\ t \in Seq(Symbols) /\ Len(t) = N + Len(e)
        /\ Agree(line, t, N) /\ \A i \in 1 .. Len(e) : t[N + i] = e[i]
    <3>1. line \in Seq(Symbols) /\ e \in Seq(Symbols)
      BY <1>2, <2>1
    <3>2. t \in Seq(Symbols) /\ Len(t) = Len(line) + Len(e) /\ Agree(line, t, Len(line))
      BY <2>2, <3>1, ConcatAgrees
    <3>3. \A i \in 1 .. Len(e) : t[Len(line) + i] = e[i]
      BY <2>2, <3>1, ConcatAgrees
    <3> QED BY <1>2, <3>2, <3>3
  <2>4. 1 \in 1 .. Len(e) /\ 2 \in 1 .. Len(e)
    BY <2>1
  <2>5. t[N + 1] = "r" /\ t[N + 2] = "n"
    BY <2>1, <2>3, <2>4
  <2> QED BY <1>2, <2>1, <2>3, <2>5 DEF Agree
<1>5. h = t \o <<"r", "n">>
  <2>1. (line \o <<"r", "n">>) \o <<"r", "n">> = line \o (<<"r", "n">> \o <<"r", "n">>)
    <3>1. <<"r", "n">> \in Seq(Symbols)
      BY DEF Symbols
    <3> QED BY <1>2, <3>1, Joined
  <2>2. <<"r", "n">> \o <<"r", "n">> = <<"r", "n", "r", "n">>
    BY TwoBreaks
  <2> QED BY <2>1, <2>2 DEF HeaderWith, line
<1> HIDE DEF t, h
<1>6. h \in Seq(Symbols) /\ Len(h) = M + 2 /\ \A i \in 1 .. M : h[i] = t[i]
  <2> DEFINE e == <<"r", "n">>
  <2>1. e \in Seq(Symbols) /\ Len(e) = 2
    BY DEF Symbols
  <2>2. h = t \o e
    BY <1>5
  <2> HIDE DEF e
  <2>3. h \in Seq(Symbols) /\ Len(h) = Len(t) + Len(e) /\ Agree(t, h, Len(t))
    BY <1>4, <2>1, <2>2, ConcatAgrees
  <2> QED BY <1>4, <2>1, <2>3 DEF Agree
<1>7. SubSeq(h, 1, Len(h) - 2) = t
  <2>1. M \in Nat /\ M <= Len(h) /\ Len(h) - 2 = M
    BY <1>4, <1>6
  <2>2. /\ SubSeq(h, 1, M) \in Seq(Symbols) /\ Len(SubSeq(h, 1, M)) = M
        /\ \A i \in 1 .. M : SubSeq(h, 1, M)[i] = h[i]
    BY <1>6, <2>1, PrefixIs
  <2>3. \A i \in 1 .. M : SubSeq(h, 1, M)[i] = t[i]
    BY <1>6, <2>2
  <2>4. SubSeq(h, 1, M) = t
    BY <1>4, <2>2, <2>3, SeqEqual
  <2> QED BY <2>1, <2>4
<1>8. Breaks(t) = {M}
  <2>1. M \in Breaks(t)
    <3>1. M \in 2 .. Len(t) /\ M - 1 = N + 1
      BY <1>2, <1>4
    <3> QED BY <1>4, <3>1 DEF Breaks
  <2>2. ASSUME NEW b \in Breaks(t) PROVE b = M
    <3>1. b \in 2 .. M /\ t[b] = "n"
      BY <1>4 DEF Breaks
    <3>2. b \notin 1 .. N
      BY <1>3, <1>4, <3>1
    <3>3. b # N + 1
      BY <1>4, <3>1
    <3> QED BY <1>2, <3>1, <3>2, <3>3
  <2> QED BY <2>1, <2>2
<1>9. LineBefore(t, M) = 0
  <2>1. {0} \cup {c \in Breaks(t) : c < M} = {0}
    BY <1>4, <1>8
  <2>2. (CHOOSE c \in {0} : \A e \in {0} : e <= c) = 0
    OBVIOUS
  <2>3. LineBefore(t, M) = CHOOSE c \in {0} : \A e \in {0} : e <= c
    BY <2>1 DEF LineBefore
  <2> QED BY <2>2, <2>3
<1>10. SubSeq(t, 1, N) = line
  <2>1. N \in Nat /\ N <= Len(t)
    BY <1>2, <1>4
  <2>2. /\ SubSeq(t, 1, N) \in Seq(Symbols) /\ Len(SubSeq(t, 1, N)) = N
        /\ \A i \in 1 .. N : SubSeq(t, 1, N)[i] = t[i]
    BY <1>4, <2>1, PrefixIs
  <2>3. \A i \in 1 .. N : SubSeq(t, 1, N)[i] = line[i]
    BY <1>4, <2>2
  <2> QED BY <1>2, <2>2, <2>3, SeqEqual
<1>11. HeaderLines(t) = <<line>>
  <2>1. PICK f : CutsUpTo(f, t) /\ HeaderLines(t) = f[M]
    BY <1>4, HeaderLinesCut
  <2>2. /\ f[0] = <<>>
        /\ \A k \in 1 .. M : f[k] = IF k \in Breaks(t)
                                    THEN Append(f[k - 1], SubSeq(t, LineBefore(t, k) + 1, k - 2))
                                    ELSE f[k - 1]
    BY <1>4, <2>1 DEF CutsUpTo
  <2> DEFINE G == {k \in 0 .. M : k < M => f[k] = <<>>}
  <2>3. ASSUME NEW k \in 1 .. M, k - 1 \in G PROVE k \in G
    <3> SUFFICES ASSUME k < M PROVE f[k] = <<>>
      BY <1>4
    <3>1. f[k - 1] = <<>>
      BY <1>4, <2>3
    <3>2. k \notin Breaks(t)
      BY <1>4, <1>8
    <3>3. f[k] = f[k - 1]
      BY <2>2, <3>2
    <3> QED BY <3>1, <3>3
  <2>4. 0 \in G
    BY <1>4, <2>2
  <2>5. 0 .. M \subseteq G
    <3> HIDE DEF G
    <3> QED BY <1>4, <2>3, <2>4, Persists
  <2>6. M - 1 \in 0 .. M /\ M - 1 < M /\ M \in 1 .. M
    BY <1>2, <1>4
  <2>7. f[M - 1] = <<>>
    BY <2>5, <2>6
  <2>8. f[M] = Append(f[M - 1], SubSeq(t, LineBefore(t, M) + 1, M - 2))
    BY <1>8, <2>2, <2>6
  <2>9. LineBefore(t, M) + 1 = 1 /\ M - 2 = N
    BY <1>2, <1>9
  <2>10. f[M] = Append(<<>>, line)
    BY <1>10, <2>7, <2>8, <2>9
  <2>11. Append(<<>>, line) = <<line>>
    OBVIOUS
  <2> QED BY <2>1, <2>10, <2>11
<1>12. NoLength \notin Nat /\ FrameMax \in Nat /\ DigitsMax \in Nat
  BY NoLengthAssumption, LimitsAssumption
<1>13. LineFault(line, NoLength) = NoLength
  <2>1. ~(Len(w) > DigitsMax) /\ ~(Number(w) > FrameMax)
    BY <1>1, <1>12
  <2>2. ~IsTooLarge(w)
    BY <2>1 DEF IsTooLarge
  <2>3. LengthFault(w, NoLength) = NoLength
    BY <1>1, <2>2 DEF LengthFault
  <2> QED BY <1>2, <2>3 DEF LineFault
<1>14. AfterLine(NoFinding, line) = [length |-> n, fault |-> NoLength]
  <2>1. AfterLine(NoFinding, line) = [NoFinding EXCEPT !.length = Number(Value(line))]
    BY <1>2, <1>13 DEF AfterLine, NoFinding
  <2>2. Number(Value(line)) = n
    BY <1>1, <1>2
  <2> QED BY <2>1, <2>2 DEF NoFinding
<1>15. Parsed(<<line>>) = [length |-> n, fault |-> NoLength]
  <2>1. <<line>> \in Seq(Seq(Symbols)) /\ Len(<<line>>) = 1 /\ <<line>>[1] = line
    BY <1>2
  <2>2. PICK f : /\ f[0] = NoFinding
                 /\ \A k \in 1 .. 1 : f[k] = AfterLine(f[k - 1], <<line>>[k])
                 /\ Parsed(<<line>>) = AfterAll(f[1])
    BY <2>1, ParsedRecurs
  <2>3. f[1] = AfterLine(NoFinding, line)
    BY <2>1, <2>2
  <2>4. f[1] = [length |-> n, fault |-> NoLength]
    BY <1>14, <2>3
  <2>5. n # NoLength
    BY <1>12
  <2> QED BY <2>2, <2>4, <2>5 DEF AfterAll
<1>16. HeaderOf(h) = Parsed(<<line>>)
  BY <1>7, <1>11 DEF HeaderOf
<1> QED BY <1>15, <1>16 DEF h

LEMMA EncodedFirst ==
    ASSUME RoomForHeader, NEW body \in Seq(Symbols), Len(body) <= FrameMax
    PROVE  /\ Encode(body) \in Seq(Symbols)
           /\ First(Encode(body)).says = "frame" /\ First(Encode(body)).body = body
           /\ First(Encode(body)).end = Len(Encode(body))
<1> DEFINE w == Decimal(Len(body))
           h == HeaderWith(w)
           s == h \o body
<1>1. Len(body) \in Nat
  OBVIOUS
<1>2. Writes(w, Len(body), DigitsMax)
  BY <1>1, DecimalIs
<1>3. IsDigits(w) /\ Len(w) <= DigitsMax /\ w # <<>>
  <2>1. DigitsMax \in Nat
    BY LimitsAssumption
  <2> HIDE DEF w
  <2> QED BY <1>2, <2>1 DEF Writes, IsDigits
<1>4. Encode(body) = s
  BY DEF Encode, HeaderWith, LineOf
<1> HIDE DEF w
<1>5. Whole(h)
  BY <1>3, EncodedHeader
<1>6. HeaderOf(h).length = Len(body) /\ HeaderOf(h).fault = NoLength
  BY <1>1, <1>2, EncodedSays
<1>7. h \in Seq(Symbols)
  <2>1. LineOf(w) \in Seq(Symbols)
    BY <1>3, EncodedLine
  <2>2. <<"r", "n", "r", "n">> \in Seq(Symbols)
    BY DEF Symbols
  <2> QED BY <2>1, <2>2, ConcatProperties DEF HeaderWith
<1>8. HeaderEnds(h) = {Len(h)} /\ ~\E i \in 1 .. Len(h) : ~Inside(h, i)
  BY <1>5 DEF Whole
<1> HIDE DEF h
<1>9. s \in Seq(Symbols) /\ Len(s) = Len(h) + Len(body) /\ Len(h) \in Nat
  <2>1. s = h \o body
    OBVIOUS
  <2> HIDE DEF s
  <2> QED BY <1>7, <2>1, ConcatAgrees
<1>10. First(s) =
             IF \E i \in 1 .. Len(h) : ~Inside(h, i) THEN [says |-> "framing", body |-> <<>>, end |-> 0]
             ELSE IF HeaderOf(h).fault # NoLength
                  THEN [says |-> HeaderOf(h).fault, body |-> <<>>, end |-> 0]
             ELSE IF Len(s) < Len(h) + HeaderOf(h).length
                  THEN [says |-> "none", body |-> <<>>, end |-> 0]
             ELSE [says |-> "frame", body |-> SubSeq(s, Len(h) + 1, Len(h) + HeaderOf(h).length),
                   end |-> Len(h) + HeaderOf(h).length]
  BY <1>7, <1>8, FirstOfHeader
<1>11. ~(Len(s) < Len(h) + Len(body))
  BY <1>1, <1>9
<1>12. First(s) = [says |-> "frame", body |-> SubSeq(s, Len(h) + 1, Len(h) + Len(body)),
                   end |-> Len(h) + Len(body)]
  BY <1>6, <1>8, <1>10, <1>11
<1>13. SubSeq(s, Len(h) + 1, Len(h) + Len(body)) = body
  <2>1. Len(body) \in 0 .. Len(body)
    BY <1>1
  <2>2. SubSeq(s, Len(h) + 1, Len(h) + Len(body)) = SubSeq(body, 1, Len(body))
    <3>1. PastHead(s, h, body, Len(body))
      BY <1>7, <2>1, SuffixPastHead
    <3> QED BY <3>1 DEF PastHead
  <2> QED BY <2>2, SubSeqFull
<1> HIDE DEF s
<1> QED BY <1>4, <1>9, <1>12, <1>13

\* A stream that is the encoding of the frames of fs, one by one.
Encodes(e, fs) ==
    /\ e \in [0 .. Len(fs) -> Seq(Symbols)]
    /\ e[0] = <<>>
    /\ \A k \in 1 .. Len(fs) : Len(fs[k]) <= FrameMax /\ e[k] = e[k - 1] \o Encode(fs[k])

\* The frames up to each are found in what is encoded of them.
LEMMA EncodedFollows ==
    ASSUME RoomForHeader, NEW fs \in Seq(Seq(Symbols)), NEW e, Encodes(e, fs)
    PROVE  Reaches(e[Len(fs)], fs, Len(e[Len(fs)]))
<1> DEFINE K == Len(fs)
           upTo(k) == SubSeq(fs, 1, k)
           Found(k) == Reaches(e[k], upTo(k), Len(e[k]))
           G == {k \in 0 .. K : Found(k)}
<1>1. /\ K \in Nat /\ e[0] = <<>> /\ \A k \in 0 .. K : e[k] \in Seq(Symbols)
      /\ \A k \in 1 .. K : Len(fs[k]) <= FrameMax /\ fs[k] \in Seq(Symbols)
                           /\ e[k] = e[k - 1] \o Encode(fs[k])
  <2>1. \A k \in 1 .. K : Len(fs[k]) <= FrameMax /\ e[k] = e[k - 1] \o Encode(fs[k])
    BY Zenon DEF Encodes
  <2>2. K \in Nat /\ \A k \in 1 .. K : fs[k] \in Seq(Symbols)
    OBVIOUS
  <2>3. e[0] = <<>> /\ \A k \in 0 .. K : e[k] \in Seq(Symbols)
    BY DEF Encodes
  <2> QED BY <2>1, <2>2, <2>3
<1>2. ASSUME NEW k \in 0 .. K PROVE upTo(k) \in Seq(Seq(Symbols)) /\ Len(upTo(k)) = k
  <2>1. 1 \in Int /\ k \in Int /\ \A j \in 1 .. k : fs[j] \in Seq(Symbols)
    BY <1>1
  <2>2. upTo(k) \in Seq(Seq(Symbols)) /\ Len(upTo(k)) = IF 1 <= k THEN k - 1 + 1 ELSE 0
    BY <2>1, SubSeqProperties
  <2> QED BY <1>1, <2>2
<1>3. Found(0)
  <2>1. upTo(0) = <<>> /\ Len(e[0]) = 0 /\ Len(<<>>) = 0
    BY <1>1, SubSeqEmpty
  <2>2. Follows([k \in 0 .. 0 |-> 0], e[0], <<>>)
    <3>1. e[0] \in Seq(Symbols)
      BY <1>1
    <3> QED BY <3>1, NothingFollows
  <2>3. Reaches(e[0], <<>>, 0)
    <3> DEFINE u == [k \in 0 .. 0 |-> 0]
    <3>1. Follows(u, e[0], <<>>) /\ u[Len(<<>>)] = 0
      BY <2>1, <2>2
    <3> HIDE DEF u
    <3> QED BY <3>1 DEF Reaches
  <2> QED BY <2>1, <2>3
<1>4. ASSUME NEW k \in 1 .. K, Found(k - 1) PROVE Found(k)
  <2> DEFINE p == e[k - 1]
             t == Encode(fs[k])
             a == upTo(k - 1)
             q == e[k]
             i == Len(p)
  <2>1. k - 1 \in 0 .. K /\ k \in 0 .. K /\ Len(a) = k - 1
    <3>1. k - 1 \in 0 .. K
      BY <1>1
    <3> QED BY <1>2, <3>1
  <2>2. /\ p \in Seq(Symbols) /\ a \in Seq(Seq(Symbols)) /\ t \in Seq(Symbols) /\ i \in Nat
        /\ q = p \o t
        /\ First(t).says = "frame" /\ First(t).body = fs[k] /\ First(t).end = Len(t)
    <3>1. fs[k] \in Seq(Symbols) /\ Len(fs[k]) <= FrameMax /\ q = p \o t
      BY <1>1, Zenon
    <3>2. /\ t \in Seq(Symbols)
          /\ First(t).says = "frame" /\ First(t).body = fs[k] /\ First(t).end = Len(t)
      BY <3>1, EncodedFirst
    <3>3. p \in Seq(Symbols) /\ a \in Seq(Seq(Symbols))
      BY <1>1, <1>2, <2>1
    <3>4. i \in Nat
      BY <3>3
    <3> QED BY <3>1, <3>2, <3>3, <3>4
  <2>3. PICK o : Follows(o, p, a) /\ o[Len(a)] = i
    BY <1>4 DEF Reaches
  <2>4. upTo(k) = Append(a, fs[k])
    <3>1. 1 \in 1 .. Len(fs) + 1 /\ k - 1 \in 1 - 1 .. Len(fs) /\ k \in k - 1 .. Len(fs)
      BY <1>1
    <3>2. SubSeq(fs, 1, k - 1) \o SubSeq(fs, (k - 1) + 1, k) = SubSeq(fs, 1, k)
      BY <3>1, ConcatAdjacentSubSeq
    <3>3. (k - 1) + 1 = k
      BY <2>1
    <3>4. SubSeq(fs, k, k) = <<fs[k]>>
      BY <1>1, OneOf
    <3>5. Append(a, fs[k]) = a \o <<fs[k]>>
      <4>1. \A x \in Seq(Seq(Symbols)), y \in Seq(Symbols) : Append(x, y) = x \o <<y>>
        BY AppendIsConcat
      <4>2. a \in Seq(Seq(Symbols)) /\ fs[k] \in Seq(Symbols)
        BY <1>1, <2>2
      <4> HIDE DEF a
      <4> QED BY <4>1, <4>2
    <3> QED BY <3>2, <3>3, <3>4, <3>5
  <2>5. FirstAt(q, i) = First(t)
    <3>1. i \in 0 .. Len(p) /\ p \in Seq(Symbols) /\ t \in Seq(Symbols)
      BY <2>2
    <3>2. Suffix(p \o t, i) = Suffix(p, i) \o t
      BY <3>1, SuffixExtends
    <3>3. Suffix(p, i) = <<>>
      <4>1. Suffix(p, i) \in Seq(Symbols) /\ Len(Suffix(p, i)) = Len(p) - i
        BY <3>1, SuffixIs
      <4> QED BY <2>2, <4>1, EmptySeq
    <3>4. <<>> \o t = t
      BY <3>1, ConcatEmptySeq
    <3> QED BY <2>2, <3>2, <3>3, <3>4 DEF FirstAt
  <2>6. q \in Seq(Symbols) /\ Len(q) = i + Len(t)
    BY <2>2, ConcatProperties
  <2>7. Follows(o, q, a)
    <3>1. Follows(o, p \o t, a)
      BY <2>2, <2>3, FollowsLonger
    <3> QED BY <2>2, <3>1
  <2>8. EndAt(q, i) = Len(q)
    BY <2>2, <2>5, <2>6 DEF EndAt
  <2> HIDE DEF a, p, q, t, i
  <2>9. FirstAt(q, i).says = "frame" /\ FirstAt(q, i).body = fs[k]
    BY <2>2, <2>5
  <2>10. Reaches(q, Append(a, FirstAt(q, i).body), EndAt(q, i))
    BY <2>2, <2>3, <2>6, <2>7, <2>9, FollowsFurther
  <2> QED BY <2>4, <2>8, <2>9, <2>10 DEF q
<1>5. Found(K)
  <2>1. \A k \in 1 .. K : k - 1 \in G => k \in G
    <3>1. ASSUME NEW k \in 1 .. K, k - 1 \in G PROVE k \in G
      <4>1. Found(k - 1) /\ k \in 0 .. K
        BY <3>1
      <4> HIDE DEF Found
      <4> QED BY <1>4, <4>1
    <3> QED BY <3>1
  <2>2. 0 \in G
    <3>1. 0 \in 0 .. K
      BY <1>1
    <3> HIDE DEF Found
    <3> QED BY <1>3, <3>1
  <2>3. 0 .. K \subseteq G
    <3> HIDE DEF G
    <3> QED BY <1>1, <2>1, <2>2, Persists
  <2>4. K \in 0 .. K
    BY <1>1
  <2>5. K \in G
    BY <2>3, <2>4
  <2> HIDE DEF Found
  <2> QED BY <2>5
<1>6. upTo(K) = fs
  BY SubSeqFull
<1> QED BY <1>5, <1>6

\* The reference of an encoded stream: its frames, and nothing else.
LEMMA EncodedRefers ==
    ASSUME RoomForHeader, NEW fs \in Seq(Seq(Symbols)), NEW e, Encodes(e, fs)
    PROVE  /\ Reference(e[Len(fs)]).bodies = fs
           /\ Reference(e[Len(fs)]).says = "none" /\ Reference(e[Len(fs)]).rest = 0
<1> DEFINE p == e[Len(fs)]
<1>1. p \in Seq(Symbols) /\ Len(p) \in Nat
  <2>1. Len(fs) \in 0 .. Len(fs)
    OBVIOUS
  <2> QED BY <2>1 DEF Encodes
<1>2. Reaches(p, fs, Len(p))
  BY EncodedFollows
<1> HIDE DEF p
<1>3. PICK o : Follows(o, p, fs) /\ o[Len(fs)] = Len(p)
  BY <1>2 DEF Reaches
<1>4. FirstAt(p, Len(p)).says = "none"
  <2>1. Len(p) \in 0 .. Len(p)
    BY <1>1
  <2>2. Suffix(p, Len(p)) \in Seq(Symbols) /\ Len(Suffix(p, Len(p))) = Len(p) - Len(p)
    BY <1>1, <2>1, SuffixIs
  <2>3. Suffix(p, Len(p)) = <<>>
    BY <1>1, <2>2, EmptySeq
  <2>4. First(<<>>).says = "none"
    <3>1. <<>> \in Seq(Symbols)
      OBVIOUS
    <3> QED BY <3>1, NothingIsPartial, FirstOfPartial
  <2> QED BY <2>3, <2>4 DEF FirstAt
<1>5. PICK row \in Rows :
        /\ Reference(p) = [row EXCEPT !.bodies = fs \o @]
        /\ LET first == FirstAt(p, o[Len(fs)]) IN
             first.says # "frame" =>
               row = [bodies |-> <<>>, says |-> first.says, rest |-> Len(p) - o[Len(fs)]]
  BY <1>1, <1>3, ReferenceFollows
<1>6. row = [bodies |-> <<>>, says |-> "none", rest |-> Len(p) - Len(p)]
  BY <1>3, <1>4, <1>5
<1>7. row.bodies = <<>> /\ row.says = "none" /\ row.rest = 0
  BY <1>1, <1>6
<1>8. fs \o <<>> = fs
  BY ConcatEmptySeq
<1>9. Reference(p) = [row EXCEPT !.bodies = fs \o row.bodies]
  BY <1>5
<1>10. Reference(p).bodies = fs \o row.bodies /\ Reference(p).says = row.says /\ Reference(p).rest = row.rest
  BY <1>9 DEF Rows
<1> QED BY <1>7, <1>8, <1>10 DEF p

(* What FrameEncoder::encode writes, FrameDecoder reads (framing.rs): of a
   stream that encodes some frames, in pieces of any size, the decoder returns
   the frames from the first on, never reports a fault, and has returned them
   all when all is pushed and it asks for more.  The bodies are any that keep
   the limit of a frame, and the limits of a header leave room for the one that
   is written (RoomForHeader), as the defaults do. *)
ReadsWhatIsWritten(e, fs) ==
    pushed = e[Len(fs)] /\ call \in {"idle", "ended"} =>
        /\ answer \in {"none", "frame"}
        /\ Len(frames) <= Len(fs) /\ frames = SubSeq(fs, 1, Len(frames))
        /\ answer = "none" => frames = fs

THEOREM EncodedIsDecoded ==
    ASSUME RoomForHeader, NEW fs \in Seq(Seq(Symbols)), NEW e, Encodes(e, fs)
    PROVE  DecoderSpec => []ReadsWhatIsWritten(e, fs)
<1>1. Within /\ DecodingIsExact => ReadsWhatIsWritten(e, fs)
  <2> SUFFICES ASSUME Within, DecodingIsExact, pushed = e[Len(fs)], call \in {"idle", "ended"}
               PROVE  /\ answer \in {"none", "frame"}
                      /\ Len(frames) <= Len(fs) /\ frames = SubSeq(fs, 1, Len(frames))
                      /\ answer = "none" => frames = fs
    BY DEF ReadsWhatIsWritten
  <2> DEFINE ref == Reference(pushed)
  <2>1. ref.bodies = fs /\ ref.says = "none" /\ ref.rest = 0
    BY EncodedRefers
  <2>2. IsExact(ref)
    BY DEF DecodingIsExact
  <2>3. answer \in Answers
    BY DEF Within, DecoderTypeOK
  <2> HIDE DEF ref
  <2> QED BY <2>1, <2>2, <2>3 DEF IsExact, Answers
<1> QED BY <1>1, WithinHolds, DecoderIsExact, PTL

=============================================================================
