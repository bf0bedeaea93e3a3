---------------------------- MODULE BoardAdapter ----------------------------
(***************************************************************************)
(* The request loop of `gareji-core bridge` (main.rs) and the adapter by   *)
(* which it asks Gareji Board (board_adapter.rs).                          *)
(*                                                                         *)
(* The loop is one thread: it takes a line, handles it and answers before  *)
(* it takes the next one.  A selection asks Board over the pipes of a      *)
(* child that is started on demand, reused by later requests and killed    *)
(* after a failed exchange.  Board itself is external: it may answer once, *)
(* repeat itself, write something else, exit or never answer.              *)
(***************************************************************************)
EXTENDS Naturals, Sequences

CONSTANTS
    Items,          \* work items a caller may select
    NoItem,
    MaxRequests,    \* bound on the requests of the transport
    MaxFaults       \* bound on faults of Board and its host

ASSUME AdapterBoundsAssumption == MaxRequests \in Nat /\ MaxFaults \in Nat

VARIABLES
    inbox,          \* the transport's lines that the loop has not taken
    current,        \* the request being handled
    counter,        \* request_counter
    child,          \* the Board process: "none", "up", "hung" or "exited"
    asked,          \* requests in the pipe to the child
    lines,          \* lines the child wrote and the adapter did not read
    eligible,       \* the items Board calls eligible now
    \* history
    sent,           \* requests the transport has sent
    answered,       \* how many of them are answered
    possible,       \* what Board could truly say of the item it was last asked about, until the answer
    last,           \* the last assessment given to Core
    faults,         \* faults of Board so far
    failures        \* selections answered with Unavailable or InvalidResponse

board == <<child, asked, lines>>
history == <<sent, answered, possible, last, faults, failures>>
adapterVars == <<inbox, current, counter, board, eligible, history>>

Kinds == Items \cup {NoItem}   \* NoItem: a request that does not concern Board
NoRequest == [id |-> 0, item |-> NoItem]
Requests == [id : Nat, item : Items]
Verdicts == {"eligible", "ineligible", "not_found", "error", "noise"}
Lines == [id : Nat, item : Kinds, verdict : Verdicts]

AdapterTypeOK ==
    /\ inbox \in Seq(Kinds)
    /\ current = NoRequest \/ current \in Requests
    /\ counter \in 1 .. (MaxRequests + 1)
    /\ child \in {"none", "up", "hung", "exited"}
    /\ asked \in Seq(Requests)
    /\ lines \in Seq(Lines)
    /\ eligible \in SUBSET Items
    /\ sent \in Seq(Kinds)
    /\ answered \in 0 .. Len(sent)
    /\ possible \in SUBSET {"eligible", "ineligible"}
    /\ last \in SUBSET {"eligible", "ineligible"}
    /\ faults \in 0 .. MaxFaults
    /\ failures \in Nat
    \* a child that was never started, or was dropped, has no pipes
    /\ child = "none" => asked = <<>> /\ lines = <<>>

AdapterInit ==
    /\ inbox = <<>>
    /\ current = NoRequest
    /\ counter = 1
    /\ child = "none"
    /\ asked = <<>>
    /\ lines = <<>>
    /\ eligible \in SUBSET Items
    /\ sent = <<>>
    /\ answered = 0
    /\ possible = {}
    /\ last = {}
    /\ faults = 0
    /\ failures = 0

-----------------------------------------------------------------------------
(* Environment: the transport, and the work items on Board *)

Send(kind) ==
    /\ Len(sent) < MaxRequests
    /\ sent' = Append(sent, kind)
    /\ inbox' = Append(inbox, kind)
    /\ UNCHANGED <<current, counter, board, eligible, answered, possible, last, faults, failures>>

Truth(items, i) == IF i \in items THEN "eligible" ELSE "ineligible"

BoardChanges(i) ==
    /\ eligible' = IF i \in eligible THEN eligible \ {i} ELSE eligible \cup {i}
    /\ possible' = IF current.item = i THEN possible \cup {Truth(eligible', i)} ELSE possible
    /\ UNCHANGED <<inbox, current, counter, board, sent, answered, last, faults, failures>>

-----------------------------------------------------------------------------
(* The loop and the adapter *)

AtInput == current = NoRequest

\* A request that does not need Board is answered from Core's own tables.
HandleOther ==
    /\ AtInput
    /\ inbox # <<>>
    /\ Head(inbox) = NoItem
    /\ inbox' = Tail(inbox)
    /\ answered' = answered + 1
    /\ UNCHANGED <<current, counter, board, eligible, sent, possible, last, faults, failures>>

Fault == faults < MaxFaults /\ faults' = faults + 1

(* assess_active_work takes the next request id and writes the request to the
   running child, or to a new one. *)
AskWith(pipe) ==
    /\ AtInput
    /\ inbox # <<>>
    /\ Head(inbox) # NoItem
    /\ inbox' = Tail(inbox)
    /\ counter' = counter + 1
    /\ current' = [id |-> counter, item |-> Head(inbox)]
    /\ possible' = {Truth(eligible, Head(inbox))}
    /\ asked' = Append(pipe, current')
    /\ last' = {}
    /\ UNCHANGED <<lines, eligible, sent, answered, faults, failures>>

AskRunning == child # "none" /\ AskWith(asked) /\ UNCHANGED child
AskSpawned == child = "none" /\ AskWith(<<>>) /\ child' = "up"

\* The child cannot be started: the id is used up, nothing else is kept.
SpawnFails ==
    /\ AtInput
    /\ inbox # <<>>
    /\ Head(inbox) # NoItem
    /\ child = "none"
    /\ Fault
    /\ inbox' = Tail(inbox)
    /\ counter' = counter + 1
    /\ answered' = answered + 1
    /\ failures' = failures + 1
    /\ UNCHANGED <<current, board, eligible, sent, possible, last>>

\* Faulty variant: the response's request id is not compared.
IsAnyAnswer(line) == line.verdict # "noise" /\ line.item = current.item
(* A response carries the request id, and an assessment repeats the identities
   it was asked about. *)
IsAnswer(line) ==
    /\ line.verdict # "noise"
    /\ line.id = current.id
    /\ line.verdict \in {"eligible", "ineligible"} => line.item = current.item

IsAssessment(line) == IsAnswer(line) /\ line.verdict \in {"eligible", "ineligible"}
Fails(line) == ~IsAnswer(line) \/ line.verdict = "error"

\* Faulty variant: the child survives a response that does not fit.
NeverDrops(failed) == FALSE
\* process.take(): the child is killed and reaped, its pipes are closed.
Drops(failed) == failed

DropOrKeep(failed) ==
    IF Drops(failed)
    THEN child' = "none" /\ asked' = <<>> /\ lines' = <<>>
    ELSE lines' = Tail(lines) /\ UNCHANGED <<child, asked>>

Finish(failed) ==
    /\ current' = NoRequest
    /\ answered' = answered + 1
    /\ failures' = IF failed THEN failures + 1 ELSE failures
    /\ UNCHANGED <<inbox, counter, eligible, sent, faults>>

\* The next line of the child is the response, whatever it is.
ReadLine ==
    /\ ~AtInput
    /\ lines # <<>>
    /\ LET line == Head(lines)
       IN  /\ DropOrKeep(Fails(line))
           /\ Finish(Fails(line))
           /\ last' = IF IsAssessment(line) THEN {line.verdict} ELSE {}
    /\ UNCHANGED possible

\* Faulty variant: the end of the output is not noticed.
NeverEnded == FALSE
Ended == lines = <<>> /\ child = "exited"

(* The child has exited: writing fails, or its output ends without a line.
   What it wrote before is read first. *)
ReadEnd ==
    /\ ~AtInput
    /\ Ended
    /\ child' = "none"
    /\ asked' = <<>>
    /\ Finish(TRUE)
    /\ UNCHANGED <<lines, last, possible>>

-----------------------------------------------------------------------------
(* Board (external) *)

Write(line) == lines' = Append(lines, line)

BoardAnswers ==
    /\ child = "up"
    /\ asked # <<>>
    /\ asked' = Tail(asked)
    /\ \E verdict \in {Truth(eligible, Head(asked).item), "not_found"} :
         Write([id |-> Head(asked).id, item |-> Head(asked).item, verdict |-> verdict])
    /\ UNCHANGED <<inbox, current, counter, child, eligible, history>>

\* An answer that is an error, or that speaks of another item.
BoardAnswersWrongly ==
    /\ child = "up"
    /\ asked # <<>>
    /\ Fault
    /\ asked' = Tail(asked)
    /\ \/ Write([id |-> Head(asked).id, item |-> Head(asked).item, verdict |-> "error"])
       \/ \E i \in Items \ {Head(asked).item} :
            Write([id |-> Head(asked).id, item |-> i, verdict |-> Truth(eligible, i)])
    /\ UNCHANGED <<inbox, current, counter, child, eligible, sent, answered, possible, last, failures>>

(* A line nobody asked for: a repetition of the last line, a late answer to an
   earlier request, or no response at all. *)
BoardSpeaks ==
    /\ child = "up"
    /\ Fault
    /\ \/ Write([id |-> 0, item |-> NoItem, verdict |-> "noise"])
       \/ \E n \in 1 .. (counter - 1), i \in Items :
            \E verdict \in {"eligible", "ineligible"} :
              /\ n # current.id
              /\ Write([id |-> n, item |-> i, verdict |-> verdict])
    /\ UNCHANGED <<inbox, current, counter, child, asked, eligible, sent, answered, possible, last, failures>>

BoardExits ==
    /\ child \in {"up", "hung"}
    /\ Fault
    /\ child' = "exited"
    /\ UNCHANGED <<inbox, current, counter, asked, lines, eligible, sent, answered, possible, last, failures>>

BoardHangs ==
    /\ child = "up"
    /\ Fault
    /\ child' = "hung"
    /\ UNCHANGED <<inbox, current, counter, asked, lines, eligible, sent, answered, possible, last, failures>>

Core == HandleOther \/ AskRunning \/ AskSpawned \/ SpawnFails \/ ReadLine \/ ReadEnd
Board == BoardAnswers \/ BoardAnswersWrongly \/ BoardSpeaks \/ BoardExits \/ BoardHangs
Transport == \E kind \in Kinds : Send(kind)

AdapterNext == Transport \/ (\E i \in Items : BoardChanges(i)) \/ Core \/ Board

AdapterSpec == AdapterInit /\ [][AdapterNext]_adapterVars

(* The loop runs whenever it can; a Board that is up comes round to a request
   it was sent, while a hung one owes nothing. *)
AdapterFairSpec == AdapterSpec /\ WF_adapterVars(Core) /\ WF_adapterVars(BoardAnswers)

-----------------------------------------------------------------------------
(* Properties *)

(* The verdict Core acts on was true of the item it asked about at some moment
   between the question and the answer: no line Board wrote for another
   request, another item or another time is taken for it. *)
AssessmentIsFresh == last \subseteq possible

(* Every selection that fails for want of a valid response can be blamed on a
   fault of its own: one stray line, exit or failed start costs at most one
   request, and the request after it meets a clean pair of pipes. *)
EveryFailureHasAFault == AdapterTypeOK /\ failures <= faults

(* A transport that sent a request gets its answer, whatever requests are
   queued before it and whether Board answers, exits or fails to start; only a
   Board that runs and never answers again can hold it up, for the loop reads
   its pipe without a timeout. *)
RequestsAreAnswered ==
    \A n \in 1 .. MaxRequests : (Len(sent) >= n) ~> (answered >= n \/ [](child = "hung"))

=============================================================================
