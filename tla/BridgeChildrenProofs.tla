------------------------ MODULE BridgeChildrenProofs ------------------------
(***************************************************************************)
(* Proofs about the two processes that talk to a child over its pipes: the *)
(* Stop hook, whose child is a bridge (StopHook), and the bridge, whose    *)
(* child is Board (BoardAdapter).  For every number of hooks, turns,       *)
(* projects and requests.                                                  *)
(***************************************************************************)
EXTENDS StopHook, BoardAdapter, WellFoundedInduction, SequenceTheorems, TLAPS

-----------------------------------------------------------------------------
(* The Stop hook.  A bridge child works for a hook that captured a checkpoint;
   what it was authorized with is a registration the project has had, and its
   ok means that the ledger holds the content of its hook. *)

Agrees(reg, c) == reg.writes /\ reg.workspace = c.workspace

Bridged(h) ==
    /\ bridge[h].at # "none" => hook[h] \in Captures
    /\ bridge[h].at = "authorized" =>
         \E v \in versions[hook[h].content.project] :
             Agrees(v, hook[h].content) /\ v.targets = bridge[h].targets
    /\ bridge[h].at = "ok" => content[Identity(h)] = hook[h].content
    /\ hook[h].at = "recorded" => content[Identity(h)] = hook[h].content

Connected(id) ==
    /\ content[id] = None => \A d \in Destinations : delivery[<<id, d>>] = "absent"
    /\ content[id] # None =>
         \E v \in versions[id[2]] :
             /\ Agrees(v, content[id])
             /\ \A d \in Destinations : d \in v.targets <=> delivery[<<id, d>>] # "absent"

HookInv ==
    /\ TypeOK
    /\ \A p \in Projects : registered[p] # None => registered[p] \in versions[p]
    /\ \A h \in Runs : Bridged(h)
    /\ \A id \in Ids : Connected(id)

\* Projects are numbered, so that max() has a first of equals.
LEMMA LeastNumber ==
    ASSUME NEW S \in SUBSET Nat, S # {} PROVE \E m \in S : \A k \in S : m <= k
<1> DEFINE R == {ss \in Nat \X Nat : ss[1] < ss[2]}
<1>1. IsWellFoundedOn(R, Nat)
  BY NatLessThanWellFounded DEF OpToRel
<1> HIDE DEF R
<1>2. \E m \in S : \A k \in S : ~(<<k, m>> \in R)
  BY <1>1, WFMin
<1>3. ASSUME NEW m \in S, NEW k \in S, ~(<<k, m>> \in R) PROVE m <= k
  BY <1>3 DEF R
<1> QED BY <1>2, <1>3

LEMMA ChosenIsNearest ==
    ASSUME NEW dir, Nearest(dir) # {} PROVE Chosen(dir) \in Nearest(dir)
<1>1. Nearest(dir) \in SUBSET Nat
  BY ProjectsAssumption DEF Nearest, Listed
<1>2. \E p \in Nearest(dir) : \A q \in Nearest(dir) : p <= q
  BY <1>1, LeastNumber
<1> QED BY <1>2 DEF Chosen

\* What a hook is at each of its places.
LEMMA HookAt ==
    ASSUME TypeOK, NEW h \in Runs
    PROVE  /\ hook[h].at = "selected" => hook[h] \in Selections
           /\ hook[h].at \in {"sent", "recorded"} => hook[h] \in Captures
           /\ hook[h] \in {NotStarted} \cup Selections \cup Captures \cup Ends
           /\ hook[h] \in Captures =>
                /\ hook[h].turn \in Turns /\ hook[h].content \in Contents
                /\ hook[h].content.project \in Projects /\ Identity(h) \in Ids
BY DEF TypeOK, NotStarted, Selections, Captures, Ends, Contents, Identity, Ids

LEMMA HookInit == Init => HookInv
<1> SUFFICES ASSUME Init PROVE HookInv
  OBVIOUS
<1>1. TypeOK
  BY BoundsAssumption DEF Init, TypeOK, NotStarted, BridgeStates, Ledger!Init, Ledger!TypeOK, Ledger!Statuses
<1>2. /\ \A p \in Projects : registered[p] = None
      /\ \A h \in Runs : Bridged(h)
      /\ \A id \in Ids : Connected(id)
  BY DEF Init, Ledger!Init, Bridged, Connected, NotStarted
<1> QED BY <1>1, <1>2 DEF HookInv

(* The operator and the working tree. *)
LEMMA HookRegister ==
    ASSUME HookInv, NEW p \in Projects, NEW reg \in Registrations, Register(p, reg)
    PROVE  HookInv'
<1>1. /\ registered' = [registered EXCEPT ![p] = reg]
      /\ versions' = [versions EXCEPT ![p] = @ \cup {reg}]
      /\ UNCHANGED <<content, delivery, cwd, tree, hook, bridge>>
  BY DEF Register, ledger
<1>2. TypeOK'
  BY <1>1 DEF HookInv, TypeOK, Ledger!TypeOK
<1>3. \A q \in Projects : registered'[q] # None => registered'[q] \in versions'[q]
  BY <1>1 DEF HookInv, TypeOK
<1>4. \A q \in Projects : versions[q] \subseteq versions'[q]
  BY <1>1 DEF HookInv, TypeOK
<1>5. ASSUME NEW h \in Runs PROVE Bridged(h)'
  <2>1. hook[h] \in Captures => hook[h].content.project \in Projects
    BY HookAt DEF HookInv
  <2> QED BY <1>1, <1>4, <2>1 DEF HookInv, Bridged, Identity
<1>6. ASSUME NEW id \in Ids PROVE Connected(id)'
  <2>1. id[2] \in Projects
    BY DEF Ids
  <2> QED BY <1>1, <1>4, <2>1 DEF HookInv, Connected
<1> QED BY <1>2, <1>3, <1>5, <1>6 DEF HookInv

(* Steps of a hook that leave the tables and its bridge alone. *)
LEMMA HookMoves ==
    ASSUME HookInv, NEW h \in Runs, NEW state, GoTo(h, state),
           UNCHANGED <<registered, ledger, cwd, bridge, versions>>, tree' \in 0 .. MaxChanges,
           state \in Selections \cup Captures \cup Ends,
           hook[h] \in Captures => /\ state \in Captures
                                   /\ state.turn = hook[h].turn /\ state.content = hook[h].content,
           hook[h] \in Captures \/ bridge[h].at = "none",
           state.at = "recorded" => hook[h] \in Captures /\ bridge[h].at = "ok",
           state.at = "selected" /\ ~state.configured =>
               state.workspace # 0 /\ Contains(state.workspace, cwd[state.turn])
    PROVE  HookInv'
<1>1. /\ hook' = [hook EXCEPT ![h] = state]
      /\ UNCHANGED <<registered, content, delivery, cwd, bridge, versions>>
  BY DEF GoTo, ledger
<1>2. \A g \in Runs : hook'[g] = IF g = h THEN state ELSE hook[g]
  BY <1>1 DEF HookInv, TypeOK
<1>3. TypeOK'
  BY <1>1, <1>2 DEF HookInv, TypeOK, Ledger!TypeOK
<1>4. ASSUME NEW g \in Runs PROVE Bridged(g)'
  <2>1. CASE g # h
    BY <2>1, <1>1, <1>2 DEF HookInv, Bridged, Identity
  <2>2. CASE g = h
    BY <2>2, <1>1, <1>2 DEF HookInv, Bridged, Identity
  <2> QED BY <2>1, <2>2
<1>5. \A id \in Ids : Connected(id)'
  BY <1>1 DEF HookInv, Connected
<1> QED BY <1>1, <1>3, <1>4, <1>5 DEF HookInv

(* A hook that selects a project, or finds none. *)
LEMMA HookSelects ==
    ASSUME HookInv, NEW h \in Runs, NEW t \in Turns, NEW p \in Projects, NEW configured \in BOOLEAN,
           hook[h] = NotStarted, p \in Listed, Select(h, t, p, configured),
           ~configured => Matches(p, cwd[t]),
           UNCHANGED <<registered, ledger, cwd, tree, bridge, versions>>
    PROVE  HookInv'
<1>1. registered[p] \in Registrations /\ registered[p].workspace \in Workspaces
  BY RegistrationsAssumption DEF HookInv, TypeOK, Listed
<1>2. hook[h] \notin Captures /\ bridge[h].at = "none" /\ tree' \in 0 .. MaxChanges
  BY DEF HookInv, TypeOK, Bridged, NotStarted, Captures, BridgeStates
<1>3. CASE registered[p].writes
  <2> DEFINE state == [at |-> "selected", turn |-> t, project |-> p,
                       workspace |-> registered[p].workspace, configured |-> configured]
  <2>1. state \in Selections /\ state.at = "selected" /\ state.turn = t
        /\ state.workspace = registered[p].workspace /\ state.configured = configured
    BY <1>1 DEF Selections
  <2>2. GoTo(h, state)
    BY <1>3 DEF Select
  <2>3. ~configured => registered[p].workspace # 0 /\ Contains(registered[p].workspace, cwd[t])
    BY DEF Matches
  <2> HIDE DEF state
  <2> QED BY <1>2, <2>1, <2>2, <2>3, HookMoves
<1>4. CASE ~registered[p].writes
  <2>1. [at |-> "warned"] \in Ends /\ [at |-> "warned"].at = "warned"
    BY DEF Ends
  <2>2. GoTo(h, [at |-> "warned"])
    BY <1>4 DEF Select
  <2> QED BY <1>2, <2>1, <2>2, HookMoves
<1> QED BY <1>3, <1>4

LEMMA HookGivesUp ==
    ASSUME HookInv, NEW h \in Runs, hook[h] \notin Captures,
           NEW end \in {"ignored", "warned", "killed"}, GoTo(h, [at |-> end]),
           UNCHANGED <<registered, ledger, cwd, tree, bridge, versions>>
    PROVE  HookInv'
<1>1. [at |-> end] \in Ends /\ [at |-> end].at = end
  BY DEF Ends
<1>2. bridge[h].at = "none" /\ tree' \in 0 .. MaxChanges
  BY DEF HookInv, TypeOK, Bridged
<1> QED BY <1>1, <1>2, HookMoves

LEMMA HookLists ==
    ASSUME HookInv, NEW h \in Runs, NEW t \in Turns,
           ListAndMatch(h, t) \/ \E p \in Projects, path \in Directories : ListConfigured(h, t, p, path)
    PROVE  HookInv'
<1>1. hook[h] = NotStarted /\ hook[h] \notin Captures
      /\ UNCHANGED <<registered, ledger, cwd, tree, bridge, versions>>
  <2>1. hook[h] = NotStarted /\ UNCHANGED <<registered, ledger, cwd, tree, bridge, versions>>
    BY DEF ListAndMatch, ListConfigured
  <2>2. NotStarted \notin Captures
    BY DEF NotStarted, Captures
  <2> QED BY <2>1, <2>2
<1>2. CASE ListAndMatch(h, t)
  <2>1. CASE Nearest(cwd[t]) = {}
    BY <1>1, <1>2, <2>1, HookGivesUp DEF ListAndMatch
  <2>2. CASE Nearest(cwd[t]) # {}
    <3>1. Chosen(cwd[t]) \in Listed /\ Matches(Chosen(cwd[t]), cwd[t]) /\ Chosen(cwd[t]) \in Projects
      BY <2>2, ChosenIsNearest DEF Nearest, Listed
    <3>2. Select(h, t, Chosen(cwd[t]), FALSE)
      BY <1>2, <2>2 DEF ListAndMatch
    <3> QED BY <1>1, <3>1, <3>2, HookSelects
  <2> QED BY <2>1, <2>2
<1>3. ASSUME NEW p \in Projects, NEW path \in Directories, ListConfigured(h, t, p, path)
      PROVE  HookInv'
  <2>1. CASE p \in Listed /\ Contains(path, cwd[t])
    <3>1. Select(h, t, p, TRUE)
      BY <1>3, <2>1 DEF ListConfigured
    <3> QED BY <1>1, <2>1, <3>1, HookSelects
  <2>2. CASE ~(p \in Listed /\ Contains(path, cwd[t]))
    BY <1>1, <1>3, <2>2, HookGivesUp DEF ListConfigured
  <2> QED BY <2>1, <2>2
<1> QED BY <1>2, <1>3

LEMMA HookSends ==
    ASSUME HookInv, NEW h \in Runs, Capture(h) PROVE HookInv'
<1> DEFINE c == [run |-> h, project |-> hook[h].project,
                 workspace |-> hook[h].workspace, tree |-> tree]
           state == [at |-> "sent", turn |-> hook[h].turn, configured |-> hook[h].configured,
                     content |-> c]
<1>1. hook[h] \in Selections /\ hook[h] \notin Captures
  BY HookAt DEF HookInv, Capture, Selections, Captures
<1>2. c \in Contents
  BY <1>1 DEF HookInv, TypeOK, Contents, Selections
<1>3. state \in Captures /\ state.at = "sent"
  BY <1>1, <1>2 DEF Captures, Selections
<1>4. /\ hook' = [hook EXCEPT ![h] = state]
      /\ bridge' = [bridge EXCEPT ![h] = [at |-> "started"]]
      /\ UNCHANGED <<registered, content, delivery, cwd, tree, versions>>
  BY DEF Capture, GoTo, ledger
<1> HIDE DEF c, state
<1>5. /\ \A g \in Runs : hook'[g] = IF g = h THEN state ELSE hook[g]
      /\ \A g \in Runs : bridge'[g] = IF g = h THEN [at |-> "started"] ELSE bridge[g]
  BY <1>4 DEF HookInv, TypeOK
<1>6. TypeOK'
  BY <1>3, <1>4, <1>5 DEF HookInv, TypeOK, Ledger!TypeOK, BridgeStates
<1>7. ASSUME NEW g \in Runs PROVE Bridged(g)'
  BY <1>3, <1>4, <1>5 DEF HookInv, Bridged, Identity
<1>8. \A id \in Ids : Connected(id)'
  BY <1>4 DEF HookInv, Connected
<1> QED BY <1>4, <1>6, <1>7, <1>8 DEF HookInv

(* A hook that is past its capture: it warns, reads the answer or is killed. *)
LEMMA HookEndsSent ==
    ASSUME HookInv, NEW h \in Runs, hook[h].at = "sent", NEW end \in {"recorded", "warned", "killed"}
    PROVE  LET state == [hook[h] EXCEPT !.at = end]
           IN  /\ state \in Captures /\ hook[h] \in Captures /\ state.at = end
               /\ state.turn = hook[h].turn /\ state.content = hook[h].content
<1>1. hook[h] \in Captures
  BY HookAt DEF HookInv
<1> QED BY <1>1 DEF Captures

LEMMA HookCommandFails ==
    ASSUME HookInv, NEW h \in Runs, CommandFails(h) PROVE HookInv'
<1>1. CASE hook[h].at = "sent"
  <2> DEFINE state == [hook[h] EXCEPT !.at = "warned"]
  <2>1. /\ state \in Captures /\ hook[h] \in Captures /\ state.at = "warned"
        /\ state.turn = hook[h].turn /\ state.content = hook[h].content
    BY <1>1, HookEndsSent
  <2>2. /\ hook' = [hook EXCEPT ![h] = state]
        /\ bridge' = [bridge EXCEPT ![h] = [at |-> "dead"]]
        /\ UNCHANGED <<registered, content, delivery, cwd, tree, versions>>
    BY <1>1 DEF CommandFails, GoTo, ledger
  <2> HIDE DEF state
  <2>3. /\ \A g \in Runs : hook'[g] = IF g = h THEN state ELSE hook[g]
        /\ \A g \in Runs : bridge'[g] = IF g = h THEN [at |-> "dead"] ELSE bridge[g]
    BY <2>2 DEF HookInv, TypeOK
  <2>4. TypeOK'
    BY <2>1, <2>2, <2>3 DEF HookInv, TypeOK, Ledger!TypeOK, BridgeStates
  <2>5. ASSUME NEW g \in Runs PROVE Bridged(g)'
    BY <2>1, <2>2, <2>3 DEF HookInv, Bridged, Identity
  <2>6. \A id \in Ids : Connected(id)'
    BY <2>2 DEF HookInv, Connected
  <2> QED BY <2>2, <2>4, <2>5, <2>6 DEF HookInv
<1>2. CASE hook[h].at # "sent"
  <2>1. hook[h] \notin Captures
    BY <1>2, HookAt DEF HookInv, CommandFails, CanFail, Captures
  <2>2. /\ GoTo(h, [at |-> "warned"])
        /\ UNCHANGED <<registered, ledger, cwd, tree, bridge, versions>>
    BY <1>2 DEF CommandFails
  <2> QED BY <2>1, <2>2, HookGivesUp
<1> QED BY <1>1, <1>2

LEMMA HookReads ==
    ASSUME HookInv, NEW h \in Runs, ReadAnswer(h) PROVE HookInv'
<1> DEFINE end == IF IsGood(bridge[h].at) THEN "recorded" ELSE "warned"
           state == [hook[h] EXCEPT !.at = end]
<1>1. /\ hook[h].at = "sent" /\ end \in {"recorded", "warned", "killed"}
      /\ end = "recorded" => bridge[h].at = "ok"
      /\ GoTo(h, state) /\ UNCHANGED <<registered, ledger, cwd, tree, bridge, versions>>
  BY DEF ReadAnswer, IsGood
<1> HIDE DEF end
<1>2. /\ state \in Captures /\ hook[h] \in Captures /\ state.at = end
      /\ state.turn = hook[h].turn /\ state.content = hook[h].content
  BY <1>1, HookEndsSent
<1>3. tree' \in 0 .. MaxChanges /\ end # "selected"
  BY <1>1 DEF HookInv, TypeOK
<1> HIDE DEF state
<1> QED BY <1>1, <1>2, <1>3, HookMoves

LEMMA HookKilled ==
    ASSUME HookInv, NEW h \in Runs, Killed(h) PROVE HookInv'
<1>0. UNCHANGED <<registered, ledger, cwd, tree, bridge, versions>> /\ tree' \in 0 .. MaxChanges
  BY DEF Killed, HookInv, TypeOK
<1>1. CASE hook[h].at = "sent"
  <2> DEFINE state == [hook[h] EXCEPT !.at = "killed"]
  <2>1. /\ state \in Captures /\ hook[h] \in Captures /\ state.at = "killed"
        /\ state.turn = hook[h].turn /\ state.content = hook[h].content
    BY <1>1, HookEndsSent
  <2>2. GoTo(h, state)
    BY <1>1 DEF Killed
  <2> HIDE DEF state
  <2> QED BY <1>0, <2>1, <2>2, HookMoves
<1>2. CASE hook[h].at # "sent"
  <2>1. hook[h] \notin Captures
    BY <1>2, HookAt DEF HookInv, Killed, Captures
  <2>2. GoTo(h, [at |-> "killed"])
    BY <1>2 DEF Killed
  <2> QED BY <1>0, <2>1, <2>2, HookGivesUp
<1> QED BY <1>1, <1>2

LEMMA HookTreeChanges ==
    ASSUME HookInv, TreeChanges PROVE HookInv'
<1>1. /\ UNCHANGED <<registered, content, delivery, cwd, hook, bridge, versions>>
      /\ tree' \in 0 .. MaxChanges
  BY BoundsAssumption DEF TreeChanges, HookInv, TypeOK, ledger
<1>2. TypeOK'
  BY <1>1 DEF HookInv, TypeOK, Ledger!TypeOK
<1> QED BY <1>1, <1>2 DEF HookInv, Bridged, Connected, Identity

LEMMA HookStutters ==
    ASSUME HookInv, UNCHANGED vars PROVE HookInv'
<1>1. UNCHANGED <<registered, content, delivery, cwd, tree, hook, bridge, versions>>
  BY DEF vars, ledger
<1>2. TypeOK'
  BY <1>1 DEF HookInv, TypeOK, Ledger!TypeOK
<1> QED BY <1>1, <1>2 DEF HookInv, Bridged, Connected, Identity

(* Steps of the bridge child. *)
LEMMA HookAuthorized ==
    ASSUME HookInv, NEW h \in Runs, BridgeAuthorizes(h) PROVE HookInv'
<1> DEFINE p == hook[h].content.project
           reg == registered[p]
           to == IF Authorizes(reg, hook[h].content)
                 THEN [at |-> "authorized", targets |-> reg.targets]
                 ELSE [at |-> "refused"]
<1>1. hook[h] \in Captures /\ p \in Projects
  BY HookAt DEF HookInv, Bridged, BridgeAuthorizes
<1>2. /\ bridge' = [bridge EXCEPT ![h] = to]
      /\ UNCHANGED <<registered, content, delivery, cwd, tree, hook, versions>>
  BY DEF BridgeAuthorizes, BridgeTo, ledger
<1>3. reg # None => reg \in Registrations /\ reg \in versions[p] /\ reg.targets \in SUBSET Destinations
  BY <1>1, RegistrationsAssumption DEF HookInv, TypeOK
<1>4. /\ to \in BridgeStates /\ to.at \in {"authorized", "refused"}
      /\ to.at = "authorized" => /\ reg # None /\ Agrees(reg, hook[h].content)
                                 /\ reg.targets = to.targets
  BY <1>3 DEF Authorizes, Agrees, BridgeStates
<1>5. to.at = "authorized" =>
          \E v \in versions[p] : Agrees(v, hook[h].content) /\ v.targets = to.targets
  BY <1>3, <1>4
<1> HIDE DEF to, reg
<1>6. \A g \in Runs : bridge'[g] = IF g = h THEN to ELSE bridge[g]
  BY <1>2 DEF HookInv, TypeOK
<1>7. TypeOK'
  BY <1>2, <1>4, <1>6 DEF HookInv, TypeOK, Ledger!TypeOK
<1>8. ASSUME NEW g \in Runs PROVE Bridged(g)'
  <2>1. CASE g # h
    BY <1>2, <1>6, <2>1 DEF HookInv, Bridged, Identity
  <2>2. CASE g = h
    BY <1>1, <1>2, <1>4, <1>5, <1>6, <2>2 DEF HookInv, Bridged, Identity
  <2> QED BY <2>1, <2>2
<1>9. \A id \in Ids : Connected(id)'
  BY <1>2 DEF HookInv, Connected
<1> QED BY <1>2, <1>7, <1>8, <1>9 DEF HookInv

LEMMA HookRecords ==
    ASSUME HookInv, NEW h \in Runs, BridgeRecords(h) PROVE HookInv'
<1> DEFINE p == hook[h].content.project
           own == Identity(h)
           c == hook[h].content
<1>1. /\ hook[h] \in Captures /\ p \in Projects /\ c \in Contents /\ own \in Ids
      /\ bridge[h].at = "authorized" /\ own[2] = p
  BY HookAt DEF HookInv, Bridged, BridgeRecords, Identity
<1>2. PICK v \in versions[p] : Agrees(v, c) /\ v.targets = bridge[h].targets
  BY <1>1 DEF HookInv, Bridged
<1>3. v.targets \in SUBSET Destinations /\ c # None
  BY <1>1, <1>2, RegistrationsAssumption, NoneAssumption DEF HookInv, TypeOK
<1>4. UNCHANGED <<registered, cwd, tree, hook, versions>> /\ \A g \in Runs : Identity(g)' = Identity(g)
  BY DEF BridgeRecords, Identity
<1> HIDE DEF own, c
<1>5. CASE /\ Ledger!Record(own, c, bridge[h].targets)
           /\ BridgeTo(h, [at |-> "ok"])
  <2>1. /\ content[own] = None
        /\ content' = [content EXCEPT ![own] = c]
        /\ delivery' = [row \in Ids \X Destinations |->
                 IF row[1] = own /\ row[2] \in v.targets THEN "pending" ELSE delivery[row]]
        /\ bridge' = [bridge EXCEPT ![h] = [at |-> "ok"]]
    BY <1>2, <1>5 DEF Ledger!Record, BridgeTo
  <2>2. /\ \A id \in Ids : content'[id] = IF id = own THEN c ELSE content[id]
        /\ \A g \in Runs : bridge'[g] = IF g = h THEN [at |-> "ok"] ELSE bridge[g]
        /\ \A id \in Ids, d \in Destinations : delivery'[<<id, d>>] =
              IF id = own /\ d \in v.targets THEN "pending" ELSE delivery[<<id, d>>]
    BY <1>1, <2>1 DEF HookInv, TypeOK, Ledger!TypeOK
  <2>3. Ledger!TypeOK'
    <3>1. content' \in [Ids -> Contents \cup {None}]
      BY <1>1, <2>1, <2>2 DEF HookInv, TypeOK, Ledger!TypeOK
    <3>2. delivery' \in [Ids \X Destinations -> Ledger!Statuses]
      BY <2>1 DEF HookInv, TypeOK, Ledger!TypeOK, Ledger!Statuses
    <3> QED BY <3>1, <3>2 DEF Ledger!TypeOK
  <2>4. TypeOK'
    BY <1>4, <2>1, <2>2, <2>3 DEF HookInv, TypeOK, BridgeStates
  <2>5. ASSUME NEW g \in Runs PROVE Bridged(g)'
    <3>1. hook[g] \in Captures => Identity(g) \in Ids
      BY HookAt DEF HookInv
    <3>2. content[own] = None /\ (hook[g] \in Captures => hook[g].content # None)
      BY <2>1, HookAt, NoneAssumption DEF HookInv
    <3>3. CASE g = h
      BY <1>1, <1>4, <2>2, <3>3 DEF HookInv, Bridged, own, c
    <3>4. CASE g # h
      <4>1. hook[g].at = "recorded" => hook[g] \in Captures
        BY HookAt DEF HookInv
      <4> QED BY <1>4, <2>2, <3>1, <3>2, <3>4, <4>1 DEF HookInv, Bridged
    <3> QED BY <3>3, <3>4
  <2>6. ASSUME NEW id \in Ids PROVE Connected(id)'
    <3>1. CASE id = own
      BY <1>1, <1>2, <1>3, <1>4, <2>1, <2>2, <3>1 DEF HookInv, Connected
    <3>2. CASE id # own
      BY <1>4, <2>2, <3>2 DEF HookInv, Connected
    <3> QED BY <3>1, <3>2
  <2> QED BY <1>4, <2>4, <2>5, <2>6 DEF HookInv
<1>6. CASE /\ UNCHANGED ledger
           /\ \E end \in {"ok", "refused"} : /\ BridgeTo(h, [at |-> end])
                                             /\ end = "ok" => content[own] = c
  <2>1. PICK end \in {"ok", "refused"} : /\ BridgeTo(h, [at |-> end])
                                         /\ end = "ok" => content[own] = c
    BY <1>6
  <2>2. /\ UNCHANGED <<content, delivery>>
        /\ bridge' = [bridge EXCEPT ![h] = [at |-> end]]
    BY <1>6, <2>1 DEF BridgeTo, ledger
  <2>3. \A g \in Runs : bridge'[g] = IF g = h THEN [at |-> end] ELSE bridge[g]
    BY <2>2 DEF HookInv, TypeOK
  <2>4. TypeOK'
    BY <1>4, <2>2, <2>3 DEF HookInv, TypeOK, BridgeStates, Ledger!TypeOK
  <2>5. ASSUME NEW g \in Runs PROVE Bridged(g)'
    BY <1>1, <1>4, <2>1, <2>2, <2>3 DEF HookInv, Bridged, own, c
  <2>6. \A id \in Ids : Connected(id)'
    BY <1>4, <2>2 DEF HookInv, Connected
  <2> QED BY <1>4, <2>4, <2>5, <2>6 DEF HookInv
<1> QED BY <1>5, <1>6 DEF BridgeRecords, own, c

LEMMA HookStepKeeps == HookInv /\ [Next]_vars => HookInv'
<1> SUFFICES ASSUME HookInv, [Next]_vars PROVE HookInv'
  OBVIOUS
<1>1. CASE UNCHANGED vars
  BY <1>1, HookStutters
<1>2. CASE \E p \in Projects, reg \in Registrations : Register(p, reg)
  BY <1>2, HookRegister
<1>3. CASE TreeChanges
  BY <1>3, HookTreeChanges
<1>4. ASSUME NEW h \in Runs, HookStep(h) PROVE HookInv'
  BY <1>4, HookLists, HookSends, HookCommandFails, HookReads DEF HookStep
<1>5. ASSUME NEW h \in Runs, NEW t \in Turns, NEW p \in Projects, NEW path \in Directories,
             ListConfigured(h, t, p, path)
      PROVE  HookInv'
  BY <1>5, HookLists
<1>6. ASSUME NEW h \in Runs, Killed(h) \/ BridgeAuthorizes(h) \/ BridgeRecords(h) PROVE HookInv'
  BY <1>6, HookKilled, HookAuthorized, HookRecords
<1> QED BY <1>1, <1>2, <1>3, <1>4, <1>5, <1>6 DEF Next

LEMMA HookHolds == Spec => []HookInv
<1> QED BY HookInit, HookStepKeeps, PTL DEF Spec

(* A hook of record_stop.py that ends without a warning after it found a
   project has its own checkpoint in the ledger: the bridge said ok, and it
   does so only when it recorded this content or found it recorded. *)
THEOREM SilentHooksRecorded == Spec => []SilenceMeansRecorded
<1>1. HookInv => SilenceMeansRecorded
  BY DEF HookInv, Bridged, SilenceMeansRecorded
<1> QED BY <1>1, HookHolds, PTL

(* What a bridge child records agrees, in its project, workspace, grant and
   delivery targets, with one registration the project really had, however
   old the listing was from which the hook chose. *)
THEOREM RecordsAreConnected == Spec => []RecordedIsConnected
<1>1. HookInv => RecordedIsConnected
  BY DEF HookInv, Connected, Agrees, RecordedIsConnected
<1> QED BY <1>1, HookHolds, PTL

-----------------------------------------------------------------------------
(* The bridge and Board.  The loop counts what it has taken, a request id is
   never used twice, and what Board wrote to the current request was true of
   its item since it was asked. *)

Waits == IF current = NoRequest THEN 0 ELSE 1

Served ==
    /\ Len(sent) <= MaxRequests
    /\ answered + Len(inbox) + Waits = Len(sent)
    /\ counter + Len(inbox) <= Len(sent) + 1

Numbered ==
    /\ \A k \in 1 .. Len(asked) : asked[k].id < counter
    /\ \A k \in 1 .. Len(lines) : lines[k].id < counter
    /\ current # NoRequest =>
         /\ current.id \in 1 .. (counter - 1)
         /\ Truth(eligible, current.item) \in possible
         /\ \A k \in 1 .. Len(asked) : asked[k].id = current.id => asked[k].item = current.item
         /\ \A k \in 1 .. Len(lines) : IsAssessment(lines[k]) => lines[k].verdict \in possible

(* The pipes hold nothing but the question or the answer of the current
   request.  A fault ends this, a failed selection restores it. *)
Clean ==
    /\ child \in {"none", "up"}
    /\ IF current = NoRequest
       THEN asked = <<>> /\ lines = <<>>
       ELSE \/ asked = <<current>> /\ lines = <<>>
            \/ asked = <<>> /\ Len(lines) = 1 /\ ~Fails(lines[1])

Blamed == failures <= faults /\ (Clean \/ failures < faults)

AdapterInv ==
    /\ AdapterTypeOK
    /\ Served
    /\ Numbered
    /\ last \subseteq possible
    /\ Blamed

LEMMA AppendParts ==
    ASSUME NEW S, NEW s \in Seq(S), NEW e \in S
    PROVE  /\ Append(s, e) \in Seq(S)
           /\ Len(Append(s, e)) = Len(s) + 1
           /\ \A k \in 1 .. Len(s) + 1 : Append(s, e)[k] = IF k = Len(s) + 1 THEN e ELSE s[k]
OBVIOUS

LEMMA TailParts ==
    ASSUME NEW S, NEW s \in Seq(S), s # <<>>
    PROVE  /\ Tail(s) \in Seq(S) /\ Head(s) \in S /\ Head(s) = s[1]
           /\ Len(s) \in Nat \ {0} /\ Len(Tail(s)) = Len(s) - 1
           /\ \A k \in 1 .. Len(s) - 1 : Tail(s)[k] = s[k + 1]
OBVIOUS

LEMMA AdapterStarts == AdapterInit => AdapterInv
<1> SUFFICES ASSUME AdapterInit PROVE AdapterInv
  OBVIOUS
<1>1. /\ \A S : <<>> \in Seq(S)
      /\ Len(inbox) = 0 /\ Len(sent) = 0 /\ Len(asked) = 0 /\ Len(lines) = 0
  BY DEF AdapterInit
<1>2. AdapterTypeOK
  BY <1>1, AdapterBoundsAssumption DEF AdapterInit, AdapterTypeOK
<1>3. Served
  BY <1>1, AdapterBoundsAssumption DEF AdapterInit, Served, Waits
<1>4. Numbered
  BY <1>1 DEF AdapterInit, Numbered
<1> QED BY <1>2, <1>3, <1>4 DEF AdapterInit, AdapterInv, Blamed, Clean

LEMMA AdapterSend ==
    ASSUME AdapterInv, NEW kind \in Kinds, Send(kind) PROVE AdapterInv'
<1>1. /\ sent' = Append(sent, kind) /\ inbox' = Append(inbox, kind) /\ Len(sent) < MaxRequests
      /\ UNCHANGED <<current, counter, child, asked, lines, eligible, answered, possible, last, faults, failures>>
  BY DEF Send, board
<1>2. /\ sent' \in Seq(Kinds) /\ Len(sent') = Len(sent) + 1
      /\ inbox' \in Seq(Kinds) /\ Len(inbox') = Len(inbox) + 1
  BY <1>1, AppendParts DEF AdapterInv, AdapterTypeOK
<1>3. Len(sent) \in Nat /\ Len(inbox) \in Nat
  BY DEF AdapterInv, AdapterTypeOK
<1>4. AdapterTypeOK'
  BY <1>1, <1>2, <1>3 DEF AdapterInv, AdapterTypeOK
<1>5. Served'
  BY <1>1, <1>2, <1>3, AdapterBoundsAssumption DEF AdapterInv, AdapterTypeOK, Served, Waits
<1>6. Numbered' /\ (last \subseteq possible)' /\ Blamed'
  BY <1>1 DEF AdapterInv, Numbered, IsAssessment, IsAnswer, Blamed, Clean, Fails
<1> QED BY <1>4, <1>5, <1>6 DEF AdapterInv

LEMMA AdapterBoardChanges ==
    ASSUME AdapterInv, NEW i \in Items, BoardChanges(i) PROVE AdapterInv'
<1>1. /\ eligible' \in SUBSET Items
      /\ \A j \in Items : j # i => (j \in eligible' <=> j \in eligible)
      /\ possible' = IF current.item = i THEN possible \cup {Truth(eligible', i)} ELSE possible
      /\ UNCHANGED <<inbox, current, counter, child, asked, lines, sent, answered, last, faults, failures>>
  BY DEF BoardChanges, board, AdapterInv, AdapterTypeOK
<1>2. /\ possible \subseteq possible' /\ possible' \in SUBSET {"eligible", "ineligible"}
  BY <1>1 DEF AdapterInv, AdapterTypeOK, Truth
<1>3. AdapterTypeOK'
  BY <1>1, <1>2 DEF AdapterInv, AdapterTypeOK
<1>4. Served' /\ (last \subseteq possible)' /\ Blamed'
  BY <1>1, <1>2 DEF AdapterInv, Served, Waits, IsAnswer, Blamed, Clean, Fails
<1>5. Numbered'
  <2>1. ASSUME current # NoRequest PROVE Truth(eligible', current.item) \in possible'
    <3>1. current.item \in Items /\ Truth(eligible, current.item) \in possible
      BY <2>1 DEF AdapterInv, AdapterTypeOK, Numbered, Requests
    <3> QED BY <1>1, <3>1 DEF Truth
  <2> QED BY <1>1, <1>2, <2>1 DEF AdapterInv, Numbered, IsAssessment, IsAnswer
<1> QED BY <1>3, <1>4, <1>5 DEF AdapterInv

\* What the numbers are whenever the loop looks for a line and finds one.
LEMMA AdapterTakes ==
    ASSUME AdapterInv, inbox # <<>>
    PROVE  /\ Tail(inbox) \in Seq(Kinds) /\ Head(inbox) \in Kinds
           /\ Len(inbox) \in Nat \ {0} /\ Len(Tail(inbox)) = Len(inbox) - 1
           /\ Len(sent) \in Nat /\ answered \in Nat /\ counter \in Nat \ {0} /\ MaxRequests \in Nat
           /\ Len(sent) <= MaxRequests /\ answered + Len(inbox) + Waits = Len(sent)
           /\ counter + Len(inbox) <= Len(sent) + 1
<1>1. inbox \in Seq(Kinds)
  BY DEF AdapterInv, AdapterTypeOK
<1>2. /\ Tail(inbox) \in Seq(Kinds) /\ Head(inbox) \in Kinds
      /\ Len(inbox) \in Nat \ {0} /\ Len(Tail(inbox)) = Len(inbox) - 1
  BY <1>1, TailParts
<1> QED BY <1>2, AdapterBoundsAssumption DEF AdapterInv, AdapterTypeOK, Served

LEMMA AdapterHandlesOther ==
    ASSUME AdapterInv, HandleOther PROVE AdapterInv'
<1>1. /\ inbox # <<>> /\ inbox' = Tail(inbox) /\ answered' = answered + 1 /\ current = NoRequest
      /\ UNCHANGED <<current, counter, child, asked, lines, eligible, sent, possible, last, faults, failures>>
  BY DEF HandleOther, board, AtInput
<1>2. /\ inbox' \in Seq(Kinds) /\ Len(inbox') = Len(inbox) - 1 /\ Len(inbox) \in Nat \ {0}
      /\ Len(sent) \in Nat /\ answered \in Nat /\ counter \in Nat \ {0} /\ MaxRequests \in Nat
      /\ Len(sent) <= MaxRequests /\ answered + Len(inbox) = Len(sent)
      /\ counter + Len(inbox) <= Len(sent) + 1
  BY <1>1, AdapterTakes DEF Waits
<1>3. answered' \in 0 .. Len(sent)
  BY <1>1, <1>2
<1>4. AdapterTypeOK'
  BY <1>1, <1>2, <1>3 DEF AdapterInv, AdapterTypeOK
<1>5. Served'
  BY <1>1, <1>2 DEF Served, Waits
<1>6. Numbered' /\ (last \subseteq possible)' /\ Blamed'
  BY <1>1 DEF AdapterInv, Numbered, IsAssessment, IsAnswer, Blamed, Clean, Fails
<1> QED BY <1>4, <1>5, <1>6 DEF AdapterInv

LEMMA AdapterCannotSpawn ==
    ASSUME AdapterInv, SpawnFails PROVE AdapterInv'
<1>1. /\ inbox # <<>> /\ inbox' = Tail(inbox) /\ answered' = answered + 1 /\ current = NoRequest
      /\ counter' = counter + 1 /\ failures' = failures + 1
      /\ faults < MaxFaults /\ faults' = faults + 1 /\ child = "none"
      /\ UNCHANGED <<current, child, asked, lines, eligible, sent, possible, last>>
  BY DEF SpawnFails, board, AtInput, Fault
<1>2. /\ inbox' \in Seq(Kinds) /\ Len(inbox') = Len(inbox) - 1 /\ Len(inbox) \in Nat \ {0}
      /\ Len(sent) \in Nat /\ answered \in Nat /\ counter \in Nat \ {0} /\ MaxRequests \in Nat
      /\ Len(sent) <= MaxRequests /\ answered + Len(inbox) = Len(sent)
      /\ counter + Len(inbox) <= Len(sent) + 1
  BY <1>1, AdapterTakes DEF Waits
<1>3. /\ answered' \in 0 .. Len(sent) /\ counter' \in 1 .. MaxRequests + 1
      /\ failures \in Nat /\ faults \in Nat /\ faults' \in 0 .. MaxFaults
  BY <1>1, <1>2, AdapterBoundsAssumption DEF AdapterInv, AdapterTypeOK
<1>4. AdapterTypeOK'
  BY <1>1, <1>2, <1>3 DEF AdapterInv, AdapterTypeOK
<1>5. Served'
  BY <1>1, <1>2 DEF Served, Waits
<1>6. asked = <<>> /\ lines = <<>>
  BY <1>1 DEF AdapterInv, AdapterTypeOK
<1>7. Numbered' /\ (last \subseteq possible)' /\ Blamed'
  BY <1>1, <1>3, <1>6 DEF AdapterInv, Numbered, Blamed, Clean
<1> QED BY <1>4, <1>5, <1>7 DEF AdapterInv

LEMMA AdapterAsks ==
    ASSUME AdapterInv, AskRunning \/ AskSpawned PROVE AdapterInv'
<1>1. /\ inbox # <<>> /\ inbox' = Tail(inbox) /\ current = NoRequest
      /\ Head(inbox) # NoItem
      /\ counter' = counter + 1 /\ current' = [id |-> counter, item |-> Head(inbox)]
      /\ possible' = {Truth(eligible, Head(inbox))} /\ last' = {}
      /\ UNCHANGED <<lines, eligible, sent, answered, faults, failures>>
  BY DEF AskRunning, AskSpawned, AskWith, AtInput
<1>2. /\ inbox' \in Seq(Kinds) /\ Len(inbox') = Len(inbox) - 1 /\ Len(inbox) \in Nat \ {0}
      /\ Len(sent) \in Nat /\ answered \in Nat /\ counter \in Nat \ {0} /\ MaxRequests \in Nat
      /\ Len(sent) <= MaxRequests /\ answered + Len(inbox) = Len(sent)
      /\ counter + Len(inbox) <= Len(sent) + 1 /\ Head(inbox) \in Items
  BY <1>1, AdapterTakes DEF Waits, Kinds
<1>3. /\ asked' = Append(asked, current')
      /\ child' \in {"none", "up", "hung", "exited"} /\ child' # "none"
      /\ (child' = child) \/ (child = "none" /\ child' = "up")
  <2>1. CASE AskRunning
    <3>1. child # "none" /\ child' = child /\ asked' = Append(asked, current')
      BY <2>1 DEF AskRunning, AskWith
    <3>2. child \in {"none", "up", "hung", "exited"}
      BY DEF AdapterInv, AdapterTypeOK
    <3> QED BY <3>1, <3>2
  <2>2. CASE AskSpawned
    <3>1. asked = <<>> /\ child = "none"
      BY <2>2 DEF AskSpawned, AdapterInv, AdapterTypeOK
    <3>2. asked' = Append(<<>>, current') /\ child' = "up"
      BY <2>2 DEF AskSpawned, AskWith
    <3> QED BY <3>1, <3>2
  <2> QED BY <2>1, <2>2
<1>4. /\ current' \in Requests /\ current'.id = counter /\ current'.item = Head(inbox)
      /\ current' # NoRequest
  BY <1>1, <1>2 DEF Requests, NoRequest
<1>5. /\ asked' \in Seq(Requests) /\ Len(asked') = Len(asked) + 1
      /\ \A k \in 1 .. Len(asked) + 1 : asked'[k] = IF k = Len(asked) + 1 THEN current' ELSE asked[k]
      /\ asked \in Seq(Requests)
  BY <1>3, <1>4, AppendParts DEF AdapterInv, AdapterTypeOK
<1>6. AdapterTypeOK'
  <2>1. counter' \in 1 .. MaxRequests + 1 /\ possible' \in SUBSET {"eligible", "ineligible"}
    BY <1>1, <1>2 DEF Truth
  <2> QED BY <1>1, <1>2, <1>3, <1>4, <1>5, <2>1 DEF AdapterInv, AdapterTypeOK
<1>7. Served'
  BY <1>1, <1>2, <1>4 DEF Served, Waits
<1>8. Numbered'
  <2>1. \A k \in 1 .. Len(asked) + 1 : /\ asked'[k].id < counter + 1
                                       /\ asked'[k].id = counter => asked'[k].item = Head(inbox)
    <3>1. ASSUME NEW k \in 1 .. Len(asked) + 1, k # Len(asked) + 1
          PROVE  asked'[k].id < counter /\ asked'[k].id \in Nat
      <4>1. k \in 1 .. Len(asked) /\ asked'[k] = asked[k]
        BY <1>5, <3>1
      <4>2. asked[k] \in Requests
        BY <1>5, <4>1
      <4> QED BY <4>1, <4>2 DEF AdapterInv, Numbered, Requests
    <3>2. asked'[Len(asked) + 1] = current' /\ current'.id = counter /\ current'.item = Head(inbox)
      BY <1>4, <1>5
    <3>3. \A n \in Nat : n < counter => n < counter + 1 /\ n # counter
      BY <1>2
    <3> QED BY <1>2, <3>1, <3>2, <3>3
  <2>2. ASSUME NEW k \in 1 .. Len(lines)
        PROVE  lines[k].id < counter + 1 /\ lines[k].id # counter
    <3>1. lines[k] \in Lines /\ lines[k].id < counter
      BY DEF AdapterInv, AdapterTypeOK, Numbered
    <3> QED BY <1>2, <3>1 DEF Lines
  <2>3. counter \in 1 .. (counter' - 1)
    BY <1>1, <1>2
  <2> HIDE DEF AdapterInv
  <2>4. \A k \in 1 .. Len(lines) : ~IsAssessment(lines[k])'
    BY <1>1, <1>4, <2>2 DEF IsAssessment, IsAnswer
  <2> QED BY <1>1, <1>4, <1>5, <2>1, <2>2, <2>3, <2>4 DEF Numbered
<1>9. Blamed'
  <2>1. CASE Clean
    <3>1. asked = <<>> /\ lines = <<>> /\ child \in {"none", "up"}
      BY <1>1, <2>1 DEF Clean
    <3>2. asked' = <<current'>>
      BY <1>3, <3>1
    <3>3. Clean'
      BY <1>1, <1>3, <1>4, <3>1, <3>2 DEF Clean
    <3> QED BY <1>1, <3>3 DEF AdapterInv, Blamed
  <2>2. CASE ~Clean
    BY <1>1, <2>2 DEF AdapterInv, Blamed
  <2> QED BY <2>1, <2>2
<1> QED BY <1>1, <1>6, <1>7, <1>8, <1>9 DEF AdapterInv

(* An exchange ends.  After a failed one the pipes are closed. *)
LEMMA AdapterFinishes ==
    ASSUME AdapterInv, NEW failed \in BOOLEAN, current # NoRequest, Finish(failed),
           failed => child' = "none" /\ asked' = <<>> /\ lines' = <<>> /\ ~Clean,
           ~failed => /\ lines # <<>> /\ lines' = Tail(lines) /\ UNCHANGED <<child, asked>>
                      /\ child # "none",
           UNCHANGED possible, last' \subseteq possible
    PROVE  AdapterInv'
<1>1. /\ current' = NoRequest /\ answered' = answered + 1
      /\ failures' = IF failed THEN failures + 1 ELSE failures
      /\ UNCHANGED <<inbox, counter, eligible, sent, faults>>
  BY DEF Finish
<1>2. /\ failures \in Nat /\ faults \in Nat /\ answered \in Nat /\ counter \in Nat
      /\ Len(sent) \in Nat /\ Len(inbox) \in Nat /\ MaxRequests \in Nat
      /\ answered + Len(inbox) + 1 = Len(sent) /\ Len(sent) <= MaxRequests
      /\ counter + Len(inbox) <= Len(sent) + 1
  BY AdapterBoundsAssumption DEF AdapterInv, AdapterTypeOK, Served, Waits
<1>3. /\ asked' \in Seq(Requests) /\ lines' \in Seq(Lines)
      /\ \A k \in 1 .. Len(asked') : asked'[k].id < counter
      /\ \A k \in 1 .. Len(lines') : lines'[k].id < counter
  <2>1. CASE failed
    BY <2>1
  <2>2. CASE ~failed
    <3>1. lines' \in Seq(Lines) /\ Len(lines) \in Nat \ {0} /\ Len(lines') = Len(lines) - 1
          /\ \A k \in 1 .. Len(lines) - 1 : lines'[k] = lines[k + 1]
      <4>1. lines \in Seq(Lines) /\ lines # <<>> /\ lines' = Tail(lines)
        BY <2>2 DEF AdapterInv, AdapterTypeOK
      <4> QED BY <4>1, TailParts
    <3>2. \A k \in 1 .. Len(lines) - 1 : k + 1 \in 1 .. Len(lines)
      BY <3>1
    <3> QED BY <2>2, <3>1, <3>2 DEF AdapterInv, AdapterTypeOK, Numbered
  <2> QED BY <2>1, <2>2
<1>4. AdapterTypeOK'
  <2>1. /\ answered' \in 0 .. Len(sent) /\ failures' \in Nat
        /\ child' \in {"none", "up", "hung", "exited"}
        /\ child' = "none" => asked' = <<>> /\ lines' = <<>>
    BY <1>1, <1>2 DEF AdapterInv, AdapterTypeOK
  <2> QED BY <1>1, <1>2, <1>3, <2>1 DEF AdapterInv, AdapterTypeOK
<1>5. Served'
  BY <1>1, <1>2 DEF Served, Waits
<1>6. Numbered'
  BY <1>1, <1>3 DEF Numbered
<1>7. Blamed'
  <2>1. CASE failed
    BY <1>1, <1>2, <2>1 DEF AdapterInv, Blamed, Clean
  <2>2. CASE ~failed /\ Clean
    <3>1. asked = <<>> /\ Len(lines) = 1 /\ child \in {"none", "up"}
      BY <2>2 DEF Clean
    <3>2. lines' = <<>>
      BY <2>2, <3>1 DEF AdapterInv, AdapterTypeOK
    <3>3. Clean'
      BY <1>1, <2>2, <3>1, <3>2 DEF Clean
    <3> QED BY <1>1, <2>2, <3>3 DEF AdapterInv, Blamed
  <2>3. CASE ~failed /\ ~Clean
    BY <1>1, <2>3 DEF AdapterInv, Blamed
  <2> QED BY <2>1, <2>2, <2>3
<1> QED BY <1>4, <1>5, <1>6, <1>7 DEF AdapterInv

LEMMA AdapterReadsLine ==
    ASSUME AdapterInv, ReadLine PROVE AdapterInv'
<1> DEFINE line == Head(lines)
<1>1. /\ current # NoRequest /\ lines # <<>> /\ UNCHANGED possible
      /\ DropOrKeep(Fails(line)) /\ Finish(Fails(line))
      /\ last' = IF IsAssessment(line) THEN {line.verdict} ELSE {}
  BY DEF ReadLine, AtInput
<1>2. line = lines[1] /\ 1 \in 1 .. Len(lines) /\ child # "none"
  BY <1>1, TailParts DEF AdapterInv, AdapterTypeOK
<1>3. last' \subseteq possible
  BY <1>1, <1>2 DEF AdapterInv, Numbered
<1>4. Fails(line) \in BOOLEAN
  BY DEF Fails
<1>5. Fails(line) => child' = "none" /\ asked' = <<>> /\ lines' = <<>> /\ ~Clean
  BY <1>1, <1>2 DEF DropOrKeep, Drops, Clean
<1>6. ~Fails(line) => lines' = Tail(lines) /\ UNCHANGED <<child, asked>>
  BY <1>1 DEF DropOrKeep, Drops
<1> HIDE DEF line
<1> QED BY <1>1, <1>2, <1>3, <1>4, <1>5, <1>6, AdapterFinishes

LEMMA AdapterReadsEnd ==
    ASSUME AdapterInv, ReadEnd PROVE AdapterInv'
<1>1. /\ current # NoRequest /\ lines = <<>> /\ lines' = <<>> /\ child = "exited"
      /\ child' = "none" /\ asked' = <<>> /\ Finish(TRUE) /\ UNCHANGED <<last, possible>>
  BY DEF ReadEnd, AtInput, Ended
<1>2. ~Clean /\ last' \subseteq possible
  BY <1>1 DEF Clean, AdapterInv
<1> QED BY <1>1, <1>2, AdapterFinishes

(* Board writes a line: its answer to a request, or something nobody asked for. *)
LEMMA AdapterHears ==
    ASSUME AdapterInv, NEW line \in Lines, lines' = Append(lines, line),
           child = "up", child' = "up",
           line.id < counter,
           current # NoRequest /\ IsAssessment(line) => line.verdict \in possible,
           asked' = asked \/ (asked # <<>> /\ asked' = Tail(asked)),
           faults' \in 0 .. MaxFaults, faults <= faults',
           \/ faults < faults'
           \/ faults' = faults /\ (Clean => Clean'),
           UNCHANGED <<inbox, current, counter, eligible, sent, answered, possible, last, failures>>
    PROVE  AdapterInv'
<1>1. /\ lines' \in Seq(Lines) /\ Len(lines') = Len(lines) + 1 /\ Len(lines) \in Nat
      /\ \A k \in 1 .. Len(lines) + 1 : lines'[k] = IF k = Len(lines) + 1 THEN line ELSE lines[k]
  BY AppendParts DEF AdapterInv, AdapterTypeOK
<1>2. /\ asked' \in Seq(Requests)
      /\ \A k \in 1 .. Len(asked') : \E m \in 1 .. Len(asked) : asked'[k] = asked[m]
  <2>1. asked \in Seq(Requests)
    BY DEF AdapterInv, AdapterTypeOK
  <2>2. CASE asked' = asked
    BY <2>1, <2>2
  <2>3. CASE asked # <<>> /\ asked' = Tail(asked)
    <3>1. /\ Tail(asked) \in Seq(Requests) /\ Len(asked) \in Nat \ {0}
          /\ Len(Tail(asked)) = Len(asked) - 1
          /\ \A k \in 1 .. Len(asked) - 1 : Tail(asked)[k] = asked[k + 1]
      BY <2>1, <2>3, TailParts
    <3>2. \A k \in 1 .. Len(asked) - 1 : k + 1 \in 1 .. Len(asked)
      BY <3>1
    <3> QED BY <2>3, <3>1, <3>2
  <2> QED BY <2>2, <2>3
<1>3. AdapterTypeOK'
  BY <1>1, <1>2 DEF AdapterInv, AdapterTypeOK
<1>4. Served' /\ (last \subseteq possible)'
  BY DEF AdapterInv, Served, Waits
<1>5. Numbered'
  <2>1. \A k \in 1 .. Len(lines') : lines'[k].id < counter
    BY <1>1 DEF AdapterInv, Numbered
  <2>2. \A k \in 1 .. Len(asked') : asked'[k].id < counter
    BY <1>2 DEF AdapterInv, Numbered
  <2>3. ASSUME current # NoRequest
        PROVE  \A k \in 1 .. Len(asked') : asked'[k].id = current.id => asked'[k].item = current.item
    BY <1>2, <2>3 DEF AdapterInv, Numbered
  <2>4. ASSUME current # NoRequest, NEW k \in 1 .. Len(lines'), IsAssessment(lines'[k])
        PROVE  lines'[k].verdict \in possible
    <3>1. k \in 1 .. Len(lines) + 1
      BY <1>1
    <3>2. CASE k = Len(lines) + 1
      BY <1>1, <2>4, <3>2
    <3>3. CASE k # Len(lines) + 1
      BY <1>1, <2>4, <3>1, <3>3 DEF AdapterInv, Numbered
    <3> QED BY <3>2, <3>3
  <2>5. \A x : IsAssessment(x)' <=> IsAssessment(x)
    BY DEF IsAssessment, IsAnswer
  <2> HIDE DEF AdapterInv
  <2>6. /\ current # NoRequest => /\ current.id \in 1 .. (counter - 1)
                                  /\ Truth(eligible, current.item) \in possible
    BY DEF AdapterInv, Numbered
  <2> QED BY <2>1, <2>2, <2>3, <2>4, <2>5, <2>6 DEF Numbered, IsAssessment, IsAnswer
<1>6. Blamed'
  <2>1. faults \in Nat /\ faults' \in Nat /\ failures \in Nat
    BY AdapterBoundsAssumption DEF AdapterInv, AdapterTypeOK
  <2> QED BY <2>1 DEF AdapterInv, Blamed
<1> QED BY <1>3, <1>4, <1>5, <1>6 DEF AdapterInv

LEMMA AdapterAnswered ==
    ASSUME AdapterInv, BoardAnswers PROVE AdapterInv'
<1> DEFINE ask == Head(asked)
<1>1. /\ child = "up" /\ child' = "up" /\ asked # <<>> /\ asked' = Tail(asked)
      /\ UNCHANGED <<inbox, current, counter, eligible, sent, answered, possible, last, faults, failures>>
  BY DEF BoardAnswers, history
<1>2. PICK verdict \in {Truth(eligible, ask.item), "not_found"} :
        lines' = Append(lines, [id |-> ask.id, item |-> ask.item, verdict |-> verdict])
  BY DEF BoardAnswers, Write
<1> DEFINE line == [id |-> ask.id, item |-> ask.item, verdict |-> verdict]
<1>3. ask \in Requests /\ ask = asked[1] /\ 1 \in 1 .. Len(asked) /\ ask.id < counter
  <2>1. asked \in Seq(Requests)
    BY DEF AdapterInv, AdapterTypeOK
  <2>2. ask \in Requests /\ ask = asked[1] /\ 1 \in 1 .. Len(asked)
    BY <1>1, <2>1, TailParts
  <2> QED BY <2>2 DEF AdapterInv, Numbered
<1>4. /\ line \in Lines /\ line.id = ask.id /\ line.item = ask.item /\ line.verdict = verdict
      /\ line.verdict \in {"eligible", "ineligible", "not_found"}
  BY <1>3 DEF Lines, Requests, Kinds, Verdicts, Truth
<1>5. ASSUME current # NoRequest, IsAssessment(line) PROVE line.verdict \in possible
  <2>1. ask.item = current.item
    BY <1>4, <1>5 DEF IsAssessment, IsAnswer
  <2>2. verdict = Truth(eligible, current.item)
    BY <1>4, <1>5, <2>1 DEF IsAssessment
  <2> QED BY <1>4, <1>5, <2>2 DEF AdapterInv, Numbered
<1>6. Clean => Clean'
  <2> SUFFICES ASSUME Clean PROVE Clean'
    OBVIOUS
  <2>1. current # NoRequest /\ asked = <<current>> /\ lines = <<>>
    BY <1>1 DEF Clean
  <2>2. asked' = <<>> /\ lines' = <<line>> /\ ask = current
    BY <1>1, <1>2, <2>1
  <2>3. IsAnswer(line) /\ line.verdict # "error"
    BY <1>4, <2>2 DEF IsAnswer
  <2> HIDE DEF line
  <2>4. PICK answer : lines' = <<answer>> /\ IsAnswer(answer) /\ answer.verdict # "error"
    BY <2>2, <2>3
  <2>5. Len(lines') = 1 /\ lines'[1] = answer /\ ~Fails(answer)'
    BY <1>1, <2>4 DEF Fails, IsAnswer
  <2>6. ~Fails(lines[1])'
    BY <2>5 DEF Fails, IsAnswer
  <2> QED BY <1>1, <2>1, <2>2, <2>5, <2>6 DEF Clean
<1>7. lines' = Append(lines, line) /\ line.id < counter
  BY <1>2, <1>3, <1>4
<1>8. faults' \in 0 .. MaxFaults /\ faults <= faults'
  BY <1>1, AdapterBoundsAssumption DEF AdapterInv, AdapterTypeOK
<1> HIDE DEF line
<1> QED BY <1>1, <1>4, <1>5, <1>6, <1>7, <1>8, AdapterHears

LEMMA FaultCounts ==
    ASSUME AdapterInv, Fault
    PROVE  faults' \in 0 .. MaxFaults /\ faults <= faults' /\ faults < faults'
BY AdapterBoundsAssumption DEF AdapterInv, AdapterTypeOK, Fault

LEMMA AdapterMisled ==
    ASSUME AdapterInv, BoardAnswersWrongly PROVE AdapterInv'
<1> DEFINE ask == Head(asked)
<1>1. /\ child = "up" /\ child' = "up" /\ asked # <<>> /\ asked' = Tail(asked) /\ Fault
      /\ UNCHANGED <<inbox, current, counter, eligible, sent, answered, possible, last, failures>>
  BY DEF BoardAnswersWrongly
<1>2. ask \in Requests /\ ask = asked[1] /\ 1 \in 1 .. Len(asked) /\ ask.id < counter
  <2>1. asked \in Seq(Requests)
    BY DEF AdapterInv, AdapterTypeOK
  <2>2. ask \in Requests /\ ask = asked[1] /\ 1 \in 1 .. Len(asked)
    BY <1>1, <2>1, TailParts
  <2> QED BY <2>2 DEF AdapterInv, Numbered
<1>3. PICK line \in Lines : /\ lines' = Append(lines, line) /\ line.id = ask.id
                            /\ line.verdict = "error" \/ line.item # ask.item
  <2>1. CASE Write([id |-> ask.id, item |-> ask.item, verdict |-> "error"])
    <3>1. [id |-> ask.id, item |-> ask.item, verdict |-> "error"] \in Lines
      BY <1>2 DEF Lines, Requests, Kinds, Verdicts
    <3> QED BY <2>1, <3>1 DEF Write
  <2>2. ASSUME NEW i \in Items \ {ask.item},
               Write([id |-> ask.id, item |-> i, verdict |-> Truth(eligible, i)])
        PROVE  \E line \in Lines : /\ lines' = Append(lines, line) /\ line.id = ask.id
                                   /\ line.verdict = "error" \/ line.item # ask.item
    <3>1. [id |-> ask.id, item |-> i, verdict |-> Truth(eligible, i)] \in Lines
      BY <1>2 DEF Lines, Requests, Kinds, Verdicts, Truth
    <3> QED BY <2>2, <3>1 DEF Write
  <2> QED BY <2>1, <2>2 DEF BoardAnswersWrongly
<1>4. current # NoRequest => ~IsAssessment(line)
  <2> SUFFICES ASSUME current # NoRequest, IsAssessment(line) PROVE FALSE
    OBVIOUS
  <2>1. ask.id = current.id /\ line.item = current.item /\ line.verdict # "error"
    BY <1>3 DEF IsAssessment, IsAnswer
  <2>2. ask.item = current.item
    BY <1>2, <2>1 DEF AdapterInv, Numbered
  <2> QED BY <1>3, <2>1, <2>2
<1> HIDE DEF ask
<1> QED BY <1>1, <1>2, <1>3, <1>4, FaultCounts, AdapterHears

LEMMA AdapterDisturbed ==
    ASSUME AdapterInv, BoardSpeaks PROVE AdapterInv'
<1>1. /\ child = "up" /\ child' = "up" /\ asked' = asked /\ Fault /\ counter \in Nat \ {0}
      /\ UNCHANGED <<inbox, current, counter, eligible, sent, answered, possible, last, failures>>
  BY DEF BoardSpeaks, AdapterInv, AdapterTypeOK
<1>2. PICK line \in Lines : /\ lines' = Append(lines, line) /\ line.id < counter
                            /\ line.verdict = "noise" \/ line.id # current.id
  <2>1. CASE Write([id |-> 0, item |-> NoItem, verdict |-> "noise"])
    <3>1. [id |-> 0, item |-> NoItem, verdict |-> "noise"] \in Lines
      BY DEF Lines, Kinds, Verdicts
    <3> QED BY <1>1, <2>1, <3>1 DEF Write
  <2>2. ASSUME NEW n \in 1 .. (counter - 1), NEW i \in Items,
               NEW verdict \in {"eligible", "ineligible"}, n # current.id,
               Write([id |-> n, item |-> i, verdict |-> verdict])
        PROVE  \E line \in Lines : /\ lines' = Append(lines, line) /\ line.id < counter
                                   /\ line.verdict = "noise" \/ line.id # current.id
    <3>1. [id |-> n, item |-> i, verdict |-> verdict] \in Lines /\ n < counter
      BY <1>1 DEF Lines, Kinds, Verdicts
    <3> QED BY <2>2, <3>1 DEF Write
  <2> QED BY <2>1, <2>2 DEF BoardSpeaks
<1>3. ~IsAssessment(line)
  BY <1>2 DEF IsAssessment, IsAnswer
<1> QED BY <1>1, <1>2, <1>3, FaultCounts, AdapterHears

LEMMA AdapterLosesBoard ==
    ASSUME AdapterInv, BoardExits \/ BoardHangs PROVE AdapterInv'
<1>1. /\ child # "none" /\ child' \in {"exited", "hung"} /\ Fault
      /\ UNCHANGED <<inbox, current, counter, asked, lines, eligible, sent, answered, possible, last, failures>>
  BY DEF BoardExits, BoardHangs
<1>2. /\ faults' \in 0 .. MaxFaults /\ faults \in Nat /\ faults' \in Nat /\ failures \in Nat
      /\ faults < faults'
  BY <1>1, FaultCounts DEF AdapterInv, AdapterTypeOK
<1>3. AdapterTypeOK'
  BY <1>1, <1>2 DEF AdapterInv, AdapterTypeOK
<1>4. Served' /\ Numbered' /\ (last \subseteq possible)'
  BY <1>1 DEF AdapterInv, Served, Waits, Numbered, IsAssessment, IsAnswer
<1>5. Blamed'
  BY <1>1, <1>2 DEF AdapterInv, Blamed
<1> QED BY <1>3, <1>4, <1>5 DEF AdapterInv

LEMMA AdapterStutters ==
    ASSUME AdapterInv, UNCHANGED adapterVars PROVE AdapterInv'
<1>1. UNCHANGED <<inbox, current, counter, child, asked, lines, eligible,
                  sent, answered, possible, last, faults, failures>>
  BY DEF adapterVars, board, history
<1>2. AdapterTypeOK' /\ Served' /\ Numbered' /\ (last \subseteq possible)'
  BY <1>1 DEF AdapterInv, AdapterTypeOK, Served, Waits, Numbered, IsAssessment, IsAnswer
<1>3. Blamed'
  BY <1>1 DEF AdapterInv, Blamed, Clean, Fails, IsAnswer
<1> QED BY <1>2, <1>3 DEF AdapterInv

LEMMA AdapterHolds == AdapterSpec => []AdapterInv
<1>1. AdapterInv /\ [AdapterNext]_adapterVars => AdapterInv'
  <2> SUFFICES ASSUME AdapterInv, [AdapterNext]_adapterVars PROVE AdapterInv'
    OBVIOUS
  <2>1. CASE UNCHANGED adapterVars
    BY <2>1, AdapterStutters
  <2>2. CASE Transport
    BY <2>2, AdapterSend DEF Transport
  <2>3. CASE \E i \in Items : BoardChanges(i)
    BY <2>3, AdapterBoardChanges
  <2>4. CASE Core
    BY <2>4, AdapterHandlesOther, AdapterAsks, AdapterCannotSpawn, AdapterReadsLine, AdapterReadsEnd
       DEF Core
  <2>5. CASE Board
    BY <2>5, AdapterAnswered, AdapterMisled, AdapterDisturbed, AdapterLosesBoard DEF Board
  <2> QED BY <2>1, <2>2, <2>3, <2>4, <2>5 DEF AdapterNext
<1> QED BY <1>1, AdapterStarts, PTL DEF AdapterSpec

(* The verdict the adapter returns was true of the item Core asked about at
   some moment since it asked: ids are never reused, an assessment repeats the
   item, and what Board wrote for another request or item is not taken. *)
THEOREM VerdictsAreFresh == AdapterSpec => []AssessmentIsFresh
<1>1. AdapterInv => AssessmentIsFresh
  BY DEF AdapterInv, AssessmentIsFresh
<1> QED BY <1>1, AdapterHolds, PTL

(* A selection that fails can be blamed on a fault of its own.  Unless a fault
   is still unpaid, the pipes hold only the question or the answer of the
   current request; killing the child after a failed exchange restores that. *)
THEOREM FailuresAreBlamed == AdapterSpec => []EveryFailureHasAFault
<1>1. AdapterInv => EveryFailureHasAFault
  BY DEF AdapterInv, Blamed, EveryFailureHasAFault
<1> QED BY <1>1, AdapterHolds, PTL

=============================================================================
