-------------------------- MODULE CoreBridgeProofs --------------------------
(***************************************************************************)
(* Proofs about CoreBridge for any number of bridges, projects,            *)
(* registrations and checkpoints.  A request carries what its first read   *)
(* found; the registration may since have been replaced, but it was one of *)
(* the versions the project has had, and versions only grow.               *)
(***************************************************************************)
EXTENDS CoreBridge, TLAPS

\* What a request that is under way rests on.
Grounded(b) ==
    /\ bridge[b].at \in {"granted", "assessed"} =>
         \E v \in versions[bridge[b].project] : "select_active_work" \in v.grants
    /\ bridge[b].at = "assessed" => <<bridge[b].project, bridge[b].item>> \in cleared
    /\ bridge[b].at = "authorized" =>
         /\ bridge[b].seen \in versions[bridge[b].content.project]
         /\ "write_progress" \in bridge[b].seen.grants
         /\ bridge[b].seen.workspace = bridge[b].content.workspace

ActiveIsCleared(p) ==
    active[p] # None =>
        /\ <<p, active[p]>> \in cleared
        /\ \E v \in versions[p] : "select_active_work" \in v.grants

RecordedFrom(id) ==
    /\ content[id] = None => \A d \in Destinations : delivery[<<id, d>>] = "absent"
    /\ content[id] # None =>
        \E v \in versions[content[id].project] :
            /\ "write_progress" \in v.grants
            /\ v.workspace = content[id].workspace
            /\ v.targets = LedgerTargets(id)

RefusedAfterChange(id) ==
    /\ content[id] # None
    /\ \E v, w \in versions[content[id].project] : v.targets # w.targets

BridgeInv ==
    /\ TypeOK
    /\ \A p \in Projects : registered[p] # None => registered[p] \in versions[p]
    /\ \A b \in Bridges : Grounded(b)
    /\ \A p \in Projects : ActiveIsCleared(p)
    /\ \A id \in Ids : RecordedFrom(id)
    /\ \A id \in refused : RefusedAfterChange(id)

\* A bridge that is at work has a request of the kind its place tells.
LEMMA Shapes ==
    ASSUME TypeOK, NEW b \in Bridges
    PROVE  /\ bridge[b].at = "idle" \/ bridge[b].at \in {"granted", "assessed", "authorized"}
           /\ bridge[b].at = "idle" => bridge[b] = Idle
           /\ bridge[b].at \in {"granted", "assessed"} => bridge[b] \in Selects
           /\ bridge[b].at = "authorized" => bridge[b] \in Records
BY DEF TypeOK, Idle, Selects, Records

LEMMA InitIsGrounded == Init => BridgeInv
<1> SUFFICES ASSUME Init PROVE BridgeInv
  OBVIOUS
<1>1. TypeOK
  BY BoundAssumption DEF Init, TypeOK, Idle, Ledger!Init, Ledger!TypeOK, Ledger!Statuses
<1>2. \A b \in Bridges : Grounded(b)
  BY DEF Init, Grounded, Idle
<1>3. \A id \in Ids : RecordedFrom(id)
  BY DEF Init, RecordedFrom, Ledger!Init
<1> QED BY <1>1, <1>2, <1>3 DEF Init, BridgeInv, ActiveIsCleared

\* Versions and clearances only grow, and what was recorded stays.
LEMMA GroundHolds ==
    ASSUME BridgeInv,
           \A p \in Projects : versions[p] \subseteq versions'[p],
           cleared \subseteq cleared'
    PROVE  /\ \A b \in Bridges : bridge'[b] = bridge[b] => Grounded(b)'
           /\ active' = active => \A p \in Projects : ActiveIsCleared(p)'
           /\ ledger' = ledger => \A id \in Ids : RecordedFrom(id)'
           /\ ledger' = ledger => \A id \in refused : RefusedAfterChange(id)'
<1> USE DEF BridgeInv
<1>1. ASSUME NEW b \in Bridges, bridge'[b] = bridge[b] PROVE Grounded(b)'
  <2>1. /\ Grounded(b)
        /\ bridge[b].at \in {"granted", "assessed"} => bridge[b].project \in Projects
        /\ bridge[b].at = "authorized" => bridge[b].content.project \in Projects
    BY Shapes DEF Selects, Records, Contents
  <2> QED BY <1>1, <2>1 DEF Grounded
<1>2. ASSUME active' = active, NEW p \in Projects PROVE ActiveIsCleared(p)'
  BY <1>2 DEF ActiveIsCleared
<1>3. ASSUME ledger' = ledger, NEW id \in Ids PROVE RecordedFrom(id)'
  <2>1. content[id] # None => content[id].project \in Projects
    BY DEF TypeOK, Ledger!TypeOK, Contents
  <2> QED BY <1>3, <2>1 DEF RecordedFrom, LedgerTargets, ledger
<1>4. ASSUME ledger' = ledger, NEW id \in refused PROVE RefusedAfterChange(id)'
  <2>1. content[id] # None => content[id].project \in Projects
    BY DEF TypeOK, Ledger!TypeOK, Contents
  <2> QED BY <1>4, <2>1 DEF RefusedAfterChange, ledger
<1> QED BY <1>1, <1>2, <1>3, <1>4

\* A bridge that answers, or goes on to a request that is grounded.
LEMMA BridgeSteps ==
    ASSUME BridgeInv, NEW b \in Bridges, NEW request \in {Idle} \cup Selects \cup Records,
           bridge' = [bridge EXCEPT ![b] = request],
           UNCHANGED <<registered, ledger, eligible, versions>>,
           cleared \subseteq cleared', cleared' \in SUBSET (Projects \X Items),
           active' \in [Projects -> Items \cup {None}],
           \A p \in Projects : ActiveIsCleared(p)',
           refused' \in SUBSET Ids, \A id \in refused' : RefusedAfterChange(id)',
           crashes' \in 0 .. MaxCrashes,
           Grounded(b)'
    PROVE  BridgeInv'
<1>1. TypeOK'
  BY DEF BridgeInv, TypeOK, ledger, Ledger!TypeOK
<1>2. \A p \in Projects : versions[p] \subseteq versions'[p]
  OBVIOUS
<1>3. ASSUME NEW c \in Bridges PROVE Grounded(c)'
  <2>1. CASE c = b
    BY <2>1
  <2>2. CASE c # b
    <3>1. bridge'[c] = bridge[c]
      BY <2>2 DEF BridgeInv, TypeOK
    <3> QED BY <1>2, <3>1, GroundHolds
  <2> QED BY <2>1, <2>2
<1>4. \A id \in Ids : RecordedFrom(id)'
  BY <1>2, GroundHolds
<1> QED BY <1>1, <1>3, <1>4 DEF BridgeInv

LEMMA RegisterKeeps ==
    ASSUME BridgeInv, NEW p \in Projects, NEW reg \in Registrations, Register(p, reg)
    PROVE  BridgeInv'
<1>1. /\ registered' = [registered EXCEPT ![p] = reg]
      /\ versions' = [versions EXCEPT ![p] = @ \cup {reg}]
      /\ UNCHANGED <<active, ledger, eligible, bridge, cleared, refused, crashes>>
  BY DEF Register
<1>2. TypeOK'
  BY <1>1 DEF BridgeInv, TypeOK, ledger, Ledger!TypeOK
<1>3. \A q \in Projects : versions[q] \subseteq versions'[q]
  BY <1>1 DEF BridgeInv, TypeOK
<1>4. \A q \in Projects : registered'[q] # None => registered'[q] \in versions'[q]
  BY <1>1 DEF BridgeInv, TypeOK
<1> QED BY <1>1, <1>2, <1>3, <1>4, GroundHolds DEF BridgeInv

LEMMA BoardKeeps ==
    ASSUME BridgeInv, NEW p \in Projects, NEW i \in Items, BoardChanges(p, i)
    PROVE  BridgeInv'
<1>1. UNCHANGED <<registered, active, ledger, bridge, versions, cleared, refused, crashes>>
  BY DEF BoardChanges, history
<1>2. eligible' \in SUBSET (Projects \X Items)
  BY DEF BoardChanges, BridgeInv, TypeOK
<1>3. TypeOK'
  BY <1>1, <1>2 DEF BridgeInv, TypeOK, ledger, Ledger!TypeOK
<1> QED BY <1>1, <1>3, GroundHolds DEF BridgeInv

LEMMA IdleIsGrounded ==
    ASSUME TypeOK, NEW b \in Bridges, bridge' = [bridge EXCEPT ![b] = Idle]
    PROVE  Grounded(b)'
<1>1. bridge'[b] = Idle
  BY DEF TypeOK
<1> QED BY <1>1 DEF Grounded, Idle

LEMMA SelectStartKeeps ==
    ASSUME BridgeInv, NEW b \in Bridges, NEW p \in Projects, NEW i \in Items, SelectStart(b, p, i)
    PROVE  BridgeInv'
<1> DEFINE request == [at |-> "granted", project |-> p, item |-> i]
<1>1. /\ bridge' = [bridge EXCEPT ![b] = request]
      /\ registered[p] # None /\ "select_active_work" \in registered[p].grants
      /\ UNCHANGED <<registered, active, ledger, eligible, versions, cleared, refused, crashes>>
  BY DEF SelectStart, GoOn, Granted, history
<1>2. request \in Selects
  BY DEF Selects
<1>3. Grounded(b)'
  <2>1. bridge'[b] = request
    BY <1>1 DEF BridgeInv, TypeOK
  <2>2. registered[p] \in versions[p]
    BY <1>1 DEF BridgeInv
  <2> QED BY <1>1, <2>1, <2>2 DEF Grounded
<1>4. /\ \A q \in Projects : ActiveIsCleared(q)'
      /\ \A id \in refused' : RefusedAfterChange(id)'
  BY <1>1, GroundHolds
<1>5. TypeOK
  BY DEF BridgeInv
<1> HIDE DEF request
<1> QED BY <1>1, <1>2, <1>3, <1>4, <1>5, BridgeSteps DEF TypeOK

LEMMA AssessKeeps ==
    ASSUME BridgeInv, NEW b \in Bridges, NEW reply \in Replies, Assess(b, reply)
    PROVE  BridgeInv'
<1> DEFINE p == bridge[b].project
           i == bridge[b].item
           request == [bridge[b] EXCEPT !.at = "assessed"]
<1>1. TypeOK
  BY DEF BridgeInv
<1>2. /\ bridge[b].at = "granted" /\ bridge[b] \in Selects /\ p \in Projects /\ i \in Items
      /\ Grounded(b)
  BY <1>1, Shapes DEF Assess, BridgeInv, Selects
<1>3. /\ UNCHANGED <<registered, active, ledger, eligible, versions, refused, crashes>>
      /\ cleared' = IF reply = "eligible" THEN cleared \cup {<<p, i>>} ELSE cleared
      /\ \/ reply = "eligible" /\ bridge' = [bridge EXCEPT ![b] = request]
         \/ bridge' = [bridge EXCEPT ![b] = Idle]
  BY DEF Assess, Clears, GoOn, Answer
<1>4. cleared \subseteq cleared' /\ cleared' \in SUBSET (Projects \X Items)
  BY <1>1, <1>2, <1>3 DEF TypeOK
<1>5. /\ \A q \in Projects : ActiveIsCleared(q)'
      /\ \A id \in refused' : RefusedAfterChange(id)'
  BY <1>3, <1>4, GroundHolds
<1>6. active' \in [Projects -> Items \cup {None}] /\ refused' \in SUBSET Ids /\ crashes' \in 0 .. MaxCrashes
  BY <1>1, <1>3 DEF TypeOK
<1>7. CASE bridge' = [bridge EXCEPT ![b] = Idle]
  BY <1>1, <1>3, <1>4, <1>5, <1>6, <1>7, IdleIsGrounded, BridgeSteps
<1>8. CASE reply = "eligible" /\ bridge' = [bridge EXCEPT ![b] = request]
  <2>1. /\ request \in Selects /\ request.at = "assessed"
        /\ request.project = p /\ request.item = i
    BY <1>2 DEF Selects
  <2> HIDE DEF request
  <2>2. bridge'[b] = request
    BY <1>1, <1>8 DEF TypeOK
  <2>3. Grounded(b)'
    BY <1>2, <1>3, <1>8, <2>1, <2>2 DEF Grounded
  <2> QED BY <1>3, <1>4, <1>5, <1>6, <1>8, <2>1, <2>3, BridgeSteps
<1> QED BY <1>3, <1>7, <1>8

LEMMA SelectCommitKeeps ==
    ASSUME BridgeInv, NEW b \in Bridges, SelectCommit(b)
    PROVE  BridgeInv'
<1>1. TypeOK
  BY DEF BridgeInv
<1>2. /\ bridge[b].at = "assessed" /\ bridge[b].project \in Projects /\ bridge[b].item \in Items
      /\ Grounded(b)
  BY <1>1, Shapes DEF SelectCommit, BridgeInv, Selects
<1>3. /\ active' = [active EXCEPT ![bridge[b].project] = bridge[b].item]
      /\ bridge' = [bridge EXCEPT ![b] = Idle]
      /\ UNCHANGED <<registered, ledger, eligible, versions, cleared, refused, crashes>>
  BY DEF SelectCommit, Answer, history
<1>4. \A q \in Projects : ActiveIsCleared(q)'
  BY <1>1, <1>2, <1>3 DEF BridgeInv, TypeOK, ActiveIsCleared, Grounded
<1>5. \A id \in refused' : RefusedAfterChange(id)'
  BY <1>3, GroundHolds
<1>6. /\ active' \in [Projects -> Items \cup {None}] /\ refused' \in SUBSET Ids
      /\ crashes' \in 0 .. MaxCrashes /\ cleared' \in SUBSET (Projects \X Items)
  BY <1>1, <1>2, <1>3 DEF TypeOK
<1> QED BY <1>1, <1>3, <1>4, <1>5, <1>6, IdleIsGrounded, BridgeSteps

LEMMA RecordStartKeeps ==
    ASSUME BridgeInv, NEW b \in Bridges, NEW id \in Ids, NEW c \in Contents, RecordStart(b, id, c)
    PROVE  BridgeInv'
<1> DEFINE request == [at |-> "authorized", id |-> id, content |-> c,
                       seen |-> registered[c.project]]
<1>1. TypeOK
  BY DEF BridgeInv
<1>2. /\ bridge' = [bridge EXCEPT ![b] = request]
      /\ registered[c.project] # None
      /\ "write_progress" \in registered[c.project].grants
      /\ registered[c.project].workspace = c.workspace
      /\ UNCHANGED <<registered, active, ledger, eligible, versions, cleared, refused, crashes>>
  BY DEF RecordStart, GoOn, Granted, Connected, history
<1>3. c.project \in Projects /\ registered[c.project] \in versions[c.project]
      /\ registered[c.project] \in Registrations
  BY <1>1, <1>2 DEF BridgeInv, TypeOK, Contents
<1>4. request \in Records
  BY <1>3 DEF Records
<1>5. Grounded(b)'
  <2>1. bridge'[b] = request
    BY <1>1, <1>2 DEF TypeOK
  <2> QED BY <1>2, <1>3, <2>1 DEF Grounded
<1>6. /\ \A q \in Projects : ActiveIsCleared(q)'
      /\ \A r \in refused' : RefusedAfterChange(r)'
  BY <1>2, GroundHolds
<1> HIDE DEF request
<1> QED BY <1>1, <1>2, <1>4, <1>5, <1>6, BridgeSteps DEF TypeOK

LEMMA RecordNewKeeps ==
    ASSUME BridgeInv, NEW b \in Bridges, RecordNew(b)
    PROVE  BridgeInv'
<1> DEFINE k == bridge[b].id
           c == bridge[b].content
           ds == bridge[b].seen.targets
<1>1. TypeOK
  BY DEF BridgeInv
<1>2. /\ bridge[b].at = "authorized" /\ bridge[b] \in Records /\ Grounded(b)
  BY <1>1, Shapes DEF RecordNew, BridgeInv
<1>3. /\ k \in Ids /\ c \in Contents /\ c.project \in Projects /\ ds \subseteq Destinations
  BY <1>2, RegistrationsAssumption DEF Records, Contents
<1>4. /\ content[k] = None
      /\ content' = [content EXCEPT ![k] = c]
      /\ delivery' = [row \in Ids \X Destinations |->
                        IF row[1] = k /\ row[2] \in ds THEN "pending" ELSE delivery[row]]
      /\ bridge' = [bridge EXCEPT ![b] = Idle]
      /\ UNCHANGED <<registered, active, eligible, versions, cleared, refused, crashes>>
  BY DEF RecordNew, Ledger!Record, Answer, history
<1>5. TypeOK'
  <2>1. Ledger!TypeOK'
    BY <1>1, <1>3, <1>4 DEF TypeOK, Ledger!TypeOK, Ledger!Statuses
  <2> QED BY <1>1, <1>4, <2>1 DEF TypeOK
<1>6. ASSUME NEW a \in Bridges PROVE Grounded(a)'
  <2>1. CASE a = b
    BY <1>1, <1>4, <2>1, IdleIsGrounded
  <2>2. CASE a # b
    <3>1. bridge'[a] = bridge[a]
      BY <1>1, <1>4, <2>2 DEF TypeOK
    <3> QED BY <1>4, <3>1, GroundHolds
  <2> QED BY <2>1, <2>2
<1>7. \A q \in Projects : ActiveIsCleared(q)'
  BY <1>4, GroundHolds
<1>8. ASSUME NEW id \in Ids PROVE RecordedFrom(id)'
  <2>1. content \in [Ids -> Contents \cup {None}]
    BY <1>1 DEF TypeOK, Ledger!TypeOK
  <2>2. CASE id = k
    <3>1. content'[id] = c
      BY <1>4, <2>1, <2>2
    <3>2. LedgerTargets(id)' = ds
      <4>1. ASSUME NEW d \in Destinations PROVE delivery'[<<id, d>>] # "absent" <=> d \in ds
        <5>1. delivery[<<id, d>>] = "absent"
          BY <1>4, <2>2 DEF BridgeInv, RecordedFrom
        <5>2. <<id, d>> \in Ids \X Destinations /\ <<id, d>>[1] = id /\ <<id, d>>[2] = d
          OBVIOUS
        <5>3. delivery'[<<id, d>>] = IF d \in ds THEN "pending" ELSE delivery[<<id, d>>]
          BY <1>4, <2>2, <5>2
        <5> QED BY <5>1, <5>3
      <4> QED BY <1>3, <4>1 DEF LedgerTargets
    <3>3. c # None
      BY <1>3, NoneAssumption
    <3>4. /\ bridge[b].seen \in versions[c.project] /\ "write_progress" \in bridge[b].seen.grants
          /\ bridge[b].seen.workspace = c.workspace
      BY <1>2 DEF Grounded
    <3>5. versions' = versions
      BY <1>4
    <3> QED BY <3>1, <3>2, <3>3, <3>4, <3>5 DEF RecordedFrom
  <2>3. CASE id # k
    <3>1. content'[id] = content[id]
      BY <1>4, <2>1, <2>3
    <3>2. LedgerTargets(id)' = LedgerTargets(id)
      <4>1. ASSUME NEW d \in Destinations PROVE delivery'[<<id, d>>] = delivery[<<id, d>>]
        BY <1>4, <2>3
      <4> QED BY <4>1 DEF LedgerTargets
    <3>3. \A d \in Destinations : delivery'[<<id, d>>] = delivery[<<id, d>>]
      BY <1>4, <2>3
    <3> QED BY <1>4, <3>1, <3>2, <3>3 DEF BridgeInv, RecordedFrom
  <2> QED BY <2>2, <2>3
<1>9. ASSUME NEW id \in refused' PROVE RefusedAfterChange(id)'
  <2>1. id \in refused /\ RefusedAfterChange(id) /\ id \in Ids
    BY <1>1, <1>4 DEF BridgeInv, TypeOK
  <2>2. id # k
    BY <1>4, <2>1 DEF RefusedAfterChange
  <2>3. content'[id] = content[id]
    BY <1>1, <1>4, <2>1, <2>2 DEF TypeOK, Ledger!TypeOK
  <2> QED BY <1>4, <2>1, <2>3 DEF RefusedAfterChange
<1>10. \A p \in Projects : registered'[p] # None => registered'[p] \in versions'[p]
  BY <1>4 DEF BridgeInv
<1> QED BY <1>5, <1>6, <1>7, <1>8, <1>9, <1>10 DEF BridgeInv

LEMMA RecordAgainKeeps ==
    ASSUME BridgeInv, NEW b \in Bridges, RecordAgain(b)
    PROVE  BridgeInv'
<1>1. TypeOK
  BY DEF BridgeInv
<1>2. /\ bridge[b].at = "authorized" /\ bridge[b] \in Records /\ Grounded(b)
      /\ content[bridge[b].id] # None
      /\ bridge' = [bridge EXCEPT ![b] = Idle]
      /\ UNCHANGED <<registered, active, ledger, eligible, versions, cleared, crashes>>
      /\ refused' = IF /\ content[bridge[b].id] = bridge[b].content
                       /\ LedgerTargets(bridge[b].id) # bridge[b].seen.targets
                    THEN refused \cup {bridge[b].id}
                    ELSE refused
  BY <1>1, Shapes DEF RecordAgain, Answer, BridgeInv
<1>3. bridge[b].id \in Ids /\ bridge[b].content.project \in Projects
  BY <1>2 DEF Records, Contents
<1>4. \A q \in Projects : ActiveIsCleared(q)'
  BY <1>2, GroundHolds
<1>5. \A id \in refused : RefusedAfterChange(id)'
  BY <1>2, GroundHolds
<1>6. PICK k : k = bridge[b].id
  OBVIOUS
<1>7. \A id \in refused' : RefusedAfterChange(id)'
  <2>1. CASE refused' = refused
    BY <1>5, <2>1
  <2>2. CASE /\ content[k] = bridge[b].content
             /\ LedgerTargets(k) # bridge[b].seen.targets
             /\ refused' = refused \cup {k}
    <3>1. PICK v \in versions[bridge[b].content.project] : v.targets = LedgerTargets(k)
      BY <1>2, <1>3, <1>6, <2>2 DEF BridgeInv, RecordedFrom
    <3>2. bridge[b].seen \in versions[bridge[b].content.project]
      BY <1>2 DEF Grounded
    <3>3. RefusedAfterChange(k)
      BY <1>2, <1>6, <2>2, <3>1, <3>2 DEF RefusedAfterChange
    <3>4. RefusedAfterChange(k)'
      BY <1>2, <3>3 DEF RefusedAfterChange, ledger
    <3> QED BY <1>5, <2>2, <3>4
  <2> QED BY <1>2, <1>6, <2>1, <2>2
<1>8. refused' \in SUBSET Ids /\ crashes' \in 0 .. MaxCrashes
  BY <1>1, <1>2, <1>3 DEF TypeOK
<1> QED BY <1>1, <1>2, <1>4, <1>7, <1>8, IdleIsGrounded, BridgeSteps DEF TypeOK

LEMMA CrashKeeps ==
    ASSUME BridgeInv, NEW b \in Bridges, Crash(b)
    PROVE  BridgeInv'
<1>1. TypeOK
  BY DEF BridgeInv
<1>2. /\ bridge' = [bridge EXCEPT ![b] = Idle]
      /\ crashes < MaxCrashes /\ crashes' = crashes + 1
      /\ UNCHANGED <<registered, active, ledger, eligible, versions, cleared, refused>>
  BY DEF Crash, Answer
<1>3. crashes' \in 0 .. MaxCrashes
  BY <1>1, <1>2, BoundAssumption DEF TypeOK
<1>4. /\ \A q \in Projects : ActiveIsCleared(q)'
      /\ \A id \in refused' : RefusedAfterChange(id)'
  BY <1>2, GroundHolds
<1> QED BY <1>1, <1>2, <1>3, <1>4, IdleIsGrounded, BridgeSteps DEF TypeOK

LEMMA NextIsGrounded == BridgeInv /\ [Next]_vars => BridgeInv'
<1> SUFFICES ASSUME BridgeInv, [Next]_vars PROVE BridgeInv'
  OBVIOUS
<1>1. CASE UNCHANGED vars
  <2>1. TypeOK'
    BY <1>1 DEF vars, ledger, history, BridgeInv, TypeOK, Ledger!TypeOK
  <2> QED BY <1>1, <2>1, GroundHolds DEF vars, history, BridgeInv
<1>2. CASE Next
  BY <1>2, RegisterKeeps, BoardKeeps, SelectStartKeeps, AssessKeeps, SelectCommitKeeps,
     RecordStartKeeps, RecordNewKeeps, RecordAgainKeeps, CrashKeeps
  DEF Next, Handle
<1> QED BY <1>1, <1>2

LEMMA AlwaysGrounded == Spec => []BridgeInv
BY InitIsGrounded, NextIsGrounded, PTL DEF Spec

-----------------------------------------------------------------------------
(* Work becomes active only after Board called it eligible for a project that
   granted the selection (bridge.rs set_active_work_item). *)
THEOREM ActiveIsAlwaysCleared == Spec => []ActiveWasCleared
<1>1. BridgeInv => ActiveWasCleared
  BY DEF BridgeInv, ActiveIsCleared, ActiveWasCleared
<1> QED BY <1>1, AlwaysGrounded, PTL

(* What is recorded rests on one version of its project's registration, which
   may be replaced while the request is under way (bridge.rs record_progress). *)
THEOREM RecordsHaveOneRegistration == Spec => []RecordedFromOneRegistration
<1>1. BridgeInv => RecordedFromOneRegistration
  BY DEF BridgeInv, RecordedFrom, RecordedFromOneRegistration
<1> QED BY <1>1, AlwaysGrounded, PTL

(* An unchanged checkpoint is refused only of a project whose destinations were
   changed (mod.rs record, bridge.rs record_progress). *)
THEOREM RetriesAreAccepted == Spec => []RetryIsRefusedOnlyAfterChange
<1>1. BridgeInv => RetryIsRefusedOnlyAfterChange
  BY DEF BridgeInv, RefusedAfterChange, RetryIsRefusedOnlyAfterChange
<1> QED BY <1>1, AlwaysGrounded, PTL
=============================================================================
