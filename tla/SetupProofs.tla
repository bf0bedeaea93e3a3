---------------------------- MODULE SetupProofs ----------------------------
(***************************************************************************)
(* Proofs about Setup for any number of setups and any requests.  A setup  *)
(* is followed through the commands it has behind it: what it has made sure *)
(* of stays so until another setup changes a layer, and the marketplace,   *)
(* which nobody replaces, stays in any case.                               *)
(***************************************************************************)
EXTENDS Setup, TLAPS

LayersOK ==
    /\ core \in Binaries \cup {None}
    /\ project \in Registrations \cup {None}
    /\ marketplace \in Roots \cup {None}
    /\ plugin = None \/ plugin \in [version : Versions, enabled : BOOLEAN]
    /\ plugin # None => marketplace # None

\* No layer but the plugin is ever taken away, and no marketplace is replaced.
Monotone ==
    /\ core # None => core' # None
    /\ project # None => project' # None
    /\ marketplace # None => marketplace' = marketplace

AfterInstall == Commands \ {"install"}
AfterProject == {"list marketplaces", "add marketplace", "verify marketplace",
                 "list plugins", "remove plugin", "add plugin", "verify plugin"}
AfterMarketplace == {"list plugins", "remove plugin", "add plugin", "verify plugin"}

\* What a setup has made sure of.
SetupIsOnCourse(s) ==
    /\ at[s] \in Commands => request[s] \in Requests /\ version[s] \in Versions
    /\ at[s] \in Ended => since[s] = "disturbed"
    /\ since[s] = "matched" =>
         /\ at[s] \in {"list project", "list marketplaces", "list plugins"}
         /\ AsRequested(request[s], version[s])
    /\ at[s] \in AfterInstall /\ since[s] # "disturbed" => core = request[s].core
    /\ at[s] \in AfterProject /\ since[s] # "disturbed" => project = request[s].registration
    /\ at[s] \in AfterMarketplace => marketplace = request[s].root
    /\ at[s] = "register" => request[s].replace \/ seen[s] = None

\* What a doctor has seen.
CheckupIsOnCourse ==
    /\ checkup.look > 0 => checkup.kind \in Kinds /\ checkup.look <= LastLook(checkup.kind)
    /\ checkup.look = 0 => checkup = NoCheckup
    /\ checkup.steady => checkup.ready /\ AllThere(checkup.kind)
    /\ checkup.ready =>
         /\ checkup.look > 1 => core # None
         /\ checkup.look > 2 => checkup.kind = "doctor" \/ project # None
         /\ checkup.look > 3 => marketplace # None
         /\ checkup.look > 4 => checkup.whole

SetupInv ==
    /\ TypeOK
    /\ \A s \in Setups : SetupIsOnCourse(s)
    /\ CheckupIsOnCourse

LEMMA InitIsOnCourse == Init => SetupInv
<1> SUFFICES ASSUME Init PROVE SetupInv
  OBVIOUS
<1>1. TypeOK
  BY DEF Init, TypeOK, Ended, NoCheckup
<1>2. ASSUME NEW s \in Setups PROVE SetupIsOnCourse(s)
  BY DEF Init, SetupIsOnCourse, Ended, Commands, AfterInstall, AfterProject, AfterMarketplace
<1>3. CheckupIsOnCourse
  BY DEF Init, CheckupIsOnCourse, NoCheckup
<1> QED BY <1>1, <1>2, <1>3 DEF SetupInv

Checkups == [kind : Kinds \cup {None}, look : 0..6,
             ready : BOOLEAN, whole : BOOLEAN, steady : BOOLEAN]

\* The doctor keeps what it knows while layers only come, or the plugin goes.
LEMMA WatchedKeeps ==
    ASSUME SetupInv, IsWatched, Monotone
    PROVE  CheckupIsOnCourse' /\ checkup' \in Checkups
<1>1. checkup \in Checkups /\ CheckupIsOnCourse
  BY DEF SetupInv, TypeOK, Checkups
<1>2. PICK kind \in {checkup.kind} :
        checkup' = [checkup EXCEPT !.steady = @ /\ AllThere(kind)']
  BY DEF IsWatched
<1>3. /\ checkup'.kind = checkup.kind /\ checkup'.look = checkup.look
      /\ checkup'.ready = checkup.ready /\ checkup'.whole = checkup.whole
      /\ checkup'.steady = (checkup.steady /\ AllThere(kind)')
      /\ checkup' \in Checkups
  BY <1>1, <1>2 DEF Checkups
<1>4. checkup'.steady => checkup.steady /\ AllThere(checkup.kind)'
  <2>1. checkup'.kind = kind
    BY <1>2, <1>3
  <2> QED BY <1>3, <2>1 DEF AllThere, PluginIsEnabled
<1>5. checkup.look = 0 => checkup' = NoCheckup
  <2> SUFFICES ASSUME checkup.look = 0 PROVE checkup' = NoCheckup
    OBVIOUS
  <2>1. checkup = NoCheckup
    BY <1>1 DEF CheckupIsOnCourse
  <2>2. /\ checkup.kind = None /\ checkup.look = 0 /\ checkup.ready = FALSE
        /\ checkup.whole = FALSE /\ checkup.steady = FALSE
    BY <2>1 DEF NoCheckup
  <2>3. ~checkup'.steady
    BY <1>3, <2>2
  <2>4. checkup'.steady \in BOOLEAN
    BY <1>3 DEF Checkups
  <2>5. checkup'.steady = FALSE
    BY <2>3, <2>4
  <2>6. /\ checkup'.kind = None /\ checkup'.look = 0 /\ checkup'.ready = FALSE
        /\ checkup'.whole = FALSE
    BY <1>3, <2>2
  <2> QED BY <1>3, <2>5, <2>6 DEF Checkups, NoCheckup
<1>6. CheckupIsOnCourse'
  BY <1>1, <1>3, <1>4, <1>5 DEF CheckupIsOnCourse, Monotone
<1> QED BY <1>3, <1>6

\* A setup that another one passes by stays on course.
LEMMA OthersKeep ==
    ASSUME SetupInv, NEW s \in Setups, NEW where \in Ended \cup Commands, Goes(s, where),
           Monotone, NEW t \in Setups, t # s
    PROVE  SetupIsOnCourse(t)'
<1>1. TypeOK /\ SetupIsOnCourse(t)
  BY DEF SetupInv
<1>2. /\ at'[t] = at[t] /\ request'[t] = request[t] /\ version'[t] = version[t]
      /\ seen'[t] = seen[t]
      /\ since'[t] = IF layers' # layers THEN "disturbed" ELSE since[t]
  BY <1>1 DEF Goes, TypeOK
<1>3. at[t] \in AfterMarketplace => marketplace # None
  <2>1. at[t] \in AfterMarketplace => at[t] \in Commands
    BY DEF AfterMarketplace, Commands
  <2> QED BY <1>1, <2>1, NoneAssumption, RequestsAssumption DEF SetupIsOnCourse
<1>4. CASE layers' # layers
  <2>1. since'[t] = "disturbed"
    BY <1>2, <1>4
  <2> QED BY <1>1, <1>2, <1>3, <2>1 DEF SetupIsOnCourse, Monotone
<1>5. CASE layers' = layers
  <2>1. since'[t] = since[t]
    BY <1>2, <1>5
  <2> QED BY <1>1, <1>2, <1>5, <2>1 DEF SetupIsOnCourse, layers, AsRequested, PluginIsReady
<1> QED BY <1>4, <1>5

\* What is left to show of a step of s.
LEMMA StepKeeps ==
    ASSUME SetupInv, NEW s \in Setups, NEW where \in Ended \cup Commands, Goes(s, where),
           UNCHANGED manifest, Monotone, LayersOK', SetupIsOnCourse(s)'
    PROVE  SetupInv'
<1>1. CheckupIsOnCourse' /\ checkup' \in Checkups
  BY WatchedKeeps DEF Goes
<1>2. \A t \in Setups : SetupIsOnCourse(t)'
  BY OthersKeep
<1>3. TypeOK
  BY DEF SetupInv
<1>4. /\ at' \in [Setups -> Ended \cup Commands]
      /\ request' \in [Setups -> Requests \cup {None}]
      /\ version' \in [Setups -> Versions \cup {None}]
      /\ seen' \in [Setups -> Registrations \cup {None}]
      /\ since' \in [Setups -> {"matched", "alone", "disturbed"}]
  BY <1>3 DEF Goes, TypeOK
<1>5. TypeOK'
  BY <1>1, <1>3, <1>4 DEF TypeOK, LayersOK, Checkups
<1> QED BY <1>1, <1>2, <1>5 DEF SetupInv

\* Ending is always on course.
LEMMA EndIsOnCourse ==
    ASSUME SetupInv, NEW s \in Setups, NEW where \in Ended, Goes(s, where)
    PROVE  SetupIsOnCourse(s)'
<1>1. TypeOK
  BY DEF SetupInv
<1>2. at'[s] = where /\ since'[s] = "disturbed"
  BY <1>1 DEF Goes, TypeOK
<1> QED
  BY <1>2 DEF SetupIsOnCourse, Ended, Commands, AfterInstall, AfterProject, AfterMarketplace

\* A command of s that only looks and leads on.
LEMMA LookKeeps ==
    ASSUME SetupInv, NEW s \in Setups, NEW where \in Ended \cup Commands, Goes(s, where),
           UNCHANGED layers, UNCHANGED manifest,
           where \notin Ended => SetupIsOnCourse(s)'
    PROVE  SetupInv'
<1>1. Monotone
  BY DEF Monotone, layers
<1>2. LayersOK'
  BY DEF SetupInv, TypeOK, LayersOK, layers
<1>3. SetupIsOnCourse(s)'
  BY EndIsOnCourse
<1> QED BY <1>1, <1>2, <1>3, StepKeeps

\* What s is like after going on from a command to another.
LEMMA GoingOn ==
    ASSUME SetupInv, NEW s \in Setups, NEW where \in Commands, Goes(s, where),
           at[s] \in Commands
    PROVE  /\ at'[s] = where /\ request'[s] = request[s] /\ version'[s] = version[s]
           /\ since'[s] = since[s] /\ since[s] \in {"matched", "alone", "disturbed"}
           /\ seen'[s] = IF where = "register" THEN project ELSE None
           /\ where \notin Ended
           /\ request[s] \in Requests /\ version[s] \in Versions
           /\ request[s].core \in Binaries /\ request[s].registration \in Registrations
           /\ request[s].root \in Roots
<1>1. TypeOK /\ SetupIsOnCourse(s)
  BY DEF SetupInv
<1>2. where \notin Ended
  BY DEF Ended, Commands
<1>3. request[s] \in Requests /\ version[s] \in Versions
  BY <1>1 DEF SetupIsOnCourse
<1> QED BY <1>1, <1>2, <1>3, RequestsAssumption DEF Goes, TypeOK

\* A command of s that changes a layer, or fails.
LEMMA ChangeKeeps ==
    ASSUME SetupInv, NEW s \in Setups, NEW from \in Commands, NEW to \in Commands,
           at[s] = from, UNCHANGED manifest,
           \/ Goes(s, to) /\ Monotone /\ LayersOK' /\ SetupIsOnCourse(s)'
           \/ UNCHANGED layers /\ Goes(s, "idle")
    PROVE  SetupInv'
<1>1. CASE Goes(s, to) /\ Monotone /\ LayersOK' /\ SetupIsOnCourse(s)'
  BY <1>1, StepKeeps
<1>2. CASE UNCHANGED layers /\ Goes(s, "idle")
  <2>1. "idle" \in Ended
    BY DEF Ended
  <2> QED BY <1>2, <2>1, LookKeeps
<1> QED BY <1>1, <1>2

LEMMA InstallBinaryKeeps ==
    ASSUME SetupInv, NEW s \in Setups, InstallBinary(s)
    PROVE  SetupInv'
<1>1. /\ at[s] = "install" /\ UNCHANGED manifest
      /\ \/ /\ core' = request[s].core /\ UNCHANGED <<project, marketplace, plugin>>
            /\ Goes(s, "list project")
         \/ UNCHANGED layers /\ Goes(s, "idle")
  BY DEF InstallBinary, Changes
<1>2. "install" \in Commands /\ "list project" \in Commands
  BY DEF Commands
<1>3. ASSUME core' = request[s].core, UNCHANGED <<project, marketplace, plugin>>,
             Goes(s, "list project")
      PROVE  Monotone /\ LayersOK' /\ SetupIsOnCourse(s)'
  <2>1. TypeOK /\ SetupIsOnCourse(s)
    BY DEF SetupInv
  <2>2. /\ at'[s] = "list project" /\ request'[s] = request[s] /\ version'[s] = version[s]
        /\ since'[s] = since[s] /\ "list project" \notin Ended
        /\ request[s] \in Requests /\ version[s] \in Versions
        /\ request[s].core \in Binaries
    BY <1>1, <1>2, <1>3, GoingOn
  <2>3. Monotone
    BY <1>3, <2>2, NoneAssumption DEF Monotone
  <2>4. LayersOK'
    BY <1>3, <2>1, <2>2 DEF LayersOK, TypeOK
  <2>5. since[s] # "matched"
    BY <1>1, <2>1 DEF SetupIsOnCourse
  <2>6. SetupIsOnCourse(s)'
    BY <1>3, <2>2, <2>5 DEF SetupIsOnCourse, Commands, AfterInstall, AfterProject, AfterMarketplace
  <2> QED BY <2>3, <2>4, <2>6
<1> QED BY <1>1, <1>2, <1>3, ChangeKeeps

LEMMA RegisterProjectKeeps ==
    ASSUME SetupInv, NEW s \in Setups, RegisterProject(s)
    PROVE  SetupInv'
<1>1. /\ at[s] = "register" /\ UNCHANGED manifest
      /\ \/ /\ project' = request[s].registration /\ UNCHANGED <<core, marketplace, plugin>>
            /\ Goes(s, "verify project")
         \/ UNCHANGED layers /\ Goes(s, "idle")
  BY DEF RegisterProject, Changes
<1>2. "register" \in Commands /\ "verify project" \in Commands
  BY DEF Commands
<1>3. ASSUME project' = request[s].registration, UNCHANGED <<core, marketplace, plugin>>,
             Goes(s, "verify project")
      PROVE  Monotone /\ LayersOK' /\ SetupIsOnCourse(s)'
  <2>1. TypeOK /\ SetupIsOnCourse(s)
    BY DEF SetupInv
  <2>2. /\ at'[s] = "verify project" /\ request'[s] = request[s] /\ version'[s] = version[s]
        /\ since'[s] = since[s] /\ "verify project" \notin Ended
        /\ request[s] \in Requests /\ version[s] \in Versions
        /\ request[s].registration \in Registrations
    BY <1>1, <1>2, <1>3, GoingOn
  <2>3. Monotone
    BY <1>3, <2>2, NoneAssumption DEF Monotone
  <2>4. LayersOK'
    BY <1>3, <2>1, <2>2 DEF LayersOK, TypeOK
  <2>5. since[s] # "matched" /\ "register" \in AfterInstall
    BY <1>1, <2>1 DEF SetupIsOnCourse, AfterInstall, Commands
  <2>6. SetupIsOnCourse(s)'
    BY <1>1, <1>3, <2>1, <2>2, <2>5
    DEF SetupIsOnCourse, Commands, AfterInstall, AfterProject, AfterMarketplace
  <2> QED BY <2>3, <2>4, <2>6
<1> QED BY <1>1, <1>2, <1>3, ChangeKeeps

LEMMA AddMarketplaceKeeps ==
    ASSUME SetupInv, NEW s \in Setups, AddMarketplace(s)
    PROVE  SetupInv'
<1>1. /\ at[s] = "add marketplace" /\ UNCHANGED manifest
      /\ \/ /\ marketplace = None /\ marketplace' = request[s].root
            /\ UNCHANGED <<core, project, plugin>> /\ Goes(s, "verify marketplace")
         \/ UNCHANGED layers /\ Goes(s, "idle")
  BY DEF AddMarketplace, Changes
<1>2. "add marketplace" \in Commands /\ "verify marketplace" \in Commands
  BY DEF Commands
<1>3. ASSUME marketplace = None, marketplace' = request[s].root,
             UNCHANGED <<core, project, plugin>>, Goes(s, "verify marketplace")
      PROVE  Monotone /\ LayersOK' /\ SetupIsOnCourse(s)'
  <2>1. TypeOK /\ SetupIsOnCourse(s)
    BY DEF SetupInv
  <2>2. /\ at'[s] = "verify marketplace" /\ request'[s] = request[s] /\ version'[s] = version[s]
        /\ since'[s] = since[s] /\ "verify marketplace" \notin Ended
        /\ request[s] \in Requests /\ version[s] \in Versions
        /\ request[s].root \in Roots
    BY <1>1, <1>2, <1>3, GoingOn
  <2>3. Monotone
    BY <1>3 DEF Monotone
  <2>4. LayersOK'
    BY <1>3, <2>1, <2>2 DEF LayersOK, TypeOK
  <2>5. /\ since[s] # "matched" /\ "add marketplace" \in AfterInstall
        /\ "add marketplace" \in AfterProject
    BY <1>1, <2>1 DEF SetupIsOnCourse, AfterInstall, AfterProject, Commands
  <2>6. SetupIsOnCourse(s)'
    BY <1>1, <1>3, <2>1, <2>2, <2>5
    DEF SetupIsOnCourse, Commands, AfterInstall, AfterProject, AfterMarketplace
  <2> QED BY <2>3, <2>4, <2>6
<1> QED BY <1>1, <1>2, <1>3, ChangeKeeps

\* What a setup at the plugin knows.
LEMMA AtThePlugin ==
    ASSUME SetupInv, NEW s \in Setups, at[s] \in AfterMarketplace \ {"list plugins"}
    PROVE  /\ since[s] # "matched" /\ at[s] \in Commands
           /\ marketplace = request[s].root /\ marketplace \in Roots /\ marketplace # None
           /\ since[s] # "disturbed" =>
                core = request[s].core /\ project = request[s].registration
<1>1. TypeOK /\ SetupIsOnCourse(s)
  BY DEF SetupInv
<1>2. at[s] \in Commands /\ at[s] \in AfterInstall /\ at[s] \in AfterProject /\ at[s] \in AfterMarketplace
  BY DEF AfterInstall, AfterProject, AfterMarketplace, Commands
<1>3. at[s] \notin {"list project", "list marketplaces", "list plugins"}
  BY DEF AfterMarketplace
<1> QED BY <1>1, <1>2, <1>3, NoneAssumption, RequestsAssumption DEF SetupIsOnCourse

LEMMA PluginKeeps ==
    ASSUME SetupInv, NEW s \in Setups, RemovePlugin(s) \/ AddPlugin(s)
    PROVE  SetupInv'
<1>1. PICK from \in AfterMarketplace \ {"list plugins"}, to \in {"add plugin", "verify plugin"} :
        /\ at[s] = from /\ UNCHANGED manifest
        /\ \/ /\ plugin' = None \/ plugin' \in [version : Versions, enabled : BOOLEAN]
              /\ UNCHANGED <<core, project, marketplace>> /\ Goes(s, to)
           \/ UNCHANGED layers /\ Goes(s, "idle")
  <2>1. CASE RemovePlugin(s)
    <3>1. "remove plugin" \in AfterMarketplace \ {"list plugins"}
      BY DEF AfterMarketplace
    <3> QED BY <2>1, <3>1 DEF RemovePlugin, Changes
  <2>2. CASE AddPlugin(s)
    <3>1. "add plugin" \in AfterMarketplace \ {"list plugins"} /\ at[s] = "add plugin"
      BY <2>2 DEF AfterMarketplace, AddPlugin, Changes
    <3>2. marketplace \in Roots
      BY <3>1, AtThePlugin
    <3>3. Distributed(s) \in [version : Versions, enabled : BOOLEAN]
      BY <3>2 DEF Distributed, SetupInv, TypeOK
    <3> QED BY <2>2, <3>1, <3>3 DEF AddPlugin, Changes
  <2> QED BY <2>1, <2>2
<1>2. from \in Commands /\ to \in Commands /\ to \notin Ended
  BY DEF Commands, AfterMarketplace, Ended
<1>3. /\ since[s] # "matched" /\ marketplace = request[s].root /\ marketplace # None
      /\ since[s] # "disturbed" => core = request[s].core /\ project = request[s].registration
  BY <1>1, AtThePlugin
<1>4. ASSUME plugin' = None \/ plugin' \in [version : Versions, enabled : BOOLEAN],
             UNCHANGED <<core, project, marketplace>>, Goes(s, to)
      PROVE  Monotone /\ LayersOK' /\ SetupIsOnCourse(s)'
  <2>1. TypeOK /\ SetupIsOnCourse(s)
    BY DEF SetupInv
  <2>2. /\ at'[s] = to /\ request'[s] = request[s] /\ version'[s] = version[s]
        /\ since'[s] = since[s]
        /\ request[s] \in Requests /\ version[s] \in Versions
    BY <1>1, <1>2, <1>4, GoingOn
  <2>3. Monotone
    BY <1>4 DEF Monotone
  <2>4. LayersOK'
    BY <1>3, <1>4, <2>1 DEF LayersOK, TypeOK
  <2>5. SetupIsOnCourse(s)'
    BY <1>1, <1>2, <1>3, <1>4, <2>2 DEF SetupIsOnCourse
  <2> QED BY <2>3, <2>4, <2>5
<1> QED BY <1>1, <1>2, <1>4, ChangeKeeps

\* The commands of s that look, and what they may lead to.
LEMMA EnsureProjectKeeps ==
    ASSUME SetupInv, NEW s \in Setups, EnsureProject(s) \/ VerifyProject(s)
    PROVE  SetupInv'
<1>1. TypeOK /\ SetupIsOnCourse(s)
  BY DEF SetupInv
<1>2. PICK where \in {"refused", "list marketplaces", "register", "idle"} :
        /\ at[s] \in {"list project", "verify project"}
        /\ UNCHANGED layers /\ UNCHANGED manifest /\ Goes(s, where)
        /\ where = "list marketplaces" => project = request[s].registration
        /\ where = "register" =>
             /\ at[s] = "list project" /\ project # request[s].registration
             /\ ~ProjectConflicts(s)
  BY DEF EnsureProject, VerifyProject, LooksAt
<1>3. where \in Ended \cup Commands /\ at[s] \in Commands /\ at[s] \in AfterInstall
  BY <1>2 DEF Ended, Commands, AfterInstall
<1>4. ASSUME where \notin Ended PROVE SetupIsOnCourse(s)'
  <2>1. /\ at'[s] = where /\ request'[s] = request[s] /\ version'[s] = version[s]
        /\ since'[s] = since[s] /\ seen'[s] = IF where = "register" THEN project ELSE None
        /\ request[s] \in Requests /\ version[s] \in Versions
    BY <1>2, <1>3, <1>4, GoingOn
  <2>2. CASE where = "list marketplaces"
    BY <1>1, <1>2, <1>3, <1>4, <2>1, <2>2
    DEF SetupIsOnCourse, layers, AsRequested, PluginIsReady, AfterMarketplace, Commands
  <2>3. CASE where = "register"
    <3>1. since[s] # "matched"
      BY <1>1, <1>2, <2>3 DEF SetupIsOnCourse, AsRequested
    <3>2. request[s].replace \/ project = None
      BY <1>2, <2>3 DEF ProjectConflicts
    <3> QED
      BY <1>1, <1>2, <1>3, <1>4, <2>1, <2>3, <3>1, <3>2
      DEF SetupIsOnCourse, layers, AfterProject, AfterMarketplace
  <2> QED BY <1>2, <1>4, <2>2, <2>3 DEF Ended
<1> QED BY <1>2, <1>3, <1>4, LookKeeps

LEMMA EnsureMarketplaceKeeps ==
    ASSUME SetupInv, NEW s \in Setups, EnsureMarketplace(s) \/ VerifyMarketplace(s)
    PROVE  SetupInv'
<1>1. TypeOK /\ SetupIsOnCourse(s)
  BY DEF SetupInv
<1>2. PICK where \in {"refused", "add marketplace", "list plugins", "idle"} :
        /\ at[s] \in {"list marketplaces", "verify marketplace"}
        /\ UNCHANGED layers /\ UNCHANGED manifest /\ Goes(s, where)
        /\ where = "list plugins" => marketplace = request[s].root
        /\ where = "add marketplace" => marketplace = None
  BY DEF EnsureMarketplace, VerifyMarketplace, LooksAt
<1>3. /\ where \in Ended \cup Commands /\ at[s] \in Commands
      /\ at[s] \in AfterInstall /\ at[s] \in AfterProject
  BY <1>2 DEF Ended, Commands, AfterInstall, AfterProject
<1>4. ASSUME where \notin Ended PROVE SetupIsOnCourse(s)'
  <2>1. /\ at'[s] = where /\ request'[s] = request[s] /\ version'[s] = version[s]
        /\ since'[s] = since[s] /\ request[s] \in Requests /\ version[s] \in Versions
        /\ request[s].root \in Roots
    BY <1>2, <1>3, <1>4, GoingOn
  <2>2. CASE where = "list plugins"
    BY <1>1, <1>2, <1>3, <1>4, <2>1, <2>2
    DEF SetupIsOnCourse, layers, AsRequested, PluginIsReady
  <2>3. CASE where = "add marketplace"
    <3>1. since[s] # "matched"
      BY <1>1, <1>2, <2>1, <2>3, NoneAssumption DEF SetupIsOnCourse, AsRequested
    <3> QED
      BY <1>1, <1>2, <1>3, <1>4, <2>1, <2>3, <3>1
      DEF SetupIsOnCourse, layers, AfterMarketplace
  <2> QED BY <1>2, <1>4, <2>2, <2>3 DEF Ended
<1> QED BY <1>2, <1>3, <1>4, LookKeeps

LEMMA EnsurePluginKeeps ==
    ASSUME SetupInv, NEW s \in Setups, EnsurePlugin(s) \/ VerifyPlugin(s)
    PROVE  SetupInv'
<1>1. TypeOK /\ SetupIsOnCourse(s)
  BY DEF SetupInv
<1>2. PICK where \in {"done", "add plugin", "remove plugin", "idle"} :
        /\ at[s] \in {"list plugins", "verify plugin"}
        /\ UNCHANGED layers /\ UNCHANGED manifest /\ Goes(s, where)
        /\ where \in {"add plugin", "remove plugin"} => ~PluginIsReady(version[s])
  <2>1. CASE EnsurePlugin(s)
    <3> DEFINE to == CASE IsCurrent(version[s]) -> "done"
                       [] plugin = None -> "add plugin"
                       [] OTHER -> "remove plugin"
    <3>1. /\ to \in {"done", "add plugin", "remove plugin"}
          /\ to \in {"add plugin", "remove plugin"} => ~PluginIsReady(version[s])
      <4>1. plugin = None => ~PluginIsReady(version[s])
        <5>1. at[s] \in Commands
          BY <2>1 DEF EnsurePlugin, LooksAt, Commands
        <5>2. version[s] \in Versions
          BY <1>1, <5>1 DEF SetupIsOnCourse
        <5>3. [version |-> version[s], enabled |-> TRUE] \in [version : Versions, enabled : BOOLEAN]
          BY <5>2
        <5>4. None \notin [version : Versions, enabled : BOOLEAN]
          BY NoneAssumption
        <5> QED BY <5>3, <5>4 DEF PluginIsReady
      <4> QED BY <4>1 DEF IsCurrent
    <3> QED BY <2>1, <3>1 DEF EnsurePlugin, LooksAt
  <2>2. CASE VerifyPlugin(s)
    BY <2>2 DEF VerifyPlugin, LooksAt
  <2> QED BY <2>1, <2>2
<1>3. /\ where \in Ended \cup Commands /\ at[s] \in Commands
      /\ at[s] \in AfterInstall /\ at[s] \in AfterProject /\ at[s] \in AfterMarketplace
  BY <1>2 DEF Ended, Commands, AfterInstall, AfterProject, AfterMarketplace
<1>4. ASSUME where \notin Ended PROVE SetupIsOnCourse(s)'
  <2>1. /\ at'[s] = where /\ request'[s] = request[s] /\ version'[s] = version[s]
        /\ since'[s] = since[s] /\ request[s] \in Requests /\ version[s] \in Versions
    BY <1>2, <1>3, <1>4, GoingOn
  <2>2. where \in {"add plugin", "remove plugin"}
    BY <1>2, <1>4 DEF Ended
  <2>3. since[s] # "matched"
    BY <1>1, <1>2, <2>2 DEF SetupIsOnCourse, AsRequested
  <2> QED
    BY <1>1, <1>2, <1>3, <1>4, <2>1, <2>2, <2>3 DEF SetupIsOnCourse, layers
<1> QED BY <1>2, <1>3, <1>4, LookKeeps

LEMMA PrepareKeeps ==
    ASSUME SetupInv, NEW s \in Setups, NEW req \in Requests, Prepare(s, req)
    PROVE  SetupInv'
<1>1. TypeOK /\ at[s] \in Ended /\ UNCHANGED <<layers, manifest, seen, checkup>>
  BY DEF SetupInv, Prepare
<1>2. /\ CheckupIsOnCourse'
      /\ \A t \in Setups :
            /\ at'[t] = at[t] /\ request'[t] = request[t] /\ version'[t] = version[t]
            /\ since'[t] = since[t]
            => SetupIsOnCourse(t)'
  <2>1. CheckupIsOnCourse'
    BY <1>1 DEF SetupInv, CheckupIsOnCourse, layers, AllThere, PluginIsEnabled
  <2>2. ASSUME NEW t \in Setups, at'[t] = at[t], request'[t] = request[t],
               version'[t] = version[t], since'[t] = since[t]
        PROVE  SetupIsOnCourse(t)'
    <3>1. SetupIsOnCourse(t)
      BY DEF SetupInv
    <3> QED BY <1>1, <2>2, <3>1 DEF SetupIsOnCourse, layers, AsRequested, PluginIsReady
  <2> QED BY <2>1, <2>2
<1>3. CASE at' = [at EXCEPT ![s] = "idle"] /\ UNCHANGED <<request, version, since>>
  <2>1. SetupIsOnCourse(s)'
    <3>1. at'[s] = "idle" /\ since'[s] = "disturbed"
      BY <1>1, <1>3 DEF SetupInv, SetupIsOnCourse, TypeOK
    <3> QED
      BY <3>1 DEF SetupIsOnCourse, Ended, Commands, AfterInstall, AfterProject, AfterMarketplace
  <2>2. \A t \in Setups : SetupIsOnCourse(t)'
    BY <1>1, <1>2, <1>3, <2>1 DEF TypeOK
  <2>3. TypeOK'
    BY <1>1, <1>3 DEF TypeOK, layers, Ended
  <2> QED BY <1>2, <2>2, <2>3 DEF SetupInv
<1>4. CASE /\ at' = [at EXCEPT ![s] = IF core = req.core THEN "list project" ELSE "install"]
           /\ request' = [request EXCEPT ![s] = req]
           /\ version' = [version EXCEPT ![s] = manifest[req.root]]
           /\ since' = [since EXCEPT ![s] =
                IF AsRequested(req, manifest[req.root]) THEN "matched" ELSE "alone"]
  <2>1. /\ at'[s] = (IF core = req.core THEN "list project" ELSE "install")
        /\ request'[s] = req /\ version'[s] = manifest[req.root]
        /\ since'[s] = (IF AsRequested(req, manifest[req.root]) THEN "matched" ELSE "alone")
        /\ manifest[req.root] \in Versions
    BY <1>1, <1>4, RequestsAssumption DEF TypeOK
  <2>2. SetupIsOnCourse(s)'
    BY <1>1, <2>1
    DEF SetupIsOnCourse, layers, AsRequested, PluginIsReady,
        Ended, Commands, AfterInstall, AfterProject, AfterMarketplace
  <2>3. \A t \in Setups : SetupIsOnCourse(t)'
    BY <1>1, <1>2, <1>4, <2>2 DEF TypeOK
  <2>4. /\ at' \in [Setups -> Ended \cup Commands]
        /\ request' \in [Setups -> Requests \cup {None}]
        /\ version' \in [Setups -> Versions \cup {None}]
        /\ since' \in [Setups -> {"matched", "alone", "disturbed"}]
    BY <1>1, <1>4, <2>1 DEF TypeOK, Commands
  <2>5. TypeOK'
    BY <1>1, <2>4 DEF TypeOK, layers
  <2> QED BY <1>2, <2>3, <2>5 DEF SetupInv
<1> QED BY <1>3, <1>4 DEF Prepare

LEMMA CheckupKeeps ==
    ASSUME SetupInv, (\E kind \in Kinds : BeginCheckup(kind)) \/ LookNext \/ CheckupFails
    PROVE  SetupInv'
<1>1. TypeOK /\ CheckupIsOnCourse /\ UNCHANGED <<layers, manifest, local>>
  BY DEF SetupInv, BeginCheckup, LookNext, CheckupFails
<1>2. \A s \in Setups : SetupIsOnCourse(s)'
  BY <1>1 DEF SetupInv, SetupIsOnCourse, layers, local, AsRequested, PluginIsReady
<1>3. SUFFICES CheckupIsOnCourse' /\ checkup' \in Checkups
  <2>1. TypeOK'
    BY <1>1, <1>3 DEF TypeOK, Checkups, layers, local
  <2> QED BY <1>2, <1>3, <2>1 DEF SetupInv
<1>4. CASE checkup' = NoCheckup
  BY <1>4 DEF CheckupIsOnCourse, NoCheckup, Checkups
<1>5. CASE \E kind \in Kinds : BeginCheckup(kind)
  <2>1. PICK kind \in Kinds :
          checkup' = [kind |-> kind, look |-> 1, ready |-> TRUE, whole |-> FALSE,
                      steady |-> AllThere(kind)]
    BY <1>5 DEF BeginCheckup
  <2>2. AllThere(kind) \in BOOLEAN
    BY DEF AllThere
  <2>3. AllThere(kind)' = AllThere(kind)
    BY <1>1 DEF AllThere, PluginIsEnabled, layers
  <2>4. /\ checkup'.kind = kind /\ checkup'.look = 1 /\ checkup'.ready
        /\ checkup'.steady = AllThere(kind) /\ checkup' \in Checkups
    BY <2>1, <2>2 DEF Checkups
  <2>5. AllThere(checkup.kind)' = AllThere(kind)'
    BY <2>4
  <2> QED BY <2>3, <2>4, <2>5 DEF CheckupIsOnCourse, LastLook
<1>6. CASE LookNext /\ checkup' # NoCheckup
  <2> DEFINE layer == Looks[checkup.look]
  <2>1. PICK found \in BOOLEAN :
          /\ checkup.look > 0
          /\ layer # "runtime" => found = IsReady(layer)
          /\ checkup.look # LastLook(checkup.kind)
          /\ checkup' = [checkup EXCEPT !.look = @ + 1,
                                        !.ready = @ /\ found,
                                        !.whole = @ \/ AllThere(checkup.kind),
                                        !.steady = @ /\ (layer = "runtime" => found)]
    <3>1. IsReady(layer) \in BOOLEAN
      BY DEF IsReady, PluginIsEnabled
    <3> QED BY <1>6, <3>1 DEF LookNext
  <2>2. checkup \in Checkups /\ checkup # NoCheckup /\ checkup.kind \in Kinds
    BY <1>1, <2>1 DEF TypeOK, Checkups, CheckupIsOnCourse, NoCheckup
  <2>3. AllThere(checkup.kind) \in BOOLEAN /\ (layer = "runtime" => found) \in BOOLEAN
    BY DEF AllThere
  <2>4. /\ checkup'.kind = checkup.kind /\ checkup'.look = checkup.look + 1
        /\ checkup'.ready = (checkup.ready /\ found)
        /\ checkup'.whole = (checkup.whole \/ AllThere(checkup.kind))
        /\ checkup'.steady = (checkup.steady /\ (layer = "runtime" => found))
    BY <2>1, <2>2 DEF Checkups
  <2>5. checkup.look \in 1..5 /\ checkup'.look \in 2..6
    <3>1. checkup.look \in 0..6 /\ checkup.look > 0
      BY <2>1, <2>2 DEF Checkups
    <3>2. /\ checkup.look <= LastLook(checkup.kind) /\ checkup.look # LastLook(checkup.kind)
          /\ LastLook(checkup.kind) \in {5, 6}
      BY <1>1, <2>1, <3>1 DEF CheckupIsOnCourse, LastLook
    <3> QED BY <2>4, <3>1, <3>2
  <2>6. checkup' \in Checkups
    <3>1. /\ checkup.ready \in BOOLEAN /\ checkup.whole \in BOOLEAN /\ checkup.steady \in BOOLEAN
          /\ checkup.kind \in Kinds \cup {None}
      BY <2>2 DEF Checkups
    <3>2. /\ (checkup.ready /\ found) \in BOOLEAN
          /\ (checkup.whole \/ AllThere(checkup.kind)) \in BOOLEAN
          /\ (checkup.steady /\ (layer = "runtime" => found)) \in BOOLEAN
      OBVIOUS
    <3>3. checkup.look + 1 \in 0..6
      BY <2>5
    <3>4. checkup' = [kind |-> checkup.kind, look |-> checkup.look + 1,
                      ready |-> checkup.ready /\ found,
                      whole |-> checkup.whole \/ AllThere(checkup.kind),
                      steady |-> checkup.steady /\ (layer = "runtime" => found)]
      BY <2>1, <2>2 DEF Checkups
    <3> HIDE DEF layer
    <3> QED BY <3>1, <3>2, <3>3, <3>4 DEF Checkups
  <2>7. AllThere(checkup.kind)' = AllThere(checkup.kind)
    BY <1>1, <2>4 DEF AllThere, PluginIsEnabled, layers
  <2>8. checkup.steady => IsReady(layer)
    <3>1. CASE checkup.steady
      BY <1>1, <3>1 DEF CheckupIsOnCourse, AllThere, IsReady
    <3> QED BY <3>1
  <2>9. checkup'.steady => checkup'.ready /\ AllThere(checkup.kind)'
    BY <1>1, <2>1, <2>4, <2>7, <2>8 DEF CheckupIsOnCourse
  <2>10. ASSUME checkup'.ready
         PROVE  /\ checkup'.look > 1 => core' # None
                /\ checkup'.look > 2 => checkup'.kind = "doctor" \/ project' # None
                /\ checkup'.look > 3 => marketplace' # None
                /\ checkup'.look > 4 => checkup'.whole
    <3>1. /\ checkup.ready /\ found
          /\ core' = core /\ project' = project /\ marketplace' = marketplace
      BY <1>1, <2>4, <2>10 DEF layers
    <3>2. CASE checkup.look = 1
      <4>0. checkup'.look = 2
        BY <2>4, <3>2
      <4>1. layer = "core"
        BY <3>2 DEF Looks
      <4>2. core # None
        <5>1. IsReady("core")
          BY <2>1, <3>1, <4>1
        <5> QED BY <5>1 DEF IsReady
      <4> QED BY <3>1, <4>0, <4>2
    <3>3. CASE checkup.look = 2
      <4>0. checkup'.look = 3
        BY <2>4, <3>3
      <4>1. layer = "project"
        BY <3>3 DEF Looks
      <4>2. checkup.kind = "doctor" \/ project # None
        <5>1. IsReady("project")
          BY <2>1, <3>1, <4>1
        <5> QED BY <5>1 DEF IsReady
      <4>3. core # None /\ checkup'.kind = checkup.kind
        BY <1>1, <2>4, <3>1, <3>3 DEF CheckupIsOnCourse
      <4> QED BY <3>1, <4>0, <4>2, <4>3
    <3>4. CASE checkup.look = 3
      <4>0. checkup'.look = 4
        BY <2>4, <3>4
      <4>1. layer = "marketplace"
        BY <3>4 DEF Looks
      <4>2. marketplace # None
        <5>1. IsReady("marketplace")
          BY <2>1, <3>1, <4>1
        <5> QED BY <5>1 DEF IsReady
      <4>3. /\ core # None /\ checkup'.kind = checkup.kind
            /\ checkup.kind = "doctor" \/ project # None
        BY <1>1, <2>4, <3>1, <3>4 DEF CheckupIsOnCourse
      <4> QED BY <3>1, <4>0, <4>2, <4>3
    <3>5. CASE checkup.look = 4
      <4>1. layer = "plugin"
        BY <3>5 DEF Looks
      <4>2. /\ core # None /\ marketplace # None
            /\ checkup.kind = "doctor" \/ project # None
        BY <1>1, <2>5, <3>1, <3>5 DEF CheckupIsOnCourse
      <4>3. IsReady("plugin") /\ IsReady("plugin") = PluginIsEnabled
        BY <2>1, <3>1, <4>1 DEF IsReady
      <4>4. AllThere(checkup.kind)
        BY <4>2, <4>3 DEF AllThere
      <4> QED BY <1>1, <2>4, <2>5, <3>5, <4>2, <4>4 DEF layers
    <3>6. CASE checkup.look = 5
      <4>1. /\ core # None /\ marketplace # None /\ checkup.whole
            /\ checkup.kind = "doctor" \/ project # None
        BY <1>1, <3>1, <3>6 DEF CheckupIsOnCourse
      <4> QED BY <2>4, <3>1, <4>1
    <3> QED BY <2>5, <3>2, <3>3, <3>4, <3>5, <3>6
  <2>11. checkup'.look <= LastLook(checkup'.kind)
    BY <1>1, <2>1, <2>4, <2>5 DEF CheckupIsOnCourse, LastLook
  <2> QED BY <2>2, <2>4, <2>5, <2>6, <2>9, <2>10, <2>11 DEF CheckupIsOnCourse
<1> QED BY <1>4, <1>5, <1>6 DEF CheckupFails, LookNext

LEMMA SurroundingsKeep ==
    ASSUME SetupInv, DisablePlugin \/ Upgrade
    PROVE  SetupInv'
<1>1. TypeOK
  BY DEF SetupInv
<1>2. CASE DisablePlugin
  <2>1. /\ plugin' = [plugin EXCEPT !.enabled = FALSE] /\ plugin # None
        /\ since' = [s \in Setups |-> IF since[s] = "matched" THEN "alone" ELSE since[s]]
        /\ UNCHANGED <<core, project, marketplace, manifest, at, request, version, seen>>
        /\ IsWatched
    BY <1>2 DEF DisablePlugin, PluginIsEnabled
  <2>2. Monotone
    BY <2>1 DEF Monotone
  <2>3. CheckupIsOnCourse' /\ checkup' \in Checkups
    BY <2>1, <2>2, WatchedKeeps
  <2>4. TypeOK'
    BY <1>1, <2>1, <2>3 DEF TypeOK, Checkups
  <2>5. ASSUME NEW s \in Setups PROVE SetupIsOnCourse(s)'
    <3>1. /\ since'[s] # "matched"
          /\ since'[s] = "disturbed" <=> since[s] = "disturbed"
      BY <1>1, <2>1 DEF TypeOK
    <3> QED BY <2>1, <3>1 DEF SetupInv, SetupIsOnCourse
  <2> QED BY <2>3, <2>4, <2>5 DEF SetupInv
<1>3. CASE Upgrade
  <2>1. /\ UNCHANGED <<layers, local, checkup>>
        /\ \E r \in Roots, v \in Versions : manifest' = [manifest EXCEPT ![r] = v]
    BY <1>3 DEF Upgrade
  <2>2. TypeOK'
    BY <1>1, <2>1 DEF TypeOK, layers, local
  <2>3. CheckupIsOnCourse'
    BY <2>1 DEF SetupInv, CheckupIsOnCourse, layers, AllThere, PluginIsEnabled
  <2>4. \A s \in Setups : SetupIsOnCourse(s)'
    BY <2>1 DEF SetupInv, SetupIsOnCourse, layers, local, AsRequested, PluginIsReady
  <2> QED BY <2>2, <2>3, <2>4 DEF SetupInv
<1> QED BY <1>2, <1>3

LEMMA NextKeeps == SetupInv /\ [Next]_vars => SetupInv'
<1> SUFFICES ASSUME SetupInv, [Next]_vars PROVE SetupInv'
  OBVIOUS
<1>1. ASSUME NEW s \in Setups, NEW req \in Requests, Prepare(s, req) PROVE SetupInv'
  BY <1>1, PrepareKeeps
<1>2. ASSUME NEW s \in Setups, Kill(s) PROVE SetupInv'
  <2>1. "idle" \in Ended
    BY DEF Ended
  <2> QED BY <1>2, <2>1, LookKeeps DEF Kill
<1>3. CASE UNCHANGED vars
  <2>1. UNCHANGED <<layers, local, manifest, seen, checkup>>
    BY <1>3 DEF vars, layers, local
  <2>2. TypeOK'
    BY <2>1 DEF SetupInv, TypeOK, layers, local
  <2>3. CheckupIsOnCourse'
    BY <2>1 DEF SetupInv, CheckupIsOnCourse, layers, AllThere, PluginIsEnabled
  <2>4. ASSUME NEW t \in Setups PROVE SetupIsOnCourse(t)'
    <3>1. SetupIsOnCourse(t)
      BY DEF SetupInv
    <3> QED BY <2>1, <3>1 DEF SetupIsOnCourse, layers, local, AsRequested, PluginIsReady
  <2> QED BY <2>2, <2>3, <2>4 DEF SetupInv
<1> QED
  BY <1>1, <1>2, <1>3, InstallBinaryKeeps, RegisterProjectKeeps, AddMarketplaceKeeps, PluginKeeps,
     EnsureProjectKeeps, EnsureMarketplaceKeeps, EnsurePluginKeeps, CheckupKeeps, SurroundingsKeep
  DEF Next

-----------------------------------------------------------------------------
LEMMA AlwaysOnCourse == Spec => []SetupInv
BY InitIsOnCourse, NextKeeps, PTL DEF Spec

(* A doctor or status that found every layer ready saw them all at one moment,
   and did not miss what was there all the while (lib.rs doctor, status). *)
THEOREM CheckupsAreRight == Spec => []CheckupIsRight
<1>1. SetupInv => CheckupIsRight
  BY DEF SetupInv, CheckupIsOnCourse, CheckupIsRight, TypeOK
<1> QED BY <1>1, AlwaysOnCourse, PTL

\* A step that moves a setup is a step of that setup.
LEMMA OwnStep ==
    ASSUME SetupInv, Next, NEW s \in Setups, at'[s] # at[s]
    PROVE  \/ \E req \in Requests : Prepare(s, req)
           \/ InstallBinary(s)
           \/ EnsureProject(s) \/ RegisterProject(s) \/ VerifyProject(s)
           \/ EnsureMarketplace(s) \/ AddMarketplace(s) \/ VerifyMarketplace(s)
           \/ EnsurePlugin(s) \/ RemovePlugin(s) \/ AddPlugin(s) \/ VerifyPlugin(s)
           \/ Kill(s)
<1>1. TypeOK
  BY DEF SetupInv
<1>2. ASSUME NEW t \in Setups, NEW where, Goes(t, where) PROVE t = s
  BY <1>1, <1>2 DEF Goes, TypeOK
<1>3. ASSUME NEW t \in Setups, NEW req \in Requests, Prepare(t, req) PROVE t = s
  BY <1>1, <1>3 DEF Prepare, TypeOK
<1>4. ASSUME NEW t \in Setups,
             \/ InstallBinary(t)
             \/ EnsureProject(t) \/ RegisterProject(t) \/ VerifyProject(t)
             \/ EnsureMarketplace(t) \/ AddMarketplace(t) \/ VerifyMarketplace(t)
             \/ EnsurePlugin(t) \/ RemovePlugin(t) \/ AddPlugin(t) \/ VerifyPlugin(t)
             \/ Kill(t)
      PROVE  t = s
  BY <1>2, <1>4
  DEF InstallBinary, EnsureProject, RegisterProject, VerifyProject, EnsureMarketplace,
      AddMarketplace, VerifyMarketplace, EnsurePlugin, RemovePlugin, AddPlugin, VerifyPlugin,
      Kill, LooksAt, Changes
<1>5. ~((\E kind \in Kinds : BeginCheckup(kind)) \/ LookNext \/ CheckupFails
        \/ DisablePlugin \/ Upgrade)
  BY DEF BeginCheckup, LookNext, CheckupFails, DisablePlugin, Upgrade, local
<1> QED BY <1>3, <1>4, <1>5 DEF Next

\* Where a step of s goes from a command, and what it changes on the way.
LEMMA WhereItGoes ==
    ASSUME SetupInv, Next, NEW s \in Setups, at[s] \in Commands, at'[s] # at[s]
    PROVE  /\ at'[s] = "done" =>
                /\ at[s] \in {"list plugins", "verify plugin"}
                /\ PluginIsReady(version[s])
           /\ at'[s] = "refused" =>
                \/ at[s] = "list project" /\ ProjectConflicts(s)
                \/ at[s] = "list marketplaces" /\ marketplace # request[s].root
           /\ at[s] \in {"list project", "list marketplaces", "list plugins"} => UNCHANGED layers
<1>1. TypeOK
  BY DEF SetupInv
<1>2. ASSUME NEW where, Goes(s, where) PROVE at'[s] = where
  BY <1>1, <1>2 DEF Goes, TypeOK
<1>3. CASE \E req \in Requests : Prepare(s, req)
  BY <1>3 DEF Prepare, Ended, Commands
<1>4. CASE InstallBinary(s) \/ RegisterProject(s) \/ AddMarketplace(s)
           \/ RemovePlugin(s) \/ AddPlugin(s)
  BY <1>2, <1>4
  DEF InstallBinary, RegisterProject, AddMarketplace, RemovePlugin, AddPlugin, Changes
<1>5. CASE EnsureProject(s)
  BY <1>2, <1>5 DEF EnsureProject, LooksAt
<1>6. CASE VerifyProject(s) \/ VerifyMarketplace(s) \/ VerifyPlugin(s) \/ Kill(s)
  BY <1>2, <1>6 DEF VerifyProject, VerifyMarketplace, VerifyPlugin, Kill, LooksAt
<1>7. CASE EnsureMarketplace(s)
  BY <1>2, <1>7 DEF EnsureMarketplace, LooksAt
<1>8. CASE EnsurePlugin(s)
  BY <1>2, <1>8 DEF EnsurePlugin, LooksAt, IsCurrent
<1> QED BY <1>3, <1>4, <1>5, <1>6, <1>7, <1>8, OwnStep

(* A setup that succeeds, among any number of others, has its marketplace and
   its plugin version, and all it asked for unless another setup changed a
   layer (lib.rs setup). *)
THEOREM SuccessesAreInstalled == Spec => SuccessMeansInstalled
<1>1. ASSUME SetupInv, [Next]_vars, NEW s \in Setups, at[s] \in Commands, at'[s] = "done"
      PROVE  /\ marketplace = request[s].root /\ PluginIsReady(version[s])
             /\ since[s] # "disturbed" => AsRequested(request[s], version[s])
  <2>1. at'[s] # at[s]
    BY <1>1 DEF Commands
  <2>2. Next
    BY <1>1, <2>1 DEF vars, local
  <2>3. at[s] \in {"list plugins", "verify plugin"} /\ PluginIsReady(version[s])
    BY <1>1, <2>1, <2>2, WhereItGoes
  <2>4. at[s] \in AfterInstall /\ at[s] \in AfterProject /\ at[s] \in AfterMarketplace
    BY <2>3 DEF AfterInstall, AfterProject, AfterMarketplace, Commands
  <2>5. SetupIsOnCourse(s)
    BY <1>1 DEF SetupInv
  <2> QED BY <2>3, <2>4, <2>5 DEF SetupIsOnCourse, AsRequested
<1>2. SetupInv /\ [Next]_vars =>
        [\A s \in Setups : at[s] \in Commands /\ at'[s] = "done" =>
            /\ marketplace = request[s].root /\ PluginIsReady(version[s])
            /\ since[s] # "disturbed" => AsRequested(request[s], version[s])]_vars
  BY <1>1
<1> QED BY <1>2, AlwaysOnCourse, PTL DEF SuccessMeansInstalled, Spec

(* A setup that finds everything as requested changes nothing and is not
   refused while nobody interferes (docs/setup-v0.md:34). *)
THEOREM MatchingIsLeft == Spec => MatchingStateIsLeft
<1>1. ASSUME SetupInv, [Next]_vars, NEW s \in Setups, since[s] = "matched", at'[s] # at[s]
      PROVE  UNCHANGED layers /\ at'[s] # "refused"
  <2>1. Next
    BY <1>1 DEF vars, local
  <2>2. /\ at[s] \in {"list project", "list marketplaces", "list plugins"}
        /\ AsRequested(request[s], version[s])
    BY <1>1 DEF SetupInv, SetupIsOnCourse
  <2>3. at[s] \in Commands
    BY <2>2 DEF Commands
  <2>4. ~ProjectConflicts(s) /\ marketplace = request[s].root
    BY <2>2 DEF ProjectConflicts, AsRequested
  <2> QED BY <1>1, <2>1, <2>2, <2>3, <2>4, WhereItGoes
<1>2. SetupInv /\ [Next]_vars =>
        [\A s \in Setups : since[s] = "matched" /\ at'[s] # at[s] =>
            UNCHANGED layers /\ at'[s] # "refused"]_vars
  BY <1>1
<1> QED BY <1>2, AlwaysOnCourse, PTL DEF MatchingStateIsLeft, Spec

(* A registration is replaced only as told or by a setup that saw none, and a
   marketplace never (docs/setup-v0.md:34). *)
THEOREM OverwritesAreAskedFor == Spec => NothingIsOverwritten
<1> DEFINE Asked ==
        /\ project # None /\ project' # project =>
             \E s \in Setups :
                /\ at[s] = "register" /\ project' = request[s].registration
                /\ request[s].replace \/ seen[s] = None
        /\ marketplace # None => marketplace' = marketplace
<1>1. ASSUME SetupInv, NEW s \in Setups, RegisterProject(s) PROVE Asked
  <2>1. /\ at[s] = "register" /\ marketplace' = marketplace
        /\ project' = request[s].registration \/ project' = project
    BY <1>1 DEF RegisterProject, Changes, layers
  <2>2. request[s].replace \/ seen[s] = None
    BY <1>1, <2>1 DEF SetupInv, SetupIsOnCourse
  <2> QED BY <2>1, <2>2
<1>2. ASSUME NEW s \in Setups, AddMarketplace(s) PROVE Asked
  BY <1>2 DEF AddMarketplace, Changes, layers
<1>3. ASSUME NEW s \in Setups,
             \/ \E req \in Requests : Prepare(s, req)
             \/ InstallBinary(s) \/ EnsureProject(s) \/ VerifyProject(s)
             \/ EnsureMarketplace(s) \/ VerifyMarketplace(s)
             \/ EnsurePlugin(s) \/ RemovePlugin(s) \/ AddPlugin(s) \/ VerifyPlugin(s)
             \/ Kill(s)
      PROVE  Asked
  BY <1>3
  DEF Prepare, InstallBinary, EnsureProject, VerifyProject, EnsureMarketplace,
      VerifyMarketplace, EnsurePlugin, RemovePlugin, AddPlugin, VerifyPlugin, Kill,
      LooksAt, Changes, layers
<1>4. ASSUME (\E kind \in Kinds : BeginCheckup(kind)) \/ LookNext \/ CheckupFails
             \/ DisablePlugin \/ Upgrade \/ UNCHANGED vars
      PROVE  Asked
  <2>1. project' = project /\ marketplace' = marketplace
    BY <1>4 DEF BeginCheckup, LookNext, CheckupFails, DisablePlugin, Upgrade, vars, layers
  <2> QED BY <2>1
<1>5. SetupInv /\ [Next]_vars => Asked
  <2> HIDE DEF Asked
  <2> SUFFICES ASSUME SetupInv, [Next]_vars PROVE Asked
    OBVIOUS
  <2>1. CASE UNCHANGED vars
    BY <1>4, <2>1
  <2>2. CASE Next
    BY <1>1, <1>2, <1>3, <1>4, <2>2 DEF Next
  <2> QED BY <2>1, <2>2
<1>6. SetupInv /\ [Next]_vars => [Asked]_vars
  BY <1>5
<1> QED BY <1>6, AlwaysOnCourse, PTL DEF NothingIsOverwritten, Spec
=============================================================================
