-------------------------------- MODULE Setup --------------------------------
(***************************************************************************)
(* gareji setup, doctor and status (gareji-setup lib.rs).  A setup makes   *)
(* the installed Core binary, the registration of one project, the         *)
(* gareji-local marketplace and the progress plugin what the request asks  *)
(* for, one command at a time; a doctor looks at one layer after another   *)
(* and repairs none.                                                       *)
(*                                                                         *)
(* The four layers are shared by every setup and doctor of the machine and *)
(* by the operator.  Core and Codex, which own three of them, are          *)
(* external: a command does what it says or fails.  A setup may be killed  *)
(* between two commands and run again.                                     *)
(***************************************************************************)
EXTENDS Naturals, FiniteSets, Sequences

CONSTANTS
    None,
    Setups,         \* setups that may run at the same time
    Binaries,       \* contents of a Core binary
    Registrations,  \* registrations of the one project identity
    Roots,          \* distribution roots
    Versions,       \* plugin versions
    Requests,       \* the requests to consider
    Kinds           \* the kinds of doctor that run

ASSUME RequestsAssumption ==
    Requests \subseteq [core : Binaries, registration : Registrations, root : Roots,
                        replace : BOOLEAN, dry_run : BOOLEAN]

ASSUME KindsAssumption == Kinds \subseteq {"doctor", "doctor of the project", "status"}

ASSUME NoneAssumption ==
    None \notin Binaries \cup Registrations \cup Roots \cup [version : Versions, enabled : BOOLEAN]

VARIABLES
    core, project, marketplace, plugin,     \* the installed layers, None when missing
    manifest,       \* the plugin version a root distributes
    at,             \* the next command of a setup, or how it ended
    request,
    version,        \* plugin version the setup read from its manifest
    seen,           \* the registration ensure_project saw, until it registers
    since,          \* history: what a setup began with and met since
    checkup         \* the doctor at work

layers == <<core, project, marketplace, plugin>>
local == <<at, request, version, seen, since>>
vars == <<layers, manifest, local, checkup>>

Ended == {"idle", "done", "refused"}    \* idle: also failed, planned or killed
Commands == {"install", "list project", "register", "verify project",
             "list marketplaces", "add marketplace", "verify marketplace",
             "list plugins", "remove plugin", "add plugin", "verify plugin"}

\* What a doctor looks at, in its order; status also lists the newest progress.
Looks == <<"core", "project", "marketplace", "plugin", "runtime", "progress">>
LastLook(kind) == IF kind = "status" THEN 6 ELSE 5
NoCheckup == [kind |-> None, look |-> 0, ready |-> FALSE, whole |-> FALSE, steady |-> FALSE]

TypeOK ==
    /\ core \in Binaries \cup {None}
    /\ project \in Registrations \cup {None}
    /\ marketplace \in Roots \cup {None}
    /\ plugin = None \/ plugin \in [version : Versions, enabled : BOOLEAN]
    /\ manifest \in [Roots -> Versions]
    /\ at \in [Setups -> Ended \cup Commands]
    /\ request \in [Setups -> Requests \cup {None}]
    /\ version \in [Setups -> Versions \cup {None}]
    /\ seen \in [Setups -> Registrations \cup {None}]
    \* every layer as requested; or not; or another setup has changed one since
    /\ since \in [Setups -> {"matched", "alone", "disturbed"}]
    \* whole, steady: every layer was there at one look, or all the while
    /\ checkup \in [kind : Kinds \cup {None}, look : 0..6,
                    ready : BOOLEAN, whole : BOOLEAN, steady : BOOLEAN]
    \* there is no plugin without the marketplace it came from
    /\ plugin # None => marketplace # None

Init ==
    /\ core = None /\ project = None /\ marketplace = None /\ plugin = None
    /\ manifest \in [Roots -> Versions]
    /\ at = [s \in Setups |-> "idle"]
    /\ request = [s \in Setups |-> None]
    /\ version = [s \in Setups |-> None]
    /\ seen = [s \in Setups |-> None]
    /\ since = [s \in Setups |-> "disturbed"]
    /\ checkup = NoCheckup

-----------------------------------------------------------------------------
\* plugin_is_ready of a version, or of any.
PluginIsReady(expected) == plugin = [version |-> expected, enabled |-> TRUE]
PluginIsEnabled == plugin # None /\ plugin.enabled

AsRequested(req, expected) ==
    /\ core = req.core
    /\ project = req.registration
    /\ marketplace = req.root
    /\ PluginIsReady(expected)

\* Every layer a doctor of this kind looks at is there.
AllThere(kind) ==
    /\ core # None /\ marketplace # None /\ PluginIsEnabled
    /\ kind # "doctor" => project # None

\* The doctor loses the steady view when a layer goes.
IsWatched ==
    \E kind \in {checkup.kind} :
        checkup' = [checkup EXCEPT !.steady = @ /\ AllThere(kind)']

\* s goes on to where, or ends there; whatever it changed, the others notice.
Goes(s, where) ==
    /\ at' = [at EXCEPT ![s] = where]
    /\ seen' = [seen EXCEPT ![s] = IF where = "register" THEN project ELSE None]
    /\ IF where \in Ended
       THEN /\ request' = [request EXCEPT ![s] = None]
            /\ version' = [version EXCEPT ![s] = None]
       ELSE UNCHANGED <<request, version>>
    /\ since' = [t \in Setups |->
          IF (t = s /\ where \in Ended) \/ (t # s /\ layers' # layers)
          THEN "disturbed" ELSE since[t]]
    /\ IsWatched

\* PreparedSetup::new, the validation by the supplied Core, the hook runtime
\* and the comparison of the binaries.  What fails here, and a dry run, end
\* before the first command.
Prepare(s, req) ==
    /\ at[s] \in Ended
    /\ \/ at' = [at EXCEPT ![s] = "idle"]
          /\ UNCHANGED <<request, version, since>>
       \/ /\ ~req.dry_run
          /\ at' = [at EXCEPT ![s] = IF core = req.core THEN "list project" ELSE "install"]
          /\ request' = [request EXCEPT ![s] = req]
          /\ version' = [version EXCEPT ![s] = manifest[req.root]]
          /\ since' = [since EXCEPT ![s] =
                IF AsRequested(req, manifest[req.root]) THEN "matched" ELSE "alone"]
    /\ UNCHANGED <<layers, manifest, seen, checkup>>

\* A command of s that only looks: it leads on, or fails.
LooksAt(s, from, to) ==
    /\ at[s] = from
    /\ UNCHANGED layers
    /\ Goes(s, to) \/ Goes(s, "idle")
    /\ UNCHANGED manifest

\* A command of s that changes one layer, or fails and changes nothing.
Changes(s, from, to, change) ==
    /\ at[s] = from
    /\ \/ change /\ Goes(s, to)
       \/ UNCHANGED layers /\ Goes(s, "idle")
    /\ UNCHANGED manifest

\* install_binary: a temporary is renamed over the installed binary.
InstallBinary(s) ==
    Changes(s, "install", "list project",
            core' = request[s].core /\ UNCHANGED <<project, marketplace, plugin>>)

\* Faulty variant: what is registered is not compared.
NeverConflicts(s) == FALSE
\* ensure_project's refusal.
ProjectConflicts(s) ==
    project \notin {None, request[s].registration} /\ ~request[s].replace

\* ensure_project: list first.
EnsureProject(s) ==
    LooksAt(s, "list project",
          CASE ProjectConflicts(s) -> "refused"
            [] project = request[s].registration -> "list marketplaces"
            [] OTHER -> "register")

\* gareji-core project register replaces the registration of the identity.
RegisterProject(s) ==
    Changes(s, "register", "verify project",
            project' = request[s].registration /\ UNCHANGED <<core, marketplace, plugin>>)

VerifyProject(s) ==
    LooksAt(s, "verify project",
          IF project = request[s].registration THEN "list marketplaces" ELSE "idle")

\* ensure_marketplace.
EnsureMarketplace(s) ==
    LooksAt(s, "list marketplaces",
          CASE marketplace = None -> "add marketplace"
            [] marketplace = request[s].root -> "list plugins"
            [] OTHER -> "refused")

\* Codex adds a marketplace whose name is free.
AddMarketplace(s) ==
    Changes(s, "add marketplace", "verify marketplace",
            marketplace = None /\ marketplace' = request[s].root
                               /\ UNCHANGED <<core, project, plugin>>)

VerifyMarketplace(s) ==
    LooksAt(s, "verify marketplace",
          IF marketplace = request[s].root THEN "list plugins" ELSE "idle")

\* Faulty variant: an installed plugin is current.
IsInstalled(expected) == plugin # None
\* Faulty variant: the plugin is reinstalled in any case.
IsNeverCurrent(expected) == FALSE
\* ensure_plugin: installed, enabled and of the requested version.
IsCurrent(expected) == PluginIsReady(expected)

EnsurePlugin(s) ==
    LooksAt(s, "list plugins",
          CASE IsCurrent(version[s]) -> "done"
            [] plugin = None -> "add plugin"
            [] OTHER -> "remove plugin")

\* Codex removes a plugin that is installed.
RemovePlugin(s) ==
    Changes(s, "remove plugin", "add plugin",
            plugin # None /\ plugin' = None /\ UNCHANGED <<core, project, marketplace>>)

\* What Codex installs: the version the configured root distributes now.
Distributed(s) == [version |-> manifest[marketplace], enabled |-> TRUE]

AddPlugin(s) ==
    Changes(s, "add plugin", "verify plugin",
            plugin' = Distributed(s) /\ UNCHANGED <<core, project, marketplace>>)

VerifyPlugin(s) ==
    LooksAt(s, "verify plugin", IF PluginIsReady(version[s]) THEN "done" ELSE "idle")

Kill(s) ==
    /\ at[s] \in Commands
    /\ UNCHANGED layers
    /\ Goes(s, "idle")
    /\ UNCHANGED manifest

-----------------------------------------------------------------------------
\* A doctor begins; a status first finds the project that is registered for
\* its workspace.
BeginCheckup(kind) ==
    /\ checkup = NoCheckup
    /\ kind = "status" => core # None /\ project # None
    /\ checkup' = [kind |-> kind, look |-> 1, ready |-> TRUE, whole |-> FALSE,
                   steady |-> AllThere(kind)]
    /\ UNCHANGED <<layers, manifest, local>>

\* Faulty variant: an installed plugin is ready, enabled or not.
IsListed(layer) ==
    CASE layer = "core" -> core # None
      [] layer = "project" -> checkup.kind = "doctor" \/ project # None
      [] layer = "marketplace" -> marketplace # None
      [] layer = "plugin" -> plugin # None
      [] OTHER -> TRUE
\* What the step of this layer finds.
IsReady(layer) ==
    CASE layer = "core" -> core # None
      [] layer = "project" -> checkup.kind = "doctor" \/ project # None
      [] layer = "marketplace" -> marketplace # None
      [] layer = "plugin" -> PluginIsEnabled
      [] OTHER -> TRUE

\* The next look; the last one ends in the report.  A marketplace of another
\* root and a plugin of another version are ready: only names are compared.
LookNext ==
    /\ checkup.look > 0
    /\ LET layer == Looks[checkup.look]
       IN  \E found \in IF layer = "runtime" THEN BOOLEAN ELSE {IsReady(layer)} :
             checkup' = IF checkup.look = LastLook(checkup.kind) THEN NoCheckup
                        ELSE [checkup EXCEPT !.look = @ + 1,
                                !.ready = @ /\ found,
                                !.whole = @ \/ AllThere(checkup.kind),
                                !.steady = @ /\ (layer = "runtime" => found)]
    /\ UNCHANGED <<layers, manifest, local>>

\* A listing fails, and the doctor reports nothing.
CheckupFails ==
    /\ checkup.look > 0 /\ Looks[checkup.look] \notin {"core", "runtime"}
    /\ checkup' = NoCheckup
    /\ UNCHANGED <<layers, manifest, local>>

-----------------------------------------------------------------------------
\* The operator disables the plugin.
DisablePlugin ==
    /\ PluginIsEnabled
    /\ plugin' = [plugin EXCEPT !.enabled = FALSE]
    /\ since' = [s \in Setups |-> IF since[s] = "matched" THEN "alone" ELSE since[s]]
    /\ UNCHANGED <<core, project, marketplace, manifest, at, request, version, seen>>
    /\ IsWatched

\* A new distribution is unpacked at a root.
Upgrade ==
    /\ \E r \in Roots, v \in Versions : manifest' = [manifest EXCEPT ![r] = v]
    /\ UNCHANGED <<layers, local, checkup>>

Next ==
    \/ \E s \in Setups :
        \/ \E req \in Requests : Prepare(s, req)
        \/ InstallBinary(s)
        \/ EnsureProject(s) \/ RegisterProject(s) \/ VerifyProject(s)
        \/ EnsureMarketplace(s) \/ AddMarketplace(s) \/ VerifyMarketplace(s)
        \/ EnsurePlugin(s) \/ RemovePlugin(s) \/ AddPlugin(s) \/ VerifyPlugin(s)
        \/ Kill(s)
    \/ \E kind \in Kinds : BeginCheckup(kind)
    \/ LookNext \/ CheckupFails
    \/ DisablePlugin \/ Upgrade

Spec == Init /\ [][Next]_vars

-----------------------------------------------------------------------------
(* Properties *)

\* A setup that reports success has its marketplace configured and its plugin
\* version enabled, whatever others did meanwhile, and left every layer as it
\* was asked for unless another setup changed one: in whatever state killed or
\* failed setups left the machine.
SuccessMeansInstalled ==
    [][\A s \in Setups : at[s] \in Commands /\ at'[s] = "done" =>
          /\ marketplace = request[s].root /\ PluginIsReady(version[s])
          /\ since[s] # "disturbed" => AsRequested(request[s], version[s])]_vars

\* A differing registration or marketplace is not overwritten
\* (docs/setup-v0.md:34, it "fails rather than being overwritten; project
\* replacement requires --replace-project"), except by a setup that found none
\* when it looked: another setup registered between its two commands.
NothingIsOverwritten ==
    [][/\ project # None /\ project' # project =>
            \E s \in Setups :
               /\ at[s] = "register" /\ project' = request[s].registration
               /\ request[s].replace \/ seen[s] = None
       /\ marketplace # None => marketplace' = marketplace]_vars

\* A setup that began with every layer as requested changes none of them and
\* is not refused, as long as nobody interferes (docs/setup-v0.md:34,
\* "Matching state is left unchanged").
MatchingStateIsLeft ==
    [][\A s \in Setups :
          since[s] = "matched" /\ at'[s] # at[s] =>
              UNCHANGED layers /\ at'[s] # "refused"]_vars

\* A doctor or status that has found the four layers ready saw them: there was a
\* moment at which all of them were there, although setups install, reinstall
\* and replace them between its looks.  One that missed a layer did not miss
\* any that was there all the while.
CheckupIsRight ==
    /\ TypeOK
    /\ checkup.look > 4 =>
         /\ checkup.ready => checkup.whole
         /\ checkup.steady => checkup.ready
=============================================================================
