------------------------------- MODULE AppRun -------------------------------
(***************************************************************************)
(* Commands of agentmesh over one App directory (agentmesh-cli, main.rs;   *)
(* agentmesh-app: validate.rs, manifest.rs, pin.rs, resolve.rs and         *)
(* run_policy.rs) beside the installers of ToolchainInstall: `app          *)
(* validate`, `app run` with a pinned toolchain or with --dev-plugin, and  *)
(* `run`, which takes the path of a plugin.                                *)
(*                                                                         *)
(* A step is one round of reads, and the files it reads may be others      *)
(* before the next: the manifest and the pin are read three times, the     *)
(* plugin is hashed and started later.  (A step that reads both files      *)
(* stands for two reads, as edits of one file do not affect the other.)    *)
(* A command that is killed is one that takes no further step.             *)
(***************************************************************************)
EXTENDS ToolchainInstall

CONSTANTS
    Runs,           \* commands, each run once
    MaxChanges      \* bound on edits and on binaries that are replaced

ASSUME ChangesAssumption == MaxChanges \in Nat

VARIABLES
    files,          \* agentmesh-app.toml and the toolchain pin
    devPlugin,      \* the build at the path of --dev-plugin, or of --plugin
    damage,         \* what replaced the cached binary, if anything did
    markerFile,     \* agentmesh-app-run-marker.txt of the sidecar directory all runs share
    app,            \* the commands
    changes

appVars == <<files, devPlugin, damage, markerFile, app, changes>>
allVars == <<vars, appVars>>

(* What is wrong with a file: it fails validate_structure, names another
   protocol version, has a forbidden key, or the tag, commit or target of the
   pin are not those of the release whose digest it pins. *)
ManifestForms == {"sound", "structure", "protocol", "keys"}
PinForms == {"sound", "structure", "keys", "fields"}
\* plugin.sha256 of the manifest is optional; the pin holds the digest of a release manifest.
Manifests == [form : ManifestForms, plugin : Builds \cup {None}]
Pins == [form : PinForms, release : Builds]
Files == [manifest : Manifests, pin : Pins]

Calls == {"validate", "pinned", "override", "override_in_production", "plain"}
Markers == [mode : {"pinned", "unpinned"}, build : Builds]
Places == {"idle", "validate", "scan", "report", "load", "resolve", "hash", "mark", "input",
           "execute", "print", "refused", "failed", "done"}
\* "host": the exit code of a failure category.
Exits == {None, "0", "2", "host", "70"}
ASSUME NoMarkerAssumption == None \notin Markers \cup {"0"}
NoPrint == [ok |-> FALSE, marker |-> None, written |-> FALSE]

Commands == [at : Places, call : Calls \cup {None}, used : Files \cup {None},
             marker : Markers \cup {None}, spawned : Builds \cup {None}, ok : BOOLEAN,
             printed : [ok : BOOLEAN, marker : Markers \cup {None}, written : BOOLEAN],
             exit : Exits,
             \* history: a finished install came first; the files were edited since they
             \* were validated; the binary was replaced since it was hashed
             afterInstall : BOOLEAN, edited : BOOLEAN, replaced : BOOLEAN]

AppTypeOK ==
    /\ files \in Files
    /\ devPlugin \in Builds
    /\ damage \in Builds \cup {None}
    /\ markerFile \in Markers \cup {None}
    /\ app \in [Runs -> Commands]
    /\ changes \in 0 .. MaxChanges

\* Every command is still to start, or has failed to read its files.
AppInitOf(place) ==
    /\ files \in {f \in Files : f.manifest.form = "sound" /\ f.pin.form = "sound"}
    /\ devPlugin \in Builds
    /\ damage = None
    /\ markerFile = None
    /\ app = [r \in Runs |->
                [at |-> place, call |-> None, used |-> None, marker |-> None, spawned |-> None,
                 ok |-> FALSE, printed |-> NoPrint, exit |-> IF place = "failed" THEN "2" ELSE None,
                 afterInstall |-> FALSE, edited |-> FALSE, replaced |-> FALSE]]

AppInit == Init /\ AppInitOf("idle") /\ changes = 0

-----------------------------------------------------------------------------

Moves(r, place) == app' = [app EXCEPT ![r].at = place]

\* An error before the run prints to stderr only and exits with 2.
Refuses(r) == app' = [app EXCEPT ![r].at = "refused", ![r].exit = "2"]

(* The exit code of `toolchain install`. *)
InstallExit(i) == IF pc[i] = "done" THEN "0" ELSE "2"

Start(r) ==
    /\ app[r].at = "idle"
    /\ \E call \in Calls :
         app' = [app EXCEPT ![r].at = IF call = "plain" THEN "input" ELSE "validate",
                            ![r].call = call,
                            ![r].afterInstall =
                                \E i \in Installers : pc[i] \in Ended /\ InstallExit(i) = "0"]
    /\ UNCHANGED <<vars, files, devPlugin, damage, markerFile, changes>>

\* The names, hashes, limits and paths a file holds are well formed.
ManifestIsWellFormed(m) == m.form # "structure"
PinIsWellFormed(p) == p.form # "structure"

\* The first read: the structure of both files, then the protocol version.
StructureIsSound(f) ==
    /\ ManifestIsWellFormed(f.manifest)
    /\ PinIsWellFormed(f.pin)
    /\ f.manifest.form # "protocol"

Validate(r) ==
    /\ app[r].at = "validate"
    /\ IF StructureIsSound(files) THEN Moves(r, "scan") ELSE Refuses(r)
    /\ UNCHANGED <<vars, files, devPlugin, damage, markerFile, changes>>

\* Faulty variant: only the manifest is scanned.
ManifestHasNoForbiddenKeys(f) == f.manifest.form # "keys"
NoForbiddenKeys(f) == f.manifest.form # "keys" /\ f.pin.form # "keys"

\* The second read: the raw tables are scanned.
Scan(r) ==
    /\ app[r].at = "scan"
    /\ IF NoForbiddenKeys(files)
       THEN Moves(r, IF app[r].call = "validate" THEN "report" ELSE "load")
       ELSE Refuses(r)
    /\ UNCHANGED <<vars, files, devPlugin, damage, markerFile, changes>>

\* `app validate` has nothing more to do.
ReportValidation(r) ==
    /\ app[r].at = "report"
    /\ app' = [app EXCEPT ![r].at = "done", ![r].exit = "0"]
    /\ UNCHANGED <<vars, files, devPlugin, damage, markerFile, changes>>

\* The third read is the one whose values are used; production rejects --dev-plugin.
Load(r) ==
    /\ app[r].at = "load"
    /\ IF app[r].call = "override_in_production" THEN Refuses(r)
       ELSE app' = [app EXCEPT ![r].used = files,
                               ![r].at = IF app[r].call = "pinned" THEN "resolve" ELSE "hash"]
    /\ UNCHANGED <<vars, files, devPlugin, damage, markerFile, changes>>

(* The release manifest of the cache has the pinned digest, and names the tag,
   commit and target of the pin and the protocol version of the host. *)
MatchesPin(f) ==
    /\ f.manifest.form # "protocol"
    /\ installed.manifest = f.pin.release
    /\ f.pin.form # "fields"

Resolve(r) ==
    /\ app[r].at = "resolve"
    /\ IF installed # None /\ MatchesPin(app[r].used) THEN Moves(r, "hash") ELSE Refuses(r)
    /\ UNCHANGED <<vars, files, devPlugin, damage, markerFile, changes>>

CachedPlugin == IF damage = None THEN installed.binaries ELSE damage
PluginOf(r) == IF app[r].call = "pinned" THEN CachedPlugin ELSE devPlugin

\* plugin.sha256 of the App's manifest, if it has one, binds either kind of plugin.
FitsManifest(r) == app[r].used.manifest.plugin \in {None, PluginOf(r)}

FitsRelease(r) == PluginOf(r) = app[r].used.pin.release

\* What prepare_app_run returns: from here on the bytes are known by their hash alone.
Marks(r, mode) ==
    app' = [app EXCEPT ![r].at = "mark", ![r].marker = [mode |-> mode, build |-> PluginOf(r)]]

HashCached(r) ==
    /\ app[r].at = "hash" /\ app[r].call = "pinned"
    /\ IF FitsRelease(r) /\ FitsManifest(r) THEN Marks(r, "pinned") ELSE Refuses(r)
    /\ UNCHANGED <<vars, files, devPlugin, damage, markerFile, changes>>

HashOverride(r) ==
    /\ app[r].at = "hash" /\ app[r].call = "override"
    /\ IF FitsManifest(r) THEN Marks(r, "unpinned") ELSE Refuses(r)
    /\ UNCHANGED <<vars, files, devPlugin, damage, markerFile, changes>>

\* The marker file is one per sidecar directory: a later run replaces it.
WriteMarker(r) ==
    /\ app[r].at = "mark"
    /\ markerFile' = app[r].marker
    /\ Moves(r, "input")
    /\ UNCHANGED <<vars, files, devPlugin, damage, changes>>

\* A command ends with what it got onto stdout and its exit code.
Ends(r, print, exit) ==
    app' = [app EXCEPT ![r].at = "done", ![r].printed = print, ![r].exit = exit]

(* A failure before the plugin prints an error envelope without the marker (a
   failed print is ignored) and exits with 2. *)
FailsOnInput(r) ==
    \E written \in BOOLEAN :
        Ends(r, [ok |-> FALSE, marker |-> None, written |-> written], "2")

\* `app run`: the timeout is checked, the input read and measured.
ReadInput(r) ==
    /\ app[r].at = "input" /\ app[r].call # "plain"
    /\ Moves(r, "execute") \/ FailsOnInput(r)
    /\ UNCHANGED <<vars, files, devPlugin, damage, markerFile, changes>>

\* `run`: the timeout is checked and the input read.
ReadPlainInput(r) ==
    /\ app[r].at = "input" /\ app[r].call = "plain"
    /\ Moves(r, "execute") \/ FailsOnInput(r)
    /\ UNCHANGED <<vars, files, devPlugin, damage, markerFile, changes>>

(* execute_run starts what is at the path now; PluginHost has the rest of it.
   Here it succeeds or fails, having started the plugin or not. *)
Execute(r) ==
    /\ app[r].at = "execute"
    /\ \/ \E ok \in BOOLEAN :
            app' = [app EXCEPT ![r].at = "print", ![r].spawned = PluginOf(r), ![r].ok = ok]
       \/ Moves(r, "print")
    /\ UNCHANGED <<vars, files, devPlugin, damage, markerFile, changes>>

\* Faulty variant: the marker is read back from its file.
MarkerOnDisk(r) == IF app[r].marker = None THEN None ELSE markerFile
Annotation(r) == app[r].marker

Envelope(r) == [ok |-> app[r].ok, marker |-> Annotation(r), written |-> TRUE]
OutcomeExit(r) == IF app[r].ok THEN "0" ELSE "host"

(* The envelope is annotated and printed.  The print of `run` is the host's,
   which flushes.  `app run` writes without a newline and does not flush: an
   envelope that fits the buffer of stdout is written when the process exits,
   and an error is ignored then.  A print known to have failed exits with 70,
   whatever the run came to. *)
PrintEnvelope(r) ==
    /\ app[r].at = "print"
    /\ \/ Ends(r, Envelope(r), OutcomeExit(r))
       \/ Ends(r, NoPrint, "70")
       \/ app[r].call # "plain" /\ Ends(r, NoPrint, OutcomeExit(r))
    /\ UNCHANGED <<vars, files, devPlugin, damage, markerFile, changes>>

(* A file cannot be read or parsed (a pin with the path of a local install does
   not even parse), a schema it names is not there, or the marker cannot be
   written. *)
ReadFails(r) ==
    /\ app[r].at \in {"validate", "scan", "load", "resolve", "hash", "mark"}
    /\ app' = [app EXCEPT ![r].at = "failed", ![r].exit = "2"]
    /\ UNCHANGED <<vars, files, devPlugin, damage, markerFile, changes>>

-----------------------------------------------------------------------------
(* What others do to the files meanwhile. *)

\* An edit changes one thing.
Edit ==
    /\ changes < MaxChanges
    /\ changes' = changes + 1
    /\ \/ \E form \in ManifestForms : files' = [files EXCEPT !.manifest.form = form]
       \/ \E b \in Builds \cup {None} : files' = [files EXCEPT !.manifest.plugin = b]
       \/ \E form \in PinForms : files' = [files EXCEPT !.pin.form = form]
       \/ \E b \in Builds : files' = [files EXCEPT !.pin.release = b]
    /\ app' = [r \in Runs |->
                 IF app[r].at \in {"scan", "load"} THEN [app[r] EXCEPT !.edited = TRUE] ELSE app[r]]
    /\ UNCHANGED <<vars, devPlugin, damage, markerFile>>

\* The developer builds the plugin again, or the cached binary is replaced.
ReplacePlugin ==
    /\ changes < MaxChanges
    /\ changes' = changes + 1
    /\ \E b \in Builds :
         \/ devPlugin' = b /\ UNCHANGED damage
         \/ installed # None /\ damage' = b /\ UNCHANGED devPlugin
    /\ app' = [r \in Runs |->
                 IF app[r].at \in {"mark", "input", "execute"}
                 THEN [app[r] EXCEPT !.replaced = TRUE] ELSE app[r]]
    /\ UNCHANGED <<vars, files, markerFile>>

Command(r) ==
    \/ Start(r) \/ Validate(r) \/ Scan(r) \/ Load(r) \/ Resolve(r) \/ HashCached(r)
    \/ HashOverride(r) \/ ReportValidation(r) \/ WriteMarker(r) \/ ReadInput(r)
    \/ ReadPlainInput(r) \/ Execute(r) \/ PrintEnvelope(r) \/ ReadFails(r)

AppNext ==
    \/ Next /\ UNCHANGED appVars
    \/ \E r \in Runs : Command(r)
    \/ Edit \/ ReplacePlugin

AppSpec == AppInit /\ [][AppNext]_allVars

-----------------------------------------------------------------------------
(* Properties *)

(* Who reads the cache sees ToolchainCache: nothing, then one whole toolchain
   for ever ("Atomically install a verified toolchain bundle", main.rs). *)
Cache == INSTANCE ToolchainCache WITH content <- installed
CacheIsImplemented == Cache!Spec

(* The report of a run can be believed.  Exit code 0 says that the plugin ran
   and the run succeeded, and, of `run`, that the envelope is on stdout: `app
   run` can lose it unnoticed.  An envelope on stdout that says ok comes with
   exit code 0 and names the bytes that ran, unless the binary was replaced
   after it was hashed; pinned bytes are those of the release that was pinned
   when the pin was read, of an installed toolchain; and only an override runs
   unpinned. *)
ReportIsTrue ==
    /\ TypeOK /\ AppTypeOK
    /\ \A r \in Runs :
        /\ app[r].exit = "0" /\ app[r].call # "validate" =>
             /\ app[r].ok /\ app[r].spawned # None
             /\ app[r].call = "plain" => app[r].printed.written
             /\ app[r].printed.ok = app[r].printed.written
        /\ app[r].printed.ok =>
             LET marker == app[r].printed.marker IN
             /\ app[r].exit = "0"
             /\ app[r].call = "plain" <=> marker = None
             /\ marker # None =>
                  /\ app[r].spawned = marker.build \/ app[r].replaced
                  /\ marker.mode = "unpinned" <=> app[r].call = "override"
                  /\ marker.mode = "pinned" =>
                       /\ installed # None
                       /\ marker.build = installed.binaries
                       /\ installed.manifest = app[r].used.pin.release
                  /\ markerFile # None

(* The copies of the files that a run uses were never validated themselves, but
   unless somebody edited them in between they would have passed; and what a
   pinned run depends on was checked again on the copies. *)
UsedWasValidated ==
    \A r \in Runs :
        /\ app[r].used # None /\ ~app[r].edited =>
             StructureIsSound(app[r].used) /\ {app[r].used.manifest.form, app[r].used.pin.form}
                                                 \subseteq {"sound", "fields"}
        /\ app[r].marker # None /\ app[r].marker.mode = "pinned" =>
             app[r].used.manifest.form # "protocol" /\ app[r].used.pin.form # "fields"

(* Nobody is refused for nothing.  Installers: when all of them have ended and
   one was refused, the toolchain is there or one of them failed or was killed.
   Runs: after an install that exited with 0, a pinned run is refused only if
   its files are wrong, or ask for another build, or the cached binary was
   replaced. *)
RunRefusalHasAReason ==
    \A r \in Runs : app[r].at = "refused" /\ app[r].used # None /\ app[r].call = "pinned" =>
        \/ ~app[r].afterInstall
        \/ app[r].used.manifest.form = "protocol" \/ app[r].used.pin.form = "fields"
        \/ app[r].used.pin.release # installed.manifest
        \/ app[r].used.manifest.plugin \notin {None, installed.binaries}
        \/ damage # None
AppRefusalHasAReason == RefusalHasAReason /\ RunRefusalHasAReason

=============================================================================
