---------------------------- MODULE AppRunProofs ----------------------------
(***************************************************************************)
(* Proofs about AppRun and the module it extends, ToolchainInstall, for    *)
(* every set of installers, builds and commands.                           *)
(***************************************************************************)
EXTENDS AppRun, TLAPS

-----------------------------------------------------------------------------
(* The installers: ToolchainInstall on its own. *)

(* InstalledIsWhole becomes inductive with what an installer knows at each
   place: it has a manifest after the first read, a staged tree while it copies,
   and one that fits its manifest when it is about to promote it. *)
Knows(i) ==
    /\ pc[i] \in {"check", "look", "lock", "relook", "stage"} => manifest[i] \in Builds
    /\ pc[i] \in {"copy", "check_staged", "promote"} => staging[i] \in Trees
    /\ pc[i] = "promote" => Fits(staging[i])
    /\ pc[i] \in {"report", "done"} => installed # None
InstallInv == InstalledIsWhole /\ \A i \in Installers : Knows(i)

(* A refused installer met an installed toolchain or a lock, and a lock that
   goes away leaves a toolchain or a failure behind. *)
RefusalInv ==
    (\E i \in Installers : pc[i] = "refused") =>
        \/ installed # None
        \/ lock # None
        \/ \E i \in Installers : pc[i] = "failed"

\* An installer that moves within or outside the lock leaves the cache as it is.
QuietStep(i) ==
    \/ ReadManifest(i) \/ CheckBundle(i) \/ LookForInstalled(i) \/ AcquireLock(i)
    \/ LookAgain(i) \/ Stage(i) \/ CopyBinaries(i) \/ CheckStaged(i) \/ Report(i)
    \/ FileSystemFails(i) \/ Crash(i) \/ Rebuild(i)

\* The initial state meets the strengthened invariant.
LEMMA InitInstall == Init => InstallInv /\ RefusalInv
<1> SUFFICES ASSUME Init PROVE InstallInv /\ RefusalInv
  OBVIOUS
<1>1. InstalledIsWhole
  BY BoundsAssumption DEF Init, InstalledIsWhole, TypeOK, Locked
<1> QED BY <1>1 DEF Init, InstallInv, Knows, RefusalInv

\* Every step keeps the types: one case per action.
LEMMA StepInstallTypes == InstallInv /\ [Next]_vars => TypeOK'
<1> SUFFICES ASSUME InstallInv, [Next]_vars PROVE TypeOK'
  OBVIOUS
<1> USE DEF InstallInv, InstalledIsWhole
<1>1. ASSUME NEW i \in Installers, ReadManifest(i) PROVE TypeOK'
  BY <1>1 DEF ReadManifest, GoTo, TypeOK, Locked, Ended
<1>2. ASSUME NEW i \in Installers, CheckBundle(i) PROVE TypeOK'
  BY <1>2 DEF CheckBundle, GoTo, TypeOK, Locked, Ended
<1>3. ASSUME NEW i \in Installers, LookForInstalled(i) PROVE TypeOK'
  BY <1>3 DEF LookForInstalled, GoTo, TypeOK, Locked, Ended
<1>4. ASSUME NEW i \in Installers, AcquireLock(i) PROVE TypeOK'
  BY <1>4, NoneAssumption DEF AcquireLock, LockIsFree, GoTo, TypeOK, Locked, Ended
<1>5. ASSUME NEW i \in Installers, LookAgain(i) PROVE TypeOK'
  BY <1>5 DEF LookAgain, Return, GoTo, TypeOK, Locked, Ended
<1>6. ASSUME NEW i \in Installers, Stage(i) PROVE TypeOK'
  BY <1>6 DEF Stage, GoTo, TypeOK, Locked, Ended, Knows, Trees
<1>7. ASSUME NEW i \in Installers, CopyBinaries(i) PROVE TypeOK'
  BY <1>7 DEF CopyBinaries, GoTo, TypeOK, Locked, Ended, Knows, Trees
<1>8. ASSUME NEW i \in Installers, CheckStaged(i) PROVE TypeOK'
  BY <1>8 DEF CheckStaged, Return, GoTo, TypeOK, Locked, Ended
<1>9. ASSUME NEW i \in Installers, Promote(i) PROVE TypeOK'
  BY <1>9 DEF Promote, Return, GoTo, TypeOK, Locked, Ended, Knows
<1>10. ASSUME NEW i \in Installers, Report(i) PROVE TypeOK'
  BY <1>10 DEF Report, Return, GoTo, TypeOK, Locked, Ended
<1>11. ASSUME NEW i \in Installers, FileSystemFails(i) PROVE TypeOK'
  BY <1>11 DEF FileSystemFails, Return, GoTo, TypeOK, Locked, Ended
<1>12. ASSUME NEW i \in Installers, Crash(i) PROVE TypeOK'
  BY <1>12, BoundsAssumption DEF Crash, GoTo, TypeOK, Locked, Ended
<1>13. ASSUME NEW i \in Installers, Rebuild(i) PROVE TypeOK'
  <2>1. /\ rebuilds < MaxRebuilds /\ rebuilds' = rebuilds + 1
        /\ UNCHANGED <<installed, lock, pc, manifest, staging, crashes>>
    BY <1>13 DEF Rebuild
  <2>2. rebuilds' \in 0 .. MaxRebuilds
    BY <2>1, BoundsAssumption DEF TypeOK
  <2>3. bundle' \in [Installers -> [manifest : Builds, binaries : Builds]]
    <3>1. PICK b \in Builds : \/ bundle' = [bundle EXCEPT ![i].manifest = b]
                              \/ bundle' = [bundle EXCEPT ![i].binaries = b]
      BY <1>13 DEF Rebuild
    <3>2. bundle \in [Installers -> [manifest : Builds, binaries : Builds]]
      BY DEF TypeOK
    <3> QED BY <3>1, <3>2
  <2> QED BY <2>1, <2>2, <2>3 DEF TypeOK
<1>14. CASE UNCHANGED vars
  BY <1>14 DEF vars, TypeOK
<1> QED
  BY <1>1, <1>2, <1>3, <1>4, <1>5, <1>6, <1>7, <1>8, <1>9, <1>10, <1>11, <1>12, <1>13, <1>14
  DEF Next, Install

(* The only step that touches the cache puts a whole tree where there was
   nothing. *)
LEMMA CacheStep ==
    ASSUME InstallInv, [Next]_vars
    PROVE  \/ installed' = installed
           \/ /\ installed = None /\ installed' # None
              /\ installed' \in Trees /\ installed'.binaries = installed'.manifest
<1>1. ASSUME NEW i \in Installers, Promote(i)
      PROVE  \/ installed' = installed
             \/ /\ installed = None /\ installed' # None
                /\ installed' \in Trees /\ installed'.binaries = installed'.manifest
  BY <1>1, NoneAssumption DEF Promote, IsFree, Return, GoTo, InstallInv, Knows, Fits
<1>2. ASSUME NEW i \in Installers, QuietStep(i) PROVE installed' = installed
  BY <1>2
  DEF QuietStep, ReadManifest, CheckBundle, LookForInstalled, AcquireLock, LookAgain, Stage,
      CopyBinaries, CheckStaged, Report, FileSystemFails, Crash, Rebuild
<1>3. CASE UNCHANGED vars
  BY <1>3 DEF vars
<1> QED BY <1>1, <1>2, <1>3 DEF Next, Install, QuietStep

\* What each installer knows stays true: its own steps, and those of the others.
LEMMA StepKnows ==
    ASSUME InstallInv, [Next]_vars, NEW j \in Installers
    PROVE  Knows(j)'
<1>t. TypeOK /\ Knows(j)
  BY DEF InstallInv, InstalledIsWhole
<1>c. installed # None => installed' # None
  BY CacheStep
<1>1. CASE UNCHANGED <<pc[j], manifest[j], staging[j]>>
  BY <1>1, <1>t, <1>c DEF Knows, Fits
<1>2. ASSUME NEW i \in Installers, Install(i) \/ Crash(i), i # j
      PROVE  UNCHANGED <<pc[j], manifest[j], staging[j]>>
  <2>1. ASSUME ReadManifest(i) \/ CheckBundle(i) \/ LookForInstalled(i) \/ AcquireLock(i)
        PROVE  UNCHANGED <<pc[j], manifest[j], staging[j]>>
    BY <2>1, <1>2, <1>t
    DEF TypeOK, ReadManifest, CheckBundle, LookForInstalled, AcquireLock, GoTo
  <2>2. ASSUME LookAgain(i) \/ Stage(i) \/ CopyBinaries(i) \/ CheckStaged(i)
        PROVE  UNCHANGED <<pc[j], manifest[j], staging[j]>>
    BY <2>2, <1>2, <1>t DEF TypeOK, LookAgain, Stage, CopyBinaries, CheckStaged, Return, GoTo
  <2>3. ASSUME Promote(i) \/ Report(i) \/ FileSystemFails(i) \/ Crash(i)
        PROVE  UNCHANGED <<pc[j], manifest[j], staging[j]>>
    BY <2>3, <1>2, <1>t DEF TypeOK, Promote, Report, FileSystemFails, Crash, Return, GoTo
  <2> QED BY <1>2, <2>1, <2>2, <2>3 DEF Install
<1>3. CASE ReadManifest(j)
  BY <1>3, <1>t DEF ReadManifest, GoTo, TypeOK, Knows
<1>4. CASE CheckBundle(j) \/ LookForInstalled(j) \/ AcquireLock(j) \/ LookAgain(j)
  BY <1>4, <1>t
  DEF CheckBundle, LookForInstalled, AcquireLock, LookAgain, Return, GoTo, TypeOK, Knows
<1>5. CASE Stage(j)
  BY <1>5, <1>t DEF Stage, GoTo, TypeOK, Knows, Trees
<1>6. CASE CopyBinaries(j)
  BY <1>6, <1>t DEF CopyBinaries, GoTo, TypeOK, Knows, Trees
<1>7. CASE CheckStaged(j)
  BY <1>7, <1>t DEF CheckStaged, Return, GoTo, TypeOK, Knows, Fits
<1>8. CASE Promote(j)
  BY <1>8, <1>t, NoneAssumption DEF Promote, IsFree, Return, GoTo, TypeOK, Knows
<1>9. CASE Report(j)
  BY <1>9, <1>t DEF Report, Return, GoTo, TypeOK, Knows
<1>10. CASE FileSystemFails(j) \/ Crash(j)
  BY <1>10, <1>t DEF FileSystemFails, Crash, Return, GoTo, TypeOK, Knows
<1>11. ASSUME NEW i \in Installers, Rebuild(i) PROVE UNCHANGED <<pc[j], manifest[j], staging[j]>>
  BY <1>11 DEF Rebuild
<1>12. CASE UNCHANGED vars
  BY <1>1, <1>12 DEF vars
<1> QED
  BY <1>1, <1>2, <1>3, <1>4, <1>5, <1>6, <1>7, <1>8, <1>9, <1>10, <1>11, <1>12 DEF Next, Install

\* Every step keeps the strengthened invariant.
LEMMA StepInstall == InstallInv /\ [Next]_vars => InstallInv'
<1> SUFFICES ASSUME InstallInv, [Next]_vars PROVE InstallInv'
  OBVIOUS
<1>1. TypeOK'
  BY StepInstallTypes
<1>2. (installed # None => installed.binaries = installed.manifest)'
  BY CacheStep DEF InstallInv, InstalledIsWhole
<1>3. \A i \in Installers : Knows(i)'
  BY StepKnows
<1> QED BY <1>1, <1>2, <1>3 DEF InstallInv, InstalledIsWhole

\* No step leaves a refusal without a reason.
LEMMA StepRefusal == InstallInv /\ RefusalInv /\ [Next]_vars => RefusalInv'
<1> SUFFICES ASSUME InstallInv, RefusalInv, [Next]_vars,
                    installed' = None, lock' = None, \A i \in Installers : pc'[i] # "failed",
                    NEW j \in Installers, pc'[j] = "refused"
             PROVE  FALSE
  BY DEF RefusalInv
<1>t. TypeOK /\ \A i \in Installers : Knows(i)
  BY DEF InstallInv, InstalledIsWhole
<1>c. installed = None
  BY CacheStep
<1>1. ASSUME NEW i \in Installers, ReadManifest(i) \/ CheckBundle(i) \/ Crash(i) \/ Rebuild(i)
      PROVE  FALSE
  BY <1>1, <1>t, <1>c DEF ReadManifest, CheckBundle, Crash, Rebuild, GoTo, TypeOK, RefusalInv, Ended
<1>2. ASSUME NEW i \in Installers, LookForInstalled(i) \/ AcquireLock(i) \/ LookAgain(i)
      PROVE  FALSE
  BY <1>2, <1>t, <1>c, NoneAssumption
  DEF LookForInstalled, AcquireLock, LockIsFree, LookAgain, IsFree, Return, GoTo, TypeOK,
      RefusalInv, Locked
<1>3. ASSUME NEW i \in Installers, Stage(i) \/ CopyBinaries(i) \/ CheckStaged(i) \/ Promote(i)
      PROVE  FALSE
  BY <1>3, <1>t, <1>c, NoneAssumption
  DEF Stage, CopyBinaries, CheckStaged, Promote, IsFree, Return, GoTo, TypeOK, Locked
<1>4. ASSUME NEW i \in Installers, Report(i) PROVE FALSE
  BY <1>4, <1>t, <1>c DEF Report, Knows
<1>5. ASSUME NEW i \in Installers, FileSystemFails(i) PROVE FALSE
  BY <1>5, <1>t DEF FileSystemFails, Return, GoTo, TypeOK
<1>6. CASE UNCHANGED vars
  BY <1>6, <1>c DEF vars, RefusalInv
<1> QED BY <1>1, <1>2, <1>3, <1>4, <1>5, <1>6 DEF Next, Install

\* The strengthened invariant holds in every reachable state.
LEMMA InstallHolds == Spec => []InstallInv
BY InitInstall, StepInstall, PTL DEF Spec

(* However many installers race, crash and find their bundle rebuilt: what is
   installed is whole and fits its manifest. *)
THEOREM InstalledStaysWhole == Spec => []InstalledIsWhole
<1>1. InstallInv => InstalledIsWhole
  BY DEF InstallInv
<1> QED BY <1>1, InstallHolds, PTL

\* A toolchain that is installed is never replaced.
THEOREM InstalledStays == Spec => InstalledIsImmutable
<1>1. InstallInv /\ [Next]_vars => [installed # None => installed' = installed]_installed
  BY CacheStep
<1> QED BY <1>1, InstallHolds, PTL DEF Spec, InstalledIsImmutable

\* When installers have all ended, no refusal is without a reason.
THEOREM RefusalsHaveReasons == Spec => []RefusalHasAReason
<1>1. InstallInv /\ RefusalInv => RefusalHasAReason
  <2> SUFFICES ASSUME InstallInv, RefusalInv, \A i \in Installers : pc[i] \in Ended,
                      \E i \in Installers : pc[i] = "refused", installed = None
               PROVE  \E i \in Installers : pc[i] \in {"failed", "crashed"}
    BY DEF RefusalHasAReason
  <2>1. CASE lock = None
    BY <2>1 DEF RefusalInv
  <2>2. CASE lock # None
    BY <2>2 DEF InstallInv, InstalledIsWhole, TypeOK, Locked, Ended
  <2> QED BY <2>1, <2>2
<1> QED BY <1>1, InitInstall, StepInstall, StepRefusal, PTL DEF Spec

-----------------------------------------------------------------------------
(* Commands only read the cache. *)

\* A step of the commands is no step of the installers.
LEMMA AppStepInstalls == [AppNext]_allVars => [Next]_vars
<1> SUFFICES ASSUME AppNext PROVE [Next]_vars
  BY DEF allVars
<1>1. ASSUME NEW r \in Runs, Command(r) PROVE UNCHANGED vars
  <2>1. ASSUME Start(r) \/ Validate(r) \/ Scan(r) \/ Load(r) \/ Resolve(r) \/ ReportValidation(r)
        PROVE  UNCHANGED vars
    BY <2>1 DEF Start, Validate, Scan, Load, Resolve, ReportValidation
  <2>2. ASSUME HashCached(r) \/ HashOverride(r) \/ WriteMarker(r) \/ ReadInput(r)
               \/ ReadPlainInput(r) \/ Execute(r) \/ PrintEnvelope(r) \/ ReadFails(r)
        PROVE  UNCHANGED vars
    BY <2>2 DEF HashCached, HashOverride, WriteMarker, ReadInput, ReadPlainInput, Execute,
                PrintEnvelope, ReadFails
  <2> QED BY <1>1, <2>1, <2>2 DEF Command
<1>2. ASSUME Edit \/ ReplacePlugin PROVE UNCHANGED vars
  BY <1>2 DEF Edit, ReplacePlugin
<1> QED BY <1>1, <1>2 DEF AppNext

\* So everything proved of the installers holds beside any commands.
LEMMA AppInstalls == AppSpec => Spec
<1>1. AppInit => Init
  BY DEF AppInit
<1> QED BY <1>1, AppStepInstalls, PTL DEF AppSpec, Spec

LEMMA AppInstallHolds == AppSpec => []InstallInv
BY AppInstalls, InstallHolds, PTL

(* Whoever reads the cache, between whichever steps of however many installers,
   sees nothing or the one whole toolchain. *)
THEOREM CacheIsWriteOnce == AppSpec => CacheIsImplemented
<1>1. Init => Cache!Init
  BY DEF Init, Cache!Init
<1>2. InstallInv /\ [Next]_vars => [Cache!Next]_installed
  <2> SUFFICES ASSUME InstallInv, [Next]_vars, installed' # installed PROVE Cache!Next
    OBVIOUS
  <2>1. installed = None /\ installed' \in Trees /\ installed'.binaries = installed'.manifest
    BY CacheStep
  <2>2. installed' \in Cache!Whole
    BY <2>1 DEF Trees, Cache!Whole
  <2> QED BY <2>1, <2>2 DEF Cache!Next, Cache!Install
<1> QED BY <1>1, <1>2, AppInstalls, InstallHolds, PTL DEF Spec, CacheIsImplemented, Cache!Spec

-----------------------------------------------------------------------------
(* The invariant of the commands: one conjunct per question. *)

Early == {"idle", "validate", "scan", "report", "load"}
Running == {"input", "execute", "print"}

\* Which calls come to which place, and what they have by then.
PlaceInv(r) ==
    /\ app[r].at \notin {"refused", "failed", "done"} => app[r].exit = None
    /\ app[r].at \in {"refused", "failed"} => app[r].exit = "2"
    /\ app[r].at \in {"validate", "scan"} => app[r].call \in Calls \ {"plain"}
    /\ app[r].at = "load" => app[r].call \in {"pinned", "override", "override_in_production"}
    /\ app[r].at = "report" => app[r].call = "validate"
    /\ app[r].at = "resolve" => app[r].call = "pinned"
    /\ app[r].at \in {"hash", "mark"} => app[r].call \in {"pinned", "override"}
    /\ app[r].at \in Running => app[r].call \in {"pinned", "override", "plain"}
    /\ app[r].at \in Early => app[r].used = None
    /\ app[r].at \in Early \cup {"resolve", "hash"} => app[r].marker = None
    /\ app[r].at \in {"resolve", "hash"} => app[r].used \in Files
    /\ app[r].at \notin {"print", "done"} => app[r].spawned = None /\ ~app[r].ok
    /\ app[r].call = "plain" => app[r].marker = None

\* What the marker says is true of the cache and of the copies the run uses.
MarkerInv(r) ==
    /\ app[r].at = "hash" /\ app[r].call = "pinned" => installed # None /\ MatchesPin(app[r].used)
    /\ app[r].marker # None =>
         /\ app[r].marker.mode = "unpinned" <=> app[r].call = "override"
         /\ app[r].marker.mode = "pinned" =>
              /\ installed # None /\ MatchesPin(app[r].used)
              /\ app[r].marker.build = installed.binaries
    /\ app[r].at \in {"mark", "input", "execute"} /\ app[r].marker # None =>
         app[r].marker.build = PluginOf(r) \/ app[r].replaced
    /\ app[r].spawned # None /\ app[r].marker # None =>
         app[r].spawned = app[r].marker.build \/ app[r].replaced
    /\ app[r].at \in {"mark"} \cup Running /\ app[r].call # "plain" => app[r].marker # None
    /\ app[r].at \in Running /\ app[r].call # "plain" => markerFile # None

\* What stdout and the exit code say together.
ReportInv(r) ==
    /\ app[r].ok => app[r].spawned # None
    /\ app[r].at # "done" => ~app[r].printed.ok
    /\ app[r].exit = "0" /\ app[r].call # "validate" =>
         /\ app[r].at = "done" /\ app[r].ok
         /\ app[r].call = "plain" => app[r].printed.written
         /\ app[r].printed.ok = app[r].printed.written
    /\ app[r].printed.ok =>
         /\ app[r].exit = "0" /\ app[r].ok
         /\ app[r].printed.marker = app[r].marker
         /\ app[r].call = "plain" <=> app[r].marker = None
         /\ app[r].marker # None => markerFile # None

\* What the first two reads found, as long as nobody edits.
ValidatedInv(r) ==
    /\ app[r].at = "scan" /\ ~app[r].edited => StructureIsSound(files)
    /\ app[r].at = "load" /\ ~app[r].edited => StructureIsSound(files) /\ NoForbiddenKeys(files)
    /\ app[r].used # None /\ ~app[r].edited =>
         StructureIsSound(app[r].used) /\ NoForbiddenKeys(app[r].used)

\* Why a pinned run was refused.
RefusedInv(r) ==
    /\ app[r].afterInstall => installed # None
    /\ app[r].at = "refused" /\ app[r].used # None /\ app[r].call = "pinned" =>
        \/ ~app[r].afterInstall
        \/ app[r].used.manifest.form = "protocol" \/ app[r].used.pin.form = "fields"
        \/ app[r].used.pin.release # installed.manifest
        \/ app[r].used.manifest.plugin \notin {None, installed.binaries}
        \/ damage # None

RunInv(r) ==
    PlaceInv(r) /\ MarkerInv(r) /\ ReportInv(r) /\ ValidatedInv(r) /\ RefusedInv(r)
AppInv == AppTypeOK /\ \A r \in Runs : RunInv(r)

\* No command has started in the initial state.
LEMMA InitApp == AppInit => AppInv
<1> SUFFICES ASSUME AppInit PROVE AppInv
  OBVIOUS
<1>1. AppTypeOK
  BY ChangesAssumption DEF AppInit, AppInitOf, AppTypeOK, Commands, Places, Exits, NoPrint
<1>2. ASSUME NEW r \in Runs PROVE RunInv(r)
  BY NoneAssumption, NoMarkerAssumption
  DEF AppInit, AppInitOf, RunInv, PlaceInv, MarkerInv, ReportInv, ValidatedInv, RefusedInv,
      Early, Running, NoPrint
<1> QED BY <1>1, <1>2 DEF AppInv

(* What other actors do does not disturb a command: the installers put a
   toolchain where none was, and other commands write the marker file. *)
LEMMA Undisturbed ==
    ASSUME AppInv, NEW r \in Runs, app'[r] = app[r],
           installed # None => installed' = installed,
           markerFile # None => markerFile' # None,
           UNCHANGED <<files, devPlugin, damage>>
    PROVE  RunInv(r)'
<1>a. RunInv(r)
  BY DEF AppInv
<1>1. PlaceInv(r)'
  BY <1>a DEF RunInv, PlaceInv
<1>2. MarkerInv(r)'
  <2>1. CASE installed # None
    BY <1>a, <2>1 DEF RunInv, MarkerInv, MatchesPin, PluginOf, CachedPlugin
  <2>2. CASE installed = None
    <3>1. app[r].at # "hash" \/ app[r].call # "pinned"
      BY <1>a, <2>2 DEF RunInv, MarkerInv
    <3>2. app[r].marker # None => app[r].marker.mode # "pinned"
      BY <1>a, <2>2 DEF RunInv, MarkerInv
    <3>3. app[r].at \in {"mark", "input", "execute"} /\ app[r].marker # None =>
            app[r].marker.build = devPlugin \/ app[r].replaced
      <4>1. app[r].marker # None => app[r].marker.mode \in {"pinned", "unpinned"}
        BY NoMarkerAssumption DEF AppInv, AppTypeOK, Commands, Markers
      <4> QED BY <1>a, <3>2, <4>1 DEF RunInv, MarkerInv, PluginOf
    <3>4. app[r].marker # None => app[r].call = "override"
      <4>1. app[r].marker # None => app[r].marker.mode \in {"pinned", "unpinned"}
        BY NoMarkerAssumption DEF AppInv, AppTypeOK, Commands, Markers
      <4> QED BY <1>a, <3>2, <4>1 DEF RunInv, MarkerInv
    <3> QED BY <1>a, <3>1, <3>2, <3>3, <3>4 DEF RunInv, MarkerInv, PluginOf
  <2> QED BY <2>1, <2>2
<1>3. ReportInv(r)'
  BY <1>a DEF RunInv, ReportInv
<1>4. ValidatedInv(r)'
  BY <1>a DEF RunInv, ValidatedInv, StructureIsSound, ManifestIsWellFormed, PinIsWellFormed,
              NoForbiddenKeys
<1>5. RefusedInv(r)'
  BY <1>a DEF RunInv, RefusedInv
<1> QED BY <1>1, <1>2, <1>3, <1>4, <1>5 DEF RunInv

-----------------------------------------------------------------------------
(* The steps of a command: what each does to the command itself. *)

(* The record of a command stays one when fields are set one after the other. *)
LEMMA SetAt == ASSUME NEW a \in Commands, NEW x \in Places PROVE [a EXCEPT !.at = x] \in Commands
BY DEF Commands
LEMMA SetCall ==
    ASSUME NEW a \in Commands, NEW x \in Calls PROVE [a EXCEPT !.call = x] \in Commands
BY DEF Commands
LEMMA SetMarker ==
    ASSUME NEW a \in Commands, NEW x \in Markers PROVE [a EXCEPT !.marker = x] \in Commands
BY DEF Commands
LEMMA SetSpawned ==
    ASSUME NEW a \in Commands, NEW x \in Builds PROVE [a EXCEPT !.spawned = x] \in Commands
BY DEF Commands
LEMMA SetOk == ASSUME NEW a \in Commands, NEW x \in BOOLEAN PROVE [a EXCEPT !.ok = x] \in Commands
BY DEF Commands
LEMMA SetPrinted ==
    ASSUME NEW a \in Commands,
           NEW x \in [ok : BOOLEAN, marker : Markers \cup {None}, written : BOOLEAN]
    PROVE  [a EXCEPT !.printed = x] \in Commands
BY DEF Commands
LEMMA SetExit == ASSUME NEW a \in Commands, NEW x \in Exits PROVE [a EXCEPT !.exit = x] \in Commands
BY DEF Commands
LEMMA SetAfterInstall ==
    ASSUME NEW a \in Commands, NEW x \in BOOLEAN PROVE [a EXCEPT !.afterInstall = x] \in Commands
BY DEF Commands

\* The fields that a step sets together.
WithEnd(a, x, y) == [a EXCEPT !.at = x, !.exit = y]
WithCall(a, x, y, z) == [a EXCEPT !.at = x, !.call = y, !.afterInstall = z]
WithMarker(a, x, y) == [a EXCEPT !.at = x, !.marker = y]
WithResult(a, x, y, z) == [a EXCEPT !.at = x, !.spawned = y, !.ok = z]
WithPrint(a, x, y, z) == [a EXCEPT !.at = x, !.printed = y, !.exit = z]

LEMMA SetEnd ==
    ASSUME NEW a \in Commands, NEW x \in Places, NEW y \in Exits
    PROVE  WithEnd(a, x, y) \in Commands
<1>1. [[a EXCEPT !.at = x] EXCEPT !.exit = y] \in Commands
  BY SetAt, SetExit
<1>2. [[a EXCEPT !.at = x] EXCEPT !.exit = y] = WithEnd(a, x, y)
  BY DEF WithEnd
<1> QED BY <1>1, <1>2
LEMMA SetStart ==
    ASSUME NEW a \in Commands, NEW x \in Places, NEW y \in Calls, NEW z \in BOOLEAN
    PROVE  WithCall(a, x, y, z) \in Commands
<1>1. [[[a EXCEPT !.at = x] EXCEPT !.call = y] EXCEPT !.afterInstall = z] \in Commands
  BY SetAt, SetCall, SetAfterInstall
<1>2. [[[a EXCEPT !.at = x] EXCEPT !.call = y] EXCEPT !.afterInstall = z] = WithCall(a, x, y, z)
  BY DEF WithCall
<1> QED BY <1>1, <1>2
LEMMA SetMark ==
    ASSUME NEW a \in Commands, NEW x \in Places, NEW y \in Markers
    PROVE  WithMarker(a, x, y) \in Commands
<1>1. [[a EXCEPT !.at = x] EXCEPT !.marker = y] \in Commands
  BY SetAt, SetMarker
<1>2. [[a EXCEPT !.at = x] EXCEPT !.marker = y] = WithMarker(a, x, y)
  BY DEF WithMarker
<1> QED BY <1>1, <1>2
LEMMA SetResult ==
    ASSUME NEW a \in Commands, NEW x \in Places, NEW y \in Builds, NEW z \in BOOLEAN
    PROVE  WithResult(a, x, y, z) \in Commands
<1>1. [[[a EXCEPT !.at = x] EXCEPT !.spawned = y] EXCEPT !.ok = z] \in Commands
  BY SetAt, SetSpawned, SetOk
<1>2. [[[a EXCEPT !.at = x] EXCEPT !.spawned = y] EXCEPT !.ok = z] = WithResult(a, x, y, z)
  BY DEF WithResult
<1> QED BY <1>1, <1>2
LEMMA SetPrint ==
    ASSUME NEW a \in Commands, NEW x \in Places, NEW z \in Exits,
           NEW y \in [ok : BOOLEAN, marker : Markers \cup {None}, written : BOOLEAN]
    PROVE  WithPrint(a, x, y, z) \in Commands
<1>1. [[[a EXCEPT !.at = x] EXCEPT !.printed = y] EXCEPT !.exit = z] \in Commands
  BY SetAt, SetPrinted, SetExit
<1>2. [[[a EXCEPT !.at = x] EXCEPT !.printed = y] EXCEPT !.exit = z] = WithPrint(a, x, y, z)
  BY DEF WithPrint
<1> QED BY <1>1, <1>2

\* A plugin that is hashed or started is one of the builds.
LEMMA PluginIsBuild ==
    ASSUME InstallInv, AppInv, NEW r \in Runs,
           app[r].call = "pinned" => installed # None
    PROVE  PluginOf(r) \in Builds
BY NoneAssumption
DEF PluginOf, CachedPlugin, InstallInv, InstalledIsWhole, TypeOK, AppInv, AppTypeOK, Trees

\* A step that only moves a command, without a result.
LEMMA FirstSteps ==
    ASSUME InstallInv, AppInv, NEW r \in Runs,
           Start(r) \/ Validate(r) \/ Scan(r) \/ Load(r) \/ ReportValidation(r)
    PROVE  app'[r] \in Commands /\ RunInv(r)'
<1> USE DEF Places, Calls, Exits, Early, Running
<1>t. app \in [Runs -> Commands] /\ files \in Files /\ RunInv(r)
  BY DEF AppInv, AppTypeOK
<1>1. CASE Start(r)
  <2>1. app[r].at = "idle" /\ UNCHANGED <<vars, files, devPlugin, damage, markerFile>>
    BY <1>1 DEF Start
  <2>2. PICK call \in Calls : \E after \in BOOLEAN :
          /\ app'[r] = [app[r] EXCEPT !.at = IF call = "plain" THEN "input" ELSE "validate",
                                      !.call = call, !.afterInstall = after]
          /\ after => \E i \in Installers : pc[i] \in Ended /\ InstallExit(i) = "0"
    BY <1>1, <1>t DEF Start
  <2>3. app'[r].afterInstall => installed # None
    BY <2>2, <1>t DEF InstallExit, InstallInv, Knows, Commands
  <2>4. app'[r] \in Commands
    <3>1. PICK x \in Places, after \in BOOLEAN : app'[r] = WithCall(app[r], x, call, after)
      BY <2>2 DEF WithCall
    <3>2. WithCall(app[r], x, call, after) \in Commands
      <4>1. app[r] \in Commands
        BY <1>t
      <4> HIDE DEF Places, Calls, Exits
      <4> QED BY <4>1, SetStart
    <3> QED BY <3>1, <3>2
  <2>5. /\ app'[r].at \in {"input", "validate"} /\ app'[r].call = call
        /\ app'[r].at = "input" <=> call = "plain"
        /\ app'[r].used = None /\ app'[r].marker = None /\ app'[r].exit = None
        /\ app'[r].spawned = None /\ ~app'[r].ok /\ ~app'[r].printed.ok
    BY <2>1, <2>2, <1>t DEF Commands, RunInv, PlaceInv, ReportInv
  <2>6. PlaceInv(r)'
    BY <2>2, <2>5 DEF PlaceInv
  <2>7. MarkerInv(r)' /\ ReportInv(r)' /\ ValidatedInv(r)' /\ RefusedInv(r)'
    BY <2>1, <2>3, <2>5, NoMarkerAssumption
    DEF MarkerInv, ReportInv, ValidatedInv, RefusedInv, vars
  <2> QED BY <2>4, <2>6, <2>7 DEF RunInv
<1>2. CASE Validate(r)
  BY <1>2, <1>t
  DEF Validate, Moves, Refuses, Commands, RunInv, PlaceInv, MarkerInv, ReportInv, ValidatedInv,
      RefusedInv, vars, StructureIsSound, ManifestIsWellFormed, PinIsWellFormed
<1>3. CASE Scan(r)
  <2>1. app[r].at = "scan" /\ UNCHANGED <<vars, files, devPlugin, damage, markerFile>>
    BY <1>3 DEF Scan
  <2>2. CASE NoForbiddenKeys(files)
    <3>1. \/ app[r].call = "validate" /\ app'[r] = [app[r] EXCEPT !.at = "report"]
          \/ app[r].call # "validate" /\ app'[r] = [app[r] EXCEPT !.at = "load"]
      BY <1>3, <2>2, <1>t DEF Scan, Moves
    <3>2. app'[r] \in Commands
      <4>1. app[r] \in Commands /\ "report" \in Places /\ "load" \in Places
        BY <1>t
      <4> HIDE DEF Places, Calls, Exits
      <4>2. [app[r] EXCEPT !.at = "report"] \in Commands /\ [app[r] EXCEPT !.at = "load"] \in Commands
        BY <4>1, SetAt
      <4> QED BY <3>1, <4>2
    <3> QED
      BY <3>1, <3>2, <2>1, <2>2, <1>t
      DEF Commands, RunInv, PlaceInv, MarkerInv, ReportInv, ValidatedInv, RefusedInv, vars,
          StructureIsSound, ManifestIsWellFormed, PinIsWellFormed, NoForbiddenKeys
  <2>3. CASE ~NoForbiddenKeys(files)
    <3>1. app'[r] = [app[r] EXCEPT !.at = "refused", !.exit = "2"]
      BY <1>3, <2>3, <1>t DEF Scan, Refuses
    <3>2. app'[r] \in Commands
      <4>1. app'[r] = WithEnd(app[r], "refused", "2")
        BY <3>1 DEF WithEnd
      <4> QED BY <4>1, <1>t, SetEnd
    <3> QED
      BY <3>1, <3>2, <2>1, <1>t
      DEF Commands, RunInv, PlaceInv, MarkerInv, ReportInv, ValidatedInv, RefusedInv, vars
  <2> QED BY <2>2, <2>3
<1>4. CASE Load(r)
  BY <1>4, <1>t
  DEF Load, Moves, Refuses, Commands, RunInv, PlaceInv, MarkerInv, ReportInv, ValidatedInv,
      RefusedInv, vars, StructureIsSound, ManifestIsWellFormed, PinIsWellFormed, NoForbiddenKeys
<1>5. CASE ReportValidation(r)
  <2>1. /\ app[r].at = "report" /\ app'[r] = [app[r] EXCEPT !.at = "done", !.exit = "0"]
        /\ UNCHANGED <<vars, files, devPlugin, damage, markerFile>>
    BY <1>5, <1>t DEF ReportValidation
  <2>2. app'[r] \in Commands
    <3>1. app'[r] = WithEnd(app[r], "done", "0")
      BY <2>1 DEF WithEnd
    <3> QED BY <3>1, <1>t, SetEnd
  <2> QED
    BY <2>1, <2>2, <1>t
    DEF Commands, RunInv, PlaceInv, MarkerInv, ReportInv, ValidatedInv, RefusedInv, vars
<1> QED BY <1>1, <1>2, <1>3, <1>4, <1>5

\* The plugin is found, hashed and bound to a marker.
LEMMA HashSteps ==
    ASSUME InstallInv, AppInv, NEW r \in Runs,
           Resolve(r) \/ HashCached(r) \/ HashOverride(r)
    PROVE  app'[r] \in Commands /\ RunInv(r)'
<1> USE DEF Places, Calls, Exits, Early, Running
<1>t. app \in [Runs -> Commands] /\ files \in Files /\ RunInv(r)
  BY DEF AppInv, AppTypeOK
<1>1. CASE Resolve(r)
  BY <1>1, <1>t
  DEF Resolve, Moves, Refuses, Commands, RunInv, PlaceInv, MarkerInv, ReportInv, ValidatedInv,
      RefusedInv, vars, MatchesPin
<1>2. CASE HashCached(r)
  <2>1. PluginOf(r) \in Builds /\ PluginOf(r) # None
    BY <1>2, <1>t, PluginIsBuild, NoneAssumption DEF HashCached, RunInv, MarkerInv
  <2>2. /\ app[r].at = "hash" /\ app[r].call = "pinned" /\ installed # None /\ MatchesPin(app[r].used)
        /\ installed.binaries = installed.manifest
        /\ UNCHANGED <<installed, files, devPlugin, damage, markerFile>>
    BY <1>2, <1>t DEF HashCached, RunInv, MarkerInv, InstallInv, InstalledIsWhole, vars
  <2>3. CASE FitsRelease(r) /\ FitsManifest(r)
    <3>1. app'[r] = [app[r] EXCEPT !.at = "mark", !.marker = [mode |-> "pinned", build |-> PluginOf(r)]]
      BY <1>2, <2>3, <1>t DEF HashCached, Marks
    <3>2. PluginOf(r) = installed.binaries
      BY <2>2, <2>3 DEF FitsRelease, MatchesPin
    <3>3. app'[r] \in Commands
      <4>1. app'[r] = WithMarker(app[r], "mark", [mode |-> "pinned", build |-> PluginOf(r)])
        BY <3>1 DEF WithMarker
      <4>2. [mode |-> "pinned", build |-> PluginOf(r)] \in Markers
        BY <2>1 DEF Markers
      <4> QED BY <4>1, <4>2, <1>t, SetMark
    <3>4. /\ app'[r].marker.mode = "pinned" /\ app'[r].marker.build = PluginOf(r)
          /\ PluginOf(r)' = PluginOf(r) /\ app'[r].marker \in Markers
      BY <3>1, <1>t, <2>1, <2>2 DEF Commands, Markers, PluginOf, CachedPlugin
    <3>5. PlaceInv(r)' /\ MarkerInv(r)'
      BY <3>1, <3>2, <3>3, <3>4, <2>2, <1>t, NoMarkerAssumption
      DEF RunInv, PlaceInv, MarkerInv, Commands, MatchesPin
    <3>6. ReportInv(r)' /\ ValidatedInv(r)' /\ RefusedInv(r)'
      BY <3>1, <2>2, <1>t
      DEF RunInv, PlaceInv, ReportInv, ValidatedInv, RefusedInv, Commands, StructureIsSound, ManifestIsWellFormed,
          PinIsWellFormed, NoForbiddenKeys
    <3> QED BY <3>3, <3>5, <3>6 DEF RunInv
  <2>4. CASE ~(FitsRelease(r) /\ FitsManifest(r))
    <3>1. app'[r] = [app[r] EXCEPT !.at = "refused", !.exit = "2"]
      BY <1>2, <2>4, <1>t DEF HashCached, Refuses
    <3>2. \/ app[r].used.manifest.plugin \notin {None, installed.binaries}
          \/ damage # None
      BY <2>2, <2>4 DEF FitsRelease, FitsManifest, PluginOf, CachedPlugin, MatchesPin
    <3>3. app'[r] \in Commands
      <4>1. app'[r] = WithEnd(app[r], "refused", "2")
        BY <3>1 DEF WithEnd
      <4> QED BY <4>1, <1>t, SetEnd
    <3> QED
      BY <3>1, <3>2, <3>3, <2>2, <1>t
      DEF Commands, RunInv, PlaceInv, MarkerInv, ReportInv, ValidatedInv, RefusedInv
  <2> QED BY <2>3, <2>4
<1>3. CASE HashOverride(r)
  <2>1. PluginOf(r) \in Builds /\ PluginOf(r) # None
    BY <1>3, <1>t, PluginIsBuild, NoneAssumption DEF HashOverride
  <2>2. /\ app[r].at = "hash" /\ app[r].call = "override"
        /\ UNCHANGED <<installed, files, devPlugin, damage, markerFile>>
    BY <1>3 DEF HashOverride, vars
  <2>3. CASE FitsManifest(r)
    <3>1. app'[r] = [app[r] EXCEPT !.at = "mark", !.marker = [mode |-> "unpinned", build |-> PluginOf(r)]]
      BY <1>3, <2>3, <1>t DEF HashOverride, Marks
    <3>3. app'[r] \in Commands
      <4>1. app'[r] = WithMarker(app[r], "mark", [mode |-> "unpinned", build |-> PluginOf(r)])
        BY <3>1 DEF WithMarker
      <4>2. [mode |-> "unpinned", build |-> PluginOf(r)] \in Markers
        BY <2>1 DEF Markers
      <4> QED BY <4>1, <4>2, <1>t, SetMark
    <3>4. /\ app'[r].marker.mode = "unpinned" /\ app'[r].marker.build = PluginOf(r)
          /\ PluginOf(r)' = PluginOf(r) /\ app'[r].marker \in Markers
      BY <3>1, <1>t, <2>1, <2>2 DEF Commands, Markers, PluginOf, CachedPlugin
    <3>5. PlaceInv(r)' /\ MarkerInv(r)'
      BY <3>1, <3>3, <3>4, <2>2, <1>t, NoMarkerAssumption
      DEF RunInv, PlaceInv, MarkerInv, Commands, MatchesPin
    <3>6. ReportInv(r)' /\ ValidatedInv(r)' /\ RefusedInv(r)'
      BY <3>1, <2>2, <1>t
      DEF RunInv, PlaceInv, ReportInv, ValidatedInv, RefusedInv, Commands, StructureIsSound, ManifestIsWellFormed,
          PinIsWellFormed, NoForbiddenKeys
    <3> QED BY <3>3, <3>5, <3>6 DEF RunInv
  <2>4. CASE ~FitsManifest(r)
    BY <1>3, <2>2, <2>4, <1>t
    DEF HashOverride, Refuses, Commands, RunInv, PlaceInv, MarkerInv, ReportInv, ValidatedInv,
        RefusedInv
  <2> QED BY <2>3, <2>4
<1> QED BY <1>1, <1>2, <1>3

\* The command goes on with its marker, starts the plugin and prints.
LEMMA RunSteps ==
    ASSUME InstallInv, AppInv, NEW r \in Runs,
           WriteMarker(r) \/ ReadInput(r) \/ ReadPlainInput(r) \/ Execute(r) \/ PrintEnvelope(r)
           \/ ReadFails(r)
    PROVE  app'[r] \in Commands /\ RunInv(r)'
<1> USE DEF Places, Calls, Exits, Early, Running
<1>t. app \in [Runs -> Commands] /\ files \in Files /\ RunInv(r)
  BY DEF AppInv, AppTypeOK
<1>m. app[r].marker # None => app[r].marker \in Markers
  BY <1>t DEF Commands
<1>1. CASE WriteMarker(r)
  BY <1>1, <1>t
  DEF WriteMarker, Moves, Commands, RunInv, PlaceInv, MarkerInv, ReportInv, ValidatedInv,
      RefusedInv, vars, MatchesPin, PluginOf, CachedPlugin
<1>2. CASE ReadInput(r) \/ ReadPlainInput(r)
  <2>1. /\ app[r].at = "input"
        /\ UNCHANGED <<installed, files, devPlugin, damage, markerFile>>
    BY <1>2 DEF ReadInput, ReadPlainInput, vars
  <2>2. CASE Moves(r, "execute")
    BY <2>1, <2>2, <1>t
    DEF Moves, Commands, RunInv, PlaceInv, MarkerInv, ReportInv, ValidatedInv, RefusedInv,
        MatchesPin, PluginOf, CachedPlugin
  <2>3. CASE FailsOnInput(r)
    <3>1. PICK w \in BOOLEAN :
            app'[r] = [app[r] EXCEPT !.at = "done",
                          !.printed = [ok |-> FALSE, marker |-> None, written |-> w],
                          !.exit = "2"]
      BY <2>3, <1>t DEF FailsOnInput, Ends
    <3>2. app'[r] \in Commands
      <4> DEFINE y == [ok |-> FALSE, marker |-> None, written |-> w]
      <4>1. app'[r] = WithPrint(app[r], "done", y, "2")
        BY <3>1 DEF WithPrint
      <4>2. y \in [ok : BOOLEAN, marker : Markers \cup {None}, written : BOOLEAN]
        OBVIOUS
      <4>3. app[r] \in Commands /\ "done" \in Places /\ "2" \in Exits
        BY <1>t
      <4> HIDE DEF y, Places, Calls, Exits
      <4>4. WithPrint(app[r], "done", y, "2") \in Commands
        BY <4>2, <4>3, SetPrint
      <4> QED BY <4>1, <4>4
    <3> QED
      BY <2>1, <3>1, <3>2, <1>t
      DEF Commands, RunInv, PlaceInv, MarkerInv, ReportInv, ValidatedInv, RefusedInv, MatchesPin
  <2> QED BY <1>2, <2>2, <2>3 DEF ReadInput, ReadPlainInput
<1>3. CASE Execute(r)
  <2>1. /\ app[r].at = "execute"
        /\ UNCHANGED <<installed, files, devPlugin, damage, markerFile>>
    BY <1>3 DEF Execute, vars
  <2>2. ASSUME NEW ok \in BOOLEAN,
               app' = [app EXCEPT ![r].at = "print", ![r].spawned = PluginOf(r), ![r].ok = ok]
        PROVE  app'[r] \in Commands /\ RunInv(r)'
    <3>1. app'[r] = [app[r] EXCEPT !.at = "print", !.spawned = PluginOf(r), !.ok = ok]
      BY <2>2, <1>t
    <3>2. app[r].call = "pinned" => installed # None
      BY <2>1, <1>t, <1>m DEF RunInv, MarkerInv, PlaceInv, Markers
    <3>3. PluginOf(r) \in Builds /\ PluginOf(r) # None
      BY <3>2, PluginIsBuild, NoneAssumption
    <3>4. app'[r] \in Commands
      <4>1. app'[r] = WithResult(app[r], "print", PluginOf(r), ok)
        BY <3>1 DEF WithResult
      <4> QED BY <4>1, <3>3, <1>t, SetResult
    <3> QED
      BY <2>1, <3>1, <3>3, <3>4, <1>t
      DEF Commands, RunInv, PlaceInv, MarkerInv, ReportInv, ValidatedInv, RefusedInv, MatchesPin
  <2>3. CASE Moves(r, "print")
    BY <2>1, <2>3, <1>t
    DEF Moves, Commands, RunInv, PlaceInv, MarkerInv, ReportInv, ValidatedInv, RefusedInv,
        MatchesPin
  <2> QED BY <1>3, <2>2, <2>3 DEF Execute
<1>4. CASE PrintEnvelope(r)
  <2>1. /\ app[r].at = "print"
        /\ UNCHANGED <<installed, files, devPlugin, damage, markerFile>>
    BY <1>4 DEF PrintEnvelope, vars
  <2>2. PICK y \in {Envelope(r), NoPrint}, z \in {OutcomeExit(r), "70"} :
          /\ Ends(r, y, z)
          /\ \/ y = Envelope(r) /\ z = OutcomeExit(r)
             \/ y = NoPrint /\ (z = "70" \/ app[r].call # "plain")
    BY <1>4 DEF PrintEnvelope
  <2>e. app'[r] = [app[r] EXCEPT !.at = "done", !.printed = y, !.exit = z]
    BY <2>2, <1>t DEF Ends
  <2>3. /\ app[r].ok \in BOOLEAN /\ app[r].marker \in Markers \cup {None}
        /\ OutcomeExit(r) = "0" <=> app[r].ok
        /\ z \in Exits
    <3>1. app[r].ok \in BOOLEAN /\ app[r].marker \in Markers \cup {None}
      BY <1>t DEF Commands
    <3> QED BY <3>1 DEF OutcomeExit
  <2>4. y \in [ok : BOOLEAN, marker : Markers \cup {None}, written : BOOLEAN]
    <3>1. NoPrint \in [ok : BOOLEAN, marker : Markers \cup {None}, written : BOOLEAN]
      BY DEF NoPrint
    <3>2. Envelope(r) \in [ok : BOOLEAN, marker : Markers \cup {None}, written : BOOLEAN]
      BY <2>3 DEF Envelope, Annotation
    <3> QED BY <3>1, <3>2
  <2>5. app'[r] \in Commands
    <3>1. app'[r] = WithPrint(app[r], "done", y, z)
      BY <2>e DEF WithPrint
    <3>2. app[r] \in Commands /\ "done" \in Places /\ z \in Exits
      BY <1>t, <2>3
    <3> HIDE DEF Places, Calls, Exits
    <3>3. WithPrint(app[r], "done", y, z) \in Commands
      BY <2>4, <3>2, SetPrint
    <3> QED BY <3>1, <3>3
  <2>6. \/ /\ y.ok = app[r].ok /\ y.written = TRUE /\ y.marker = app[r].marker
           /\ z = "0" <=> app[r].ok
        \/ /\ y.ok = FALSE /\ y.written = FALSE
           /\ z = "0" => app[r].ok /\ app[r].call # "plain"
    <3>1. CASE y = Envelope(r) /\ z = OutcomeExit(r)
      BY <3>1, <2>3 DEF Envelope, Annotation
    <3>2. CASE y = NoPrint /\ (z = "70" \/ app[r].call # "plain")
      BY <3>2, <2>3 DEF NoPrint
    <3> QED BY <2>2, <3>1, <3>2
  <2>7. /\ app'[r].at = "done" /\ app'[r].printed = y /\ app'[r].exit = z
        /\ app'[r].call = app[r].call /\ app'[r].used = app[r].used
        /\ app'[r].marker = app[r].marker /\ app'[r].spawned = app[r].spawned
        /\ app'[r].ok = app[r].ok /\ app'[r].edited = app[r].edited
        /\ app'[r].replaced = app[r].replaced /\ app'[r].afterInstall = app[r].afterInstall
    BY <2>e, <1>t DEF Commands
  <2>8. PlaceInv(r)' /\ MarkerInv(r)' /\ ValidatedInv(r)' /\ RefusedInv(r)'
    BY <2>1, <2>7, <2>6, <1>t
    DEF RunInv, PlaceInv, MarkerInv, ValidatedInv, RefusedInv, MatchesPin
  <2>9. ReportInv(r)'
    <3>1. /\ ReportInv(r)
          /\ app[r].call # "plain" => app[r].marker # None /\ markerFile # None
          /\ app[r].call = "plain" => app[r].marker = None
      BY <2>1, <1>t DEF RunInv, MarkerInv, PlaceInv
    <3> QED BY <2>1, <2>6, <2>7, <3>1 DEF ReportInv
  <2> QED BY <2>5, <2>8, <2>9 DEF RunInv
<1>5. CASE ReadFails(r)
  <2>1. /\ app[r].at \in {"validate", "scan", "load", "resolve", "hash", "mark"}
        /\ app'[r] = [app[r] EXCEPT !.at = "failed", !.exit = "2"]
        /\ UNCHANGED <<installed, files, devPlugin, damage, markerFile>>
    BY <1>5, <1>t DEF ReadFails, vars
  <2>2. app'[r] \in Commands
    <3>1. app'[r] = WithEnd(app[r], "failed", "2")
      BY <2>1 DEF WithEnd
    <3> QED BY <3>1, <1>t, SetEnd
  <2> QED
    BY <2>1, <2>2, <1>t
    DEF Commands, RunInv, PlaceInv, MarkerInv, ReportInv, ValidatedInv, RefusedInv, MatchesPin
<1> QED BY <1>1, <1>2, <1>3, <1>4, <1>5

\* A command changes only itself and the marker file.
LEMMA CommandFrame ==
    ASSUME AppInv, NEW r \in Runs, Command(r)
    PROVE  /\ app' = [app EXCEPT ![r] = app'[r]]
           /\ UNCHANGED <<vars, files, devPlugin, damage, changes>>
           /\ markerFile' # markerFile => app[r].at = "mark" /\ markerFile' = app[r].marker
<1>t. app \in [Runs -> Commands]
  BY DEF AppInv, AppTypeOK
<1>1. ASSUME Start(r) \/ Validate(r) \/ Scan(r) \/ Load(r) \/ Resolve(r) \/ ReportValidation(r)
      PROVE  /\ app' = [app EXCEPT ![r] = app'[r]]
             /\ UNCHANGED <<vars, files, devPlugin, damage, changes, markerFile>>
  BY <1>1, <1>t DEF Start, Validate, Scan, Load, Resolve, ReportValidation, Moves, Refuses
<1>2. ASSUME HashCached(r) \/ HashOverride(r) \/ ReadInput(r)
             \/ ReadPlainInput(r) \/ ReadFails(r)
      PROVE  /\ app' = [app EXCEPT ![r] = app'[r]]
             /\ UNCHANGED <<vars, files, devPlugin, damage, changes, markerFile>>
  BY <1>2, <1>t
  DEF HashCached, HashOverride, ReadInput, ReadPlainInput, ReadFails, Moves, Refuses, Marks,
      FailsOnInput, Ends
<1>3. ASSUME Execute(r) \/ PrintEnvelope(r)
      PROVE  /\ app' = [app EXCEPT ![r] = app'[r]]
             /\ UNCHANGED <<vars, files, devPlugin, damage, changes, markerFile>>
  BY <1>3, <1>t DEF Execute, PrintEnvelope, Moves, Ends
<1>4. ASSUME WriteMarker(r)
      PROVE  /\ app' = [app EXCEPT ![r] = app'[r]]
             /\ UNCHANGED <<vars, files, devPlugin, damage, changes>>
             /\ app[r].at = "mark" /\ markerFile' = app[r].marker
  BY <1>4, <1>t DEF WriteMarker, Moves
<1> QED BY <1>1, <1>2, <1>3, <1>4 DEF Command

\* An edit is remembered by the commands that have validated and not yet loaded.
LEMMA EditStep == ASSUME AppInv, Edit PROVE AppInv'
<1>t. app \in [Runs -> Commands] /\ files \in Files /\ changes \in 0 .. MaxChanges
  BY DEF AppInv, AppTypeOK
<1>f. files' \in Files
  <2>1. PICK x \in ManifestForms, b \in Builds \cup {None}, y \in PinForms, c \in Builds :
          \/ files' = [files EXCEPT !.manifest.form = x]
          \/ files' = [files EXCEPT !.manifest.plugin = b]
          \/ files' = [files EXCEPT !.pin.form = y]
          \/ files' = [files EXCEPT !.pin.release = c]
    BY <1>t DEF Edit, Files, Manifests, Pins
  <2>2. files.manifest \in Manifests /\ files.pin \in Pins
    BY <1>t DEF Files
  <2>3. /\ [files.manifest EXCEPT !.form = x] \in Manifests
        /\ [files.manifest EXCEPT !.plugin = b] \in Manifests
        /\ [files.pin EXCEPT !.form = y] \in Pins
        /\ [files.pin EXCEPT !.release = c] \in Pins
    BY <2>2 DEF Manifests, Pins
  <2> QED BY <1>t, <2>1, <2>2, <2>3 DEF Files
<1>1. ASSUME NEW r \in Runs PROVE app'[r] \in Commands /\ RunInv(r)'
  <2>1. \/ app'[r] = app[r] /\ app[r].at \notin {"scan", "load"}
        \/ app'[r] = [app[r] EXCEPT !.edited = TRUE] /\ app[r].at \in {"scan", "load"}
    BY <1>t DEF Edit
  <2>2. RunInv(r) /\ UNCHANGED <<installed, devPlugin, damage, markerFile>>
    BY DEF AppInv, Edit, vars
  <2>3. CASE app'[r] = app[r] /\ app[r].at \notin {"scan", "load"}
    BY <2>2, <2>3, <1>t
    DEF RunInv, PlaceInv, MarkerInv, ReportInv, ValidatedInv, RefusedInv, MatchesPin, PluginOf,
        CachedPlugin, StructureIsSound, ManifestIsWellFormed, PinIsWellFormed, NoForbiddenKeys
  <2>4. CASE app'[r] = [app[r] EXCEPT !.edited = TRUE] /\ app[r].at \in {"scan", "load"}
    <3>1. app'[r] \in Commands
      BY <2>4, <1>t DEF Commands
    <3>2. /\ app'[r].at = app[r].at /\ app'[r].call = app[r].call /\ app'[r].used = app[r].used
          /\ app'[r].marker = app[r].marker /\ app'[r].spawned = app[r].spawned
          /\ app'[r].ok = app[r].ok /\ app'[r].printed = app[r].printed
          /\ app'[r].exit = app[r].exit /\ app'[r].afterInstall = app[r].afterInstall
          /\ app'[r].replaced = app[r].replaced /\ app'[r].edited
      BY <2>4, <1>t DEF Commands
    <3>3. PlaceInv(r)' /\ MarkerInv(r)'
      BY <2>2, <2>4, <3>2 DEF RunInv, PlaceInv, MarkerInv, MatchesPin, Early, Running
    <3>4. ReportInv(r)' /\ ValidatedInv(r)' /\ RefusedInv(r)'
      BY <2>2, <2>4, <3>2 DEF RunInv, ReportInv, ValidatedInv, RefusedInv
    <3> QED BY <3>1, <3>3, <3>4 DEF RunInv
  <2> QED BY <2>1, <2>3, <2>4
<1>2. app' \in [Runs -> Commands]
  <2>1. app' = [r \in Runs |-> app'[r]]
    BY DEF Edit
  <2> QED BY <1>1, <2>1
<1>3. changes' \in 0 .. MaxChanges
  BY <1>t, ChangesAssumption DEF Edit
<1> QED BY <1>1, <1>2, <1>3, <1>f DEF AppInv, AppTypeOK, Edit

\* A replaced binary is remembered by the commands that have hashed and not yet spawned.
LEMMA ReplaceStep == ASSUME AppInv, ReplacePlugin PROVE AppInv'
<1>t. app \in [Runs -> Commands] /\ changes \in 0 .. MaxChanges
  BY DEF AppInv, AppTypeOK
<1>1. ASSUME NEW r \in Runs PROVE app'[r] \in Commands /\ RunInv(r)'
  <2>1. \/ app'[r] = app[r] /\ app[r].at \notin {"mark", "input", "execute"}
        \/ /\ app'[r] = [app[r] EXCEPT !.replaced = TRUE]
           /\ app[r].at \in {"mark", "input", "execute"}
    BY <1>t DEF ReplacePlugin
  <2>2. RunInv(r) /\ UNCHANGED <<installed, files, markerFile>> /\ (damage # None => damage' # None)
    BY NoneAssumption DEF AppInv, ReplacePlugin, vars
  <2>3. CASE app'[r] = app[r] /\ app[r].at \notin {"mark", "input", "execute"}
    BY <2>2, <2>3, <1>t
    DEF RunInv, PlaceInv, MarkerInv, ReportInv, ValidatedInv, RefusedInv, MatchesPin,
        StructureIsSound, ManifestIsWellFormed, PinIsWellFormed, NoForbiddenKeys
  <2>4. CASE /\ app'[r] = [app[r] EXCEPT !.replaced = TRUE]
             /\ app[r].at \in {"mark", "input", "execute"}
    <3>1. app'[r] \in Commands
      BY <2>4, <1>t DEF Commands
    <3>2. /\ app'[r].at = app[r].at /\ app'[r].call = app[r].call /\ app'[r].used = app[r].used
          /\ app'[r].marker = app[r].marker /\ app'[r].spawned = app[r].spawned
          /\ app'[r].ok = app[r].ok /\ app'[r].printed = app[r].printed
          /\ app'[r].exit = app[r].exit /\ app'[r].afterInstall = app[r].afterInstall
          /\ app'[r].replaced /\ app'[r].edited = app[r].edited
      BY <2>4, <1>t DEF Commands
    <3>3. PlaceInv(r)' /\ MarkerInv(r)'
      BY <2>2, <2>4, <3>2 DEF RunInv, PlaceInv, MarkerInv, MatchesPin, Early, Running
    <3>4. ReportInv(r)' /\ ValidatedInv(r)' /\ RefusedInv(r)'
      BY <2>2, <2>4, <3>2
      DEF RunInv, ReportInv, ValidatedInv, RefusedInv, StructureIsSound, ManifestIsWellFormed,
          PinIsWellFormed, NoForbiddenKeys
    <3> QED BY <3>1, <3>3, <3>4 DEF RunInv
  <2> QED BY <2>1, <2>3, <2>4
<1>2. app' \in [Runs -> Commands]
  <2>1. app' = [r \in Runs |-> app'[r]]
    BY DEF ReplacePlugin
  <2> QED BY <1>1, <2>1
<1>3. changes' \in 0 .. MaxChanges
  BY <1>t, ChangesAssumption DEF ReplacePlugin
<1>4. devPlugin' \in Builds /\ damage' \in Builds \cup {None}
  BY DEF ReplacePlugin, AppInv, AppTypeOK
<1> QED BY <1>1, <1>2, <1>3, <1>4 DEF AppInv, AppTypeOK, ReplacePlugin

\* Every step keeps the invariant of the commands.
LEMMA StepApp == InstallInv /\ AppInv /\ [AppNext]_allVars => AppInv'
<1> SUFFICES ASSUME InstallInv, AppInv, [AppNext]_allVars PROVE AppInv'
  OBVIOUS
<1>c. installed # None => installed' = installed
  BY AppStepInstalls, CacheStep
<1>1. CASE UNCHANGED appVars
  <2>1. \A r \in Runs : RunInv(r)'
    BY <1>1, <1>c, Undisturbed DEF appVars
  <2> QED BY <1>1, <2>1 DEF appVars, AppInv, AppTypeOK
<1>2. ASSUME NEW r \in Runs, Command(r) PROVE AppInv'
  <2>t. app \in [Runs -> Commands] /\ RunInv(r)
    BY DEF AppInv, AppTypeOK
  <2>1. app'[r] \in Commands /\ RunInv(r)'
    BY <1>2, FirstSteps, HashSteps, RunSteps DEF Command
  <2>2. /\ app' = [app EXCEPT ![r] = app'[r]]
        /\ UNCHANGED <<vars, files, devPlugin, damage, changes>>
        /\ markerFile' # markerFile => app[r].at = "mark" /\ markerFile' = app[r].marker
    BY <1>2, CommandFrame
  <2>3. markerFile' # markerFile => markerFile' \in Markers /\ markerFile' # None
    <3>1. app[r].at = "mark" => app[r].marker # None
      BY <2>t DEF RunInv, MarkerInv, PlaceInv
    <3>2. app[r].marker \in Markers \cup {None}
      BY <2>t DEF Commands
    <3> QED BY <3>1, <3>2, <2>2
  <2>4. ASSUME NEW q \in Runs, q # r PROVE RunInv(q)'
    <3>1. app'[q] = app[q]
      BY <2>2, <2>4, <2>t
    <3> QED BY <3>1, <2>2, <2>3, <1>c, Undisturbed
  <2>5. app' \in [Runs -> Commands]
    BY <2>1, <2>2, <2>t
  <2>6. AppTypeOK'
    BY <2>2, <2>3, <2>5 DEF AppInv, AppTypeOK
  <2> QED BY <2>1, <2>4, <2>6 DEF AppInv
<1> QED BY <1>1, <1>2, EditStep, ReplaceStep DEF AppNext, allVars

\* Both invariants hold in every reachable state.
LEMMA AppHolds == AppSpec => [](InstallInv /\ AppInv)
BY InitApp, StepApp, AppInstallHolds, PTL DEF AppSpec

(* The exit code and the envelope of a run can be believed, whatever is edited,
   rebuilt, replaced and installed while it runs, as far as ReportIsTrue says: an
   envelope names the bytes that ran unless the binary was replaced after it was
   hashed, and an `app run` that exits with 0 may have lost its envelope. *)
THEOREM ReportsAreTrue == AppSpec => []ReportIsTrue
<1>0. InstallInv => TypeOK
  BY DEF InstallInv, InstalledIsWhole
<1>1. InstallInv /\ AppInv => ReportIsTrue
  <2> SUFFICES ASSUME AppInv, NEW r \in Runs
               PROVE  /\ app[r].exit = "0" /\ app[r].call # "validate" =>
                           /\ app[r].ok /\ app[r].spawned # None
                           /\ app[r].call = "plain" => app[r].printed.written
                           /\ app[r].printed.ok = app[r].printed.written
                      /\ app[r].printed.ok =>
                           LET marker == app[r].printed.marker IN
                           /\ app[r].exit = "0"
                           /\ app[r].call = "plain" <=> marker = None
                           /\ marker # None =>
                                /\ app[r].spawned = marker.build \/ app[r].replaced
                                /\ marker.mode = "unpinned" <=> app[r].call = "override"
                                /\ marker.mode = "pinned" =>
                                     /\ installed # None
                                     /\ marker.build = installed.binaries
                                     /\ installed.manifest = app[r].used.pin.release
                                /\ markerFile # None
    BY <1>0 DEF ReportIsTrue, AppInv
  <2>1. PlaceInv(r) /\ MarkerInv(r) /\ ReportInv(r)
    BY DEF AppInv, RunInv
  <2>2. app[r].exit = "0" /\ app[r].call # "validate" =>
           /\ app[r].ok /\ app[r].spawned # None
           /\ app[r].call = "plain" => app[r].printed.written
           /\ app[r].printed.ok = app[r].printed.written
    BY <2>1 DEF ReportInv
  <2>3. ASSUME app[r].printed.ok
        PROVE  /\ app[r].exit = "0" /\ app[r].spawned # None
               /\ app[r].printed.marker = app[r].marker
               /\ app[r].call = "plain" <=> app[r].marker = None
               /\ app[r].marker # None => markerFile # None
    BY <2>1, <2>3 DEF ReportInv
  <2> QED BY <2>1, <2>2, <2>3 DEF MarkerInv, MatchesPin
<1> QED BY <1>1, AppHolds, PTL

(* The files a run uses would have passed validation unless they were edited in
   between; what a pinned run depends on was checked on the copies it uses. *)
THEOREM UsedFilesWereValidated == AppSpec => []UsedWasValidated
<1>1. InstallInv /\ AppInv => UsedWasValidated
  <2> SUFFICES ASSUME AppInv, NEW r \in Runs
               PROVE  /\ app[r].used # None /\ ~app[r].edited =>
                            /\ StructureIsSound(app[r].used)
                            /\ {app[r].used.manifest.form, app[r].used.pin.form}
                                  \subseteq {"sound", "fields"}
                      /\ app[r].marker # None /\ app[r].marker.mode = "pinned" =>
                            app[r].used.manifest.form # "protocol" /\ app[r].used.pin.form # "fields"
    BY DEF UsedWasValidated
  <2>1. MarkerInv(r) /\ ValidatedInv(r)
    BY DEF AppInv, RunInv
  <2>2. app[r].used # None =>
          app[r].used.manifest.form \in ManifestForms /\ app[r].used.pin.form \in PinForms
    BY DEF AppInv, AppTypeOK, Commands, Files, Manifests, Pins
  <2> QED
    BY <2>1, <2>2
    DEF MarkerInv, ValidatedInv, MatchesPin, StructureIsSound, ManifestIsWellFormed,
        PinIsWellFormed, NoForbiddenKeys, ManifestForms, PinForms
<1> QED BY <1>1, AppHolds, PTL

\* Installers and runs are not refused for nothing.
THEOREM AppRefusalsHaveReasons == AppSpec => []AppRefusalHasAReason
<1>1. InstallInv /\ AppInv => RunRefusalHasAReason
  BY DEF AppInv, RunInv, RefusedInv, RunRefusalHasAReason
<1>2. RefusalHasAReason /\ RunRefusalHasAReason => AppRefusalHasAReason
  BY DEF AppRefusalHasAReason
<1> QED BY <1>1, <1>2, AppHolds, AppInstalls, RefusalsHaveReasons, PTL

=============================================================================
