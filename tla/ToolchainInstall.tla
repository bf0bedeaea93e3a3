-------------------------- MODULE ToolchainInstall --------------------------
(***************************************************************************)
(* Installers of one toolchain (agentmesh-app, install.rs): processes that *)
(* copy a release bundle into the directory cache/<tag>/<target>, which is *)
(* written once.  A lock file keeps installers apart, a staging directory  *)
(* and a rename keep a half-copied toolchain out of sight.  A step is one  *)
(* access to the file system; a bundle may be rebuilt between any two.     *)
(*                                                                         *)
(* A file is told apart by the build it comes from; the hashes of a        *)
(* manifest fit the binaries of the same build.                            *)
(***************************************************************************)
EXTENDS Naturals

CONSTANTS
    Installers,     \* installer processes, each with a bundle directory of its own
    Builds,         \* what a manifest or the binaries of a bundle can be
    None,
    MaxCrashes,     \* bound on killed installers
    MaxRebuilds     \* bound on files of a bundle that are replaced

ASSUME BoundsAssumption == MaxCrashes \in Nat /\ MaxRebuilds \in Nat

VARIABLES
    bundle,         \* the bundle directory of each installer
    installed,      \* cache/<tag>/<target>
    lock,           \* the lock file: the installer that created it
    pc, manifest,   \* each installer, and the manifest it has read
    staging,        \* the staging directory of each installer
    \* history
    crashes, rebuilds

vars == <<bundle, installed, lock, pc, manifest, staging, crashes, rebuilds>>

Trees == [manifest : Builds, binaries : Builds \cup {None}]
ASSUME NoneAssumption == None \notin Builds \cup Installers \cup Trees
Locked == {"relook", "stage", "copy", "check_staged", "promote", "report"}
Ended == {"done", "refused", "failed", "crashed"}

TypeOK ==
    /\ bundle \in [Installers -> [manifest : Builds, binaries : Builds]]
    /\ installed \in Trees \cup {None}
    /\ lock \in Installers \cup {None}
    /\ pc \in [Installers -> {"read", "check", "look", "lock"} \cup Locked \cup Ended]
    /\ manifest \in [Installers -> Builds \cup {None}]
    /\ staging \in [Installers -> Trees \cup {None}]
    /\ crashes \in 0 .. MaxCrashes
    /\ rebuilds \in 0 .. MaxRebuilds
    \* who works on the cache holds the lock, and only a kill leaves one behind
    /\ \A i \in Installers : pc[i] \in Locked => lock = i
    /\ lock # None => pc[lock] \in Locked \cup {"crashed"}

Init ==
    /\ bundle \in [Installers -> {[manifest |-> b, binaries |-> b] : b \in Builds}]
    /\ installed = None
    /\ lock = None
    /\ pc = [i \in Installers |-> "read"]
    /\ manifest = [i \in Installers |-> None]
    /\ staging = [i \in Installers |-> None]
    /\ crashes = 0
    /\ rebuilds = 0

-----------------------------------------------------------------------------

GoTo(i, place) == pc' = [pc EXCEPT ![i] = place]

\* Dropping the InstallLock removes the file on every return.
Return(i, place) == GoTo(i, place) /\ lock' = None

ReadManifest(i) ==
    /\ pc[i] = "read"
    /\ manifest' = [manifest EXCEPT ![i] = bundle[i].manifest]
    /\ GoTo(i, "check")
    /\ UNCHANGED <<bundle, installed, lock, staging, crashes, rebuilds>>

CheckBundle(i) ==
    /\ pc[i] = "check"
    /\ GoTo(i, IF bundle[i].binaries = manifest[i] THEN "look" ELSE "failed")
    /\ UNCHANGED <<bundle, installed, lock, manifest, staging, crashes, rebuilds>>

\* Faulty variant: what is there gives way.
GivesWay == TRUE
(* The directory does not exist: looked at twice, and the rename of a directory
   fails when its target has content. *)
IsFree == installed = None

LookForInstalled(i) ==
    /\ pc[i] = "look"
    /\ GoTo(i, IF IsFree THEN "lock" ELSE "refused")
    /\ UNCHANGED <<bundle, installed, lock, manifest, staging, crashes, rebuilds>>

\* Faulty variant: the lock file is opened without being created.
LockMustExist == lock # None
\* create_new fails when the file exists.
LockIsFree == lock = None

AcquireLock(i) ==
    /\ pc[i] = "lock"
    /\ IF LockIsFree
       THEN lock' = i /\ GoTo(i, "relook")
       ELSE GoTo(i, "refused") /\ UNCHANGED lock
    /\ UNCHANGED <<bundle, installed, manifest, staging, crashes, rebuilds>>

LookAgain(i) ==
    /\ pc[i] = "relook"
    /\ IF IsFree THEN GoTo(i, "stage") /\ UNCHANGED lock ELSE Return(i, "refused")
    /\ UNCHANGED <<bundle, installed, manifest, staging, crashes, rebuilds>>

\* A fresh staging directory with the manifest that was read at the start.
Stage(i) ==
    /\ pc[i] = "stage"
    /\ staging' = [staging EXCEPT ![i] = [manifest |-> manifest[i], binaries |-> None]]
    /\ GoTo(i, "copy")
    /\ UNCHANGED <<bundle, installed, lock, manifest, crashes, rebuilds>>

CopyBinaries(i) ==
    /\ pc[i] = "copy"
    /\ staging' = [staging EXCEPT ![i].binaries = bundle[i].binaries]
    /\ GoTo(i, "check_staged")
    /\ UNCHANGED <<bundle, installed, lock, manifest, crashes, rebuilds>>

Fits(tree) == tree.binaries = tree.manifest

CheckStaged(i) ==
    /\ pc[i] = "check_staged"
    /\ IF Fits(staging[i]) THEN GoTo(i, "promote") /\ UNCHANGED lock ELSE Return(i, "failed")
    /\ UNCHANGED <<bundle, installed, manifest, staging, crashes, rebuilds>>

Promote(i) ==
    /\ pc[i] = "promote"
    /\ staging' = [staging EXCEPT ![i] = None]
    /\ IF IsFree
       THEN installed' = staging[i] /\ GoTo(i, "report") /\ UNCHANGED lock
       ELSE Return(i, "failed") /\ UNCHANGED installed
    /\ UNCHANGED <<bundle, manifest, crashes, rebuilds>>

\* The installed manifest is read back for the report.
Report(i) ==
    /\ pc[i] = "report"
    /\ Return(i, "done")
    /\ UNCHANGED <<bundle, installed, manifest, staging, crashes, rebuilds>>

\* A read, write or copy of install fails; what is staged stays behind.
FileSystemFails(i) ==
    /\ pc[i] \in {"read", "check", "stage", "copy", "check_staged", "promote", "report"}
    /\ IF pc[i] \in Locked THEN Return(i, "failed") ELSE GoTo(i, "failed") /\ UNCHANGED lock
    /\ UNCHANGED <<bundle, installed, manifest, staging, crashes, rebuilds>>

\* The process is killed: nothing is dropped, the lock file and the staging stay.
Crash(i) ==
    /\ pc[i] \notin Ended
    /\ crashes < MaxCrashes
    /\ crashes' = crashes + 1
    /\ GoTo(i, "crashed")
    /\ UNCHANGED <<bundle, installed, lock, manifest, staging, rebuilds>>

\* A build job replaces the manifest or the binaries of a bundle.
Rebuild(i) ==
    /\ rebuilds < MaxRebuilds
    /\ rebuilds' = rebuilds + 1
    /\ \E b \in Builds : \/ bundle' = [bundle EXCEPT ![i].manifest = b]
                         \/ bundle' = [bundle EXCEPT ![i].binaries = b]
    /\ UNCHANGED <<installed, lock, pc, manifest, staging, crashes>>

Install(i) ==
    \/ ReadManifest(i) \/ CheckBundle(i) \/ LookForInstalled(i) \/ AcquireLock(i)
    \/ LookAgain(i) \/ Stage(i) \/ CopyBinaries(i) \/ CheckStaged(i) \/ Promote(i) \/ Report(i)
    \/ FileSystemFails(i)

Next == \E i \in Installers : Install(i) \/ Crash(i) \/ Rebuild(i)

Spec == Init /\ [][Next]_vars

-----------------------------------------------------------------------------
(* Properties *)

(* What is installed is whole and fits its manifest, from the first moment it
   can be seen, although the bundle is rebuilt and installers are killed while
   it is copied. *)
InstalledIsWhole ==
    /\ TypeOK
    /\ installed # None => installed.binaries = installed.manifest

(* An installed toolchain is never replaced ("immutable directory",
   install.rs). *)
InstalledIsImmutable == [][installed # None => installed' = installed]_installed

(* Installers do not refuse each other for nothing: when all of them have ended
   and one was refused, the toolchain is there or one of them failed or was killed. *)
RefusalHasAReason ==
    (\A i \in Installers : pc[i] \in Ended) /\ (\E i \in Installers : pc[i] = "refused") =>
        \/ installed # None
        \/ \E i \in Installers : pc[i] \in {"failed", "crashed"}

=============================================================================
