------------------------------ MODULE MCAppRun ------------------------------
(***************************************************************************)
(* AppRun with interchangeable installers, runs and builds.  The initial   *)
(* state chooses one of two instances, so that one run of TLC has both:    *)
(* installers that race, with commands that have already failed; or        *)
(* commands beside one installer that is about to promote what it staged,  *)
(* with other installers that have already failed and no fault left.       *)
(***************************************************************************)
EXTENDS AppRun, TLC

Symmetry == Permutations(Installers) \cup Permutations(Builds) \cup Permutations(Runs)

InstallersRace ==
    /\ Init
    /\ AppInitOf("failed")
    /\ files.manifest.plugin = None /\ devPlugin = files.pin.release
    /\ changes = MaxChanges

OneInstaller(i, b) ==
    /\ bundle = [j \in Installers |-> [manifest |-> b, binaries |-> b]]
    /\ installed = None
    /\ lock = i
    /\ pc = [j \in Installers |-> IF j = i THEN "promote" ELSE "failed"]
    /\ manifest = [j \in Installers |-> IF j = i THEN b ELSE None]
    /\ staging = [j \in Installers |-> IF j = i THEN [manifest |-> b, binaries |-> b] ELSE None]
    /\ crashes = MaxCrashes
    /\ rebuilds = MaxRebuilds
    /\ AppInitOf("idle") /\ devPlugin # files.pin.release
    /\ changes = 0

MCInit ==
    \/ InstallersRace
    \/ \E i \in Installers, b \in Builds : OneInstaller(i, b)

MCSpec == MCInit /\ [][AppNext]_allVars

=============================================================================
