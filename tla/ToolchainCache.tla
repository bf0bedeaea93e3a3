--------------------------- MODULE ToolchainCache ---------------------------
(***************************************************************************)
(* What the cache directory of one toolchain promises whoever runs from    *)
(* it: it appears at once and whole, and stays as it is ("Atomically       *)
(* install", "immutable", install.rs).                                     *)
(***************************************************************************)
CONSTANTS Builds, None

VARIABLE content

Whole == [manifest : Builds, binaries : Builds]

Init == content = None

\* The one change there ever is: a tree whose binaries fit its manifest.
Install(tree) ==
    /\ content = None
    /\ tree.binaries = tree.manifest
    /\ content' = tree

Next == \E tree \in Whole : Install(tree)

Spec == Init /\ [][Next]_content

=============================================================================
