-------------------------- MODULE MCCheckpointPages --------------------------
(* CheckpointPages on a ledger of four rows, two of them of version 1. *)
EXTENDS CheckpointPages

=============================================================================
