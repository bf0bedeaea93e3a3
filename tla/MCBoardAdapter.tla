--------------------------- MODULE MCBoardAdapter ---------------------------
(* BoardAdapter on two work items, without symmetry, for the run checks
   liveness too. *)
EXTENDS BoardAdapter

=============================================================================
