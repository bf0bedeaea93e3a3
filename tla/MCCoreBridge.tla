---------------------------- MODULE MCCoreBridge ----------------------------
(* CoreBridge with two bridges and one project. *)
EXTENDS CoreBridge, TLC
CONSTANTS d1, w1, w2

\* A full registration, one that delivers elsewhere, one without destinations in
\* another workspace, and one that grants nothing but reading.
MCRegistrations ==
    { [grants |-> Grants, workspace |-> w1, targets |-> {d1}],
      [grants |-> Grants \ {"select_active_work"}, workspace |-> w1, targets |-> {}],
      [grants |-> Grants, workspace |-> w2, targets |-> {}],
      [grants |-> {"read_context"}, workspace |-> w2, targets |-> {d1}] }

=============================================================================
