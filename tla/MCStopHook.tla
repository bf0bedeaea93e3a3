----------------------------- MODULE MCStopHook -----------------------------
(* StopHook with registrations that differ in workspace, grant and targets. *)
EXTENDS StopHook
CONSTANTS d1

Reg(workspace, writes, targets) ==
    [workspace |-> workspace, writes |-> writes, targets |-> targets]

\* The outer and the inner directory, one of them with another delivery set,
\* and a logical workspace of a project that may not write.
MCRegistrations == {Reg(1, TRUE, {d1}), Reg(2, TRUE, {}), Reg(0, FALSE, {d1})}
OneRegistration == {Reg(1, TRUE, {d1})}

=============================================================================
