--------------------------- MODULE MCRunExecution ---------------------------
EXTENDS RunExecution

\* One policy that asks for approval of writing, one that allows a capability
\* Codex cannot enforce, one that asks for approval of what it does not allow.
MCPolicies ==
    {[allowed |-> {"read", "write"}, approval_required |-> {"write"}],
     [allowed |-> {"read", "production"}, approval_required |-> {}],
     [allowed |-> {"read"}, approval_required |-> {"write"}]}
=============================================================================
