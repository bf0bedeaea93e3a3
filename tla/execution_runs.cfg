\* Two run identities, three policies, approvals that change meanwhile.
SPECIFICATION FairSpec
CONSTANTS
    None = None
    Runs = {r1, r2}
    ContextRead = "read"
    WorkspaceWrite = "write"
    Capabilities = {"read", "write", "production", "Ill formed"}
    IllFormed = {"Ill formed"}
    Approvable = {"write", "Ill formed"}
    Policies <- MCPolicies
INVARIANTS
    SandboxIsAuthorized
    SuccessIsCodexs
PROPERTIES
    RequestsAreAnswered
