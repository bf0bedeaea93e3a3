\* One run against a plugin that does anything with up to three writes.
SPECIFICATION FairSpec
CONSTANTS
    None = None
    MaxTokens = 3
CHECK_DEADLOCK FALSE
INVARIANTS
    OkIsEarned
    PluginIsAccountedFor
    SidecarAgrees
PROPERTIES
    FirstCauseStays
    RunEnds
