SPECIFICATION FairSpec
CONSTANTS
    Clients = {c1, c2}
    Daemons = {d1, d2}
    SamePath = TRUE
    MaxCrashes = 1
    None = None
CHECK_DEADLOCK FALSE
INVARIANTS
    GaveUpWithReason
    IniNamesDaemon
PROPERTY
    OneDaemonLeft
