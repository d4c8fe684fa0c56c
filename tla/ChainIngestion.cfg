SPECIFICATION FairSpec
CONSTANTS
    Chains = {c1, c2}
    Configured = {c1}
    Admin = admin
    Top <- MCTop
    c1 = c1
    c2 = c2
    MaxBlocks = 2
    Batch = 1
    Slots = {1, 2}
    MaxNotices = 2
    MaxFaults = 1
    MaxTimeouts = 1
    MaxRewinds = 1
    MaxTroubles = 2
INVARIANTS RawComplete 
PROPERTIES RestMeansDerived 
CHECK_DEADLOCK FALSE
