\* Three connections of two devices, each under a limit of one or none, one kick.
SPECIFICATION MCFairSpec
CONSTANTS
    None = None
    Device = {d1, d2}
    Limits = {0, 1}
    Unlimited = 2
    MaxConn = 3
    MaxKicks = 1
INVARIANTS
    TypeOK
    WithinLimit
PROPERTIES
    ClosedForReason
    DroppedIsClosed
    DeadLeaves
CHECK_DEADLOCK FALSE
