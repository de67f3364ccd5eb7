\* The close decides on a copy of the row and writes whatever the row is then.
SPECIFICATION Spec
CONSTANTS
    None = None
    Request = {r1}
    Worker = {w1}
    RequestJobs = {"notify", "checkout"}
    Kinds = {"subscribe", "guest"}
    Methods = {"epay"}
    PaysCommission = TRUE
    HasCoupon = TRUE
    CloseTries = 1
    MaxNotify = 1
    MaxDebit = 0
    MaxAdmin = 0
    MaxAbort = 0
    MaxRedeliver = 0
    MaxRestart = 0
SYMMETRY GoroutineSymmetry
CHECK_DEADLOCK FALSE
PROPERTIES
    CloseOnlyPending
