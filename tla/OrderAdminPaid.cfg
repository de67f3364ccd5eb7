\* The activation the administrator asked for runs before his transaction
\* commits.
SPECIFICATION Spec
CONSTANTS
    None = None
    Request = {r1}
    Worker = {w1}
    RequestJobs = {"admin"}
    Kinds = {"subscribe"}
    Methods = {"epay"}
    PaysCommission = TRUE
    HasCoupon = TRUE
    CloseTries = 1
    MaxNotify = 0
    MaxDebit = 0
    MaxAdmin = 1
    MaxAbort = 0
    MaxRedeliver = 0
    MaxRestart = 0
SYMMETRY GoroutineSymmetry
CHECK_DEADLOCK FALSE
INVARIANTS
    AdminPaidIsActivated
