\* A guest pays through Stripe: the details in Redis expire, the deferred close
\* deletes the row, a late Stripe save puts it back, a task is delivered again.
\* Or a renewal is paid from the balance and marked as paid by the administrator,
\* whose task is visible before his transaction commits: two workers may
\* activate the order at once; the server may restart once.  Or the
\* administrator makes an order of a type that nothing is delivered for.
SPECIFICATION Spec
CONSTANTS
    None = None
    Request = {r1}
    Worker = {w1, w2}
    RequestJobs = {"notify", "checkout", "admin"}
    Kinds = {"guest", "renewal", "unknown"}
    Methods = {"stripe", "balance"}
    PaysCommission = TRUE
    HasCoupon = TRUE
    CloseTries = 1
    MaxNotify = 1
    MaxDebit = 1
    MaxAdmin = 1
    MaxAbort = 0
    MaxRedeliver = 1
    MaxRestart = 1
CONSTRAINT Story
SYMMETRY GoroutineSymmetry
CHECK_DEADLOCK FALSE
INVARIANTS
    TypeOK
    FinishedIsGranted
    EffectsAttributed
    CopiesHonest
