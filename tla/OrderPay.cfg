\* A subscription paid through Stripe: checkouts whose save may come late, a
\* notification, closes by request and by the deferred task, activation; two
\* requests race with one worker, nothing fails.
SPECIFICATION Spec
CONSTANTS
    None = None
    Request = {r1, r2}
    Worker = {w1}
    RequestJobs = {"notify", "checkout", "close"}
    Kinds = {"subscribe"}
    Methods = {"stripe"}
    PaysCommission = FALSE
    HasCoupon = FALSE
    CloseTries = 1
    MaxNotify = 1
    MaxDebit = 0
    MaxAdmin = 0
    MaxAbort = 0
    MaxRedeliver = 0
    MaxRestart = 0
SYMMETRY GoroutineSymmetry
CHECK_DEADLOCK FALSE
INVARIANTS
    GrantNeedsPayment
    LostPaymentHasCause
