\* Fair goroutines and workers: a guest order or a recharge is
\* resolved although one attempt of the deferred close fails, and the queue of
\* activations drains.
SPECIFICATION FairSpec
CONSTANTS
    None = None
    Request = {r1}
    Worker = {w1}
    RequestJobs = {"notify", "checkout"}
    Kinds = {"guest", "recharge"}
    Methods = {"epay"}
    PaysCommission = TRUE
    HasCoupon = TRUE
    CloseTries = 2
    MaxNotify = 2
    MaxDebit = 0
    MaxAdmin = 0
    MaxAbort = 1
    MaxRedeliver = 0
    MaxRestart = 0
CHECK_DEADLOCK FALSE
PROPERTIES
    PendingResolved
    TasksDrain
