\* The deferred close of an order that uses a gift fails in every delivery.
SPECIFICATION FairSpec
CONSTANTS
    None = None
    Request = {r1}
    Worker = {w1}
    RequestJobs = {"notify", "checkout"}
    Kinds = {"subscribe"}
    Methods = {"epay"}
    PaysCommission = TRUE
    HasCoupon = TRUE
    CloseTries = 4
    MaxNotify = 1
    MaxDebit = 0
    MaxAdmin = 0
    MaxAbort = 0
    MaxRedeliver = 0
    MaxRestart = 0
CHECK_DEADLOCK FALSE
PROPERTIES
    GiftReturned
