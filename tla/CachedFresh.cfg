\* Two goroutines read, save and delete a subscription or a device, with and
\* without a transaction; two updates and one failed call.
SPECIFICATION FairSpec
CONSTANTS
    None = None
    Proc = {p1, p2}
    Alias = {a1, a2}
    FirstAlias = a1
    Tables = {"subscribe", "device"}
    MaxUpdates = 2
    MaxFailed = 1
INVARIANTS
    FreshAfterWrite
PROPERTIES
    ImplementsRegister
    EventuallyFresh
