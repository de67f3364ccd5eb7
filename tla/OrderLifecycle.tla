--------------------------- MODULE OrderLifecycle ---------------------------
(***************************************************************************)
(* One order of ppanel-server, from the moment it is inserted until        *)
(* nothing refers to it any more.                                          *)
(*                                                                         *)
(* The order is a row of the MySQL table `order` read through two Redis    *)
(* keys (by order number and by id).  HTTP requests (checkout, gateway     *)
(* notification, manual close, administrator) and asynq workers (deferred  *)
(* close, activation) work on it concurrently; every access to MySQL or    *)
(* Redis is a step of its own, so a value read by one goroutine may be     *)
(* stale when it is used.  Orders share no state with each other here: the *)
(* user's balance, coupons and subscriptions are other modules' concern,   *)
(* and appear as counters of what was done for THIS order.                 *)
(***************************************************************************)
EXTENDS Naturals, FiniteSets

CONSTANTS
    Request,      \* goroutines that serve HTTP requests
    Worker,       \* goroutines of the asynq server
    RequestJobs,  \* the HTTP handlers that may be called
    Kinds,        \* the kinds of order that may be placed
    Methods,      \* the payment methods that may be chosen
    PaysCommission, \* the user has a referer the configuration pays
    HasCoupon,    \* the order was placed with a coupon
    CloseTries,   \* deliveries of the deferred close: one and MaxRetry(3)
    MaxNotify,    \* bound: notifications a gateway delivers
    MaxDebit,     \* bound: debits of the balance for this order
    MaxAdmin,     \* bound: requests of the administrator
    MaxAbort,     \* bound: calls that fail and end their handler
    MaxRedeliver, \* bound: activation tasks delivered once more
    MaxRestart,   \* bound: restarts of the server
    None          \* no row, no cached value, no goroutine

AllRequestJobs == {"notify", "checkout", "close", "admin"}
\* "unknown" is any type the activation has no case for.
AllKinds       == {"guest", "subscribe", "renewal", "reset", "recharge", "unknown"}
AllMethods     == {"epay", "stripe", "balance"}

Pending  == 1
Paid     == 2
Closed   == 3
Finished == 5
Status   == 1..5

Proc == Request \cup Worker
Key  == {"no", "id"}
Row  == [status: Status, guest: BOOLEAN]
RowOrNone == Row \cup {None}
OrderInfo == [kind: AllKinds, method: AllMethods, gift: BOOLEAN]

ASSUME ParamAssumption ==
    /\ Request \cap Worker = {}
    /\ RequestJobs \subseteq AllRequestJobs
    /\ Kinds \subseteq AllKinds
    /\ Methods \subseteq AllMethods
    /\ PaysCommission \in BOOLEAN /\ HasCoupon \in BOOLEAN
    /\ CloseTries \in Nat \ {0}
    /\ {MaxNotify, MaxDebit, MaxAdmin, MaxAbort, MaxRedeliver, MaxRestart}
         \subseteq Nat

ASSUME NoneAssumption == None \notin Row \cup Proc \cup OrderInfo
ASSUME FiniteAssumption == IsFiniteSet(Proc)

Jobs == AllRequestJobs \cup {"none", "deferClose", "activate"}

\* Where a lookup of the order stands, and where it may return to.
Finding == {"get", "query", "fill"}
Returns == {"decide", "setStatus", "save", "txSave", "txStatus"}

\* Where a handler still needs orderInfo, its copy of the row.
Copied == {"decide", "save", "closeTx", "account", "grant", "commission",
           "coupon", "txSave", "txDelSave", "txStatus", "txDelStatus",
           "txEnqueue", "commit"}

Labels == {"idle", "setStatus", "delPaid", "enqueue", "delSave", "debit"}
            \cup Finding \cup Copied

Causes == {"staleRead", "closedPaid", "overwritten", "rowGone",
           "tempExpired", "noTarget", "unknownKind", "aborted", "closeLost",
           "restart"}

Counts == {"enqueued", "redelivered", "notified", "admin", "aborted",
           "restarted"}

VARIABLES
    row,         \* the committed row of the table `order`
    cache,       \* the two Redis keys
    lock,        \* the goroutine whose open transaction holds the row lock
    order,       \* immutable columns: kind, payment method, gift used
    tempOrder,   \* the guest's details are still in Redis
    link,        \* the customer holds a payment page of the gateway
    gatewayPaid, \* the gateway has taken the money
    debits,      \* how often the user's balance was debited
    adminSet,    \* statuses the administrator has asked for
    tasks,       \* pending activation tasks
    closeTask,   \* deliveries the deferred close has left
    granted,     \* how often the goods were delivered
    accounts,    \* accounts created for the guest
    commissions, \* commissions paid for this order
    coupons,     \* uses of the coupon counted for this order
    job, pc,     \* the handler a goroutine runs, and where it is
    ret,         \* where the running lookup returns to
    snap,        \* orderInfo, the handler's copy of the row
    got,         \* the row the last lookup returned
    count,       \* history: events counted, for the bounds and properties
    cause        \* history: how an accepted payment may have been lost

storeVars  == <<row, cache, lock>>
placeVars  == <<order, tempOrder>>
payVars    == <<link, gatewayPaid, debits, adminSet>>
queueVars  == <<tasks, closeTask>>
effectVars == <<granted, accounts, commissions, coupons>>
procVars   == <<job, pc, ret, snap, got>>
histVars   == <<count, cause>>
vars == <<storeVars, placeVars, payVars, queueVars, effectVars, procVars,
          histVars>>

Init ==
    /\ row = None /\ cache = [k \in Key |-> None] /\ lock = None
    /\ order = None /\ tempOrder = FALSE
    /\ link = FALSE /\ gatewayPaid = FALSE /\ debits = 0 /\ adminSet = {}
    /\ tasks = 0 /\ closeTask = 0
    /\ granted = 0 /\ accounts = 0 /\ commissions = 0 /\ coupons = 0
    /\ job = [p \in Proc |-> "none"] /\ pc = [p \in Proc |-> "idle"]
    /\ ret = [p \in Proc |-> "none"]
    /\ snap = [p \in Proc |-> None] /\ got = [p \in Proc |-> None]
    /\ count = [c \in Counts |-> 0] /\ cause = {}

(***************************************************************************)
(* Moves of a goroutine.                                                   *)
(***************************************************************************)
At(p, l) == pc[p] = l

Goto(p, l) ==
    /\ pc'  = [pc EXCEPT ![p] = l]
    /\ got' = [got EXCEPT ![p] = None]
    /\ UNCHANGED <<job, ret, snap>>

\* Calls FindOneByOrderNo or FindOne and goes on at label l afterwards.
Lookup(p, l) ==
    /\ pc'  = [pc EXCEPT ![p] = "get"]
    /\ ret' = [ret EXCEPT ![p] = l]
    /\ UNCHANGED <<job, got>>

\* The same, for the last time the handler reads its copy of the row.
LookupLast(p, l) == Lookup(p, l) /\ snap' = [snap EXCEPT ![p] = None]

Finish(p) ==
    /\ job'  = [job EXCEPT ![p] = "none"]
    /\ pc'   = [pc EXCEPT ![p] = "idle"]
    /\ ret'  = [ret EXCEPT ![p] = "none"]
    /\ snap' = [snap EXCEPT ![p] = None]
    /\ got'  = [got EXCEPT ![p] = None]

Count(c) == count' = [count EXCEPT ![c] = @ + 1]

\* Another transaction's row lock makes a writer wait.
Unlocked == lock = None

WithStatus(r, s) == IF r = None THEN None ELSE [r EXCEPT !.status = s]

HasStatus(r, s) == r # None /\ r.status = s

UnknownKind == order # None /\ order.kind = "unknown"

(***************************************************************************)
(* The order is placed.                                                    *)
(***************************************************************************)
\* Purchase, Renewal, ResetTraffic, Recharge and the guest Purchase: the row
\* is inserted, then the deferred close is enqueued; a failure to enqueue it
\* is only logged.
Purchase ==
    /\ order = None
    /\ \E o \in OrderInfo :
        /\ o.kind \in Kinds \ {"unknown"} /\ o.method \in Methods
        /\ o.kind = "guest" => ~o.gift /\ o.method # "balance"
        /\ o.kind = "recharge" => ~o.gift
        /\ order' = o
        /\ row' = [status |-> Pending, guest |-> o.kind = "guest"]
        /\ tempOrder' = (o.kind = "guest")
    /\ closeTask' \in {CloseTries, 0}
    /\ UNCHANGED <<cache, lock, payVars, tasks, effectVars, procVars, histVars>>

\* CreateOrder of the administrator: any type, any status, and no task at all.
AdminCreate ==
    /\ "admin" \in RequestJobs /\ order = None /\ count["admin"] < MaxAdmin
    /\ \E o \in OrderInfo, s \in Status :
        /\ o.kind \in Kinds \ {"guest"} /\ o.method \in Methods /\ ~o.gift
        /\ order' = o
        /\ row' = [status |-> s, guest |-> FALSE]
        /\ adminSet' = adminSet \cup {s}
    /\ Count("admin")
    /\ UNCHANGED <<cache, lock, tempOrder, link, gatewayPaid, debits,
                   queueVars, effectVars, procVars, cause>>

(***************************************************************************)
(* The read-through lookup, QueryCtx: GET; on a miss SELECT, then SET.     *)
(***************************************************************************)
LookupKey(p) ==
    IF ret[p] \in {"save", "txSave"} \/ (ret[p] = "decide" /\ job[p] = "admin")
    THEN "id" ELSE "no"

\* The lookup returns r: the first one of a handler is its copy orderInfo,
\* Update keeps the row whose keys it will delete, the rest drops it.
Arrive(p, r) ==
    /\ pc'   = [pc EXCEPT ![p] = ret[p]]
    /\ snap' = IF ret[p] = "decide" THEN [snap EXCEPT ![p] = r] ELSE snap
    /\ got'  = [got EXCEPT ![p] = IF ret[p] \in {"save", "txSave"} THEN r ELSE None]
    /\ ret'  = [ret EXCEPT ![p] = "none"]
    /\ UNCHANGED job

Get(p) ==
    /\ At(p, "get")
    /\ IF cache[LookupKey(p)] # None
       THEN Arrive(p, cache[LookupKey(p)])
       ELSE Goto(p, "query")
    /\ UNCHANGED <<storeVars, placeVars, payVars, queueVars, effectVars, histVars>>

Query(p) ==
    /\ At(p, "query") /\ row # None
    /\ got' = [got EXCEPT ![p] = row]
    /\ pc' = [pc EXCEPT ![p] = "fill"]
    /\ UNCHANGED <<job, ret, snap, storeVars, placeVars, payVars, queueVars,
                   effectVars, histVars>>

\* Mutant: a handler ignores that FindOneByOrderNo found nothing.
QueryMissingIgnored(p) ==
    /\ At(p, "query") /\ row = None
    /\ Arrive(p, None)
    /\ UNCHANGED <<storeVars, placeVars, payVars, queueVars, effectVars, histVars>>

\* The row is gone.  Update only looked up the keys to delete and goes on
\* without any; every other caller returns, a transaction rolls back.
QueryMissing(p) ==
    /\ At(p, "query") /\ row = None
    /\ \/ /\ ret[p] \in {"save", "txSave"}
          /\ Arrive(p, None)
          /\ UNCHANGED lock
       \/ /\ ret[p] \notin {"save", "txSave"}
          /\ Finish(p)
          /\ lock' = IF lock = p THEN None ELSE lock
    /\ closeTask' = IF job[p] = "deferClose" THEN 0 ELSE closeTask
    /\ UNCHANGED <<row, cache, placeVars, payVars, tasks, effectVars, histVars>>

Fill(p) ==
    /\ At(p, "fill")
    /\ cache' = [cache EXCEPT ![LookupKey(p)] = got[p]]
    /\ Arrive(p, got[p])
    /\ UNCHANGED <<row, lock, placeVars, payVars, queueVars, effectVars, histVars>>

\* DelCacheCtx on both keys of the order.
DelKeys(p, from, to) ==
    /\ At(p, from)
    /\ cache' = [k \in Key |-> None]
    /\ to
    /\ UNCHANGED <<row, lock, placeVars, payVars, queueVars, effectVars, histVars>>

(***************************************************************************)
(* OrderModel.UpdateOrderStatus(orderNo, 2) and the enqueueing after it,   *)
(* shared by the notifications and the payment by balance.                 *)
(***************************************************************************)
\* Mutant: the UPDATE is limited to pending rows, but the task is enqueued.
SetPaidIfPending(p) ==
    /\ At(p, "setStatus") /\ Unlocked
    /\ row' = IF HasStatus(row, Pending) THEN WithStatus(row, Paid) ELSE row
    /\ Goto(p, "delPaid")
    /\ UNCHANGED <<cache, lock, placeVars, payVars, queueVars, effectVars, histVars>>

SetPaid(p) ==
    /\ At(p, "setStatus") /\ Unlocked
    /\ row' = WithStatus(row, Paid)
    /\ cause' = IF row = None THEN cause \cup {"rowGone"} ELSE cause
    /\ Goto(p, "delPaid")
    /\ UNCHANGED <<cache, lock, placeVars, payVars, queueVars, effectVars, count>>

DelPaid(p) == DelKeys(p, "delPaid", Goto(p, "enqueue"))

Enqueue(p) ==
    /\ At(p, "enqueue")
    /\ tasks' = tasks + 1 /\ Count("enqueued")
    /\ Finish(p)
    /\ UNCHANGED <<storeVars, placeVars, payVars, closeTask, effectVars, cause>>

(***************************************************************************)
(* OrderModel.Update(orderInfo): the whole row is saved from the handler's *)
(* copy; when no row is left, Save inserts it again, and Del without keys  *)
(* is refused by Redis.                                                    *)
(***************************************************************************)
SaveRow(p) ==
    /\ At(p, "save") /\ Unlocked
    /\ row' = snap[p]
    /\ cause' = IF HasStatus(row, Paid) /\ snap[p].status = Pending
                THEN cause \cup {"overwritten"} ELSE cause
    /\ IF got[p] = None THEN Finish(p) ELSE Goto(p, "delSave")
    /\ UNCHANGED <<cache, lock, placeVars, payVars, queueVars, effectVars, count>>

\* Then a Stripe checkout answers with the client secret.
DelSaved(p) ==
    /\ At(p, "delSave")
    /\ cache' = [k \in Key |-> None]
    /\ link' = (link \/ job[p] = "checkout")
    /\ Finish(p)
    /\ UNCHANGED <<row, lock, placeVars, gatewayPaid, debits, adminSet, queueVars,
                   effectVars, histVars>>

(***************************************************************************)
(* HTTP requests.                                                          *)
(***************************************************************************)
\* Every handler starts by looking the order up.
Begin(p, j) ==
    /\ At(p, "idle")
    /\ job'  = [job EXCEPT ![p] = j]
    /\ pc'   = [pc EXCEPT ![p] = "get"]
    /\ ret'  = [ret EXCEPT ![p] = "decide"]
    /\ UNCHANGED <<snap, got, storeVars, placeVars, payVars, effectVars>>

BeginCheckout(p) ==
    /\ order # None /\ "checkout" \in RequestJobs
    /\ Begin(p, "checkout")
    /\ UNCHANGED <<queueVars, histVars>>

BeginClose(p) ==
    /\ order # None /\ "close" \in RequestJobs
    /\ Begin(p, "close")
    /\ UNCHANGED <<queueVars, histVars>>

\* Mutant: the trade status of the notification is not looked at.
BeginNotifyUnpaid(p) ==
    /\ link /\ "notify" \in RequestJobs /\ count["notified"] < MaxNotify
    /\ Begin(p, "notify") /\ Count("notified")
    /\ UNCHANGED <<queueVars, cause>>

\* A gateway repeats its notification, also after it was answered.
BeginNotify(p) ==
    /\ gatewayPaid /\ "notify" \in RequestJobs /\ count["notified"] < MaxNotify
    /\ Begin(p, "notify") /\ Count("notified")
    /\ UNCHANGED <<queueVars, cause>>

BeginAdmin(p) ==
    /\ order # None /\ "admin" \in RequestJobs /\ count["admin"] < MaxAdmin
    /\ Begin(p, "admin") /\ Count("admin")
    /\ UNCHANGED <<queueVars, cause>>

Deciding(p, j) == At(p, "decide") /\ job[p] = j

\* PurchaseCheckout.  EPay and Alipay hand out a page, Stripe saves the trade
\* number first; the balance is debited at once, never for a guest.
CheckoutRefused(p) ==
    /\ Deciding(p, "checkout")
    /\ \/ snap[p].status # Pending
       \/ order.method = "balance" /\ snap[p].guest
    /\ Finish(p)
    /\ UNCHANGED <<storeVars, placeVars, payVars, queueVars, effectVars, histVars>>

CheckoutGateway(p) ==
    /\ Deciding(p, "checkout") /\ snap[p].status = Pending
    /\ order.method # "balance"
    /\ link' = (link \/ order.method = "epay")
    /\ IF order.method = "epay" THEN Finish(p)
       ELSE Lookup(p, "save") /\ UNCHANGED snap
    /\ UNCHANGED <<storeVars, placeVars, gatewayPaid, debits, adminSet,
                   queueVars, effectVars, histVars>>

CheckoutBalance(p) ==
    /\ Deciding(p, "checkout") /\ snap[p].status = Pending
    /\ order.method = "balance" /\ ~snap[p].guest
    /\ Goto(p, "debit")
    /\ UNCHANGED <<storeVars, placeVars, payVars, queueVars, effectVars, histVars>>

\* balancePayment: the debit is saved outside the transaction it is written
\* in, so it stays when the rest fails.
Debit(p) ==
    /\ At(p, "debit") /\ debits < MaxDebit
    /\ debits' = debits + 1
    /\ LookupLast(p, "setStatus")
    /\ UNCHANGED <<storeVars, placeVars, link, gatewayPaid, adminSet,
                   queueVars, effectVars, histVars>>

\* Mutant: a balance that does not suffice does not end the payment.
InsufficientIgnored(p) ==
    /\ At(p, "debit")
    /\ LookupLast(p, "setStatus")
    /\ UNCHANGED <<storeVars, placeVars, payVars, queueVars, effectVars, histVars>>

InsufficientBalance(p) ==
    /\ At(p, "debit")
    /\ Finish(p)
    /\ UNCHANGED <<storeVars, placeVars, payVars, queueVars, effectVars, histVars>>

\* The customer pays on the gateway's page, however old it is.
GatewayPay ==
    /\ link /\ ~gatewayPaid
    /\ gatewayPaid' = TRUE
    /\ UNCHANGED <<storeVars, placeVars, link, debits, adminSet, queueVars,
                   effectVars, procVars, histVars>>

\* EPayNotify, AlipayNotify, StripeNotify: only a finished order is skipped.
NotifySkip(p) ==
    /\ Deciding(p, "notify") /\ snap[p].status = Finished
    /\ Finish(p)
    /\ UNCHANGED <<storeVars, placeVars, payVars, queueVars, effectVars, histVars>>

NotifyAccept(p) ==
    /\ Deciding(p, "notify") /\ snap[p].status # Finished
    /\ LookupLast(p, "setStatus")
    /\ UNCHANGED <<storeVars, placeVars, payVars, queueVars, effectVars, histVars>>

(***************************************************************************)
(* CloseOrder, by request and as the deferred task.                        *)
(***************************************************************************)
Closing(p) == job[p] \in {"close", "deferClose"}

\* asynq delivers a task to one worker at a time.
BeginDeferClose(p) ==
    /\ closeTask > 0 /\ \A q \in Worker : job[q] # "deferClose"
    /\ Begin(p, "deferClose")
    /\ closeTask' = closeTask - 1
    /\ UNCHANGED <<tasks, histVars>>

\* The task is acknowledged: no delivery is left.
AckClose(p) == closeTask' = IF job[p] = "deferClose" THEN 0 ELSE closeTask

CloseSkip(p) ==
    /\ At(p, "decide") /\ Closing(p) /\ snap[p].status # Pending
    /\ Finish(p) /\ AckClose(p)
    /\ UNCHANGED <<storeVars, placeVars, payVars, tasks, effectVars, histVars>>

CloseStart(p) ==
    /\ At(p, "decide") /\ Closing(p) /\ snap[p].status = Pending
    /\ Goto(p, "closeTx")
    /\ UNCHANGED <<storeVars, placeVars, payVars, queueVars, effectVars, histVars>>

\* The transaction commits.  Its UPDATE does not look at the status again,
\* a guest's row is deleted, and the cached copies stay.
CloseCommit(p) ==
    /\ At(p, "closeTx") /\ Unlocked
    /\ snap[p].guest \/ ~order.gift
    /\ row' = IF snap[p].guest THEN None ELSE WithStatus(row, Closed)
    /\ cause' = IF HasStatus(row, Paid) THEN cause \cup {"closedPaid"} ELSE cause
    /\ Finish(p) /\ AckClose(p)
    /\ UNCHANGED <<cache, lock, placeVars, payVars, tasks, effectVars, count>>

\* The gift is written to a column `deduction` the table does not have: the
\* transaction rolls back, and asynq retries while deliveries are left.
CloseGiftFails(p) ==
    /\ At(p, "closeTx") /\ Unlocked
    /\ ~snap[p].guest /\ order.gift
    /\ Finish(p)
    /\ UNCHANGED <<storeVars, placeVars, payVars, queueVars, effectVars, histVars>>

(***************************************************************************)
(* The activation task.                                                    *)
(***************************************************************************)
BeginActivate(p) ==
    /\ tasks > 0
    /\ Begin(p, "activate")
    /\ tasks' = tasks - 1
    /\ UNCHANGED <<closeTask, histVars>>

\* Mutant: the dropped task is reported as failed, and asynq retries it.
ActivateDropRetried(p) ==
    /\ Deciding(p, "activate") /\ snap[p].status # Paid
    /\ Finish(p)
    /\ tasks' = tasks + 1
    /\ UNCHANGED <<storeVars, placeVars, payVars, closeTask, effectVars, histVars>>

\* A status other than 2 drops the task.
ActivateDrop(p) ==
    /\ Deciding(p, "activate") /\ snap[p].status # Paid
    /\ Finish(p)
    /\ cause' = IF HasStatus(row, Paid) THEN cause \cup {"staleRead"} ELSE cause
    /\ UNCHANGED <<storeVars, placeVars, payVars, queueVars, effectVars, count>>

\* Mutant: the commission is paid before the goods are delivered.
ActivateStartCommission(p) ==
    /\ Deciding(p, "activate") /\ snap[p].status = Paid
    /\ Goto(p, IF snap[p].guest THEN "account" ELSE "commission")
    /\ UNCHANGED <<storeVars, placeVars, payVars, queueVars, effectVars, histVars>>

ActivateStart(p) ==
    /\ Deciding(p, "activate") /\ snap[p].status = Paid /\ ~UnknownKind
    /\ Goto(p, IF snap[p].guest THEN "account" ELSE "grant")
    /\ UNCHANGED <<storeVars, placeVars, payVars, queueVars, effectVars, histVars>>

\* An order of a type without a case is logged, and no error is set: its coupon
\* is counted and it is finished like any other, with nothing delivered.
ActivateUnknown(p) ==
    /\ Deciding(p, "activate") /\ snap[p].status = Paid /\ UnknownKind
    /\ Goto(p, "coupon")
    /\ cause' = cause \cup {"unknownKind"}
    /\ UNCHANGED <<storeVars, placeVars, payVars, queueVars, effectVars, count>>

\* NewPurchase of a guest: without the details in Redis the task fails, and
\* a failed task is acknowledged.
AccountExpired(p) ==
    /\ At(p, "account") /\ ~tempOrder
    /\ Finish(p)
    /\ cause' = cause \cup {"tempExpired"}
    /\ UNCHANGED <<storeVars, placeVars, payVars, queueVars, effectVars, count>>

CreateAccount(p) ==
    /\ At(p, "account") /\ tempOrder /\ Unlocked
    /\ accounts' = accounts + 1
    /\ row' = IF row = None THEN None ELSE [row EXCEPT !.guest = FALSE]
    /\ snap' = [snap EXCEPT ![p].guest = FALSE]
    /\ pc' = [pc EXCEPT ![p] = "grant"]
    /\ UNCHANGED <<job, ret, got, cache, lock, placeVars, payVars, queueVars,
                   granted, commissions, coupons, histVars>>

IsPurchase == order.kind \in {"guest", "subscribe"}

\* Mutant: the missing target is only logged.
TargetGoneLogged(p) ==
    /\ At(p, "grant")
    /\ Goto(p, "coupon")
    /\ UNCHANGED <<storeVars, placeVars, payVars, queueVars, effectVars, histVars>>

\* The user, the plan or the subscription to renew is gone.
TargetGone(p) ==
    /\ At(p, "grant")
    /\ Finish(p)
    /\ cause' = cause \cup {"noTarget"}
    /\ UNCHANGED <<storeVars, placeVars, payVars, queueVars, effectVars, count>>

\* The token of a new subscription is derived from the order number and
\* unique: a second insert for the order fails.
DuplicateToken(p) ==
    /\ At(p, "grant") /\ IsPurchase /\ granted > 0
    /\ Finish(p)
    /\ UNCHANGED <<storeVars, placeVars, payVars, queueVars, effectVars, histVars>>

\* Mutant: the token of a new subscription is drawn at random.
GrantRandomToken(p) ==
    /\ At(p, "grant")
    /\ granted' = granted + 1
    /\ Goto(p, IF IsPurchase \/ order.kind = "renewal" THEN "commission" ELSE "coupon")
    /\ UNCHANGED <<storeVars, placeVars, payVars, queueVars, accounts,
                   commissions, coupons, histVars>>

Grant(p) ==
    /\ At(p, "grant") /\ (IsPurchase => granted = 0)
    /\ granted' = granted + 1
    /\ Goto(p, IF IsPurchase \/ order.kind = "renewal" THEN "commission" ELSE "coupon")
    /\ UNCHANGED <<storeVars, placeVars, payVars, queueVars, accounts,
                   commissions, coupons, histVars>>

\* A commission or a coupon use that cannot be saved is only logged.
Commission(p) ==
    /\ At(p, "commission")
    /\ commissions' \in {commissions, IF PaysCommission THEN commissions + 1
                                     ELSE commissions}
    /\ Goto(p, "coupon")
    /\ UNCHANGED <<storeVars, placeVars, payVars, queueVars, granted, accounts,
                   coupons, histVars>>

\* The use of the coupon is counted; then status 5.
CountCoupon(p) ==
    /\ At(p, "coupon")
    /\ coupons' \in {coupons, IF HasCoupon THEN coupons + 1 ELSE coupons}
    /\ snap' = [snap EXCEPT ![p].status = Finished]
    /\ Lookup(p, "save")
    /\ UNCHANGED <<storeVars, placeVars, payVars, queueVars, granted, accounts,
                   commissions, histVars>>

(***************************************************************************)
(* UpdateOrderStatus of the administrator: one transaction that saves the  *)
(* row, sets the status and, for status 2, enqueues the activation; the    *)
(* keys are deleted and the task is visible before it commits.             *)
(***************************************************************************)
AdminDecide(p) ==
    /\ Deciding(p, "admin")
    /\ \E s \in Status :
        /\ adminSet' = adminSet \cup {s}
        /\ snap' = [snap EXCEPT ![p].status = s]
    /\ Lookup(p, "txSave")
    /\ UNCHANGED <<storeVars, placeVars, link, gatewayPaid, debits, queueVars,
                   effectVars, histVars>>

TxSave(p) ==
    /\ At(p, "txSave") /\ Unlocked
    /\ IF got[p] = None
       THEN Finish(p) /\ UNCHANGED lock
       ELSE lock' = p /\ Goto(p, "txDelSave")
    /\ UNCHANGED <<row, cache, placeVars, payVars, queueVars, effectVars, histVars>>

TxDelSaved(p) ==
    DelKeys(p, "txDelSave", Lookup(p, "txStatus") /\ UNCHANGED snap)

TxStatus(p) ==
    /\ At(p, "txStatus")
    /\ Goto(p, "txDelStatus")
    /\ UNCHANGED <<storeVars, placeVars, payVars, queueVars, effectVars, histVars>>

TxDelStatus(p) ==
    DelKeys(p, "txDelStatus",
            Goto(p, IF snap[p].status = Paid THEN "txEnqueue" ELSE "commit"))

TxEnqueue(p) ==
    /\ At(p, "txEnqueue")
    /\ tasks' = tasks + 1 /\ Count("enqueued")
    /\ Goto(p, "commit")
    /\ UNCHANGED <<storeVars, placeVars, payVars, closeTask, effectVars, cause>>

Commit(p) ==
    /\ At(p, "commit")
    /\ row' = snap[p] /\ lock' = None
    /\ Finish(p)
    /\ UNCHANGED <<cache, placeVars, payVars, queueVars, effectVars, histVars>>

(***************************************************************************)
(* What may go wrong at any time.                                          *)
(***************************************************************************)
\* Mutant: a failed deferred close is acknowledged like a failed activation.
AbortAcknowledged(p) ==
    /\ ~At(p, "idle") /\ count["aborted"] < MaxAbort
    /\ Count("aborted") /\ cause' = cause \cup {"aborted"}
    /\ lock' = IF lock = p THEN None ELSE lock
    /\ Finish(p) /\ AckClose(p)
    /\ UNCHANGED <<row, cache, placeVars, payVars, tasks, effectVars>>

\* A call of MySQL, Redis or asynq fails or the client goes away: the handler
\* returns, an open transaction rolls back.  A failed activation is
\* acknowledged all the same; a failed deferred close is retried, but not when
\* it is the lookup of the order that failed.
Abort(p) ==
    LET closeLost == job[p] = "deferClose" /\ pc[p] \in Finding IN
    /\ ~At(p, "idle") /\ count["aborted"] < MaxAbort
    /\ Count("aborted")
    /\ cause' = cause \cup {"aborted"} \cup (IF closeLost THEN {"closeLost"} ELSE {})
    /\ closeTask' = IF closeLost THEN 0 ELSE closeTask
    /\ lock' = IF lock = p THEN None ELSE lock
    /\ Finish(p)
    /\ UNCHANGED <<row, cache, placeVars, payVars, tasks, effectVars>>

\* The lease of a running activation expires: asynq delivers the task again
\* while the first worker goes on.
LeaseExpires(p) ==
    /\ job[p] = "activate" /\ count["redelivered"] < MaxRedeliver
    /\ tasks' = tasks + 1 /\ Count("redelivered")
    /\ UNCHANGED <<storeVars, placeVars, payVars, closeTask, effectVars,
                   procVars, cause>>

\* The handler panics: asynq recovers and retries the task.
Panic(p) ==
    /\ job[p] = "activate" /\ count["redelivered"] < MaxRedeliver
    /\ tasks' = tasks + 1 /\ Count("redelivered")
    /\ Finish(p)
    /\ UNCHANGED <<storeVars, placeVars, payVars, closeTask, effectVars, cause>>

\* NewServiceContext sends FLUSHALL: caches, the guest's details and the
\* tasks of asynq, which live in database 5 of the same server, are lost.
Restart ==
    /\ count["restarted"] < MaxRestart
    /\ Count("restarted") /\ cause' = cause \cup {"restart"}
    /\ job' = [p \in Proc |-> "none"] /\ pc' = [p \in Proc |-> "idle"]
    /\ ret' = [p \in Proc |-> "none"]
    /\ snap' = [p \in Proc |-> None] /\ got' = [p \in Proc |-> None]
    /\ cache' = [k \in Key |-> None] /\ lock' = None
    /\ tempOrder' = FALSE /\ tasks' = 0 /\ closeTask' = 0
    /\ UNCHANGED <<row, order, payVars, effectVars>>

\* The guest's details live as long as the deferred close waits.
TempExpires ==
    /\ tempOrder /\ tempOrder' = FALSE
    /\ UNCHANGED <<order, storeVars, payVars, queueVars, effectVars, procVars, histVars>>

CacheExpires(k) ==
    /\ cache[k] # None
    /\ cache' = [cache EXCEPT ![k] = None]
    /\ UNCHANGED <<row, lock, placeVars, payVars, queueVars, effectVars,
                   procVars, histVars>>

(***************************************************************************)
(* The specification.                                                      *)
(***************************************************************************)
Find(p) == Get(p) \/ Query(p) \/ QueryMissing(p) \/ Fill(p)

BeginRequest(p) ==
    BeginCheckout(p) \/ BeginClose(p) \/ BeginNotify(p) \/ BeginAdmin(p)

Checkout(p) ==
    \/ CheckoutRefused(p) \/ CheckoutGateway(p) \/ CheckoutBalance(p)
    \/ Debit(p) \/ InsufficientBalance(p)

SettlePaid(p) ==
    NotifySkip(p) \/ NotifyAccept(p) \/ SetPaid(p) \/ DelPaid(p) \/ Enqueue(p)

CloseOrder(p) == CloseSkip(p) \/ CloseStart(p) \/ CloseCommit(p) \/ CloseGiftFails(p)

ActivateOrder(p) ==
    \/ ActivateDrop(p) \/ ActivateStart(p) \/ ActivateUnknown(p)
    \/ AccountExpired(p) \/ CreateAccount(p) \/ TargetGone(p) \/ DuplicateToken(p) \/ Grant(p)
    \/ Commission(p) \/ CountCoupon(p)

AdminUpdate(p) ==
    \/ AdminDecide(p) \/ TxSave(p) \/ TxDelSaved(p) \/ TxStatus(p)
    \/ TxDelStatus(p) \/ TxEnqueue(p) \/ Commit(p)

Step(p) ==
    \/ Find(p) \/ Checkout(p) \/ SettlePaid(p) \/ CloseOrder(p)
    \/ ActivateOrder(p) \/ AdminUpdate(p) \/ SaveRow(p) \/ DelSaved(p)

Fault ==
    \/ \E p \in Proc : Abort(p) \/ LeaseExpires(p) \/ Panic(p)
    \/ \E k \in Key : CacheExpires(k)
    \/ Restart \/ TempExpires

Next ==
    \/ Purchase \/ AdminCreate \/ GatewayPay
    \/ \E p \in Request : BeginRequest(p)
    \/ \E p \in Worker : BeginDeferClose(p) \/ BeginActivate(p)
    \/ \E p \in Proc : Step(p)
    \/ Fault

Spec == Init /\ [][Next]_vars

\* A goroutine that runs a handler goes on, and asynq hands its tasks out.
Fairness ==
    /\ \A p \in Proc : WF_vars(Step(p))
    /\ WF_vars(\E p \in Worker : BeginDeferClose(p) \/ BeginActivate(p))

FairSpec == Spec /\ Fairness

(***************************************************************************)
(* Properties.                                                             *)
(***************************************************************************)
GlobalsOK ==
    /\ row \in RowOrNone /\ cache \in [Key -> RowOrNone]
    /\ lock \in Proc \cup {None}
    /\ order \in OrderInfo \cup {None} /\ tempOrder \in BOOLEAN
    /\ link \in BOOLEAN /\ gatewayPaid \in BOOLEAN
    /\ debits \in Nat /\ adminSet \subseteq Status
    /\ tasks \in Nat /\ closeTask \in Nat
    /\ granted \in Nat /\ accounts \in Nat
    /\ commissions \in Nat /\ coupons \in Nat
    /\ count \in [Counts -> Nat] /\ cause \subseteq Causes

\* A goroutine past its first lookup holds a copy of the row, and one about
\* to fill the cache a row: no handler uses an order it did not find.
GoroutineOK(p) ==
    /\ ret[p] = "none" <=> pc[p] \notin Finding
    /\ pc[p] = "fill" => got[p] # None
    /\ pc[p] \in Copied => snap[p] # None
    /\ ret[p] \in {"save", "txSave", "txStatus"} => snap[p] # None

TypeOK ==
    /\ GlobalsOK
    /\ job \in [Proc -> Jobs] /\ pc \in [Proc -> Labels]
    /\ ret \in [Proc -> Returns \cup {"none"}]
    /\ snap \in [Proc -> RowOrNone] /\ got \in [Proc -> RowOrNone]
    /\ \A p \in Proc : GoroutineOK(p)

\* The payment of the order was confirmed: by the gateway, by a debit of the
\* balance, or by the administrator.
PaymentConfirmed == gatewayPaid \/ debits > 0 \/ Paid \in adminSet

\* Activation hands out the goods of an order only after its payment was
\* confirmed, whatever copy of the row the worker reads, however stale.
GrantNeedsPayment == granted > 0 => PaymentConfirmed

\* What status 5 stands for: the goods were delivered, or the administrator
\* said so, or the order is of a type that nothing is delivered for, and then
\* it was paid all the same.
FinishedFor ==
    \/ granted > 0
    \/ Finished \in adminSet
    \/ UnknownKind /\ PaymentConfirmed

\* An order shown as finished was delivered, but for those the administrator
\* finished or gave a type the activation does not know: no stale full-row
\* save and no late notification can invent status 5.
FinishedIsGranted == HasStatus(row, Finished) => FinishedFor

\* A copy of the row, the committed one, a cached one or a handler's, never
\* claims a payment or a delivery that has not happened; and a goroutine that
\* is about to write such a claim is entitled to it.  This is what makes the
\* two properties above inductive.
CopyOK(r) ==
    /\ HasStatus(r, Paid) => PaymentConfirmed
    /\ HasStatus(r, Finished) => FinishedFor

Entitled(p) ==
    /\ job[p] = "notify" => gatewayPaid
    /\ pc[p] = "setStatus" \/ ret[p] = "setStatus" => PaymentConfirmed
    /\ pc[p] \in {"account", "grant", "coupon"} => PaymentConfirmed
    /\ pc[p] = "commission" => granted > 0
    /\ pc[p] = "coupon" => granted > 0 \/ UnknownKind

CopiesHonest ==
    /\ CopyOK(row) /\ \A k \in Key : CopyOK(cache[k])
    /\ \A p \in Proc : CopyOK(snap[p]) /\ CopyOK(got[p]) /\ Entitled(p)

\* Goods, accounts, commissions and coupon uses never outnumber the
\* deliveries of the activation task: each is paid for by one enqueued or
\* redelivered task, and a new subscription exists at most once.  Only an
\* order of unknown type has its coupon counted without goods to show for it.
EffectsAttributed ==
    LET deliveries == count["enqueued"] + count["redelivered"] IN
    /\ granted <= deliveries /\ accounts <= deliveries
    /\ commissions <= granted
    /\ coupons <= IF UnknownKind THEN deliveries ELSE granted
    /\ order # None /\ order.kind \in {"guest", "subscribe"} => granted <= 1

Quiescent == tasks = 0 /\ \A p \in Proc : pc[p] = "idle"

\* When nothing is running and a payment was accepted for which nothing was
\* delivered, one of the listed events lost it: an activation that read a
\* stale copy, a close or a stale save over the paid row, a deleted row, an
\* expired guest, a missing target, a type without a case, a failing call or a
\* restart.
LostPaymentHasCause ==
    Quiescent /\ count["enqueued"] > 0 /\ granted = 0 => cause # {}

\* An order that uses no gift is closed, paid or deleted in the end, even when
\* one delivery of the deferred close fails, unless it failed to look the
\* order up: that delivery is acknowledged.
PendingResolved ==
    closeTask > 0 /\ ~order.gift
        ~> (row = None \/ row.status # Pending \/ "closeLost" \in cause)

\* Activation tasks are not retried for ever: in the end none waits or runs.
TasksDrain ==
    <>[](tasks = 0 /\ \A p \in Worker : job[p] # "activate")

(***************************************************************************)
(* What comments of the code say and the code does not do.                 *)
(***************************************************************************)
\* CloseOrder: "If the order status is not 1, it means that the order has
\* been closed or paid", and then it returns: only a pending order is closed
\* or, for a guest, deleted.
CloseOnlyPending ==
    [][(HasStatus(row', Closed) /\ ~HasStatus(row, Closed)) \/ (row # None /\ row' = None)
         => HasStatus(row, Pending)]_row

\* Purchase: "Pre deduction ,Return after canceling the order": an order that
\* uses a gift is closed, and the gift returned, or its payment confirmed.
GiftReturned ==
    closeTask > 0 /\ order.gift ~> (HasStatus(row, Closed) \/ PaymentConfirmed)

\* UpdateOrderStatus: "If order status is 2, create user subscription": once
\* its task is done and nothing failed, the order was delivered.
AdminPaidIsActivated ==
    Quiescent /\ HasStatus(row, Paid) /\ count["enqueued"] > 0 /\ cause = {}
      => granted > 0
=============================================================================
