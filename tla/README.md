# Verification of ppanel-server

TLA+ models of the parts of ppanel-server whose correctness depends on the
order in which concurrent requests, queue workers, gateways and timers act, the
TLC runs that check them, and machine-checked proofs (TLAPS) of what matters
most. Paths below are relative to the repository's root, `src/`; line numbers
refer to the files as they are there.

Contents: 1 the system, 2 the modules, 3 the runs, 4 the proofs, 5 where code
and comments disagree, 6 what is not modelled, 7 the plan.

## 1. The system

ppanel-server sells proxy subscriptions. One Go process serves an HTTP API
(gin), runs the workers of a task queue (asynq, stored in Redis), a scheduler
that enqueues periodic tasks, and optionally a Telegram bot and websockets of
client applications. Durable state is in MySQL (gorm); Redis holds cached rows,
sessions, verification codes, counters, node state and the task queue. Several
processes may share both stores, and within one process every request and every
task has its own goroutine, so **everything interleaves at the granularity of
single MySQL and Redis calls**. There are few transactions and no explicit row
locks; correctness rests on status checks, unique keys and cache invalidation.

| Component | State | Operations | Interacts with |
|---|---|---|---|
| Order lifecycle: `logic/public/order`, `logic/public/portal`, `logic/notify`, `logic/admin/order`, `queue/logic/order`, `model/order` | table `order` (status 1 pending, 2 paid, 3 closed, 5 finished), its cached copies, the guest's details in Redis, the tasks "deferred close" and "activate" | place, check out, notify, close, activate, administrate | the ledger, subscriptions, coupons, gateways, queue, cache |
| Cached database access: `pkg/cache/gorm.go` and the models on it | rows in MySQL, one JSON copy per lookup key in Redis | look up, update, delete, in and out of transactions | every model |
| User ledger: `model/user/default.go`, balance payment, commission, recharge, gift, unsubscribe | `balance`, `gift_amount`, `commission` of a row of `user`, log tables | debit, credit, refund; full-row saves of copies read earlier | orders, subscriptions |
| Subscription lifecycle: `model/user/subscribe.go`, `queue/logic/subscription`, `queue/logic/traffic`, `logic/public/user` | table `user_subscribe`: status, traffic, expiry, finished_at, token | create, renew, reset, count traffic, scan, unsubscribe, change token | orders, nodes, cache |
| Coupons: `model/coupon`, `purchaseLogic.go` | `used_count`, limits | check when ordering, count when activating | orders |
| Node API: `logic/server`, `model/cache/node.go` | per-node user list, status, online users, counters of the day | pull users, push traffic and status | subscriptions |
| Device connections: `pkg/device/device.go` | websockets per user, count of online devices | add, remove, kick, heartbeat, shut down | application API |
| Device rows: `model/user/device.go`, `svc/devce.go`, `logic/app/auth`, `logic/admin/user` | rows of `user_device` (owner, online), their copies by id and by identifier, the devices in a cached user | take over at login, set online and offline, kick, edit, delete | device connections, logins, every save of a user |
| Rate limits: `pkg/limit` | period counters and token buckets in Redis | take | verification codes |
| Sessions and verification codes: `logic/auth`, `logic/common`, `middleware` | sessions and codes in Redis | send, compare, delete | users, limits, queue |
| Configuration: `initialize`, `logic/admin/system`, `model/system` | rows of `system`, a cached copy per category, structs in the memory of the process | save a category, load it again, serve from it | every component that reads a setting |
| Connection pool: `pkg/orm/mysql.go`, `pkg/cache/gorm.go` | at most 10 open connections | take, hold for a transaction, return | every transaction |
| Login methods and users: `model/user`, `logic/auth`, `logic/public/user` | rows of `user` and `user_auth_methods`, copies by id and by e-mail address | register, log in, bind, unbind, edit, delete | sessions, codes, ledger |
| Prices and refunds: `pkg/deduction`, `logic/*/calculate*` | none | pure computations | orders, unsubscribe |
| Queue, scheduler, start-up: `queue`, `scheduler`, `internal/svc`, `initialize` | tasks in Redis database 5 | deliver, retry; FLUSHALL at start-up | everything that waits in Redis |
| Email, SMS, Telegram, client configuration, content, handlers | rows of their own or none | send, render, create/read/update/delete | none that feeds back |

What is hard, and what makes each component correct:

* **Orders.** A notification, a manual close, the deferred close after 15
  minutes, a checkout and the administrator all read a *copy* of the order,
  usually a cached one, decide on it, and then write the row by its number or
  save it as a whole. Gateways repeat notifications; asynq delivers at least
  once; a task that "fails" is often acknowledged. An order may be of
  a type the activation has no case for, and is then finished all the same. Correct
  means: nothing is delivered unpaid, nothing is delivered more often than its tasks
  allow, an accepted payment is not lost without a reason one can name, and a pending
  order is resolved.
* **Cache.** GET, SELECT and SET of a reader interleave with UPDATE and DEL of a
  writer; a transaction deletes keys before it commits; the keys to delete come
  from a copy that may be stale. Correct means: an acknowledged update is seen,
  and whatever was left stale is repaired.
* **Ledger.** Read, compute, save the whole row: concurrent credits and debits
  overwrite each other; a refund computed before its transaction is paid twice, and
  paid to whoever asks for it.
* **Subscriptions.** The scans clear caches before they commit; a traffic reset
  reactivates a row whose finished_at is set; full-row saves race with the
  atomic traffic counter; a user list is cached without expiry.
* **Devices.** A replaced connection's reader removes its successor; the
  heartbeat check works on a snapshot taken before it locks; the limit is looked up
  for each connection and may have fallen since the last.
* **Device rows.** Callbacks, logins and the administrator find a copy of the row,
  change one column and save all of it; no write clears the copy by identifier, and
  the callbacks have no order, and the heartbeat check changes the list without one.
  Correct means: a device is the user's who took it
  over last, and is shown online while it is.
* **Limits, coupons.** Check and use are separate steps, sometimes minutes apart; a
  guest's order passes half of the checks, the administrator's none.
* **Configuration.** The cached copy is deleted before the transaction commits,
  memory is loaded again after it through that copy, and several handlers
  overlook the error of an UPDATE. A new subscription path restarts the server, and
  the settings of one category never fit the struct they are loaded into. Correct
  means: what is served is what the conversion makes of what is stored, and a
  category is stored as a whole.
* **Node figures.** Pipelines are not transactions: pushes of several nodes and
  the console's reads come in between, the client sends one again after a timeout,
  and the server empties Redis when it starts. Correct means: an address is shown for its
  time, and figures read together fit together.
* **Login methods.** They are read with their user and saved with him, so that an
  old copy of a user rewrites rows that changed hands; a guest gets his user when his
  order is activated, long after his address was found free. Correct means: an address
  stays with whom it was given to, a deleted user stays deleted.
* **Connections.** Transactions call operations that take connections of their
  own. Correct means: none is lost, and nobody waits for ever.
* **Refunds.** Calendar arithmetic with the ends of months and years, on numbers
  nobody validates. Correct
  means: between nothing and what was paid, and falling with time.

`PROJECT.json` lists every hazard at its line with the properties that cover it.

## 2. The modules

Conventions. A module has one action per call to a store (MySQL, Redis, asynq), with
the computation up to the next call. Whether a copy is found, a call fails, or a rival
comes first is a choice of the actions. Many of the guarantees of this program are
conditional: its code races with itself in ways it does not exclude. The history
variables `cause`, `causes`, `marks`, `excuses`, `blots`, `gaps`, `pardons`, `lates`,
`astray`, `doubt` therefore record, at the step where it happens, each *event that can
explain* a wrong result: never "something interleaved", but for example "this
request's full-row save overwrote a change made since it read". A property then says:
right, unless one of these happened. So it names every way to go wrong, and a way
nobody thought of violates it.

### OrderLifecycle

One order, from its insertion until nothing refers to it. Orders share no state
with each other inside this component, so one is enough; what the order does to
other components is counted (`debits`, `granted`, `accounts`, `commissions`,
`coupons`).

State and its place in the code:

| Variables | Code |
|---|---|
| `row`, `lock` | the row of `order`, reduced to its status and to whether it belongs to a guest (`user_id` 0); InnoDB's row lock of the administrator's transaction |
| `cache` | the two keys `cache:order:no:` and `cache:order:id:` (`model/order/default.go:58`) |
| `order`, `tempOrder` | immutable columns; the guest's details, `constant.TempOrderCacheKey`, in Redis |
| `link`, `gatewayPaid` | the customer holds a page of the gateway; the gateway has the money (external) |
| `tasks`, `closeTask` | asynq's pending activations; deliveries left to the deferred close |
| `job`, `pc`, `ret`, `snap`, `got` | per goroutine: the handler it runs, where it is, where its lookup returns to, its variable `orderInfo`, the row its last lookup returned |
| `count`, `cause` | history |

A step is one call of MySQL, Redis or asynq, together with the local
computation up to the next call. The read-through lookup (`Get`, `Query`,
`QueryMissing`, `Fill`) is shared by all handlers; `Arrive` says what a handler
does with its result. Two writes are distinguished because the code has both:
`UpdateOrderStatus` changes the status by order number (`SetPaid`), while
`Update` saves the handler's whole copy (`SaveRow`, `Commit`) and, as gorm's
`Save` does, inserts the row again when it is gone. `CloseCommit` is one step
because the close writes in one transaction, with `CloseGiftFails` for orders
that used a gift. `Abort` is the failure of any call at any place; `LeaseExpires`
and `Panic` are asynq's redeliveries, `Restart` the FLUSHALL of
`svc/serviceContext.go`, `TempExpires` and `CacheExpires` Redis's expiry. The
administrator may enter an order of any type (`AdminCreate`); kind "unknown" stands
for those `activateOrderLogic.go:80` has no case for: it logs them and goes on, so
that the coupon is counted and the status set with nothing delivered.

### CachedRow and FreshRegister

`CachedRow` is `pkg/cache/gorm.go` under the models of `user_subscribe` and
`user_device`: one row that can be looked up under its id and under an alias
(token or identifier), any number of goroutines that read, save and delete it,
alone or inside a transaction. Columns other than the alias are abstracted to a
version, the number of committed changes, which is what freshness is about.
`Result` models gorm's `Save` (which inserts a deleted row again) and the
`DELETE`s with their WHERE clauses; `CacheKeys` is `getSubscribeCacheKey`, and
for devices the id key only; `Del` runs after the statement and, in a
transaction, before `Commit`. `floor` and `answer` are history variables: the
version the last acknowledged update promised per key, and the version a lookup
returns in the step that returns it.

An update promises something for a key unless another lookup of that key is at
that moment between its SELECT and its SET with an older row (`Settled`). That
exception is the race the code cannot exclude; transactional updates promise
nothing, because their keys are deleted before they commit. Everything else,
stale lookups of the keys to delete, deletions, aborts, transactions of others,
may interleave freely and breaks no promise.

`FreshRegister` is the abstract specification: a register whose readers may lag
behind but see committed versions only and never less than the floor of the key
they ask under. `CachedRow` implements it with `version <- row.ver`.

### DeviceManager

The websockets of one user, `pkg/device/device.go`. The mutex of the user makes
every operation one step; only the heartbeat check is two, because it takes the
list (`Tick`) before it locks (`Check`).

| Variables | Code |
|---|---|
| `dev` | `DeviceID` of each accepted connection; connections are numbered in the order accepted |
| `list` | the user's entry of `userDevices`; empty when there is none |
| `seen`, `shared`, `due` | the slice `devices` of the check, whether the list still lies in its array, the entries that were silent when `now` was read |
| `total` | the user's part of `totalOnline` |
| `open`, `live`, `reading` | connections the server has not closed; those whose client is there; goroutines in `listenToDevice` |
| `silent` | `LastPingTime` older than `heartbeatTimeout` |
| `peak` | history: the largest limit a connection was accepted under since nothing was in use |

Go's slices matter here. `AddDevice`, `KickDevice` and the check build new ones, but
`removeDevice` writes `append(devices[:i], devices[i+1:]...)` into the array that the
check's slice refers to: `RemoveDevice` therefore shifts `seen` as well while `shared`
holds, and the check may see a connection twice. Callbacks are awaited under the lock
or started without it, and take no lock, so they cannot block the step; what they
write to `user_device` is the next module, what they do to the sessions is left out,
as are broadcasts and `Shutdown`, which nothing calls. Kicking with an empty
identifier is left out because the only caller passes one. `AddDevice` is given a
limit of its own, one of `Limits`, because `appWsLogic.go:66` computes it anew from
the subscriptions the user has at that moment. It evicts one connection at most, so
that a limit which falls by more is not kept; what is kept is `peak`.

### DeviceRows

What becomes of one device in `user_device`: whose it is, and whether it is online.

| Variables | Code |
|---|---|
| `device`, `newest` | the rows of one identifier, by id; the table's AUTO_INCREMENT. The migration has no unique index on the identifier, so there may be two |
| `copyOf`, `named` | `cache:user:device:id` and `cache:user:device:number` |
| `listed` | the devices in the cached copy of a user, who is saved with them |
| `members`, `online` | users that have registered; users with a connection of the device in the manager's lists |
| `slice` | the list the heartbeat check has taken of one user, before it locks |
| `chore` | per goroutine: which of the nine jobs, its next step, the row as found, the row about to be cached |
| `late`, `holder`, `astray`, `doubt` | history |

The jobs are the two callbacks of `svc/devce.go`, login, password reset and
registration of the application, and the administrator's edit, kick and deletion;
the ninth is any save of a user, `SaveWithDevices`, because gorm saves the association. A
job finds a copy (`FindByName`, `Look`), and `UpdateDevice` or `DeleteDevice` looks
the row up once more by id (`FindAgain`, `Fill`), writes it (`Save`, `Delete`) and
deletes the key by id (`Clear`). `Save` and `Upsert` insert a row that is gone.
`DeviceManager` is abstracted to the set `online`: what its lists do among
themselves matters here as the callbacks they start. An eviction starts none, and
nor does the heartbeat check when it stores what is left of the list it took
(`TakeList`, `StoreList`): that may put a connection back that has ended meanwhile,
or lose one that came; only a connection it finds expired gets a callback
(`ListExpires`).

### Subscriptions

One row of `user_subscribe` (`model/user/subscribe.go`, `queue/logic/subscription`,
`queue/logic/traffic`, the renewals and resets of `queue/logic/order`, the public
and the administrator's handlers) and the list of users one node pulls
(`logic/server/getServerUserListLogic.go`).

| Variables | Code |
|---|---|
| `sub`, `subLock` | the committed row: `status`, `download + upload`, `expire_time`, `finished_at`; the transaction that holds it |
| `serves` | the plan of the row names the node, or a group of it (`subscribe.server`, `server_group`) |
| `copies` | the cached rows by id and by token |
| `list` | `cache:server:user:<id>`, stored without expiry: is the row in it |
| `reports` | traffic tasks in the queue |
| `step`, `job`, `held`, `phase` | per goroutine: its place, its job, the row it read, the half of the scan it is in |

`Direct` jobs read the row from MySQL, `Cached` ones through a copy; all save the
whole row (`SaveRow`). Traffic is added by one UPDATE (`CountTraffic`). The scan
(`ScanSelect`, `ScanClose`, `ScanClear`, `ScanCommit`) finds rows, writes them by id
alone, clears the copies and commits afterwards; its two halves follow each
other. The lookup that only finds the keys to delete is part of the statement, as
`CachedRow` is about keys that change. `EditPlan` and `EditNode` change what the
plan names, by its own columns or by the node's group: neither clears a user list.
The deletion of a user (`EraseLock`, `EraseWipe`, `EraseCommit`) clears copies and
lists before it commits, and those of the rows its lookup finds only.

### Accounts

The money of one user: `model/user/default.go` under balance payments
(`purchaseCheckoutLogic.go`), gifts (`purchaseLogic.go`), refunds
(`unsubscribeLogic.go`), recharge and commission (`activateOrderLogic.go`), the
profile and the administrator.

| Variables | Code |
|---|---|
| `user`, `userCopy`, `userLock` | `balance`, `gift_amount`, `commission` of the row, the cached copy, an open transaction |
| `entries` | what `user_balance_log`, `user_gift_amount_log`, `user_commission_log` add up to |
| `active` | the user's subscription, which may be returned, has status 1 |
| `place`, `task`, `seen` | per goroutine: its place, its operation, the row it read |
| `funds`, `paid`, `refunds`, `reopened`, `marks` | history |

The important distinction is whether `UserModel.Update` is given the caller's
transaction (`InTx`): if not, the row is saved at once and the log may be rolled
back. A return does not ask whose the subscription is: the balance is the caller's
and the log the owner's. The one user of the model is each in turn: "refund" returns
what is his, in "grab" he returns what another owns, in "lose" another returns what
he owns. `Reopen` is a renewal, a traffic reset or a stale save that sets the status
of a returned subscription back to 1.

### Coupons

`purchaseLogic.go` of the public API checks the coupon's count and then the user's
orders with it (`GetCoupon`, `CountOrders`, `InsertOrder`); that of the guest's API
checks the first alone, and the administrator's `createOrderLogic.go` nothing
(`EnterOrder`). `activateOrderLogic.go` counts a use by a read and a full-row save
(`ActivateUse`, `SaveCount`), and again when the task is delivered again before the
status is saved (`ActivateAgain`). `usedCount`/`couponCopy` are the column and the
copy of the coupon; of the orders that name it, `placed` counts all, `unused` those
not activated, and `mine` those of one user, who may come to be with one as a guest;
`desk`, `aim`, `saw` are the place, the purpose and the count a goroutine read.

### Deductions

`pkg/deduction/deduction.go` with `pkg/tool/time.go`: what a subscription is worth on
each day. `Remaining` is the code's computation for each unit of time and reset cycle,
on a calendar with months, leap years and Go's normalisation of dates (`Normal`,
`AddTime`); `offer` is plan, order and day of purchase; `today`, `evening`, `spentOn`
move. Nothing validates the numbers of a plan or an order, so an offer may have any;
`Sensible` says which the computation is meant for, and the properties speak of these.
`Revise` is an edit of the plan or of the row by the administrator, or a renewal,
which adds to the orders paid: the refund is computed from what plan, orders and row
say at that time, and the properties speak of the terms of the purchase. Units of time
without a case of their own are "Other", worth nothing; an hour and a minute are left
to them, though the expiry knows them: the refund does not. Times are quarters of a
day so that "later in the day than the purchase" is a fact and not a fraction.

### ConfigViews

One category of settings. `stored`, `confCopy`, `memory` are the rows of `system`,
the copy in Redis and the struct `svcCtx.Config`; `confLock`, `line`, `duty`, `draft`,
`loaded` the open transaction and what each goroutine does and holds. Ten
categories differ in how their handler behaves: whether it swallows the error of an
UPDATE, whether it loads the category again (`HandlerOf`), and what comes before
(`AfterCommit`): `updateVerifyConfigLogic.go` copies the keys of Turnstile from the
request into memory, `updateSubscribeConfigLogic.go` restarts the server when the path
is new (`Restart`), which loads every category before it listens, or, if a request
outlasts the shutdown, never listens again. `Converted` is the conversion into the
struct, which goes by the names of its fields: the rows of `verify_code` are called
otherwise, so nothing of them ever reaches memory. The category is chosen in `Init`.

### OnlineUsers and DayTraffic

The two halves of `model/cache/node.go`. In `OnlineUsers` a node's push adds
addresses one by one to a sorted set of all (`allIps`, scores are when they
expire; `allEnds` is the key's expiry) and then stores its own report (`shownOf`,
`shownEnds`). The pipeline carries the minute it was put together (`asOf`), is sent
again after a timeout (`SendAgain`) or breaks off (`PushFails`). In `DayTraffic` a
push counts for the node and each user: `counter`
(HINCRBY), `ranked` (ZINCRBY), `allCount` (INCRBY), while the console reads a
ranking (`toRead`) and then the counters of its lines (`board`); a pipeline sent again
(`PipelineAgain`) counts twice. `FlushOnline` and `FlushDay` are the FLUSHALL of
`svc/serviceContext.go:82`: the figures start from nothing with the server.

### ConnectionPool

`stage` of each request: none, waiting for its transaction's connection, holding
it, waiting for a second one, using that; `calls` it still makes; `open`
connections in use, at most `MaxOpenConns`. The nested calls are those of
`balancePayment`, the return of a subscription, and the registration with a trial.

### Identities

Users and login methods as rows (`users`, `rows`) and as the cached copies by id
and by e-mail address (`byId`, `byEmail`); `doing`, `has` what each request is at
and the methods of the user it holds. `Update` is gorm's `Save` with the
association: it inserts the held methods again and, where the id or the address is
taken, sets that row's `user_id`; it inserts a deleted user again. A new user's method
is saved with him by the registration of a number and by the activation of a guest's
order (`SaveNew`, `ActivateGuest`), whatever its type, so that an address which was
registered since it was found free moves; only the registration of an e-mail address
has an INSERT of its own, which fails then.

### PeriodLimits and Codes

`PeriodLimits`: `pkg/limit/periodlimit.go` as `SendEmailCode` and `SendSmsCode` use
it, the limit of the interval and then that of the day, whose window is computed
before the script is called. `Codes`: one address's code from `Set` over the
queue's task to the request that compares and, depending on the request, deletes
it (`Login`, `ResetPassword`); FLUSHALL at start-up wipes code and task.

## 3. The runs

| Run | Question | Bounds that matter |
|---|---|---|
| OrderPay | Is anything delivered unpaid, and does a lost payment always have a nameable cause, when checkouts, notifications, closes and activation of a Stripe order interleave? | 2 requests and 1 worker: every pair of racing requests together with a task; one notification |
| OrderStories | Types; is "finished" true, are goods, accounts, commissions and coupon uses attributed to deliveries, and are all copies of the row honest? | 2 workers, 1 request. `Story` tells three stories: a guest pays through Stripe, with late saves, expiry of the guest's details and a redelivery; or two of these happen to a renewal: a balance payment enqueues its activation, the administrator does, the server restarts (redelivery is covered by the two tasks; gifts by OrderPay); or the administrator enters an order of a type nothing is delivered for, which is paid and activated, perhaps twice. `Story` is a CONSTRAINT: what it cuts off belongs to none of them |
| OrderLive | Under fairness, is a pending order resolved although one delivery of its deferred close fails, and does the queue of activations drain? | a guest's order (its row can go) and a recharge (delivered in a transaction); 2 deliveries, 1 failing call, 2 notifications |
| OrderClosePaid, OrderGift, OrderAdminPaid | three statements of comments that the code does not keep (section 5) | smallest that show it |
| CachedFresh | Does an acknowledged update leave no older copy, does the row implement `FreshRegister`, and are stale copies repaired? | 2 goroutines, 2 updates, 1 failing call, both tables |
| DevicesListed | Do the limit, the list and the connections agree however additions, readers, kicks and the check interleave? | 3 connections of 2 devices, the first one of the first device (devices are alike); 1 kick; each connection under a limit of 1, or of none with `Unlimited` 2, so that it rises and falls |
| DeviceReconnect | a comment that the code does not keep (section 5) | 2 connections of one device |
| DeviceOwner | a comment that the code does not keep (section 5) | 1 goroutine, nothing fails: no race is needed |
| Panel | Eleven parts: does each go wrong only in the ways its properties name? | 2 goroutines, 1 failure each; see below |
| Progress | Is a subscription that is used up or over closed in the end, and does a request that waits for a connection get one? | 2 workers, 1 job beside the scans; 3 requests on 2 connections, 2 nested calls |

**Panel** puts side by side the eleven parts that share nothing but the process. Its
behaviours are a *sum*, not a product: `part` chooses at the start which of them
moves, the others rest in one of their initial states. What a property says of a
part at rest is true of an initial state, which the behaviours of that part check
as well; nothing is hidden, and eleven small state spaces are explored in one run.
Each part keeps its own specification (`SubSpec`, `AcctSpec`, `CouponSpec`,
`DedSpec`, `ConfSpec`, `OnlineSpec`, `DaySpec`, `IdSpec`, `LimitSpec`, `CodeSpec`,
`RowSpec`),
about which the theorems are stated. Symmetry is taken over the goroutines
`{g1, g2}` that play `Worker`, `Clerk`, `Cashier`, `Front`, `Sender`, `Asker` and
`Routine`, as no definition tells them apart and a behaviour uses one of these
roles only, and over the users of a device.

| Part | Properties | Bounds that matter |
|---|---|---|
| Subscriptions | TrafficAccounted, ListHonest, ClosesOnlyDue, FinishedOnlyByReset | 2 jobs and any number of scans, `MCFewJobs`: every pair of jobs, edits of plan or node among them, against each other and the scan, with a report or a failure; 2 months, so that the row expires |
| Accounts | LedgerBalanced, SpentWithinFunds, RefundedOnce | `MCFewTasks`: 3 operations on 2 goroutines, reopenings among them, or 2 and a failure: two that overlap and one that finds what they left; a gift that covers the price or does not |
| Coupons | CouponLimit, UserLimitKept | 2 uses, 2 orders per user, 3 orders of any origin, one failure or redelivery, one edit: both limits bind, and 2 open orders can claim one use |
| Deductions | RefundInRange, RefundFalls | 18 offers: every unit and cycle, ends of months, leap days, a new year, a hundredth year, and four with numbers nothing keeps out (`MCOddOffers`); 2 revisions; 370 days |
| ConfigViews | ConfigWhole, MemoryFresh | 10 categories, 2 saves, 2 reads, reloads or restarts, 1 failing call |
| OnlineUsers | OnlineShown | 2 nodes, 2 addresses, 2 reports, 5 minutes at a life of 2 (5 in the code): twice the life passes; 1 failure, resend or restart; a pipeline takes a minute at most (`MCTimely`), as the client gives up before that |
| DayTraffic | FiguresAgree | 2 nodes, 2 users; 2 pushes that interleave, or one and a failure, resend or restart (`MCFewPushes`); the console's reads between them |
| Identities | OwnersRightful, DeletedStayGone | 2 users, 2 e-mail addresses, 2 numbers, 4 requests, guests' purchases among them |
| PeriodLimits | SendsLimited | 2 sendings a day of 3 units (15 a day in the code), 3 days, 1 restart |
| Codes | CodeUsedOnce | 2 codes, each used at most twice, 1 failure or restart |
| DeviceRows | OwnerKept, OnlineTruthful | 2 users, 2 goroutines, 2 rows; three jobs, or two and a failure, expiry, eviction, heartbeat check or save of a user (`MCFewEvents`): two that race and one that finds what they left |

**Progress** does the same with the two parts whose promise hangs on fairness.

Why these bounds are enough. In Panel a part has two goroutines (or nodes),
because its hazards are races of two, and a third operation after them where a
result is read later; every limit that binds in the code binds in the run.

The interesting orders of an order's life involve two goroutines racing on the row
and a third that works on the result: the runs have three goroutines where a
property needs them. A second notification, debit
or administrator's request repeats an action already racing with itself through
the symmetric goroutines. For the cached row a stale copy needs one reader and
one writer; the second update makes the looked-up keys themselves stale. For
the devices, two entries of different devices are what a shift in a shared array
needs, and the third connection replaces or evicts one of them while an old slice
exists; the code's 99 for "no limit" is 2, so that it binds too. The proofs of
section 4 hold without any bound.

`CHECK_DEADLOCK FALSE` in the order and device runs (DeviceOwner too) and in Panel and
Progress: an order whose bounds are used up and that nobody works on, a user whose
connections have all ended, or a part that has had all the requests its bounds allow,
has nothing left to do; a pool all of whose connections are held by transactions that
wait really stops, which `ServedUnlessStuck` says. CachedFresh checks deadlock.

**Fairness.** `OrderLifecycle!Fairness`: a goroutine inside a handler goes on
(`WF` of `Step(p)`: Go schedules runnable goroutines, and a call that does not
answer ends as `Abort`), and asynq hands waiting tasks to its workers
(`WF` of the disjunction). Nothing obliges customers, gateways or administrators
to act. `CachedRow!Fairness`: the same for goroutines, and Redis's expiry of
seven days (`pkg/cache/cacheopt.go:6`). `DeviceManager!Fairness`: readers that
met an error go on, the ticker of the check fires and its round is completed, and
time passes for a connection that is not pinged. Clients need not do anything.
Progress: a worker in a job goes on (`WF` of `JobStep(w)`), and takes up the scan
that the scheduler enqueues every minute (`WF` of `BeginScan(w)`); in the pool a
request that has what it needs goes on (`WF` of `Works(c)`), and one that waits is
served if connections keep becoming free (`SF` of `BeginTx(c)`, `GetConn(c)`):
database/sql gives a returned connection to a goroutine that waits, whenever one does,
and promises no order among them; what is assumed is that none is passed over for
ever.
Nothing obliges a client to go away, nor the traffic task or a request to come.

What the runs show beyond "holds":

* `LostPaymentHasCause` names every way an accepted payment is lost: a stale
  cached copy (`staleRead`), a close over the paid row, a full-row save over the
  status, a deleted row, expired guest details, a missing target, a type without a
  case, a failing call that is acknowledged, a restart.
* `PendingResolved` needs the exceptions it states: a gift makes every delivery
  fail, and a close whose *lookup* fails is acknowledged.
* `EventuallyFresh` holds by the expiry alone: with `Expiry == 0` TLC finds
  copies that stay stale for ever.
* `DroppedIsClosed` names the only ways an open connection is forgotten: a device that
  connects again, and a check that stores an old slice. `DeadLeaves` shows that what
  the check puts back by mistake does not stay; it holds only for devices with no
  client, because a device that pings through a forgotten connection keeps its dead
  entry fresh.
* `OwnerKept` and `OnlineTruthful` name what takes a device from its owner, or makes
  its online column wrong. Only one of the ways needs no race, no failure and no
  second row: a callback after a login (DeviceOwner).
* `TrafficAccounted` shows that the atomic counter is not enough: any full-row
  save of a row read before loses what was counted since; and `ClosesOnlyDue` that
  a renewal between the scan's query and its UPDATE is closed nevertheless.
* `ListHonest` names the ways a node serves a user it should not, or not one it
  should: a list filled late, a clearing that failed, a deleted user whose row was not
  found, and any edit of the plan or the node. With no expiry, such a list stays until
  somebody clears it.
* `LedgerBalanced` is violated without any race by who returns another's
  subscription ("foreign"); `RefundedOnce` allows a refund for each time the
  subscription came into use, because a renewal or a reset of a returned one is not
  refused.
* `WithinLimit` says `peak`, not the limit of the moment, which is not kept: a device
  that connects again under a lower one evicts nobody.
* `CouponLimit` needs `promised`: placing an order reserves no use; `UserLimitKept`
  needs `guest` and `unchecked`: only an order of a user who is logged in is counted.
* `RefundInRange` and `RefundFalls` need the exceptions they state, each a line of
  `deduction.go` or `time.go`, and `Sensible`: what a plan of no traffic and no end, or
  an order of quantity 0, gives is no amount at all.
* `MemoryFresh` fails without a fault for every category that is loaded again
  through the cache (`lateFill`). Of `verify_code` it says that memory holds nothing,
  whatever is saved.
* `OnlineShown` and `FiguresAgree` speak of the time since the server last started:
  the start forgets what was reported before.
* `OwnersRightful` needs `rewritten` for e-mail addresses because of guests: the
  activation of an order takes the address from who registered it meanwhile.
* `ServedUnlessStuck` is false without `Stuck`: as many balance payments as
  connections wait for each other until a client goes away.

Every property of a passing run is accompanied by a mutant: a second form of a
definition, marked `Mutant:` in its comment, changed the way a plausible mistake
would change it, under which TLC finds the property violated.

## 4. The proofs

All theorems hold for every value of the constants that satisfies the named
assumptions of the modules (`ParamAssumption`, `OfferAssumption`, ... : each module's
`ASSUME`), which TLC evaluates in the runs: the types of the parameters, values that
stand for "none" are not data, a purchase is made on a day that exists, and, where
things are counted or added up, finitely many goroutines, nodes or users. Nothing is
assumed of how many there are, of how large the bounds are, or of how long a life, a
day or an interval is.

| Proofs about | Module | Listed theorems |
|---|---|---|
| OrderLifecycle | OrderLifecycleProofs, OrderEffectsProofs | TypeCorrect, InvCorrect, CopiesAreHonest, PaidBeforeDelivery, FinishedWasDelivered; EffectsBounded, NothingElseLosesPayments |
| CachedRow, ConfigViews, ConnectionPool | StoreProofs | TypeCorrect, FreshCorrect, RowImplementsRegister; StoredWhole, ServedFresh; ConnectionsBalanced, OnlyNestingBlocks |
| Accounts, Coupons, Deductions | LedgerProofs | RefundIsOnce, PaymentsCovered, BooksBalance; CouponWithinCount, UserWithinLimit; RefundIsInRange, RefundOnlyFalls |
| Subscriptions | SubscriptionsProofs | TrafficIsAccounted, ListIsHonest, ScanClosesOnlyDue, OnlyResetFinishes |
| Identities, Codes, PeriodLimits | SignInProofs | IdTypeCorrect, OwnersAreRightful, DeletedAreGone; CodeIsUsedOnce; SendsAreLimited |
| DeviceManager, DeviceRows | DeviceManagerProofs | DeviceTypeCorrect, DevicesWithinLimit, ClosesForReason, DropsClosed, CountMoves; RowTypeCorrect, DeviceOwnerKept, OnlineIsTruthful |
| OnlineUsers, DayTraffic | NodeFiguresProofs | OnlineIsShown; FiguresDoAgree |

The type invariant of every part is a theorem of its own
(`SubTypeCorrect`, `AcctTypeCorrect`, ...), mostly with what a goroutine holds
where, which its properties need.

**OrderLifecycle.** `TypeCorrect`: `Spec => []TypeOK`. `PaidBeforeDelivery`:
`Spec => []GrantNeedsPayment`. `FinishedWasDelivered`: `Spec => []FinishedIsGranted`.
Neither of the last two is inductive: a worker delivers because *its copy* says
"paid", and that copy comes from the cache, which was filled from a row that
some other handler saved from *its* copy. `CopiesHonest` closes this circle: no
copy, committed, cached or held, claims a payment or delivery that did not
happen, and a goroutine about to write such a claim is entitled to. What "finished"
claims is `FinishedFor`: a delivery, or the administrator's word, or, of an order of
unknown type, no more than that it was paid. `InvCorrect`
proves `TypeOK /\ CopiesHonest /\ ...` inductive, one step per action;
`CopiesAreHonest` states it of every behaviour.

`EffectsBounded`: `Spec => []EffectsAttributed`, that goods,
accounts, commissions and coupon uses never outnumber the deliveries of the
activation task, and coupon uses not the deliveries of goods either, unless there is
no delivery for the type. The property counts what *was* done; inductive is what also
counts what *will be*: each effect plus the workers about to cause it
(`Granting`, `Opening`, ...), and for what happens once, the token that allows it
(`EffInv`). `NothingElseLosesPayments` proves `Spec => []LostPaymentHasCause` under
the assumption that the administrator's request is not among `RequestJobs`:
`LostInv` says that while no cause has been recorded, an accepted payment is on a
row that says "paid", no save is pending that could change that, and its task
waits or a worker is under way with it. The assumption is needed: the
administrator's transaction enqueues the task before it commits, and that alone
loses a payment (OrderAdminPaid, section 5).

**CachedRow.** `TypeCorrect`; `FreshCorrect`: `Spec => []FreshAfterWrite`;
`RowImplementsRegister`: `Spec => AsRegister!Spec`. The invariant adds
`NothingAhead` (no copy or floor is above the committed version) and
`WrittenInOrder` (what a statement wrote is committed, or follows the committed
version if its transaction is open). Most actions neither change the row nor
raise a floor; `QuietStep` treats them at once, and the steps that do,
`Exec`, `Del` and `Commit`, are proved one by one. The refinement maps a lookup's
return to `Read`, an acknowledged deletion to `Promise`, a commit to `Write`.

**Subscriptions.** `TypeInv` adds to the types what a worker holds where (`Shape`): a
row from the save on, a scan's selection from its query to its commit, a list between
query and `SET`. `TrafficIsAccounted`: `SubSpec => []TrafficAccounted`. The property
speaks of a quiet panel; inductive is `TrafficInv`, that unless a report was lost,
counted twice or saved over, the row is gone or what it shows and what is under way
(tasks, and workers about to add) make up what was spent. `ListIsHonest`: `SubSpec =>
[]ListHonest`, by `ListInv`: unless one of the causes happened, the plan names the
node, no list is stored while a scan is about to commit, or a user's deletion, and the
list is absent, agrees with the row, or a worker that has changed the row will still
drop it (`Changing`). `ScanClosesOnlyDue` and `OnlyResetFinishes` are action
properties, proved from `TypeInv` for each action that writes the row.

**Accounts.** `RefundIsOnce`, `PaymentsCovered`, `BooksBalance`:
`AcctSpec => []RefundedOnce`, `[]SpentWithinFunds`, `[]LedgerBalanced`. For the first,
`ReturnInv` counts refunds logged and returns under way against the times the
subscription came into use: while nobody overlapped, a subscription in use is one
return still open (`OneReturn`). For the others `BookInv`
relates the row to the logs *while* operations are in the middle: `Ledger` says, if
nothing on the list of events happened, that the row equals the logs plus what
each goroutine has saved and not logged yet (cardinalities of sets of goroutines);
`Funded` the same for the balance and what was paid from it; `Base` types, and
that whoever is about to save holds the present row unless marked.

**Coupons.** `CouponWithinCount`, `UserWithinLimit`. `CountInv` (`Honoured`) says
that unless excused, uses, orders not yet activated and those being counted
together are no more than the orders placed, and these within the count; `LimitInv`
that the user's orders are within his limit and below it while a request of his that
has counted them is about to insert one.

**Deductions.** `RefundIsInRange`: `DedSpec => []RefundInRange`; `RefundOnlyFalls`:
`DedSpec => RefundFalls`; for every plan, amount, quantity and date. The proof has
three floors. *Quotients*: `Trunc`, Go's conversion of a float, rises with its
dividend and keeps a part of the price within the price (`TruncRises`,
`TruncAtMost`). *The calendar*: the number of a day rises with its date
(`DaysInOrder`), by the lengths of months and the rule of leap years (`EveStep`,
`LeapStep`), and `Normal`, Go's reading of a day past the end of a month, keeps
the number (`NormalDay`). *The amount*: `DedInv` says that today is an existing
date, and on the terms of the purchase, if they are `Sensible`, one between purchase
and end (`Inside`); from that follow, cycle by cycle, that the days left
are part of all days and that these are positive, so that nothing is divided by
zero (`DaysOfTheWhole`, `...Month`, `...Target`, `...Year`), that the running unit
costs at most its price (`RunningUnit`), and that the whole units left are fewer
than were paid, but for the named cases (`UnitsLeft`). `WorthOf` writes the amount
as a function of date and traffic, and `WorthFalls` shows it falls in both. The
proof also settled the model: leap years follow the rule of four hundred years,
and `RefundFalls` holds for orders that overshoot a month as well, which an earlier
form of it excepted.

**ConfigViews.** `StoredWhole`, `ServedFresh`. `WholeInv` follows each
transaction's `draft` from its first to its second UPDATE; `FreshInv` says that
unless blotted, the copy is absent or what is stored, and memory is what the conversion
makes of it or somebody will still load it (`Current`, `Reloading`): after a commit the
handler, or the restart it asks for, which waits until nobody else is at work.

**ConnectionPool.** `ConnectionsBalanced`, that no connection is lost or given
twice, and from it `OnlyNestingBlocks`: when none is free, somebody can go on or
each is held by a transaction in the middle of a nested call. This is the safety
half of `ServedUnlessStuck`.

**OnlineUsers.** `OnlineIsShown`: `OnlineSpec => []OnlineShown`. `SeenInv` relates
each score of the set of all to when the address was last added (`Known`): the key
outlives what was added last by less than one life and the longest pipeline (`lag`), so
an address that is counted was reported less than two lives and that ago, and one
reported within a life is counted unless a pipeline broke off or the server has
started since; whatever a node shows was counted before (`CountedOnce`).

**DayTraffic.** `FiguresDoAgree`: `DaySpec => []FiguresAgree`. `LineInv` says of each
line that ranking and pending update together do not exceed the counter; `AllInv`
that the total of all is the sum of the ranking, unless a pipeline was sent again;
`ReportInv` that the total and what each push still owes make up what was reported
since the server started, or more if one was sent again, unless a push broke off or a
node reported download only.
These are sums over users and nodes, and the community modules define a sum by a
recursive CHOOSE: `SumFacts` shows that it is one, for every finite set, by the
least counterexample.

**DeviceManager.** `DeviceTypeCorrect`: `Spec => []TypeOK`, which is inductive as it
stands only because it says that the list, where it lies in the array of the slice a
check has read, is a prefix of that slice. `DevicesWithinLimit` needs the same of the
slice (`LimitInv`): a check stores it back, so `peak` begins anew only when list and
slice are both gone. `ClosesForReason`, `DropsClosed` and `CountMoves` are action
properties, proved of each step from these two. What `RemoveDevice` leaves of a list
(`Without`, a recursive function on positions) is characterised by `WithoutFacts` and
`RemoveFacts`: no induction theorem can be cited (below), so each takes a least
counterexample, which is first-order.

**DeviceRows.** `RowTypeCorrect`, `DeviceOwnerKept`, `OnlineIsTruthful`:
`RowSpec => []RowTypeOK`, `[]OwnerKept`, `[]OnlineTruthful`, from one invariant,
`RowInv`, of four parts beside the types. `JobsFit` says what a job holds at each
step. `CopyById` says that the copy by id is the row, unless somebody is about to
clear it or it came late: the administrator's jobs rely on it. `OwnerSafe` adds to
`OwnerKept` that there is one row and that every job which will write an owner back
holds the right one (`HoldsOwner`); a takeover re-establishes it from any state, if
nobody else holds a copy (`TakenSafe`). `StateSafe` does the same for the online
column, which is right only when callbacks have finished: it says what is so
meanwhile, that at most one callback is under way, that it is about to write what
is true (`Due`), and that a kick which has closed the connection will say so unless
a callback does (`Kicked`). One callback that runs alone re-establishes it from any
state (`Settles`).

**Identities.** `OwnersAreRightful`, `DeletedAreGone`: `IdSpec => []OwnersRightful`,
`[]DeletedStayGone`. `TypeInv` includes that ids and addresses of methods are unique,
through `Update`'s inserts and moves (`UpdateUnique`). `RightInv` says of each address
that was never rewritten, by a guest's activation among others, that its owner is the
rightful one, *and* of each method
some copy or request holds that it is honest about an address or backed by a row
(`Honest`, `Backed`), since a copy may become rows again. `GoneInv` says the same of
users that were deleted. The proof found that `OwnersRightful` was stated too
strongly: an administrator who gives a method another number, while the old number
is registered again and a copy that still has it is saved, moves *both* numbers; TLC
shows it with two numbers and four requests. The history `rewritten` now has both,
and the run has two numbers.

**Codes.** `CodeIsUsedOnce`: what was accepted and not pardoned is being
deleted, or gone (`Spent`, `Pardoned`).

**PeriodLimits.** `SendsAreLimited`: `LimitSpec => []SendsLimited`. `DayInv` says that
the counter of the day, unless the day is excused by a flush or a late call, counts
every sending the day allowed, and lives until the day ends (`Ending`). The rest is
arithmetic of quotients (`DivMod`, `DayOrder`), for a day of any length.

**How leaves are kept sturdy.** A leaf that the solvers find only by luck is a
proof that may fail on another machine. Leaves cite what they use, products and
quotients are hidden behind names before linear arithmetic is asked for, and each
disjunct of a step is a step of its own.

**Proved, without a run of their own.** `CountMovesWithList` of DeviceManager
(`CountMoves`) and the types of CachedRow (`TypeCorrect` of StoreProofs) hold for
every instance by their theorems, and no run repeats them; the types of DeviceRows
(`RowTypeCorrect`) are part of `PanelTypeOK`.

**Only model-checked.** *Liveness* (`PendingResolved` and `TasksDrain` of OrderLive,
`EventuallyFresh` of CachedFresh, `DeadLeaves` of DevicesListed, `DueClosed` and
`ServedUnlessStuck` of Progress) rests on fairness and ENABLED, which TLAPS does not
treat. `PanelTypeOK` is the conjunction of the types of the eleven parts: each
is a theorem about its part, and the run's sum of the parts is an artefact of
checking them at once. The *refutations* of section 5 are counterexamples, which
only TLC gives. TLAPS offers no induction over data either, since the installed
provers do not instantiate a theorem with an operator parameter: where a recursive
definition had to be characterised (sums, filters) the least counterexample takes
its place; and the models are written so that it is rarely needed.

## 5. Where code and comments disagree

* **OrderClosePaid / CloseOnlyPending.** `closeOrderLogic.go:44` says "If the
  order status is not 1, it means that the order has been closed or paid" and
  returns; but the status is that of a cached copy, and the transaction writes by
  order number without looking again. A notification in between is overwritten
  with 3, a guest's paid order is deleted.
* **OrderGift / GiftReturned.** `purchaseLogic.go:180` promises "Pre deduction
  ,Return after canceling the order"; `closeOrderLogic.go:85` writes the refund
  to a column `deduction` that no migration creates, so the transaction fails in
  every delivery and the order stays pending with the gift kept.
* **OrderAdminPaid / AdminPaidIsActivated.** `updateOrderStatusLogic.go:61` says
  "If order status is 2, create user subscription"; the task is enqueued before
  the commit, and a worker that is faster reads the old status and drops it.
* **DeviceReconnect / DisconnectedRemoved.** `device.go:64` says "remove device
  when disconnected", but the entry is found by the device's identifier: the
  reader of a connection that was replaced removes and closes its successor.
* **DeviceOwner / LoginKept.** `loginLogic.go:162` says "Change the user who owns
  the device"; the lookup before it caches the row under the identifier with the
  old owner, `UpdateDevice` clears the other key, and the online callback saves the
  cached row back as a whole: the device is its old owner's again.

Met while modelling, without a run of its own:

* `appWsLogic.go:66` says that one device is allowed by default, but sets 0, which
  `device.go:129` takes as 99.
* `activateOrderLogic.go:371` says "Check whether traffic reset on renewal is
  enabled"; the test below it is negated. `RenewalReset` is the column, and the
  model resets when it is FALSE, as the code does.
* `purchaseLogic.go:132` does not reduce the gift when it covers the price
  (`giftKept` of Accounts), and line 183 tests `err` where the call set `e`
  (`unchecked`).
* `userRegisterLogic.go:126` answers with a session although its transaction failed;
  `createUserAuthMethodLogic.go:34` returns when no method is found, so it never
  creates one; registration through OAuth looks for a column `email` that `user` does
  not have (`oAuthLoginGetTokenLogic.go:271`), so it always fails.
* `telephoneResetPasswordLogic.go` compares the stored JSON with the bare code and
  refuses when telephones *are* enabled, so it never succeeds; `sendSmsLogic.go:60`
  sets the status of a failure and overwrites it.
* `deleteAccountLogic.go:35` asserts a `user.User` where the middleware stores a
  pointer (`authMiddleware.go:80`), so it does nothing.
* `checkSubscriptionLogic.go:51,56` returns nil after a failed UPDATE: the
  transaction commits what was done so far.
* `initialize/telegram.go:37` starts the bot with `tg.BotToken`, which is not set
  there, instead of the token it has tested, so the bot does not start; the
  multiplier of node traffic is not loaded again when it is set.
* The counters of the day are never reset (nothing calls
  `ResetTodayTrafficData`), and a refund in units of an hour or a minute is 0.

## 6. What is not modelled, and why

The models cover the code that keeps state shared by concurrent actors. It is a
small part of the repository by lines: most of its 52,000 lines are request types
and routes (`internal/types`, `internal/handler`), the logger, adapters that render
client configurations, clients of payment, SMS and e-mail services, templates, and
create-read-update-delete handlers of independent rows. No state of another
component depends on what these do, so that a model of them would have nothing to
be checked against.

* **The application API** (`logic/app`) is a near copy of the public API with
  encrypted payloads. Where it differs in what it does to shared state (a reset of
  the period, an order with a coupon, codes that stay stored) the difference is in
  `Subscriptions`, `Coupons` and `Codes`.
* **Client configuration, e-mail, SMS, Telegram output, content**: no state depends
  on them; that a message with a code is late or lost is part of `Codes`.
* **TokenLimiter** (`pkg/limit/tokenlimit.go`): nothing in the program constructs one.
* **Sessions**: a key per token that expires. **Passwords** are data.
* **Lists cached under a key of their own.** The list of a user's subscriptions is
  stored under one key whatever statuses the caller filtered by
  (`model/user/subscribe.go:71`), and `purchaseLogic.go:51` reads it.
* **Device rows**: address, agent, the administrator's switch, and
  `device_online_record`, which is only inserted into.
* **Subscriptions**: that a row is given another plan, the logs. **Accounts**: the
  return of a gift by a close, which always fails (OrderGift), the trial. **Coupons**:
  expiry dates, the plans a coupon is for, its creation and deletion. **ConfigViews**:
  the settings of login methods (another table) and the node's view of its own
  settings, which is stored without expiry. **Node figures**: yesterday's totals, the
  status of nodes (one key, overwritten by each report). **Deductions**: discounts
  and fees, products of two numbers, and amounts too large for 64 bits.
* **Start-up**: migrations and the creation of the first administrator, which run
  before anything else.
* **MySQL** beyond atomic statements, read-committed SELECTs and row locks; **more
  than one process per store**: processes share nothing else, so they are goroutines
  here, except that each has its own memory of the settings (`ConfigViews` has one).

## 7. The plan

Done: `OrderLifecycle`, `CachedRow` with `FreshRegister`, `DeviceManager`, `DeviceRows`,
`Subscriptions`, `Accounts`, `Coupons`, `Deductions`, `ConfigViews`, `OnlineUsers`,
`DayTraffic`, `ConnectionPool`, `Identities`, `PeriodLimits`, `Codes`, and the proofs
of section 4.

Left: the list of a user's subscriptions beside the row, which composes with
`Subscriptions`.
