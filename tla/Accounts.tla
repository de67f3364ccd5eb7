------------------------------ MODULE Accounts ------------------------------
(***************************************************************************)
(* The money of one user: balance, gift and commission, three columns of   *)
(* a row that every operation reads as a whole, from MySQL or from the     *)
(* copy in Redis, and saves as a whole; and the logs of what was added to  *)
(* and taken from them.                                                    *)
(*                                                                         *)
(* UserModel.Update saves inside the caller's transaction when it is given *)
(* one, else on a connection of its own, at once: then the log the caller  *)
(* writes in its transaction may be rolled back while the money has moved. *)
(* DEL follows the statement, before the transaction commits.              *)
(*                                                                         *)
(* Who gives a subscription back need not own it: nothing compares the     *)
(* two.  The money goes to the caller, the log to the owner; the user here *)
(* is either.                                                              *)
(***************************************************************************)
EXTENDS Integers, FiniteSets

CONSTANTS
    Clerk,     \* goroutines that work for the user
    PlanPrice, \* what an order costs that a gift may pay
    MaxTasks,  \* bound: operations begun
    MaxBreaks, \* bound: calls that fail
    NoRow      \* no copy, no goroutine

Account == [balance: Int, gift: Int, commission: Int]

ASSUME AccountAssumption ==
    /\ PlanPrice \in Nat /\ MaxTasks \in Nat /\ MaxBreaks \in Nat
    /\ NoRow \notin Clerk /\ NoRow \notin Account
    /\ IsFiniteSet(Clerk)

\* Operations that get the user from the cache: the authentication puts it
\* into the request, the queue looks it up.  A "grab" gives back another
\* user's subscription; to "lose" is that another user gives back this one's.
Handed == {"order", "refund", "grab", "profile", "recharge", "commission",
           "admin"}
Tasks  == Handed \cup {"pay", "lose"}
Backs  == {"refund", "lose"}    \* give back the subscription
InTx   == {"order", "recharge"} \* Update is given the transaction
Places == {"idle", "get", "query", "fill", "check", "unsub", "read", "save",
           "drop", "mark", "log", "clear", "commit"}

VARIABLES
    user,     \* the committed row
    entries,  \* what the logs add up to, the first amounts included
    userCopy, \* the copy in Redis
    userLock, \* the goroutine whose open transaction holds the row
    active,   \* the subscription that may be given back has status 1
    place, task, \* where a goroutine is, in which operation
    seen,     \* the user it read, or, in a transaction, saved
    tasks, breaks, \* history: counted for the bounds
    funds,    \* history: balance there was or that was added
    paid,     \* history: orders paid from the balance
    refunds,  \* history: refunds logged
    reopened, \* history: times the subscription came into use again
    marks     \* history: events that explain a wrong amount

acctStore == <<user, entries, userCopy, userLock, active>>
acctFlow  == <<place, task, seen>>
acctPast  == <<funds, paid, refunds, reopened, marks>>
acctVars  == <<acctStore, acctFlow, tasks, breaks, acctPast>>

AcctInit ==
    /\ \E g \in {PlanPrice - 1, PlanPrice} :
         user = [balance |-> 1, gift |-> g, commission |-> 0]
    /\ entries = user /\ userCopy = NoRow /\ userLock = NoRow /\ active = TRUE
    /\ place = [c \in Clerk |-> "idle"] /\ task = [c \in Clerk |-> "profile"]
    /\ seen = [c \in Clerk |-> NoRow]
    /\ tasks = 0 /\ breaks = 0
    /\ funds = 1 /\ paid = 0 /\ refunds = 0 /\ reopened = 0 /\ marks = {}

In(c, l)   == place[c] = l
Step(c, l) == place' = [place EXCEPT ![c] = l] /\ UNCHANGED task
See(c, r)  == seen' = [seen EXCEPT ![c] = r]

Done(c) ==
    /\ place' = [place EXCEPT ![c] = "idle"]
    /\ task'  = [task EXCEPT ![c] = "profile"]
    /\ See(c, NoRow)

MarkIf(b, m) == marks' = IF b THEN marks \cup {m} ELSE marks

----------------------------------------------------------------------------
FirstPlace(t) == CASE t = "pay"  -> "read"
                   [] t = "lose" -> "check"
                   [] OTHER      -> "get"

BeginTask(c) ==
    /\ In(c, "idle") /\ tasks < MaxTasks /\ tasks' = tasks + 1
    /\ \E t \in Tasks :
         /\ task'  = [task EXCEPT ![c] = t]
         /\ place' = [place EXCEPT ![c] = FirstPlace(t)]
    /\ UNCHANGED <<acctStore, seen, breaks, acctPast>>

\* What follows the lookup.  An order goes on to the user only if he has a
\* gift; the amounts of the order itself are left out.
GotRow(c, r) ==
    \/ /\ task[c] = "order" /\ r.gift <= 0
       /\ Done(c)
    \/ /\ task[c] # "order" \/ r.gift > 0
       /\ Step(c, IF task[c] = "refund" THEN "check" ELSE "save")
       /\ See(c, r)

GetUser(c) ==
    /\ In(c, "get")
    /\ \/ userCopy # NoRow /\ GotRow(c, userCopy)
       \/ userCopy = NoRow /\ Step(c, "query") /\ UNCHANGED seen
    /\ UNCHANGED <<acctStore, tasks, breaks, acctPast>>

QueryUser(c) ==
    /\ In(c, "query")
    /\ Step(c, "fill") /\ See(c, user)
    /\ UNCHANGED <<acctStore, tasks, breaks, acctPast>>

FillUser(c) ==
    /\ In(c, "fill")
    /\ userCopy' = seen[c]
    /\ GotRow(c, seen[c])
    /\ UNCHANGED <<user, entries, userLock, active, tasks, breaks, acctPast>>

\* Somebody else has found the subscription in use and not saved it yet.
Overlaps(c) == \E d \in Clerk \ {c} : In(d, "unsub")

\* Mutant: a subscription can be given back whatever its status.
CheckActiveNot(c) ==
    /\ In(c, "check")
    /\ Step(c, "unsub") /\ UNCHANGED seen /\ MarkIf(Overlaps(c), "overlap")
    /\ UNCHANGED <<acctStore, tasks, breaks, funds, paid, refunds, reopened>>

\* CalculateRemainingAmount, before the transaction.
CheckActive(c) ==
    /\ In(c, "check")
    /\ \/ /\ active /\ Step(c, "unsub") /\ UNCHANGED seen
          /\ MarkIf(Overlaps(c), "overlap")
       \/ ~active /\ Done(c) /\ UNCHANGED marks
    /\ UNCHANGED <<acctStore, tasks, breaks, funds, paid, refunds, reopened>>

\* The row is read again, but not its status, and saved at once; the money
\* that follows is the caller's.
Unsubscribe(c) ==
    /\ In(c, "unsub")
    /\ active' = FALSE
    /\ Step(c, IF task[c] = "lose" THEN "commit" ELSE "save") /\ UNCHANGED seen
    /\ UNCHANGED <<user, entries, userCopy, userLock, tasks, breaks, acctPast>>

\* A renewal or a traffic reset is activated, or a row read while the status
\* was 1 is saved: none of them looks at the status.
Reopen ==
    /\ ~active /\ active' = TRUE
    /\ tasks < MaxTasks /\ tasks' = tasks + 1
    /\ reopened' = reopened + 1
    /\ UNCHANGED <<user, entries, userCopy, userLock, acctFlow, breaks, funds,
                   paid, refunds, marks>>

\* Mutant: the balance is not compared with the amount.
ReadBalanceAny(c) ==
    /\ In(c, "read")
    /\ Step(c, "save") /\ See(c, user)
    /\ UNCHANGED <<acctStore, tasks, breaks, acctPast>>

\* balancePayment reads the row in its transaction, without a lock.
ReadBalance(c) ==
    /\ In(c, "read")
    /\ \/ user.balance >= 1 /\ Step(c, "save") /\ See(c, user)
       \/ user.balance < 1 /\ Done(c)
    /\ UNCHANGED <<acctStore, tasks, breaks, acctPast>>

----------------------------------------------------------------------------
\* Mutant: a recharge adds to the gift.
SavedGift(t, r) ==
    CASE t = "order"      -> {[r EXCEPT !.gift = IF @ >= PlanPrice THEN @ ELSE 0]}
      [] t = "pay"        -> {[r EXCEPT !.balance = @ - 1]}
      [] t \in {"refund", "grab"} -> {[r EXCEPT !.balance = @ + 1]}
      [] t = "recharge"   -> {[r EXCEPT !.gift = @ + 1]}
      [] t = "commission" -> {[r EXCEPT !.commission = @ + 1]}
      [] t = "profile"    -> {r}
      [] t = "admin"      -> {[r EXCEPT !.balance = 2], r}

\* The row an operation saves, from the row it read.  A gift that covers the
\* whole price stays: the amount subtracted has just been set to 0.  The
\* administrator's zeros are not copied.
Saved(t, r) ==
    CASE t = "order"      -> {[r EXCEPT !.gift = IF @ >= PlanPrice THEN @ ELSE 0]}
      [] t = "pay"        -> {[r EXCEPT !.balance = @ - 1]}
      [] t \in {"refund", "grab", "recharge"} -> {[r EXCEPT !.balance = @ + 1]}
      [] t = "commission" -> {[r EXCEPT !.commission = @ + 1]}
      [] t = "profile"    -> {r}
      [] t = "admin"      -> {[r EXCEPT !.balance = 2], r}

\* What an operation logs.  An order logs the gift it takes.
Logged(t, before) ==
    CASE t = "order"      -> [entries EXCEPT !.gift =
                                @ - IF before.gift >= PlanPrice THEN PlanPrice
                                                               ELSE before.gift]
      [] t = "pay"        -> [entries EXCEPT !.balance = @ - 1]
      [] t \in Backs \cup {"recharge"} -> [entries EXCEPT !.balance = @ + 1]
      [] t = "commission" -> [entries EXCEPT !.commission = @ + 1]

\* UserModel.Update: the row is saved as a whole, over whatever happened since
\* it was read.
SaveUser(c) ==
    /\ In(c, "save")
    /\ userLock = NoRow
    /\ \E r \in Saved(task[c], seen[c]) :
         /\ IF task[c] \in InTx
              THEN userLock' = c /\ UNCHANGED user
              ELSE user' = r /\ UNCHANGED userLock
         /\ marks' = marks \cup
                {m \in {"staleSave"} : seen[c] # user} \cup
                {m \in {"giftKept"} : task[c] = "order" /\ seen[c].gift = r.gift} \cup
                {m \in {"edited"} : task[c] = "admin" /\ r # seen[c]} \cup
                {m \in {"foreign"} : task[c] = "grab"}
    /\ Step(c, "drop") /\ UNCHANGED seen
    /\ funds' = IF task[c] \in {"refund", "grab"} THEN funds + 1 ELSE funds
    /\ UNCHANGED <<entries, userCopy, active, tasks, breaks, paid, refunds,
                   reopened>>

DropUser(c) ==
    /\ In(c, "drop")
    /\ userCopy' = NoRow
    /\ \/ task[c] \in {"profile", "admin", "grab"} /\ Done(c)
       \/ task[c] = "pay" /\ Step(c, "mark") /\ UNCHANGED seen
       \/ task[c] = "commission" /\ Step(c, "log") /\ UNCHANGED seen
       \/ /\ task[c] \in {"order", "recharge", "refund"}
          /\ Step(c, "commit") /\ UNCHANGED seen
    /\ UNCHANGED <<user, entries, userLock, active, tasks, breaks, acctPast>>

\* UpdateOrderStatus, on a connection of its own.
MarkPaid(c) ==
    /\ In(c, "mark")
    /\ paid' = paid + 1
    /\ Step(c, "commit") /\ UNCHANGED seen
    /\ UNCHANGED <<acctStore, tasks, breaks, funds, refunds, reopened, marks>>

\* The log of a commission is written after the fact, outside a transaction;
\* if that fails the error is only logged.
LogCommission(c) ==
    /\ In(c, "log")
    /\ \/ entries' = Logged(task[c], seen[c]) /\ UNCHANGED <<breaks, marks>>
       \/ /\ breaks < MaxBreaks /\ breaks' = breaks + 1
          /\ UNCHANGED entries /\ MarkIf(TRUE, "halfDone")
    /\ Step(c, "clear") /\ UNCHANGED seen
    /\ UNCHANGED <<user, userCopy, userLock, active, tasks, funds, paid,
                   refunds, reopened>>

\* UpdateUserCache.
ClearUser(c) ==
    /\ In(c, "clear")
    /\ userCopy' = NoRow
    /\ Done(c)
    /\ UNCHANGED <<user, entries, userLock, active, tasks, breaks, acctPast>>

\* The transaction commits: its log, and the row if it was saved in it.
Commit(c) ==
    /\ In(c, "commit")
    /\ entries' = Logged(task[c], seen[c])
    /\ IF task[c] \in InTx
         THEN user' \in Saved(task[c], seen[c]) /\ userLock' = NoRow
         ELSE UNCHANGED <<user, userLock>>
    /\ funds' = IF task[c] = "recharge" THEN funds + 1 ELSE funds
    /\ refunds' = IF task[c] \in Backs THEN refunds + 1 ELSE refunds
    /\ MarkIf(task[c] = "lose", "foreign")
    /\ Done(c)
    /\ UNCHANGED <<userCopy, active, tasks, breaks, paid, reopened>>

(***************************************************************************)
(* A call fails: the transaction is rolled back.  What Update saved on its *)
(* own connection stays.                                                   *)
(***************************************************************************)
TaskFails(c) ==
    /\ place[c] \in {"get", "read", "unsub", "save", "drop", "mark", "commit"}
    /\ breaks < MaxBreaks /\ breaks' = breaks + 1
    /\ userLock' = IF userLock = c THEN NoRow ELSE userLock
    /\ MarkIf(/\ task[c] \notin InTx \cup {"lose"}
              /\ place[c] \in {"drop", "mark", "commit"}, "halfDone")
    /\ Done(c)
    /\ UNCHANGED <<user, entries, userCopy, active, tasks, funds, paid,
                   refunds, reopened>>

\* purchaseLogic.go:183 tests another error than the one Update returned: the
\* order is placed and logged although the user was not saved.
UpdateIgnored(c) ==
    /\ In(c, "save") /\ task[c] = "order"
    /\ breaks < MaxBreaks /\ breaks' = breaks + 1
    /\ entries' = Logged("order", seen[c])
    /\ MarkIf(TRUE, "unchecked")
    /\ Done(c)
    /\ UNCHANGED <<user, userCopy, userLock, active, tasks, funds, paid,
                   refunds, reopened>>

AcctNext ==
    \/ Reopen
    \/ \E c \in Clerk :
         \/ BeginTask(c) \/ GetUser(c) \/ QueryUser(c) \/ FillUser(c)
         \/ CheckActive(c) \/ Unsubscribe(c) \/ ReadBalance(c)
         \/ SaveUser(c) \/ DropUser(c) \/ MarkPaid(c) \/ LogCommission(c)
         \/ ClearUser(c) \/ Commit(c) \/ TaskFails(c) \/ UpdateIgnored(c)

AcctSpec == AcctInit /\ [][AcctNext]_acctVars

(***************************************************************************)
(* Properties.                                                             *)
(***************************************************************************)
AcctTypeOK ==
    /\ user \in Account /\ entries \in Account
    /\ userCopy \in Account \cup {NoRow} /\ userLock \in Clerk \cup {NoRow}
    /\ active \in BOOLEAN
    /\ place \in [Clerk -> Places] /\ task \in [Clerk -> Tasks]
    /\ seen \in [Clerk -> Account \cup {NoRow}]
    /\ {funds, paid, refunds, reopened} \subseteq Nat

\* When nobody works for the user, he has what the logs add up to; unless a
\* row read earlier was saved over a change (user/default.go:117), a call
\* failed between the save and the end of the transaction that logs it
\* (purchaseCheckoutLogic.go:292, unsubscribeLogic.go:67), the failure of the
\* save was overlooked (purchaseLogic.go:183), a gift covered a whole price
\* (purchaseLogic.go:135), the administrator set an amount, which no log
\* shows, or somebody gave back a subscription that was not his own, whose
\* owner gets the log (unsubscribeLogic.go:56) and not the money.
LedgerBalanced ==
    (\A c \in Clerk : In(c, "idle")) =>
        \/ user = entries
        \/ marks \cap {"staleSave", "halfDone", "unchecked", "giftKept",
                       "edited", "foreign"} # {}

\* What is paid from the balance was there or was added; unless two saves of
\* the same row crossed, or the administrator set the balance.  Neither the
\* query nor the statement of balancePayment locks the row.
SpentWithinFunds ==
    paid <= funds \/ marks \cap {"staleSave", "edited"} # {}

\* A subscription is refunded once for every time it came into use, by its
\* purchase or again (activateOrderLogic.go:381 and 491 set the status back
\* whatever it was); unless two requests both found it in use before either
\* saved its status (calculateRemainingAmount.go:29 is not in the transaction
\* that saves it).
RefundedOnce == refunds <= 1 + reopened \/ "overlap" \in marks
=============================================================================
