------------------------------- MODULE Coupons -------------------------------
(***************************************************************************)
(* A coupon that may be used Count times, and UserLimit times by one user. *)
(* An order of a user that names it is checked against a cached copy of    *)
(* the coupon and against his orders; one of a guest, who has no orders    *)
(* yet, against the copy only; one the administrator enters, against       *)
(* nothing.  The use is counted later, whenever the paid order is          *)
(* activated, by a read and a save of the whole row.                       *)
(***************************************************************************)
EXTENDS Naturals, FiniteSets

CONSTANTS
    Cashier,    \* goroutines
    Count,      \* the uses of the coupon
    UserLimit,  \* the orders of one user that may name it
    MaxOrders,  \* bound: orders asked for
    MaxSlips,   \* bound: calls that fail
    MaxEdits,   \* bound: edits by the administrator
    Unknown     \* no copy

ASSUME CouponAssumption ==
    /\ IsFiniteSet(Cashier)
    /\ {Count, UserLimit, MaxOrders, MaxSlips, MaxEdits} \subseteq Nat
    /\ Unknown \notin Nat

VARIABLES
    usedCount,   \* the column used_count of the committed row
    couponCopy,  \* the copy under the code
    placed,      \* orders that name the coupon
    unused,      \* those of them not activated yet
    mine,        \* those of them that are the user's
    desk, aim,   \* where a goroutine is, and what for
    saw,         \* the used_count it read
    asked, slips, edits, \* history: counted for the bounds
    uses,        \* history: activations
    excuses      \* history: events that explain a wrong count

couponStore == <<usedCount, couponCopy, placed, unused, mine>>
couponFlow  == <<desk, aim, saw>>
couponVars  == <<couponStore, couponFlow, asked, slips, edits, uses, excuses>>

Aims  == {"none", "order", "guest", "activate", "edit"}
Desks == {"idle", "get", "query", "fill", "limit", "insert", "save", "drop"}

CouponInit ==
    /\ usedCount = 0 /\ couponCopy = Unknown /\ placed = 0 /\ unused = 0
    /\ mine = 0
    /\ desk = [c \in Cashier |-> "idle"] /\ aim = [c \in Cashier |-> "none"]
    /\ saw = [c \in Cashier |-> Unknown]
    /\ asked = 0 /\ slips = 0 /\ edits = 0 /\ uses = 0 /\ excuses = {}

On(c, l)  == desk[c] = l
Pass(c, l) == desk' = [desk EXCEPT ![c] = l] /\ UNCHANGED aim

Close(c) ==
    /\ desk' = [desk EXCEPT ![c] = "idle"]
    /\ aim'  = [aim EXCEPT ![c] = "none"]
    /\ saw'  = [saw EXCEPT ![c] = Unknown]

ExcuseIf(b, e) == excuses' = IF b THEN excuses \cup {e} ELSE excuses

Open(c, a) ==
    /\ On(c, "idle")
    /\ desk' = [desk EXCEPT ![c] = "get"] /\ aim' = [aim EXCEPT ![c] = a]
    /\ UNCHANGED <<usedCount, couponCopy, placed, mine, saw, uses>>

AskOrder(c) ==
    /\ asked < MaxOrders /\ asked' = asked + 1
    /\ \E a \in {"order", "guest"} : Open(c, a)
    /\ UNCHANGED <<unused, slips, edits, excuses>>

\* The order has been paid: the worker activates it and counts the use.
ActivateUse(c) ==
    /\ unused > 0 /\ unused' = unused - 1
    /\ Open(c, "activate") /\ UNCHANGED <<asked, slips, edits, excuses>>

\* The order was activated, and its status is still that of a paid one: the
\* worker crashed before it saved the status, or that failed.  The task is
\* delivered again, and counts again.
ActivateAgain(c) ==
    /\ unused < placed /\ slips < MaxSlips /\ slips' = slips + 1
    /\ Open(c, "activate") /\ ExcuseIf(TRUE, "redelivered")
    /\ UNCHANGED <<unused, asked, edits>>

\* UpdateCoupon saves what the form showed, used_count included.
ShowForm(c) ==
    /\ edits < MaxEdits /\ edits' = edits + 1
    /\ On(c, "idle")
    /\ desk' = [desk EXCEPT ![c] = "save"] /\ aim' = [aim EXCEPT ![c] = "edit"]
    /\ saw' = [saw EXCEPT ![c] = usedCount]
    /\ UNCHANGED <<couponStore, asked, slips, uses, excuses>>

----------------------------------------------------------------------------
\* Mutant: one use too many passes the check.
LookedUpLate(c, n) ==
    \/ /\ aim[c] # "activate" /\ Count < n /\ Close(c)
    \/ /\ aim[c] # "activate" /\ n <= Count
       /\ Pass(c, IF aim[c] = "guest" THEN "insert" ELSE "limit")
       /\ saw' = [saw EXCEPT ![c] = n]
    \/ /\ aim[c] = "activate"
       /\ Pass(c, "save") /\ saw' = [saw EXCEPT ![c] = n]

\* The check of the whole limit; a guest's order goes on to be inserted.
LookedUp(c, n) ==
    \/ /\ aim[c] # "activate" /\ Count <= n /\ Close(c)
    \/ /\ aim[c] # "activate" /\ n < Count
       /\ Pass(c, IF aim[c] = "guest" THEN "insert" ELSE "limit")
       /\ saw' = [saw EXCEPT ![c] = n]
    \/ /\ aim[c] = "activate"
       /\ Pass(c, "save") /\ saw' = [saw EXCEPT ![c] = n]

\* FindOneByCode.
GetCoupon(c) ==
    /\ On(c, "get")
    /\ \/ couponCopy # Unknown /\ LookedUp(c, couponCopy)
       \/ couponCopy = Unknown /\ Pass(c, "query") /\ UNCHANGED saw
    /\ UNCHANGED <<couponStore, asked, slips, edits, uses, excuses>>

QueryCoupon(c) ==
    /\ On(c, "query")
    /\ Pass(c, "fill") /\ saw' = [saw EXCEPT ![c] = usedCount]
    /\ UNCHANGED <<couponStore, asked, slips, edits, uses, excuses>>

FillCoupon(c) ==
    /\ On(c, "fill")
    /\ couponCopy' = saw[c]
    /\ LookedUp(c, saw[c])
    /\ UNCHANGED <<usedCount, placed, unused, mine, asked, slips, edits, uses,
                   excuses>>

\* Mutant: the orders of the user are not counted.
CountOrdersNot(c) ==
    /\ On(c, "limit")
    /\ Pass(c, "insert") /\ UNCHANGED saw
    /\ UNCHANGED <<couponStore, asked, slips, edits, uses, excuses>>

\* The orders of the user that name the coupon, whatever became of them.
CountOrders(c) ==
    /\ On(c, "limit")
    /\ \/ mine >= UserLimit /\ Close(c)
       \/ mine < UserLimit /\ Pass(c, "insert") /\ UNCHANGED saw
    /\ UNCHANGED <<couponStore, asked, slips, edits, uses, excuses>>

\* Another order of the user has been counted for and not inserted yet.
Crosses(c) == \E d \in Cashier \ {c} : On(d, "insert") /\ aim[d] = "order"

\* The order is inserted; it may be paid and activated from now on.  That of a
\* guest may be the one the user comes to be with.
InsertOrder(c) ==
    /\ On(c, "insert")
    /\ placed' = placed + 1 /\ unused' = unused + 1
    /\ \/ aim[c] = "guest" /\ UNCHANGED mine
       \/ (aim[c] = "guest" => mine = 0) /\ mine' = mine + 1
    /\ excuses' = excuses
         \cup {e \in {"promised"} : uses < Count /\ placed >= Count}
         \cup {e \in {"staleCheck"} : saw[c] # usedCount}
         \cup {e \in {"together"} : Crosses(c)}
         \cup {e \in {"guest"} : aim[c] = "guest" /\ mine >= UserLimit}
    /\ Close(c)
    /\ UNCHANGED <<usedCount, couponCopy, asked, slips, edits, uses>>

\* CreateOrder of the administrator, for the user: nothing is checked.
EnterOrder(c) ==
    /\ On(c, "idle") /\ asked < MaxOrders /\ asked' = asked + 1
    /\ placed' = placed + 1 /\ unused' = unused + 1 /\ mine' = mine + 1
    /\ excuses' = excuses
         \cup {e \in {"unchecked"} : placed >= Count \/ mine >= UserLimit}
         \cup {e \in {"together"} : Crosses(c)}
    /\ UNCHANGED <<usedCount, couponCopy, couponFlow, slips, edits, uses>>

\* UpdateCount: the use counts from here on, whatever the row says.
SaveCount(c) ==
    /\ On(c, "save")
    /\ \/ /\ aim[c] = "activate" /\ usedCount' = saw[c] + 1 /\ uses' = uses + 1
       \/ /\ aim[c] = "edit" /\ usedCount' = saw[c] /\ UNCHANGED uses
    /\ ExcuseIf(saw[c] # usedCount, "staleSave")
    /\ Pass(c, "drop") /\ UNCHANGED saw
    /\ UNCHANGED <<couponCopy, placed, unused, mine, asked, slips, edits>>

\* The keys of the id and of the code.
DropCoupon(c) ==
    /\ On(c, "drop")
    /\ couponCopy' = Unknown
    /\ Close(c)
    /\ UNCHANGED <<usedCount, placed, unused, mine, asked, slips, edits, uses,
                   excuses>>

\* A call fails.  The order is refused; an activation goes on without counting.
CouponFails(c) ==
    /\ ~On(c, "idle") /\ slips < MaxSlips /\ slips' = slips + 1
    /\ \/ /\ aim[c] = "activate" /\ ~On(c, "drop")
          /\ uses' = uses + 1 /\ ExcuseIf(TRUE, "notCounted")
       \/ /\ aim[c] # "activate" \/ On(c, "drop")
          /\ UNCHANGED uses /\ ExcuseIf(On(c, "drop"), "notDropped")
    /\ Close(c)
    /\ UNCHANGED <<couponStore, asked, edits>>

CouponNext ==
    \E c \in Cashier :
      \/ AskOrder(c) \/ EnterOrder(c) \/ ShowForm(c)
      \/ ActivateUse(c) \/ ActivateAgain(c)
      \/ GetCoupon(c) \/ QueryCoupon(c) \/ FillCoupon(c)
      \/ CountOrders(c) \/ InsertOrder(c)
      \/ SaveCount(c) \/ DropCoupon(c) \/ CouponFails(c)

CouponSpec == CouponInit /\ [][CouponNext]_couponVars

(***************************************************************************)
(* Properties.                                                             *)
(***************************************************************************)
CouponTypeOK ==
    /\ {usedCount, placed, unused, mine, uses} \subseteq Nat
    /\ couponCopy \in Nat \cup {Unknown} /\ saw \in [Cashier -> Nat \cup {Unknown}]
    /\ desk \in [Cashier -> Desks] /\ aim \in [Cashier -> Aims]

\* The coupon is used at most Count times, unless an order was placed against
\* a use that other open orders already claimed, as placing one reserves
\* nothing (purchaseLogic.go:106), the count it was checked against was older
\* than the row, or wrong, the administrator entered it when every use had its
\* order (admin/order/createOrderLogic.go:46), or one order was activated twice
\* (activateOrderLogic.go:90 counts before the status is saved).
CouponLimit ==
    \/ uses <= Count
    \/ excuses \cap {"promised", "staleCheck", "staleSave", "notCounted",
                     "unchecked", "redelivered"} # {}

\* One user has at most UserLimit orders with the coupon, unless two of his
\* requests counted them before either inserted its order
\* (purchaseLogic.go:115 counts in a transaction of its own), the administrator
\* entered one too many, or the order he came to be with as a guest, which
\* nobody counts (portal/purchaseLogic.go:76), is already one too many.
UserLimitKept ==
    mine <= UserLimit \/ excuses \cap {"together", "unchecked", "guest"} # {}
=============================================================================
