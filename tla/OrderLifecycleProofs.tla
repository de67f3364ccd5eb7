------------------------ MODULE OrderLifecycleProofs ------------------------
(***************************************************************************)
(* What holds of OrderLifecycle for every set of goroutines and every      *)
(* bound, proved by TLAPS: first the type invariant, then the inductive    *)
(* invariant IInv and the two safety properties that follow from it.       *)
(***************************************************************************)
EXTENDS OrderLifecycle, TLAPS

(***************************************************************************)
(* The type invariant.                                                     *)
(***************************************************************************)
LEMMA TypeFind ==
    ASSUME TypeOK, NEW p \in Proc, Find(p)
    PROVE  TypeOK'
<1> USE ParamAssumption, NoneAssumption
       DEF TypeOK, GlobalsOK, GoroutineOK, RowOrNone, Key, Jobs,
           AllRequestJobs, Labels, Returns, Finding, Copied, Causes, Counts,
           Pending, Paid, Closed, Finished, storeVars, placeVars, payVars,
           queueVars, effectVars, procVars, histVars,
           At, Goto, Finish, Lookup, LookupLast, DelKeys, Count,
           Arrive, LookupKey
<1>1. CASE Get(p)
  BY <1>1 DEF Get
<1>2. CASE Query(p)
  BY <1>2 DEF Query
<1>3. CASE QueryMissing(p)
  BY <1>3 DEF QueryMissing
<1>4. CASE Fill(p)
  BY <1>4 DEF Fill
<1>5. QED
  BY <1>1, <1>2, <1>3, <1>4 DEF Find

LEMMA TypeCheckout ==
    ASSUME TypeOK, NEW p \in Proc, Checkout(p)
    PROVE  TypeOK'
<1> USE ParamAssumption, NoneAssumption
       DEF TypeOK, GlobalsOK, GoroutineOK, RowOrNone, Key, Jobs,
           AllRequestJobs, Labels, Returns, Finding, Copied, Causes, Counts,
           Pending, Paid, Closed, Finished, storeVars, placeVars, payVars,
           queueVars, effectVars, procVars, histVars,
           At, Goto, Finish, Lookup, LookupLast, DelKeys, Count,
           Deciding
<1>1. CASE CheckoutRefused(p)
  BY <1>1 DEF CheckoutRefused
<1>2. CASE CheckoutGateway(p)
  BY <1>2 DEF CheckoutGateway
<1>3. CASE CheckoutBalance(p)
  BY <1>3 DEF CheckoutBalance
<1>4. CASE Debit(p)
  BY <1>4 DEF Debit
<1>5. CASE InsufficientBalance(p)
  BY <1>5 DEF InsufficientBalance
<1>6. QED
  BY <1>1, <1>2, <1>3, <1>4, <1>5 DEF Checkout

LEMMA TypeSettlePaid ==
    ASSUME TypeOK, NEW p \in Proc, SettlePaid(p)
    PROVE  TypeOK'
<1> USE ParamAssumption, NoneAssumption
       DEF TypeOK, GlobalsOK, GoroutineOK, RowOrNone, Key, Jobs,
           AllRequestJobs, Labels, Returns, Finding, Copied, Causes, Counts,
           Pending, Paid, Closed, Finished, storeVars, placeVars, payVars,
           queueVars, effectVars, procVars, histVars,
           At, Goto, Finish, Lookup, LookupLast, DelKeys, Count,
           Deciding, Unlocked, WithStatus
<1>1. CASE NotifySkip(p)
  BY <1>1 DEF NotifySkip
<1>2. CASE NotifyAccept(p)
  BY <1>2 DEF NotifyAccept
<1>3. CASE SetPaid(p)
  BY <1>3 DEF SetPaid, Row, Status
<1>4. CASE DelPaid(p)
  BY <1>4 DEF DelPaid
<1>5. CASE Enqueue(p)
  BY <1>5 DEF Enqueue
<1>6. QED
  BY <1>1, <1>2, <1>3, <1>4, <1>5 DEF SettlePaid

LEMMA TypeCloseOrder ==
    ASSUME TypeOK, NEW p \in Proc, CloseOrder(p)
    PROVE  TypeOK'
<1> USE ParamAssumption, NoneAssumption
       DEF TypeOK, GlobalsOK, GoroutineOK, RowOrNone, Key, Jobs,
           AllRequestJobs, Labels, Returns, Finding, Copied, Causes, Counts,
           Pending, Paid, Closed, Finished, storeVars, placeVars, payVars,
           queueVars, effectVars, procVars, histVars,
           At, Goto, Finish, Lookup, LookupLast, DelKeys, Count,
           Closing, AckClose, Unlocked, WithStatus, HasStatus
<1>1. CASE CloseSkip(p)
  BY <1>1 DEF CloseSkip
<1>2. CASE CloseStart(p)
  BY <1>2 DEF CloseStart
<1>3. CASE CloseCommit(p)
  BY <1>3 DEF CloseCommit, Row, Status
<1>4. CASE CloseGiftFails(p)
  BY <1>4 DEF CloseGiftFails
<1>5. QED
  BY <1>1, <1>2, <1>3, <1>4 DEF CloseOrder

LEMMA TypeActivateOrder ==
    ASSUME TypeOK, NEW p \in Proc, ActivateOrder(p)
    PROVE  TypeOK'
<1> USE ParamAssumption, NoneAssumption
       DEF TypeOK, GlobalsOK, GoroutineOK, RowOrNone, Key, Jobs,
           AllRequestJobs, Labels, Returns, Finding, Copied, Causes, Counts,
           Pending, Paid, Closed, Finished, storeVars, placeVars, payVars,
           queueVars, effectVars, procVars, histVars,
           At, Goto, Finish, Lookup, LookupLast, DelKeys, Count,
           Deciding, Unlocked, HasStatus, IsPurchase
<1>1. CASE ActivateDrop(p)
  BY <1>1 DEF ActivateDrop
<1>2. CASE ActivateStart(p)
  BY <1>2 DEF ActivateStart
<1>11. CASE ActivateUnknown(p)
  BY <1>11 DEF ActivateUnknown
<1>3. CASE AccountExpired(p)
  BY <1>3 DEF AccountExpired
<1>4. CASE CreateAccount(p)
  <2>1. snap[p] \in Row
    BY <1>4 DEF CreateAccount
  <2>2. [snap[p] EXCEPT !.guest = FALSE] \in Row
    BY <2>1 DEF Row
  <2>3. row' \in RowOrNone
    BY <1>4 DEF CreateAccount, Row
  <2>4. snap' = [snap EXCEPT ![p] = [snap[p] EXCEPT !.guest = FALSE]]
    BY <1>4 DEF CreateAccount
  <2>5. GlobalsOK'
    BY <1>4, <2>3 DEF CreateAccount
  <2>6. snap' \in [Proc -> RowOrNone] /\ snap'[p] # None
    BY <2>2, <2>4
  <2>7. \A q \in Proc : GoroutineOK(q)'
    BY <1>4, <2>4, <2>6 DEF CreateAccount
  <2>8. QED
    BY <1>4, <2>5, <2>6, <2>7 DEF CreateAccount
<1>5. CASE TargetGone(p)
  BY <1>5 DEF TargetGone
<1>6. CASE DuplicateToken(p)
  BY <1>6 DEF DuplicateToken
<1>7. CASE Grant(p)
  BY <1>7 DEF Grant
<1>8. CASE Commission(p)
  BY <1>8 DEF Commission
<1>9. CASE CountCoupon(p)
  BY <1>9 DEF CountCoupon, Row, Status
<1>10. QED
  BY <1>1, <1>2, <1>3, <1>4, <1>5, <1>6, <1>7, <1>8, <1>9, <1>11 DEF ActivateOrder

LEMMA TypeAdminUpdate ==
    ASSUME TypeOK, NEW p \in Proc, AdminUpdate(p)
    PROVE  TypeOK'
<1> USE ParamAssumption, NoneAssumption
       DEF TypeOK, GlobalsOK, GoroutineOK, RowOrNone, Key, Jobs,
           AllRequestJobs, Labels, Returns, Finding, Copied, Causes, Counts,
           Pending, Paid, Closed, Finished, storeVars, placeVars, payVars,
           queueVars, effectVars, procVars, histVars,
           At, Goto, Finish, Lookup, LookupLast, DelKeys, Count,
           Deciding, Unlocked
<1>1. CASE AdminDecide(p)
  BY <1>1 DEF AdminDecide, Row, Status
<1>2. CASE TxSave(p)
  BY <1>2 DEF TxSave
<1>3. CASE TxDelSaved(p)
  BY <1>3 DEF TxDelSaved
<1>4. CASE TxStatus(p)
  BY <1>4 DEF TxStatus
<1>5. CASE TxDelStatus(p)
  BY <1>5 DEF TxDelStatus
<1>6. CASE TxEnqueue(p)
  BY <1>6 DEF TxEnqueue
<1>7. CASE Commit(p)
  BY <1>7 DEF Commit
<1>8. QED
  BY <1>1, <1>2, <1>3, <1>4, <1>5, <1>6, <1>7 DEF AdminUpdate


LEMMA TypeBegin ==
    ASSUME TypeOK, NEW p \in Proc,
           BeginRequest(p) \/ BeginDeferClose(p) \/ BeginActivate(p)
    PROVE  TypeOK'
<1> USE ParamAssumption, NoneAssumption
    DEF TypeOK, GlobalsOK, GoroutineOK, RowOrNone, Jobs, AllRequestJobs,
        Labels, Returns, Finding, Copied, Counts, storeVars, placeVars,
        payVars, queueVars, effectVars, histVars, At, Count, Begin
<1>1. CASE BeginCheckout(p) \/ BeginClose(p)
  BY <1>1 DEF BeginCheckout, BeginClose
<1>2. CASE BeginNotify(p) \/ BeginAdmin(p)
  BY <1>2 DEF BeginNotify, BeginAdmin
<1>3. CASE BeginDeferClose(p)
  BY <1>3 DEF BeginDeferClose
<1>4. CASE BeginActivate(p)
  BY <1>4 DEF BeginActivate
<1>5. QED
  BY <1>1, <1>2, <1>3, <1>4 DEF BeginRequest

LEMMA TypeStep ==
    ASSUME TypeOK, NEW p \in Proc, Step(p)
    PROVE  TypeOK'
<1>1. CASE SaveRow(p)
  BY <1>1, NoneAssumption
  DEF SaveRow, TypeOK, GlobalsOK, GoroutineOK, RowOrNone, Jobs, Labels,
      Finding, Copied, Returns, Causes, Finish, Goto, At, placeVars, payVars,
      queueVars, effectVars
<1>2. CASE DelSaved(p)
  BY <1>2, NoneAssumption
  DEF DelSaved, DelKeys, TypeOK, GlobalsOK, GoroutineOK, RowOrNone, Jobs,
      Labels, Finding, Copied, Returns, Finish, At, placeVars, payVars,
      queueVars, effectVars, histVars
<1>3. QED
  BY <1>1, <1>2, TypeFind, TypeCheckout, TypeSettlePaid, TypeCloseOrder,
     TypeActivateOrder, TypeAdminUpdate DEF Step

LEMMA TypeEnvironment ==
    ASSUME TypeOK, Purchase \/ AdminCreate \/ GatewayPay
    PROVE  TypeOK'
<1> USE DEF TypeOK, GlobalsOK, GoroutineOK, RowOrNone, storeVars, placeVars,
            payVars, queueVars, effectVars, procVars, histVars
<1>1. CASE Purchase
  BY <1>1, ParamAssumption DEF Purchase, Row, Status, Pending
<1>2. CASE AdminCreate
  BY <1>2, ParamAssumption DEF AdminCreate, Row, Status, Count, Counts
<1>3. CASE GatewayPay
  BY <1>3 DEF GatewayPay
<1>4. QED
  BY <1>1, <1>2, <1>3

LEMMA TypeFault ==
    ASSUME TypeOK, Fault
    PROVE  TypeOK'
<1> USE NoneAssumption
    DEF TypeOK, GlobalsOK, GoroutineOK, RowOrNone, Jobs, Labels, Returns,
        Finding, Copied, Causes, Counts, Count, Finish, storeVars, placeVars,
        payVars, queueVars, effectVars, procVars, histVars
<1>1. ASSUME NEW p \in Proc, Abort(p) PROVE TypeOK'
  BY <1>1 DEF Abort, At
<1>2. ASSUME NEW p \in Proc, LeaseExpires(p) PROVE TypeOK'
  BY <1>2 DEF LeaseExpires
<1>3. ASSUME NEW p \in Proc, Panic(p) PROVE TypeOK'
  BY <1>3 DEF Panic
<1>4. ASSUME NEW k \in Key, CacheExpires(k) PROVE TypeOK'
  BY <1>4 DEF CacheExpires
<1>5. CASE Restart
  <2>1. cache' \in [Key -> RowOrNone]
    BY <1>5 DEF Restart
  <2>2. count' \in [Counts -> Nat] /\ cause' \subseteq Causes
    BY <1>5 DEF Restart
  <2>3. GlobalsOK'
    BY <1>5, <2>1, <2>2 DEF Restart
  <2>4. \A p \in Proc : GoroutineOK(p)'
    BY <1>5 DEF Restart
  <2>5. QED
    BY <1>5, <2>3, <2>4 DEF Restart
<1>6. CASE TempExpires
  BY <1>6 DEF TempExpires
<1>7. QED
  BY <1>1, <1>2, <1>3, <1>4, <1>5, <1>6 DEF Fault

\* The types of the variables, and that no handler goes on with an order its
\* lookup did not find.
THEOREM TypeCorrect == Spec => []TypeOK
<1>1. Init => TypeOK
  <2> SUFFICES ASSUME Init PROVE TypeOK
    OBVIOUS
  <2> USE DEF Init, RowOrNone, Jobs, Labels, Finding, Copied, Returns
  <2>1. GlobalsOK
    BY DEF GlobalsOK
  <2>2. \A p \in Proc : GoroutineOK(p)
    BY DEF GoroutineOK
  <2>3. QED
    BY <2>1, <2>2 DEF TypeOK
<1>2. TypeOK /\ [Next]_vars => TypeOK'
  <2> SUFFICES ASSUME TypeOK, [Next]_vars PROVE TypeOK'
    OBVIOUS
  <2>1. CASE Purchase \/ AdminCreate \/ GatewayPay
    BY <2>1, TypeEnvironment
  <2>2. CASE \E p \in Request : BeginRequest(p)
    BY <2>2, TypeBegin DEF Proc
  <2>3. CASE \E p \in Worker : BeginDeferClose(p) \/ BeginActivate(p)
    BY <2>3, TypeBegin DEF Proc
  <2>4. CASE \E p \in Proc : Step(p)
    BY <2>4, TypeStep
  <2>5. CASE Fault
    BY <2>5, TypeFault
  <2>6. CASE UNCHANGED vars
    BY <2>6 DEF vars, TypeOK, GlobalsOK, GoroutineOK, storeVars, placeVars,
                payVars, queueVars, effectVars, procVars, histVars
  <2>7. QED
    BY <2>1, <2>2, <2>3, <2>4, <2>5, <2>6 DEF Next
<1>3. QED
  BY <1>1, <1>2, PTL DEF Spec

(***************************************************************************)
(* Payment before delivery: GrantNeedsPayment is not inductive, since a    *)
(* worker grants whatever its copy of the row says; CopiesHonest closes it *)
(* over every copy, stale or not.                                          *)
(***************************************************************************)
IInv == GrantNeedsPayment /\ CopiesHonest

LEMMA InvFind ==
    ASSUME TypeOK, IInv, NEW p \in Proc, Find(p)
    PROVE  IInv'
<1> USE ParamAssumption, NoneAssumption
       DEF TypeOK, GlobalsOK, GoroutineOK, IInv, GrantNeedsPayment,
           CopiesHonest, CopyOK, FinishedFor, UnknownKind, Entitled, PaymentConfirmed, RowOrNone, Row,
           Status, Finding, Copied, Pending, Paid, Closed, Finished,
           storeVars, placeVars, payVars, queueVars, effectVars, procVars,
           histVars, At, Goto, Finish, Lookup, LookupLast, DelKeys, Count,
           HasStatus
<1>1. CASE Get(p)
  <2>1. CopyOK(cache[LookupKey(p)])
    BY DEF LookupKey, Key
  <2>2. CASE cache[LookupKey(p)] = None
    BY <1>1, <2>2 DEF Get
  <2>3. CASE cache[LookupKey(p)] # None
    <3> DEFINE r == cache[LookupKey(p)]
    <3>1. /\ Arrive(p, r) /\ pc[p] = "get"
          /\ UNCHANGED <<storeVars, placeVars, payVars, effectVars>>
      BY <1>1, <2>3 DEF Get
    <3>2. CopyOK(r)
      BY <2>1
    <3> HIDE DEF r
    <3>3. QED
      BY <3>1, <3>2 DEF Arrive, Returns
  <2>4. QED
    BY <2>2, <2>3
<1>2. CASE Query(p)
  BY <1>2 DEF Query
<1>3. CASE QueryMissing(p)
  BY <1>3 DEF QueryMissing, Arrive, Returns
<1>4. CASE Fill(p)
  <2>1. CopyOK(got[p])
    OBVIOUS
  <2>2. cache' = [cache EXCEPT ![LookupKey(p)] = got[p]]
    BY <1>4 DEF Fill
  <2>3. \A k \in Key : CopyOK(cache'[k])
    BY <2>1, <2>2
  <2>4. QED
    BY <1>4, <2>1, <2>3 DEF Fill, Arrive, Returns
<1>5. QED
  BY <1>1, <1>2, <1>3, <1>4 DEF Find

LEMMA InvCheckout ==
    ASSUME TypeOK, IInv, NEW p \in Proc, Checkout(p)
    PROVE  IInv'
<1> USE ParamAssumption, NoneAssumption
       DEF TypeOK, GlobalsOK, GoroutineOK, IInv, GrantNeedsPayment,
           CopiesHonest, CopyOK, FinishedFor, UnknownKind, Entitled, PaymentConfirmed, RowOrNone, Row,
           Status, Finding, Copied, Pending, Paid, Closed, Finished,
           storeVars, placeVars, payVars, queueVars, effectVars, procVars,
           histVars, At, Goto, Finish, Lookup, LookupLast, DelKeys, Count,
           HasStatus, Deciding
<1>1. CASE CheckoutRefused(p)
  BY <1>1 DEF CheckoutRefused
<1>2. CASE CheckoutGateway(p)
  BY <1>2 DEF CheckoutGateway
<1>3. CASE CheckoutBalance(p)
  BY <1>3 DEF CheckoutBalance
<1>4. CASE Debit(p)
  BY <1>4 DEF Debit
<1>5. CASE InsufficientBalance(p)
  BY <1>5 DEF InsufficientBalance
<1>6. QED
  BY <1>1, <1>2, <1>3, <1>4, <1>5 DEF Checkout

LEMMA InvSettlePaid ==
    ASSUME TypeOK, IInv, NEW p \in Proc, SettlePaid(p)
    PROVE  IInv'
<1> USE ParamAssumption, NoneAssumption
       DEF TypeOK, GlobalsOK, GoroutineOK, IInv, GrantNeedsPayment,
           CopiesHonest, CopyOK, FinishedFor, UnknownKind, Entitled, PaymentConfirmed, RowOrNone, Row,
           Status, Finding, Copied, Pending, Paid, Closed, Finished,
           storeVars, placeVars, payVars, queueVars, effectVars, procVars,
           histVars, At, Goto, Finish, Lookup, LookupLast, DelKeys, Count,
           HasStatus, Deciding, Unlocked, WithStatus
<1>1. CASE NotifySkip(p)
  BY <1>1 DEF NotifySkip
<1>2. CASE NotifyAccept(p)
  BY <1>2 DEF NotifyAccept
<1>3. CASE SetPaid(p)
  BY <1>3 DEF SetPaid, Row, Status
<1>4. CASE DelPaid(p)
  BY <1>4 DEF DelPaid
<1>5. CASE Enqueue(p)
  BY <1>5 DEF Enqueue
<1>6. QED
  BY <1>1, <1>2, <1>3, <1>4, <1>5 DEF SettlePaid

LEMMA InvCloseOrder ==
    ASSUME TypeOK, IInv, NEW p \in Proc, CloseOrder(p)
    PROVE  IInv'
<1> USE ParamAssumption, NoneAssumption
       DEF TypeOK, GlobalsOK, GoroutineOK, IInv, GrantNeedsPayment,
           CopiesHonest, CopyOK, FinishedFor, UnknownKind, Entitled, PaymentConfirmed, RowOrNone, Row,
           Status, Finding, Copied, Pending, Paid, Closed, Finished,
           storeVars, placeVars, payVars, queueVars, effectVars, procVars,
           histVars, At, Goto, Finish, Lookup, LookupLast, DelKeys, Count,
           HasStatus, Closing, AckClose, Unlocked, WithStatus, HasStatus
<1>1. CASE CloseSkip(p)
  BY <1>1 DEF CloseSkip
<1>2. CASE CloseStart(p)
  BY <1>2 DEF CloseStart
<1>3. CASE CloseCommit(p)
  BY <1>3 DEF CloseCommit, Row, Status
<1>4. CASE CloseGiftFails(p)
  BY <1>4 DEF CloseGiftFails
<1>5. QED
  BY <1>1, <1>2, <1>3, <1>4 DEF CloseOrder

LEMMA InvActivateOrder ==
    ASSUME TypeOK, IInv, NEW p \in Proc, ActivateOrder(p)
    PROVE  IInv'
<1> USE ParamAssumption, NoneAssumption
       DEF TypeOK, GlobalsOK, GoroutineOK, IInv, GrantNeedsPayment,
           CopiesHonest, CopyOK, FinishedFor, UnknownKind, Entitled, PaymentConfirmed, RowOrNone, Row,
           Status, Finding, Copied, Pending, Paid, Closed, Finished,
           storeVars, placeVars, payVars, queueVars, effectVars, procVars,
           histVars, At, Goto, Finish, Lookup, LookupLast, DelKeys, Count,
           HasStatus, Deciding, Unlocked, HasStatus, IsPurchase
<1>1. CASE ActivateDrop(p)
  BY <1>1 DEF ActivateDrop
<1>2. CASE ActivateStart(p)
  BY <1>2 DEF ActivateStart
<1>11. CASE ActivateUnknown(p)
  BY <1>11 DEF ActivateUnknown
<1>3. CASE AccountExpired(p)
  BY <1>3 DEF AccountExpired
<1>4. CASE CreateAccount(p)
  BY <1>4 DEF CreateAccount, Row, Status
<1>5. CASE TargetGone(p)
  BY <1>5 DEF TargetGone
<1>6. CASE DuplicateToken(p)
  BY <1>6 DEF DuplicateToken
<1>7. CASE Grant(p)
  BY <1>7 DEF Grant
<1>8. CASE Commission(p)
  BY <1>8 DEF Commission
<1>9. CASE CountCoupon(p)
  BY <1>9 DEF CountCoupon, Row, Status
<1>10. QED
  BY <1>1, <1>2, <1>3, <1>4, <1>5, <1>6, <1>7, <1>8, <1>9, <1>11 DEF ActivateOrder

LEMMA InvAdminUpdate ==
    ASSUME TypeOK, IInv, NEW p \in Proc, AdminUpdate(p)
    PROVE  IInv'
<1> USE ParamAssumption, NoneAssumption
       DEF TypeOK, GlobalsOK, GoroutineOK, IInv, GrantNeedsPayment,
           CopiesHonest, CopyOK, FinishedFor, UnknownKind, Entitled, PaymentConfirmed, RowOrNone, Row,
           Status, Finding, Copied, Pending, Paid, Closed, Finished,
           storeVars, placeVars, payVars, queueVars, effectVars, procVars,
           histVars, At, Goto, Finish, Lookup, LookupLast, DelKeys, Count,
           HasStatus, Deciding, Unlocked
<1>1. CASE AdminDecide(p)
  BY <1>1 DEF AdminDecide, Row, Status
<1>2. CASE TxSave(p)
  BY <1>2 DEF TxSave
<1>3. CASE TxDelSaved(p)
  BY <1>3 DEF TxDelSaved
<1>4. CASE TxStatus(p)
  BY <1>4 DEF TxStatus
<1>5. CASE TxDelStatus(p)
  BY <1>5 DEF TxDelStatus
<1>6. CASE TxEnqueue(p)
  BY <1>6 DEF TxEnqueue
<1>7. CASE Commit(p)
  BY <1>7 DEF Commit
<1>8. QED
  BY <1>1, <1>2, <1>3, <1>4, <1>5, <1>6, <1>7 DEF AdminUpdate

LEMMA InvBegin ==
    ASSUME TypeOK, IInv, NEW p \in Proc,
           BeginRequest(p) \/ BeginDeferClose(p) \/ BeginActivate(p)
    PROVE  IInv'
<1> USE ParamAssumption, NoneAssumption
       DEF TypeOK, GlobalsOK, GoroutineOK, IInv, GrantNeedsPayment,
           CopiesHonest, CopyOK, FinishedFor, UnknownKind, Entitled, PaymentConfirmed, RowOrNone, Row,
           Status, Finding, Copied, Pending, Paid, Closed, Finished,
           storeVars, placeVars, payVars, queueVars, effectVars, procVars,
           histVars, At, Goto, Finish, Lookup, LookupLast, DelKeys, Count,
           HasStatus, Begin
<1>1. CASE BeginCheckout(p) \/ BeginClose(p)
  BY <1>1 DEF BeginCheckout, BeginClose
<1>2. CASE BeginNotify(p)
  BY <1>2 DEF BeginNotify
<1>3. CASE BeginAdmin(p)
  BY <1>3 DEF BeginAdmin
<1>4. CASE BeginDeferClose(p)
  BY <1>4 DEF BeginDeferClose
<1>5. CASE BeginActivate(p)
  BY <1>5 DEF BeginActivate
<1>6. QED
  BY <1>1, <1>2, <1>3, <1>4, <1>5 DEF BeginRequest

LEMMA InvStep ==
    ASSUME TypeOK, IInv, NEW p \in Proc, Step(p)
    PROVE  IInv'
<1>1. CASE SaveRow(p) \/ DelSaved(p)
  <2> USE ParamAssumption, NoneAssumption
         DEF TypeOK, GlobalsOK, GoroutineOK, IInv, GrantNeedsPayment,
             CopiesHonest, CopyOK, FinishedFor, UnknownKind, Entitled, PaymentConfirmed, RowOrNone, Row,
             Status, Finding, Copied, Pending, Paid, Closed, Finished,
             storeVars, placeVars, payVars, queueVars, effectVars, procVars,
             histVars, At, Goto, Finish, Lookup, LookupLast, DelKeys, Count,
             HasStatus, Unlocked
  <2>1. CASE SaveRow(p)
    BY <2>1 DEF SaveRow
  <2>2. CASE DelSaved(p)
    BY <2>2 DEF DelSaved
  <2>3. QED
    BY <1>1, <2>1, <2>2
<1>2. QED
  BY <1>1, InvFind, InvCheckout, InvSettlePaid, InvCloseOrder,
     InvActivateOrder, InvAdminUpdate DEF Step

LEMMA InvEnvironment ==
    ASSUME TypeOK, IInv, Purchase \/ AdminCreate \/ GatewayPay
    PROVE  IInv'
<1> USE ParamAssumption, NoneAssumption
       DEF TypeOK, GlobalsOK, GoroutineOK, IInv, GrantNeedsPayment,
           CopiesHonest, CopyOK, FinishedFor, UnknownKind, Entitled, PaymentConfirmed, RowOrNone, Row,
           Status, Finding, Copied, Pending, Paid, Closed, Finished,
           storeVars, placeVars, payVars, queueVars, effectVars, procVars,
           histVars, At, Goto, Finish, Lookup, LookupLast, DelKeys, Count,
           HasStatus
<1>1. CASE Purchase
  BY <1>1 DEF Purchase
<1>2. CASE AdminCreate
  BY <1>2 DEF AdminCreate
<1>3. CASE GatewayPay
  BY <1>3 DEF GatewayPay
<1>4. QED
  BY <1>1, <1>2, <1>3

LEMMA InvFault ==
    ASSUME TypeOK, IInv, Fault
    PROVE  IInv'
<1> USE ParamAssumption, NoneAssumption
       DEF TypeOK, GlobalsOK, GoroutineOK, IInv, GrantNeedsPayment,
           CopiesHonest, CopyOK, FinishedFor, UnknownKind, Entitled, PaymentConfirmed, RowOrNone, Row,
           Status, Finding, Copied, Pending, Paid, Closed, Finished,
           storeVars, placeVars, payVars, queueVars, effectVars, procVars,
           histVars, At, Goto, Finish, Lookup, LookupLast, DelKeys, Count,
           HasStatus
<1>1. ASSUME NEW p \in Proc, Abort(p) PROVE IInv'
  BY <1>1 DEF Abort
<1>2. ASSUME NEW p \in Proc, LeaseExpires(p) PROVE IInv'
  BY <1>2 DEF LeaseExpires
<1>3. ASSUME NEW p \in Proc, Panic(p) PROVE IInv'
  BY <1>3 DEF Panic
<1>4. ASSUME NEW k \in Key, CacheExpires(k) PROVE IInv'
  BY <1>4 DEF CacheExpires
<1>5. CASE Restart
  BY <1>5 DEF Restart
<1>6. CASE TempExpires
  BY <1>6 DEF TempExpires
<1>7. QED
  BY <1>1, <1>2, <1>3, <1>4, <1>5, <1>6 DEF Fault

\* In every reachable state no copy of the row claims more than happened, and
\* goods are delivered only after the payment was confirmed.
THEOREM InvCorrect == Spec => []IInv
<1>1. Init => IInv
  BY DEF Init, IInv, GrantNeedsPayment, CopiesHonest, CopyOK, FinishedFor, UnknownKind, Entitled,
         HasStatus
<1>2. TypeOK /\ IInv /\ [Next]_vars => IInv'
  <2> SUFFICES ASSUME TypeOK, IInv, [Next]_vars PROVE IInv'
    OBVIOUS
  <2>1. CASE Purchase \/ AdminCreate \/ GatewayPay
    BY <2>1, InvEnvironment
  <2>2. CASE \E p \in Request : BeginRequest(p)
    BY <2>2, InvBegin DEF Proc
  <2>3. CASE \E p \in Worker : BeginDeferClose(p) \/ BeginActivate(p)
    BY <2>3, InvBegin DEF Proc
  <2>4. CASE \E p \in Proc : Step(p)
    BY <2>4, InvStep
  <2>5. CASE Fault
    BY <2>5, InvFault
  <2>6. CASE UNCHANGED vars
    BY <2>6 DEF vars, IInv, GrantNeedsPayment, CopiesHonest, CopyOK, FinishedFor, UnknownKind, Entitled,
                PaymentConfirmed, HasStatus, storeVars, placeVars, payVars, effectVars,
                procVars
  <2>7. QED
    BY <2>1, <2>2, <2>3, <2>4, <2>5, <2>6 DEF Next
<1>3. QED
  BY <1>1, <1>2, TypeCorrect, PTL DEF Spec

\* However stale, no copy of the row, cached, held by a handler or committed,
\* claims a payment or a delivery that has not happened.
THEOREM CopiesAreHonest == Spec => []CopiesHonest
<1>1. IInv => CopiesHonest
  BY DEF IInv
<1>2. QED
  BY <1>1, InvCorrect, PTL

\* Activation never delivers an order nobody has paid, whatever copies of the
\* row the workers read, and however requests, tasks and failures interleave.
THEOREM PaidBeforeDelivery == Spec => []GrantNeedsPayment
<1>1. IInv => GrantNeedsPayment
  BY DEF IInv
<1>2. QED
  BY <1>1, InvCorrect, PTL

\* No stale full-row save, late notification or redelivered task makes an
\* order finished that was neither delivered nor finished by hand, unless the
\* administrator gave it a type nothing is delivered for; and then it was paid.
THEOREM FinishedWasDelivered == Spec => []FinishedIsGranted
<1>1. IInv => FinishedIsGranted
  BY DEF IInv, CopiesHonest, CopyOK, FinishedIsGranted
<1>2. QED
  BY <1>1, InvCorrect, PTL
=============================================================================
