-------------------------- MODULE OrderEffectsProofs --------------------------
(***************************************************************************)
(* Goods, accounts, commissions and uses of coupons never outnumber the    *)
(* deliveries of the activation task: proved for any number of goroutines, *)
(* redeliveries and faults, by counting what is on its way.                *)
(***************************************************************************)
EXTENDS OrderLifecycleProofs, FiniteSetTheorems

\* An activation that may still deliver, or create an account; one that may
\* still pay a commission, or count a coupon.
Granting(p) ==
    /\ job[p] = "activate"
    /\ \/ pc[p] \in {"decide", "account", "grant"}
       \/ pc[p] \in Finding /\ ret[p] = "decide"
Opening(p)   == Granting(p) /\ pc[p] # "grant"
Rewarding(p) == pc[p] = "commission"
Couponing(p) == pc[p] \in {"commission", "coupon"}

Deliveries == count["enqueued"] + count["redelivered"]

\* Before the order is placed nothing works on it.
Unplaced ==
    /\ tasks = 0 /\ closeTask = 0 /\ granted = 0 /\ ~link /\ ~gatewayPaid
    /\ \A p \in Proc : pc[p] = "idle" /\ job[p] = "none"

OnTask ==
    \A p \in Proc : pc[p] \in {"account", "grant", "commission", "coupon"} =>
                      job[p] = "activate"

OneToken ==
    order # None /\ order.kind \in {"guest", "subscribe"} => granted <= 1

Counted ==
    /\ granted + Cardinality({p \in Proc : Granting(p)}) + tasks <= Deliveries
    /\ accounts + Cardinality({p \in Proc : Opening(p)}) + tasks <= Deliveries
    /\ commissions + Cardinality({p \in Proc : Rewarding(p)}) <= granted
    /\ coupons + Cardinality({p \in Proc : Granting(p)})
         + Cardinality({p \in Proc : Couponing(p)}) + tasks <= Deliveries
    /\ UnknownKind \/ coupons + Cardinality({p \in Proc : Couponing(p)}) <= granted

EffInv == Counted /\ OnTask /\ OneToken /\ (order = None => Unplaced)

W(b) == IF b THEN 1 ELSE 0

\* One element more or less.
LEMMA OneChanges ==
    ASSUME NEW S, NEW T, NEW p, IsFiniteSet(S), S \ {p} = T \ {p}
    PROVE  /\ Cardinality(S) \in Nat /\ Cardinality(T) \in Nat
           /\ Cardinality(T) = Cardinality(S) + W(p \in T) - W(p \in S)
<1>1. Cardinality(S) \in Nat
  BY FS_CardinalityType
<1>2. CASE p \in S /\ p \notin T
  <2>1. T = S \ {p}
    BY <1>2
  <2>2. Cardinality(S \ {p}) = Cardinality(S) - 1 /\ IsFiniteSet(S \ {p})
    BY <1>2, FS_RemoveElement
  <2>3. Cardinality(T) \in Nat
    BY <2>1, <2>2, FS_CardinalityType
  <2> QED  BY <1>1, <1>2, <2>1, <2>2, <2>3 DEF W
<1>3. CASE p \notin S /\ p \in T
  <2>1. T = S \cup {p}
    BY <1>3
  <2>2. Cardinality(S \cup {p}) = Cardinality(S) + 1
    BY <1>3, FS_AddElement
  <2> QED  BY <1>1, <1>3, <2>1, <2>2 DEF W
<1>4. CASE (p \in S) <=> (p \in T)
  <2>1. T = S
    BY <1>4
  <2>2. W(p \in T) = W(p \in S) /\ W(p \in S) \in Nat
    BY <2>1 DEF W
  <2> QED  BY <1>1, <2>1, <2>2
<1> QED  BY <1>2, <1>3, <1>4

Others(p) ==
    \A q \in Proc \ {p} : job'[q] = job[q] /\ pc'[q] = pc[q] /\ ret'[q] = ret[q]

\* The four counts after a step of one goroutine.
LEMMA CountsMove ==
    ASSUME NEW p \in Proc, Others(p)
    PROVE  /\ Cardinality({q \in Proc : Granting(q)}') =
                Cardinality({q \in Proc : Granting(q)}) + W(Granting(p)') - W(Granting(p))
           /\ Cardinality({q \in Proc : Opening(q)}') =
                Cardinality({q \in Proc : Opening(q)}) + W(Opening(p)') - W(Opening(p))
           /\ Cardinality({q \in Proc : Rewarding(q)}') =
                Cardinality({q \in Proc : Rewarding(q)}) + W(Rewarding(p)') - W(Rewarding(p))
           /\ Cardinality({q \in Proc : Couponing(q)}') =
                Cardinality({q \in Proc : Couponing(q)}) + W(Couponing(p)') - W(Couponing(p))
           /\ Cardinality({q \in Proc : Granting(q)}) \in Nat
           /\ Cardinality({q \in Proc : Opening(q)}) \in Nat
           /\ Cardinality({q \in Proc : Rewarding(q)}) \in Nat
           /\ Cardinality({q \in Proc : Couponing(q)}) \in Nat
<1> USE FiniteAssumption
<1>1. /\ Cardinality({q \in Proc : Granting(q)}') =
           Cardinality({q \in Proc : Granting(q)}) + W(Granting(p)') - W(Granting(p))
      /\ Cardinality({q \in Proc : Granting(q)}) \in Nat
  <2> DEFINE S == {q \in Proc : Granting(q)}
             T == {q \in Proc : Granting(q)'}
  <2>1. S \ {p} = T \ {p}
    BY DEF Others, Granting
  <2>2. IsFiniteSet(S)
    BY FS_Subset
  <2>3. (p \in S <=> Granting(p)) /\ (p \in T <=> Granting(p)')
    OBVIOUS
  <2>4. Cardinality(T) = Cardinality(S) + W(p \in T) - W(p \in S) /\ Cardinality(S) \in Nat
    <3> HIDE DEF S, T
    <3> QED  BY <2>1, <2>2, OneChanges
  <2> QED  BY <2>3, <2>4 DEF W
<1>2. /\ Cardinality({q \in Proc : Opening(q)}') =
           Cardinality({q \in Proc : Opening(q)}) + W(Opening(p)') - W(Opening(p))
      /\ Cardinality({q \in Proc : Opening(q)}) \in Nat
  <2> DEFINE S == {q \in Proc : Opening(q)}
             T == {q \in Proc : Opening(q)'}
  <2>1. S \ {p} = T \ {p}
    BY DEF Others, Opening, Granting
  <2>2. IsFiniteSet(S)
    BY FS_Subset
  <2>3. (p \in S <=> Opening(p)) /\ (p \in T <=> Opening(p)')
    OBVIOUS
  <2>4. Cardinality(T) = Cardinality(S) + W(p \in T) - W(p \in S) /\ Cardinality(S) \in Nat
    <3> HIDE DEF S, T
    <3> QED  BY <2>1, <2>2, OneChanges
  <2> QED  BY <2>3, <2>4 DEF W
<1>3. /\ Cardinality({q \in Proc : Rewarding(q)}') =
           Cardinality({q \in Proc : Rewarding(q)}) + W(Rewarding(p)') - W(Rewarding(p))
      /\ Cardinality({q \in Proc : Rewarding(q)}) \in Nat
  <2> DEFINE S == {q \in Proc : Rewarding(q)}
             T == {q \in Proc : Rewarding(q)'}
  <2>1. S \ {p} = T \ {p}
    BY DEF Others, Rewarding
  <2>2. IsFiniteSet(S)
    BY FS_Subset
  <2>3. (p \in S <=> Rewarding(p)) /\ (p \in T <=> Rewarding(p)')
    OBVIOUS
  <2>4. Cardinality(T) = Cardinality(S) + W(p \in T) - W(p \in S) /\ Cardinality(S) \in Nat
    <3> HIDE DEF S, T
    <3> QED  BY <2>1, <2>2, OneChanges
  <2> QED  BY <2>3, <2>4 DEF W
<1>4. /\ Cardinality({q \in Proc : Couponing(q)}') =
           Cardinality({q \in Proc : Couponing(q)}) + W(Couponing(p)') - W(Couponing(p))
      /\ Cardinality({q \in Proc : Couponing(q)}) \in Nat
  <2> DEFINE S == {q \in Proc : Couponing(q)}
             T == {q \in Proc : Couponing(q)'}
  <2>1. S \ {p} = T \ {p}
    BY DEF Others, Couponing
  <2>2. IsFiniteSet(S)
    BY FS_Subset
  <2>3. (p \in S <=> Couponing(p)) /\ (p \in T <=> Couponing(p)')
    OBVIOUS
  <2>4. Cardinality(T) = Cardinality(S) + W(p \in T) - W(p \in S) /\ Cardinality(S) \in Nat
    <3> HIDE DEF S, T
    <3> QED  BY <2>1, <2>2, OneChanges
  <2> QED  BY <2>3, <2>4 DEF W
<1> QED  BY <1>1, <1>2, <1>3, <1>4

(***************************************************************************)
(* Steps that deliver nothing, and what every other step must show.        *)
(***************************************************************************)
Given == order # None /\ order' = order

OnTaskHere(p) ==
    pc[p] \in {"account", "grant", "commission", "coupon"} => job[p] = "activate"

\* What enters the four balances is matched by what leaves them.
Balanced(p) ==
    /\ granted' + W(Granting(p)') + tasks' + Deliveries
         <= granted + W(Granting(p)) + tasks + Deliveries'
    /\ accounts' + W(Opening(p)') + tasks' + Deliveries
         <= accounts + W(Opening(p)) + tasks + Deliveries'
    /\ commissions' + W(Rewarding(p)') + granted
         <= commissions + W(Rewarding(p)) + granted'
    /\ coupons' + W(Granting(p)') + W(Couponing(p)') + tasks' + Deliveries
         <= coupons + W(Granting(p)) + W(Couponing(p)) + tasks + Deliveries'
    /\ UnknownKind \/ coupons' + W(Couponing(p)') + granted
                        <= coupons + W(Couponing(p)) + granted'

LEMMA BalancedStep ==
    ASSUME TypeOK, TypeOK', EffInv, NEW p \in Proc, Others(p), Given,
           OnTaskHere(p)', OneToken', Balanced(p)
    PROVE  EffInv'
<1>1. OnTask'
  BY DEF EffInv, OnTask, OnTaskHere, Others
<1>2. Counted'
  <2> DEFINE G == Cardinality({q \in Proc : Granting(q)})
             O == Cardinality({q \in Proc : Opening(q)})
             R == Cardinality({q \in Proc : Rewarding(q)})
             C == Cardinality({q \in Proc : Couponing(q)})
  <2>1. /\ G \in Nat /\ O \in Nat /\ R \in Nat /\ C \in Nat
        /\ G' = G + W(Granting(p)') - W(Granting(p))
        /\ O' = O + W(Opening(p)') - W(Opening(p))
        /\ R' = R + W(Rewarding(p)') - W(Rewarding(p))
        /\ C' = C + W(Couponing(p)') - W(Couponing(p))
    BY CountsMove
  <2>2. /\ granted \in Nat /\ accounts \in Nat /\ commissions \in Nat /\ coupons \in Nat
        /\ granted' \in Nat /\ accounts' \in Nat /\ commissions' \in Nat /\ coupons' \in Nat
        /\ tasks \in Nat /\ tasks' \in Nat /\ Deliveries \in Nat /\ Deliveries' \in Nat
    BY DEF TypeOK, GlobalsOK, Deliveries, Counts
  <2>3. \A b : W(b) \in Nat
    BY DEF W
  <2>4. /\ W(Granting(p)) \in Nat /\ W(Granting(p)') \in Nat
        /\ W(Opening(p)) \in Nat /\ W(Opening(p)') \in Nat
        /\ W(Rewarding(p)) \in Nat /\ W(Rewarding(p)') \in Nat
        /\ W(Couponing(p)) \in Nat /\ W(Couponing(p)') \in Nat
    BY DEF W
  <2>5. /\ granted + G + tasks <= Deliveries /\ accounts + O + tasks <= Deliveries
        /\ commissions + R <= granted /\ coupons + G + C + tasks <= Deliveries
        /\ UnknownKind \/ coupons + C <= granted
    BY DEF EffInv, Counted
  <2> HIDE DEF G, O, R, C
  <2>6. granted' + G' + tasks' <= Deliveries'
    BY <2>1, <2>2, <2>4, <2>5 DEF Balanced
  <2>7. accounts' + O' + tasks' <= Deliveries'
    BY <2>1, <2>2, <2>4, <2>5 DEF Balanced
  <2>8. commissions' + R' <= granted'
    BY <2>1, <2>2, <2>4, <2>5 DEF Balanced
  <2>9. coupons' + G' + C' + tasks' <= Deliveries'
    BY <2>1, <2>2, <2>4, <2>5 DEF Balanced
  <2>10. UnknownKind' \/ coupons' + C' <= granted'
    <3>1. UnknownKind' <=> UnknownKind
      BY DEF UnknownKind, Given
    <3> QED  BY <2>1, <2>2, <2>4, <2>5, <3>1 DEF Balanced
  <2> QED  BY <2>6, <2>7, <2>8, <2>9, <2>10 DEF Counted, G, O, R, C
<1> QED  BY <1>1, <1>2 DEF EffInv, Given

Still ==
    UNCHANGED <<granted, accounts, commissions, coupons, tasks>> /\ Deliveries' = Deliveries

Quiet(p) ==
    /\ Others(p) /\ Given /\ Still
    /\ OnTaskHere(p)'
    /\ Granting(p)' => Granting(p)
    /\ Opening(p)' => Opening(p)
    /\ Rewarding(p)' => Rewarding(p)
    /\ Couponing(p)' => Couponing(p)

LEMMA QuietStep ==
    ASSUME TypeOK, TypeOK', EffInv, NEW p \in Proc, Quiet(p)
    PROVE  EffInv'
<1>1. Balanced(p)
  <2>1. /\ granted \in Nat /\ accounts \in Nat /\ commissions \in Nat /\ coupons \in Nat
        /\ tasks \in Nat /\ Deliveries \in Nat
    BY DEF TypeOK, GlobalsOK, Deliveries, Counts
  <2> QED  BY <2>1 DEF Quiet, Still, Balanced, W
<1>2. OneToken'
  BY DEF EffInv, OneToken, Quiet, Still, Given
<1> QED  BY <1>1, <1>2, BalancedStep DEF Quiet

LEMMA EffFind ==
    ASSUME TypeOK, TypeOK', EffInv, order # None, NEW p \in Proc, Find(p)
    PROVE  EffInv'
<1>0. /\ Quiet(p) => EffInv'
      /\ pc \in [Proc -> Labels] /\ job \in [Proc -> Jobs]
      /\ ret \in [Proc -> Returns \cup {"none"}] /\ count \in [Counts -> Nat]
      /\ OnTaskHere(p)
  BY QuietStep DEF TypeOK, GlobalsOK, EffInv, OnTask, OnTaskHere
<1>1. /\ granted \in Nat /\ accounts \in Nat /\ commissions \in Nat /\ coupons \in Nat
      /\ tasks \in Nat /\ Deliveries \in Nat /\ OneToken
  BY DEF TypeOK, GlobalsOK, Deliveries, Counts, EffInv
<1>2. Others(p) /\ Given /\ OnTaskHere(p)' /\ OneToken' /\ Balanced(p) => EffInv'
  BY BalancedStep
<1> USE DEF At, Goto, Finish, Lookup, LookupLast, DelKeys, Count, Deciding, Finding,
           storeVars, placeVars, payVars, queueVars, effectVars, procVars,
           histVars, Quiet, Still, Given, Others, OnTaskHere, Granting, Opening,
           Rewarding, Couponing, Deliveries
<1>3. CASE Get(p)
  <2>1. Quiet(p)
    BY <1>3, <1>0 DEF Get, Arrive, Returns
  <2> QED  BY <2>1, <1>0
<1>4. CASE Query(p)
  <2>1. Quiet(p)
    BY <1>4, <1>0 DEF Query, Arrive, Returns
  <2> QED  BY <2>1, <1>0
<1>5. CASE QueryMissing(p)
  <2>1. Quiet(p)
    BY <1>5, <1>0 DEF QueryMissing, Arrive, Returns
  <2> QED  BY <2>1, <1>0
<1>6. CASE Fill(p)
  <2>1. Quiet(p)
    BY <1>6, <1>0 DEF Fill, Arrive, Returns
  <2> QED  BY <2>1, <1>0
<1> QED
  BY <1>3, <1>4, <1>5, <1>6 DEF Find

LEMMA EffCheckout ==
    ASSUME TypeOK, TypeOK', EffInv, order # None, NEW p \in Proc, Checkout(p)
    PROVE  EffInv'
<1>0. /\ Quiet(p) => EffInv'
      /\ pc \in [Proc -> Labels] /\ job \in [Proc -> Jobs]
      /\ ret \in [Proc -> Returns \cup {"none"}] /\ count \in [Counts -> Nat]
      /\ OnTaskHere(p)
  BY QuietStep DEF TypeOK, GlobalsOK, EffInv, OnTask, OnTaskHere
<1>1. /\ granted \in Nat /\ accounts \in Nat /\ commissions \in Nat /\ coupons \in Nat
      /\ tasks \in Nat /\ Deliveries \in Nat /\ OneToken
  BY DEF TypeOK, GlobalsOK, Deliveries, Counts, EffInv
<1>2. Others(p) /\ Given /\ OnTaskHere(p)' /\ OneToken' /\ Balanced(p) => EffInv'
  BY BalancedStep
<1> USE DEF At, Goto, Finish, Lookup, LookupLast, DelKeys, Count, Deciding, Finding,
           storeVars, placeVars, payVars, queueVars, effectVars, procVars,
           histVars, Quiet, Still, Given, Others, OnTaskHere, Granting, Opening,
           Rewarding, Couponing, Deliveries
<1>3. CASE CheckoutRefused(p)
  <2>1. Quiet(p)
    BY <1>3, <1>0 DEF CheckoutRefused
  <2> QED  BY <2>1, <1>0
<1>4. CASE CheckoutGateway(p)
  <2>1. Quiet(p)
    BY <1>4, <1>0 DEF CheckoutGateway
  <2> QED  BY <2>1, <1>0
<1>5. CASE CheckoutBalance(p)
  <2>1. Quiet(p)
    BY <1>5, <1>0 DEF CheckoutBalance
  <2> QED  BY <2>1, <1>0
<1>6. CASE Debit(p)
  <2>1. Quiet(p)
    BY <1>6, <1>0 DEF Debit
  <2> QED  BY <2>1, <1>0
<1>7. CASE InsufficientBalance(p)
  <2>1. Quiet(p)
    BY <1>7, <1>0 DEF InsufficientBalance
  <2> QED  BY <2>1, <1>0
<1> QED
  BY <1>3, <1>4, <1>5, <1>6, <1>7 DEF Checkout

LEMMA EffSettlePaid ==
    ASSUME TypeOK, TypeOK', EffInv, order # None, NEW p \in Proc, SettlePaid(p)
    PROVE  EffInv'
<1>0. /\ Quiet(p) => EffInv'
      /\ pc \in [Proc -> Labels] /\ job \in [Proc -> Jobs]
      /\ ret \in [Proc -> Returns \cup {"none"}] /\ count \in [Counts -> Nat]
      /\ OnTaskHere(p)
  BY QuietStep DEF TypeOK, GlobalsOK, EffInv, OnTask, OnTaskHere
<1>1. /\ granted \in Nat /\ accounts \in Nat /\ commissions \in Nat /\ coupons \in Nat
      /\ tasks \in Nat /\ Deliveries \in Nat /\ OneToken
  BY DEF TypeOK, GlobalsOK, Deliveries, Counts, EffInv
<1>2. Others(p) /\ Given /\ OnTaskHere(p)' /\ OneToken' /\ Balanced(p) => EffInv'
  BY BalancedStep
<1> USE DEF At, Goto, Finish, Lookup, LookupLast, DelKeys, Count, Deciding, Finding,
           storeVars, placeVars, payVars, queueVars, effectVars, procVars,
           histVars, Quiet, Still, Given, Others, OnTaskHere, Granting, Opening,
           Rewarding, Couponing, Deliveries
<1>3. CASE NotifySkip(p)
  <2>1. Quiet(p)
    BY <1>3, <1>0 DEF NotifySkip
  <2> QED  BY <2>1, <1>0
<1>4. CASE NotifyAccept(p)
  <2>1. Quiet(p)
    BY <1>4, <1>0 DEF NotifyAccept
  <2> QED  BY <2>1, <1>0
<1>5. CASE SetPaid(p)
  <2>1. Quiet(p)
    BY <1>5, <1>0 DEF SetPaid
  <2> QED  BY <2>1, <1>0
<1>6. CASE DelPaid(p)
  <2>1. Quiet(p)
    BY <1>6, <1>0 DEF DelPaid
  <2> QED  BY <2>1, <1>0
<1>7. CASE Enqueue(p)
  <2>1. Others(p) /\ Given /\ OnTaskHere(p)'
    BY <1>7, <1>0 DEF Enqueue
  <2>2. OneToken'
    BY <1>7, <1>1, <2>1 DEF Enqueue, OneToken, IsPurchase
  <2>3. Balanced(p)
    BY <1>7, <1>0, <1>1 DEF Enqueue, Balanced, W, Counts
  <2> QED  BY <2>1, <2>2, <2>3, <1>2
<1> QED
  BY <1>3, <1>4, <1>5, <1>6, <1>7 DEF SettlePaid

LEMMA EffCloseOrder ==
    ASSUME TypeOK, TypeOK', EffInv, order # None, NEW p \in Proc, CloseOrder(p)
    PROVE  EffInv'
<1>0. /\ Quiet(p) => EffInv'
      /\ pc \in [Proc -> Labels] /\ job \in [Proc -> Jobs]
      /\ ret \in [Proc -> Returns \cup {"none"}] /\ count \in [Counts -> Nat]
      /\ OnTaskHere(p)
  BY QuietStep DEF TypeOK, GlobalsOK, EffInv, OnTask, OnTaskHere
<1>1. /\ granted \in Nat /\ accounts \in Nat /\ commissions \in Nat /\ coupons \in Nat
      /\ tasks \in Nat /\ Deliveries \in Nat /\ OneToken
  BY DEF TypeOK, GlobalsOK, Deliveries, Counts, EffInv
<1>2. Others(p) /\ Given /\ OnTaskHere(p)' /\ OneToken' /\ Balanced(p) => EffInv'
  BY BalancedStep
<1> USE DEF At, Goto, Finish, Lookup, LookupLast, DelKeys, Count, Deciding, Finding,
           storeVars, placeVars, payVars, queueVars, effectVars, procVars,
           histVars, Quiet, Still, Given, Others, OnTaskHere, Granting, Opening,
           Rewarding, Couponing, Deliveries, AckClose, Closing
<1>3. CASE CloseSkip(p)
  <2>1. Quiet(p)
    BY <1>3, <1>0 DEF CloseSkip
  <2> QED  BY <2>1, <1>0
<1>4. CASE CloseStart(p)
  <2>1. Quiet(p)
    BY <1>4, <1>0 DEF CloseStart
  <2> QED  BY <2>1, <1>0
<1>5. CASE CloseCommit(p)
  <2>1. Quiet(p)
    BY <1>5, <1>0 DEF CloseCommit
  <2> QED  BY <2>1, <1>0
<1>6. CASE CloseGiftFails(p)
  <2>1. Quiet(p)
    BY <1>6, <1>0 DEF CloseGiftFails
  <2> QED  BY <2>1, <1>0
<1> QED
  BY <1>3, <1>4, <1>5, <1>6 DEF CloseOrder

LEMMA EffActivateOrder ==
    ASSUME TypeOK, TypeOK', EffInv, order # None, NEW p \in Proc, ActivateOrder(p)
    PROVE  EffInv'
<1>0. /\ Quiet(p) => EffInv'
      /\ pc \in [Proc -> Labels] /\ job \in [Proc -> Jobs]
      /\ ret \in [Proc -> Returns \cup {"none"}] /\ count \in [Counts -> Nat]
      /\ OnTaskHere(p)
  BY QuietStep DEF TypeOK, GlobalsOK, EffInv, OnTask, OnTaskHere
<1>1. /\ granted \in Nat /\ accounts \in Nat /\ commissions \in Nat /\ coupons \in Nat
      /\ tasks \in Nat /\ Deliveries \in Nat /\ OneToken
  BY DEF TypeOK, GlobalsOK, Deliveries, Counts, EffInv
<1>2. Others(p) /\ Given /\ OnTaskHere(p)' /\ OneToken' /\ Balanced(p) => EffInv'
  BY BalancedStep
<1> USE DEF At, Goto, Finish, Lookup, LookupLast, DelKeys, Count, Deciding, Finding,
           storeVars, placeVars, payVars, queueVars, effectVars, procVars,
           histVars, Quiet, Still, Given, Others, OnTaskHere, Granting, Opening,
           Rewarding, Couponing, Deliveries
<1>3. CASE ActivateDrop(p)
  <2>1. Quiet(p)
    BY <1>3, <1>0 DEF ActivateDrop
  <2> QED  BY <2>1, <1>0
<1>4. CASE ActivateStart(p)
  <2>1. Quiet(p)
    BY <1>4, <1>0 DEF ActivateStart
  <2> QED  BY <2>1, <1>0
<1>12. CASE ActivateUnknown(p)
  <2>1. Others(p) /\ Given /\ OnTaskHere(p)'
    BY <1>12, <1>0 DEF ActivateUnknown
  <2>2. OneToken'
    BY <1>12, <1>1, <2>1 DEF ActivateUnknown, OneToken
  <2>3. Balanced(p)
    BY <1>12, <1>0, <1>1 DEF ActivateUnknown, Balanced, W
  <2> QED  BY <2>1, <2>2, <2>3, <1>2
<1>5. CASE AccountExpired(p)
  <2>1. Quiet(p)
    BY <1>5, <1>0 DEF AccountExpired
  <2> QED  BY <2>1, <1>0
<1>6. CASE CreateAccount(p)
  <2>1. Others(p) /\ Given /\ OnTaskHere(p)'
    BY <1>6, <1>0 DEF CreateAccount
  <2>2. OneToken'
    BY <1>6, <1>1, <2>1 DEF CreateAccount, OneToken, IsPurchase
  <2>3. Balanced(p)
    BY <1>6, <1>0, <1>1 DEF CreateAccount, Balanced, W, Counts
  <2> QED  BY <2>1, <2>2, <2>3, <1>2
<1>7. CASE TargetGone(p)
  <2>1. Quiet(p)
    BY <1>7, <1>0 DEF TargetGone
  <2> QED  BY <2>1, <1>0
<1>8. CASE DuplicateToken(p)
  <2>1. Quiet(p)
    BY <1>8, <1>0 DEF DuplicateToken
  <2> QED  BY <2>1, <1>0
<1>9. CASE Grant(p)
  <2>1. Others(p) /\ Given /\ OnTaskHere(p)'
    BY <1>9, <1>0 DEF Grant, IsPurchase
  <2>2. OneToken'
    BY <1>9, <1>1, <2>1 DEF Grant, OneToken, IsPurchase, IsPurchase
  <2>3. Balanced(p)
    BY <1>9, <1>0, <1>1 DEF Grant, Balanced, W, Counts, IsPurchase
  <2> QED  BY <2>1, <2>2, <2>3, <1>2
<1>10. CASE Commission(p)
  <2>1. Others(p) /\ Given /\ OnTaskHere(p)'
    BY <1>10, <1>0 DEF Commission
  <2>2. OneToken'
    BY <1>10, <1>1, <2>1 DEF Commission, OneToken
  <2>3. commissions' = commissions \/ commissions' = commissions + 1
    <3>1. CASE PaysCommission
      BY <1>10, <3>1 DEF Commission
    <3>2. CASE ~PaysCommission
      BY <1>10, <3>2 DEF Commission
    <3> QED  BY <3>1, <3>2
  <2>4. /\ UNCHANGED <<granted, accounts, coupons, tasks>> /\ Deliveries' = Deliveries
        /\ pc[p] = "commission" /\ pc'[p] = "coupon"
    BY <1>10, <1>0 DEF Commission
  <2>5. Balanced(p)
    BY <2>3, <2>4, <1>1 DEF Balanced, W
  <2> QED  BY <2>1, <2>2, <2>5, <1>2
<1>11. CASE CountCoupon(p)
  <2>1. Others(p) /\ Given /\ OnTaskHere(p)'
    BY <1>11, <1>0 DEF CountCoupon
  <2>2. OneToken'
    BY <1>11, <1>1, <2>1 DEF CountCoupon, OneToken, IsPurchase
  <2>3. Balanced(p)
    BY <1>11, <1>0, <1>1 DEF CountCoupon, Balanced, W, Counts
  <2> QED  BY <2>1, <2>2, <2>3, <1>2
<1> QED
  BY <1>3, <1>4, <1>5, <1>6, <1>7, <1>8, <1>9, <1>10, <1>11, <1>12
  DEF ActivateOrder

LEMMA EffAdminUpdate ==
    ASSUME TypeOK, TypeOK', EffInv, order # None, NEW p \in Proc, AdminUpdate(p)
    PROVE  EffInv'
<1>0. /\ Quiet(p) => EffInv'
      /\ pc \in [Proc -> Labels] /\ job \in [Proc -> Jobs]
      /\ ret \in [Proc -> Returns \cup {"none"}] /\ count \in [Counts -> Nat]
      /\ OnTaskHere(p)
  BY QuietStep DEF TypeOK, GlobalsOK, EffInv, OnTask, OnTaskHere
<1>1. /\ granted \in Nat /\ accounts \in Nat /\ commissions \in Nat /\ coupons \in Nat
      /\ tasks \in Nat /\ Deliveries \in Nat /\ OneToken
  BY DEF TypeOK, GlobalsOK, Deliveries, Counts, EffInv
<1>2. Others(p) /\ Given /\ OnTaskHere(p)' /\ OneToken' /\ Balanced(p) => EffInv'
  BY BalancedStep
<1> USE DEF At, Goto, Finish, Lookup, LookupLast, DelKeys, Count, Deciding, Finding,
           storeVars, placeVars, payVars, queueVars, effectVars, procVars,
           histVars, Quiet, Still, Given, Others, OnTaskHere, Granting, Opening,
           Rewarding, Couponing, Deliveries
<1>3. CASE AdminDecide(p)
  <2>1. Quiet(p)
    BY <1>3, <1>0 DEF AdminDecide
  <2> QED  BY <2>1, <1>0
<1>4. CASE TxSave(p)
  <2>1. Quiet(p)
    BY <1>4, <1>0 DEF TxSave
  <2> QED  BY <2>1, <1>0
<1>5. CASE TxDelSaved(p)
  <2>1. Quiet(p)
    BY <1>5, <1>0 DEF TxDelSaved
  <2> QED  BY <2>1, <1>0
<1>6. CASE TxStatus(p)
  <2>1. Quiet(p)
    BY <1>6, <1>0 DEF TxStatus
  <2> QED  BY <2>1, <1>0
<1>7. CASE TxDelStatus(p)
  <2>1. Quiet(p)
    BY <1>7, <1>0 DEF TxDelStatus
  <2> QED  BY <2>1, <1>0
<1>8. CASE TxEnqueue(p)
  <2>1. Others(p) /\ Given /\ OnTaskHere(p)'
    BY <1>8, <1>0 DEF TxEnqueue
  <2>2. OneToken'
    BY <1>8, <1>1, <2>1 DEF TxEnqueue, OneToken, IsPurchase
  <2>3. Balanced(p)
    BY <1>8, <1>0, <1>1 DEF TxEnqueue, Balanced, W, Counts
  <2> QED  BY <2>1, <2>2, <2>3, <1>2
<1>9. CASE Commit(p)
  <2>1. Quiet(p)
    BY <1>9, <1>0 DEF Commit
  <2> QED  BY <2>1, <1>0
<1> QED
  BY <1>3, <1>4, <1>5, <1>6, <1>7, <1>8, <1>9 DEF AdminUpdate

\* Before the order is placed no goroutine has a step to take.
LEMMA NothingToDo ==
    ASSUME Unplaced, NEW p \in Proc
    PROVE  ~Step(p)
<1>1. pc[p] = "idle"
  BY DEF Unplaced
<1>2. ~Find(p) /\ ~Checkout(p) /\ ~SettlePaid(p)
  BY <1>1 DEF Find, Get, Query, QueryMissing, Fill, Checkout, CheckoutRefused,
              CheckoutGateway, CheckoutBalance, Debit, InsufficientBalance,
              SettlePaid, NotifySkip, NotifyAccept, SetPaid, DelPaid, Enqueue,
              DelKeys, Deciding, At
<1>3. ~CloseOrder(p) /\ ~ActivateOrder(p)
  BY <1>1 DEF CloseOrder, CloseSkip, CloseStart, CloseCommit, CloseGiftFails,
              ActivateOrder, ActivateDrop, ActivateStart, ActivateUnknown,
              AccountExpired, CreateAccount, TargetGone, DuplicateToken, Grant, Commission,
              CountCoupon, Deciding, At
<1>4. ~AdminUpdate(p) /\ ~SaveRow(p) /\ ~DelSaved(p)
  BY <1>1 DEF AdminUpdate, AdminDecide, TxSave, TxDelSaved, TxStatus,
              TxDelStatus, TxEnqueue, Commit, SaveRow, DelSaved, DelKeys,
              Deciding, At
<1> QED  BY <1>2, <1>3, <1>4 DEF Step

LEMMA EffSave ==
    ASSUME TypeOK, TypeOK', EffInv, order # None, NEW p \in Proc,
           SaveRow(p) \/ DelSaved(p)
    PROVE  EffInv'
<1>1. Quiet(p)
  <2> USE DEF At, Goto, Finish, storeVars, placeVars, payVars, queueVars,
              effectVars, procVars, histVars, Quiet, Still, Given, Others,
              OnTaskHere, Granting, Opening, Rewarding, Couponing, Deliveries,
              Finding
  <2>1. pc \in [Proc -> Labels] /\ job \in [Proc -> Jobs]
        /\ ret \in [Proc -> Returns \cup {"none"}]
    BY DEF TypeOK
  <2>2. CASE SaveRow(p)
    BY <2>1, <2>2 DEF SaveRow
  <2>3. CASE DelSaved(p)
    BY <2>1, <2>3 DEF DelSaved
  <2> QED  BY <2>2, <2>3
<1> QED  BY <1>1, QuietStep

LEMMA EffStep ==
    ASSUME TypeOK, TypeOK', EffInv, NEW p \in Proc, Step(p)
    PROVE  EffInv'
<1>1. order # None
  BY NothingToDo DEF EffInv
<1> QED
  BY <1>1, EffFind, EffCheckout, EffSettlePaid, EffCloseOrder,
     EffActivateOrder, EffAdminUpdate, EffSave DEF Step

\* A handler starts: an activation takes its task over.
LEMMA EffBegin ==
    ASSUME TypeOK, TypeOK', EffInv, NEW p \in Proc,
           BeginRequest(p) \/ BeginDeferClose(p) \/ BeginActivate(p)
    PROVE  EffInv'
<1>0. /\ pc \in [Proc -> Labels] /\ job \in [Proc -> Jobs]
      /\ ret \in [Proc -> Returns \cup {"none"}] /\ count \in [Counts -> Nat]
      /\ granted \in Nat /\ accounts \in Nat /\ commissions \in Nat /\ coupons \in Nat
      /\ tasks \in Nat /\ Deliveries \in Nat
  BY DEF TypeOK, GlobalsOK, Deliveries, Counts
<1>1. order # None
  BY DEF EffInv, Unplaced, BeginRequest, BeginCheckout, BeginClose,
         BeginNotify, BeginAdmin, BeginDeferClose, BeginActivate, TypeOK, GlobalsOK
<1> USE DEF At, Begin, Count, storeVars, placeVars, payVars, queueVars,
            effectVars, procVars, histVars, Others, Given, OnTaskHere,
            Granting, Opening, Rewarding, Couponing, Deliveries, Finding
<1>2. CASE BeginRequest(p) \/ BeginDeferClose(p)
  <2>1. Quiet(p)
    BY <1>0, <1>1, <1>2
       DEF BeginRequest, BeginCheckout, BeginClose, BeginNotify, BeginAdmin,
           BeginDeferClose, Quiet, Still, Counts
  <2> QED  BY <2>1, QuietStep
<1>3. CASE BeginActivate(p)
  <2>1. Others(p) /\ Given /\ OnTaskHere(p)'
    BY <1>0, <1>1, <1>3 DEF BeginActivate
  <2>2. OneToken'
    BY <1>3, <2>1 DEF BeginActivate, OneToken, EffInv
  <2>3. Balanced(p)
    BY <1>0, <1>3 DEF BeginActivate, Balanced, W
  <2> QED  BY <2>1, <2>2, <2>3, BalancedStep
<1> QED  BY <1>2, <1>3

\* The order is placed, or paid on the gateway's page.
LEMMA EffEnvironment ==
    ASSUME TypeOK, TypeOK', EffInv, Purchase \/ AdminCreate \/ GatewayPay
    PROVE  EffInv'
<1> USE DEF storeVars, placeVars, payVars, queueVars, effectVars, procVars,
            histVars
<1>1. /\ UNCHANGED <<job, pc, ret, tasks, granted, accounts, commissions, coupons>>
      /\ Deliveries' = Deliveries
  BY DEF Purchase, AdminCreate, GatewayPay, Count, Deliveries, TypeOK, GlobalsOK, Counts
<1>2. Counted'
  <2>1. UnknownKind => UnknownKind'
    BY DEF Purchase, AdminCreate, GatewayPay, UnknownKind
  <2> QED  BY <1>1, <2>1 DEF EffInv, Counted, Granting, Opening, Rewarding, Couponing
<1>3. OnTask'
  BY <1>1 DEF EffInv, OnTask
<1>4. OneToken' /\ (order' = None => Unplaced')
  <2>1. CASE Purchase \/ AdminCreate
    <3>1. granted' = 0
      BY <1>1, <2>1 DEF EffInv, Unplaced, Purchase, AdminCreate
    <3>2. order' # None
      <4>1. Unplaced
        BY <2>1 DEF EffInv, Purchase, AdminCreate
      <4>2. order' \in OrderInfo
        BY <2>1 DEF Purchase, AdminCreate
      <4> QED  BY <4>2, NoneAssumption
    <3> QED  BY <3>1, <3>2 DEF OneToken
  <2>2. CASE GatewayPay
    BY <1>1, <2>2 DEF GatewayPay, EffInv, OneToken, Unplaced
  <2> QED  BY <2>1, <2>2
<1> QED  BY <1>2, <1>3, <1>4 DEF EffInv

\* What is on its way only adds to what was done.
LEMMA EffectsFollow ==
    ASSUME TypeOK, EffInv
    PROVE  EffectsAttributed
<1> DEFINE G == {p \in Proc : Granting(p)}
           O == {p \in Proc : Opening(p)}
           R == {p \in Proc : Rewarding(p)}
           C == {p \in Proc : Couponing(p)}
<1>1. /\ Cardinality(G) \in Nat /\ Cardinality(O) \in Nat
      /\ Cardinality(R) \in Nat /\ Cardinality(C) \in Nat
  BY FiniteAssumption, FS_Subset, FS_CardinalityType
<1>2. /\ granted \in Nat /\ accounts \in Nat /\ commissions \in Nat /\ coupons \in Nat
      /\ tasks \in Nat /\ Deliveries \in Nat
  BY DEF TypeOK, GlobalsOK, Deliveries, Counts
<1>3. /\ granted + Cardinality(G) + tasks <= Deliveries
      /\ accounts + Cardinality(O) + tasks <= Deliveries
      /\ commissions + Cardinality(R) <= granted
      /\ coupons + Cardinality(G) + Cardinality(C) + tasks <= Deliveries
      /\ UnknownKind \/ coupons + Cardinality(C) <= granted
  BY DEF EffInv, Counted
<1> HIDE DEF G, O, R, C
<1>4. /\ granted <= Deliveries /\ accounts <= Deliveries
      /\ commissions <= granted /\ coupons <= Deliveries
      /\ UnknownKind \/ coupons <= granted
  BY <1>1, <1>2, <1>3
<1> QED  BY <1>4 DEF EffInv, OneToken, EffectsAttributed, Deliveries

LEMMA SameEffects ==
    ASSUME EffInv,
           UNCHANGED <<job, pc, ret, order, tasks, closeTask, link, gatewayPaid,
                       granted, accounts, commissions, coupons, count>>
    PROVE  EffInv'
<1>1. Counted'
  BY DEF EffInv, Counted, Deliveries, Granting, Opening, Rewarding, Couponing,
         UnknownKind
<1> QED  BY <1>1 DEF EffInv, OnTask, OneToken, Unplaced

\* A redelivery is one more delivery; a restart forgets what was on its way.
LEMMA EffFault ==
    ASSUME TypeOK, TypeOK', EffInv, Fault
    PROVE  EffInv'
<1> USE DEF At, Finish, Count, storeVars, placeVars, payVars, queueVars,
            effectVars, procVars, histVars
<1>0. /\ pc \in [Proc -> Labels] /\ job \in [Proc -> Jobs]
      /\ ret \in [Proc -> Returns \cup {"none"}] /\ count \in [Counts -> Nat]
      /\ granted \in Nat /\ accounts \in Nat /\ commissions \in Nat /\ coupons \in Nat
      /\ tasks \in Nat /\ Deliveries \in Nat
  BY DEF TypeOK, GlobalsOK, Deliveries, Counts
<1>1. ASSUME NEW p \in Proc, Abort(p) \/ LeaseExpires(p) \/ Panic(p)
      PROVE  EffInv'
  <2> USE DEF Others, Given, OnTaskHere, Granting, Opening, Rewarding,
              Couponing, Deliveries, Finding
  <2>1. order # None
    BY <1>1 DEF EffInv, Unplaced, Abort, LeaseExpires, Panic
  <2>2. CASE Abort(p)
    <3>1. Quiet(p)
      BY <1>0, <2>1, <2>2 DEF Abort, Quiet, Still, Counts
    <3> QED  BY <3>1, QuietStep
  <2>3. CASE LeaseExpires(p)
    <3>1. Others(p) /\ Given /\ OnTaskHere(p)'
      BY <1>0, <2>1, <2>3 DEF LeaseExpires, EffInv, OnTask
    <3>2. OneToken'
      BY <2>3, <3>1 DEF LeaseExpires, OneToken, EffInv
    <3>3. Balanced(p)
      BY <1>0, <2>3 DEF LeaseExpires, Balanced, W, Counts
    <3> QED  BY <3>1, <3>2, <3>3, BalancedStep
  <2>4. CASE Panic(p)
    <3>1. Others(p) /\ Given /\ OnTaskHere(p)'
      BY <1>0, <2>1, <2>4 DEF Panic
    <3>2. OneToken'
      BY <2>4, <3>1 DEF Panic, OneToken, EffInv
    <3>3. Balanced(p)
      BY <1>0, <2>4 DEF Panic, Balanced, W, Counts
    <3> QED  BY <3>1, <3>2, <3>3, BalancedStep
  <2> QED  BY <1>1, <2>2, <2>3, <2>4
<1>2. CASE (\E k \in Key : CacheExpires(k)) \/ TempExpires
  <2>1. UNCHANGED <<job, pc, ret, order, tasks, closeTask, link, gatewayPaid,
                    granted, accounts, commissions, coupons, count>>
    BY <1>2 DEF CacheExpires, TempExpires
  <2> QED  BY <2>1, SameEffects
<1>3. CASE Restart
  <2>1. /\ \A p \in Proc : pc'[p] = "idle" /\ job'[p] = "none"
        /\ UNCHANGED <<order, link, gatewayPaid, granted, accounts, commissions, coupons>>
        /\ tasks' = 0 /\ closeTask' = 0 /\ Deliveries' = Deliveries
    BY <1>0, <1>3 DEF Restart, Deliveries, Counts
  <2>2. /\ {p \in Proc : Granting(p)}' = {} /\ {p \in Proc : Opening(p)}' = {}
        /\ {p \in Proc : Rewarding(p)}' = {} /\ {p \in Proc : Couponing(p)}' = {}
    BY <2>1 DEF Granting, Opening, Rewarding, Couponing, Finding
  <2>3. /\ granted <= Deliveries /\ accounts <= Deliveries
        /\ commissions <= granted /\ coupons <= Deliveries
        /\ UnknownKind \/ coupons <= granted
    <3>1. /\ granted <= Deliveries /\ accounts <= Deliveries /\ commissions <= granted
          /\ coupons <= IF UnknownKind THEN Deliveries ELSE granted
      BY EffectsFollow DEF EffectsAttributed, Deliveries
    <3>2. CASE UnknownKind
      <4>1. coupons <= Deliveries
        BY <3>1, <3>2
      <4> QED  BY <3>1, <3>2, <4>1
    <3>3. CASE ~UnknownKind
      <4>1. coupons <= granted
        BY <3>1, <3>3
      <4> QED  BY <1>0, <3>1, <3>3, <4>1
    <3> QED  BY <3>2, <3>3
  <2>4. Counted'
    <3>1. /\ Cardinality({p \in Proc : Granting(p)})' = 0
          /\ Cardinality({p \in Proc : Opening(p)})' = 0
          /\ Cardinality({p \in Proc : Rewarding(p)})' = 0
          /\ Cardinality({p \in Proc : Couponing(p)})' = 0
      BY <2>2, FS_EmptySet
    <3>2. /\ granted' + 0 + tasks' <= Deliveries' /\ accounts' + 0 + tasks' <= Deliveries'
          /\ commissions' + 0 <= granted' /\ coupons' + 0 + 0 + tasks' <= Deliveries'
      BY <1>0, <2>1, <2>3
    <3>3. UnknownKind' \/ coupons' + 0 <= granted'
      BY <1>0, <2>1, <2>3 DEF UnknownKind
    <3> QED  BY <3>1, <3>2, <3>3 DEF Counted
  <2>5. OnTask' /\ OneToken' /\ (order' = None => Unplaced')
    BY <2>1 DEF EffInv, OnTask, OneToken, Unplaced
  <2> QED  BY <2>4, <2>5 DEF EffInv
<1> QED  BY <1>1, <1>2, <1>3 DEF Fault

(***************************************************************************)
(* The theorem.                                                            *)
(***************************************************************************)
\* What is on its way never exceeds what was delivered.
THEOREM EffCorrect == Spec => []EffInv
<1>1. Init => EffInv
  <2> SUFFICES ASSUME Init PROVE EffInv
    OBVIOUS
  <2>1. /\ {p \in Proc : Granting(p)} = {} /\ {p \in Proc : Opening(p)} = {}
        /\ {p \in Proc : Rewarding(p)} = {} /\ {p \in Proc : Couponing(p)} = {}
    BY DEF Init, Granting, Opening, Rewarding, Couponing, Finding
  <2>2. Deliveries = 0
    BY DEF Init, Deliveries, Counts
  <2>3. Counted
    BY <2>1, <2>2, FS_EmptySet DEF Init, Counted
  <2> QED  BY <2>3 DEF Init, EffInv, OnTask, OneToken, Unplaced
<1>2. TypeOK /\ TypeOK' /\ EffInv /\ [Next]_vars => EffInv'
  <2> SUFFICES ASSUME TypeOK, TypeOK', EffInv, [Next]_vars PROVE EffInv'
    OBVIOUS
  <2>1. CASE Purchase \/ AdminCreate \/ GatewayPay
    BY <2>1, EffEnvironment
  <2>2. CASE \E p \in Request : BeginRequest(p)
    BY <2>2, EffBegin DEF Proc
  <2>3. CASE \E p \in Worker : BeginDeferClose(p) \/ BeginActivate(p)
    BY <2>3, EffBegin DEF Proc
  <2>4. CASE \E p \in Proc : Step(p)
    BY <2>4, EffStep
  <2>5. CASE Fault
    BY <2>5, EffFault
  <2>6. CASE UNCHANGED vars
    <3>1. UNCHANGED <<job, pc, ret, order, tasks, closeTask, link, gatewayPaid,
                      granted, accounts, commissions, coupons, count>>
      BY <2>6 DEF vars, placeVars, payVars, queueVars, effectVars, procVars, histVars
    <3> QED  BY <3>1, SameEffects
  <2> QED
    BY <2>1, <2>2, <2>3, <2>4, <2>5, <2>6 DEF Next
<1> QED
  BY <1>1, <1>2, TypeCorrect, PTL DEF Spec

\* However requests, workers, redeliveries and failures interleave, what an
\* order yields is bounded by its deliveries, and a new subscription is
\* created for it at most once.
THEOREM EffectsBounded == Spec => []EffectsAttributed
<1>1. TypeOK /\ EffInv => EffectsAttributed
  BY EffectsFollow
<1> QED
  BY <1>1, EffCorrect, TypeCorrect, PTL

(***************************************************************************)
(* Without an administrator, who may set any status, a payment is lost     *)
(* only by the events `cause` lists.                                       *)
(***************************************************************************)
TxLabels == {"txSave", "txDelSave", "txStatus", "txDelStatus", "txEnqueue", "commit"}

NoAdmin(p) ==
    /\ job[p] # "admin" /\ pc[p] \notin TxLabels
    /\ ret[p] \notin {"txSave", "txStatus"}

\* A row saved whole is pending, or finished after a delivery.
SavesPending(p) ==
    pc[p] = "save" \/ ret[p] = "save" => HasStatus(snap[p], Pending) \/ granted > 0

Accepted(p) == pc[p] \in {"delPaid", "enqueue"}

\* While nothing went wrong, an accepted payment shows in the row, and its
\* task waits or a worker has not yet delivered.
Safe ==
    /\ count["enqueued"] > 0 \/ (\E p \in Proc : Accepted(p)) => HasStatus(row, Paid)
    /\ count["enqueued"] > 0 => tasks > 0 \/ \E p \in Proc : Granting(p)

LostInv ==
    /\ \A p \in Proc : NoAdmin(p) /\ SavesPending(p)
    /\ granted = 0 /\ cause = {} => Safe
    /\ order = None => count["enqueued"] = 0
    /\ ~UnknownKind

LEMMA LostFind ==
    ASSUME TypeOK, TypeOK', IInv, EffInv, LostInv, order # None, NEW p \in Proc, Find(p)
    PROVE  LostInv'
<1>0. /\ pc \in [Proc -> Labels] /\ job \in [Proc -> Jobs]
      /\ ret \in [Proc -> Returns \cup {"none"}] /\ count \in [Counts -> Nat]
      /\ snap \in [Proc -> RowOrNone] /\ granted \in Nat /\ tasks \in Nat
      /\ "enqueued" \in Counts
  BY DEF TypeOK, GlobalsOK, Counts
<1> USE DEF At, Goto, Finish, Lookup, LookupLast, DelKeys, Count, Deciding, Finding,
           storeVars, placeVars, payVars, queueVars, effectVars, procVars,
           histVars, LostInv, Safe, Accepted, SavesPending, NoAdmin, TxLabels,
           Granting, HasStatus, UnknownKind, WithStatus, Pending, Paid, Closed, Finished
<1>1. CASE Get(p)
  BY <1>1, <1>0 DEF Get, Arrive, Returns
<1>2. CASE Query(p)
  BY <1>2, <1>0 DEF Query, Arrive, Returns
<1>3. CASE QueryMissing(p)
  BY <1>3, <1>0 DEF QueryMissing, Arrive, Returns
<1>4. CASE Fill(p)
  BY <1>4, <1>0 DEF Fill, Arrive, Returns
<1> QED
  BY <1>1, <1>2, <1>3, <1>4 DEF Find

LEMMA LostCheckout ==
    ASSUME TypeOK, TypeOK', IInv, EffInv, LostInv, order # None, NEW p \in Proc, Checkout(p)
    PROVE  LostInv'
<1>0. /\ pc \in [Proc -> Labels] /\ job \in [Proc -> Jobs]
      /\ ret \in [Proc -> Returns \cup {"none"}] /\ count \in [Counts -> Nat]
      /\ snap \in [Proc -> RowOrNone] /\ granted \in Nat /\ tasks \in Nat
      /\ "enqueued" \in Counts
  BY DEF TypeOK, GlobalsOK, Counts
<1> USE DEF At, Goto, Finish, Lookup, LookupLast, DelKeys, Count, Deciding, Finding,
           storeVars, placeVars, payVars, queueVars, effectVars, procVars,
           histVars, LostInv, Safe, Accepted, SavesPending, NoAdmin, TxLabels,
           Granting, HasStatus, UnknownKind, WithStatus, Pending, Paid, Closed, Finished
<1>1. CASE CheckoutRefused(p)
  BY <1>1, <1>0 DEF CheckoutRefused
<1>2. CASE CheckoutGateway(p)
  <2>1. HasStatus(snap[p], Pending)
    BY <1>2 DEF CheckoutGateway, TypeOK, GoroutineOK, Copied
  <2>2. CASE order.method = "epay"
    BY <1>2, <2>2, <1>0 DEF CheckoutGateway
  <2>3. CASE order.method # "epay"
    <3>1. Lookup(p, "save") /\ UNCHANGED <<snap, row, order, tasks, granted, count, cause>>
      BY <1>2, <2>3 DEF CheckoutGateway
    <3> QED  BY <2>1, <3>1, <1>2, <1>0 DEF CheckoutGateway
  <2> QED  BY <2>2, <2>3
<1>3. CASE CheckoutBalance(p)
  BY <1>3, <1>0 DEF CheckoutBalance
<1>4. CASE Debit(p)
  BY <1>4, <1>0 DEF Debit
<1>5. CASE InsufficientBalance(p)
  BY <1>5, <1>0 DEF InsufficientBalance
<1> QED
  BY <1>1, <1>2, <1>3, <1>4, <1>5 DEF Checkout

LEMMA LostSettlePaid ==
    ASSUME TypeOK, TypeOK', IInv, EffInv, LostInv, order # None, NEW p \in Proc, SettlePaid(p)
    PROVE  LostInv'
<1>0. /\ pc \in [Proc -> Labels] /\ job \in [Proc -> Jobs]
      /\ ret \in [Proc -> Returns \cup {"none"}] /\ count \in [Counts -> Nat]
      /\ snap \in [Proc -> RowOrNone] /\ granted \in Nat /\ tasks \in Nat
      /\ "enqueued" \in Counts
  BY DEF TypeOK, GlobalsOK, Counts
<1> USE DEF At, Goto, Finish, Lookup, LookupLast, DelKeys, Count, Deciding, Finding,
           storeVars, placeVars, payVars, queueVars, effectVars, procVars,
           histVars, LostInv, Safe, Accepted, SavesPending, NoAdmin, TxLabels,
           Granting, HasStatus, UnknownKind, WithStatus, Pending, Paid, Closed, Finished
<1>1. CASE NotifySkip(p)
  BY <1>1, <1>0 DEF NotifySkip
<1>2. CASE NotifyAccept(p)
  BY <1>2, <1>0 DEF NotifyAccept
<1>3. CASE SetPaid(p)
  <2>1. cause' = {} => cause = {} /\ HasStatus(row', Paid)
    <3>1. CASE row = None
      BY <1>3, <3>1 DEF SetPaid
    <3>2. CASE row # None
      <4>1. row \in Row /\ row' = [row EXCEPT !.status = Paid] /\ cause' = cause
        BY <1>3, <3>2 DEF SetPaid, TypeOK, GlobalsOK, RowOrNone
      <4>2. row' \in Row /\ row'.status = Paid
        BY <4>1 DEF Row, Status
      <4> QED  BY <4>1, <4>2, NoneAssumption
    <3> QED  BY <3>1, <3>2
  <2>2. /\ UNCHANGED <<order, tasks, granted, count, job, ret, snap>>
        /\ pc' = [pc EXCEPT ![p] = "delPaid"] /\ pc[p] = "setStatus"
    BY <1>3 DEF SetPaid
  <2> QED  BY <2>1, <2>2, <1>0
<1>4. CASE DelPaid(p)
  BY <1>4, <1>0 DEF DelPaid
<1>5. CASE Enqueue(p)
  BY <1>5, <1>0 DEF Enqueue
<1> QED
  BY <1>1, <1>2, <1>3, <1>4, <1>5 DEF SettlePaid

LEMMA LostCloseOrder ==
    ASSUME TypeOK, TypeOK', IInv, EffInv, LostInv, order # None, NEW p \in Proc, CloseOrder(p)
    PROVE  LostInv'
<1>0. /\ pc \in [Proc -> Labels] /\ job \in [Proc -> Jobs]
      /\ ret \in [Proc -> Returns \cup {"none"}] /\ count \in [Counts -> Nat]
      /\ snap \in [Proc -> RowOrNone] /\ granted \in Nat /\ tasks \in Nat
      /\ "enqueued" \in Counts
  BY DEF TypeOK, GlobalsOK, Counts
<1> USE DEF At, Goto, Finish, Lookup, LookupLast, DelKeys, Count, Deciding, Finding,
           storeVars, placeVars, payVars, queueVars, effectVars, procVars,
           histVars, LostInv, Safe, Accepted, SavesPending, NoAdmin, TxLabels,
           Granting, HasStatus, UnknownKind, WithStatus, Pending, Paid, Closed, Finished, AckClose, Closing
<1>1. CASE CloseSkip(p)
  BY <1>1, <1>0 DEF CloseSkip
<1>2. CASE CloseStart(p)
  BY <1>2, <1>0 DEF CloseStart
<1>3. CASE CloseCommit(p)
  BY <1>3, <1>0 DEF CloseCommit
<1>4. CASE CloseGiftFails(p)
  BY <1>4, <1>0 DEF CloseGiftFails
<1> QED
  BY <1>1, <1>2, <1>3, <1>4 DEF CloseOrder

LEMMA LostActivateOrder ==
    ASSUME TypeOK, TypeOK', IInv, EffInv, LostInv, order # None, NEW p \in Proc, ActivateOrder(p)
    PROVE  LostInv'
<1>0. /\ pc \in [Proc -> Labels] /\ job \in [Proc -> Jobs]
      /\ ret \in [Proc -> Returns \cup {"none"}] /\ count \in [Counts -> Nat]
      /\ snap \in [Proc -> RowOrNone] /\ granted \in Nat /\ tasks \in Nat
      /\ "enqueued" \in Counts
  BY DEF TypeOK, GlobalsOK, Counts
<1> USE DEF At, Goto, Finish, Lookup, LookupLast, DelKeys, Count, Deciding, Finding,
           storeVars, placeVars, payVars, queueVars, effectVars, procVars,
           histVars, LostInv, Safe, Accepted, SavesPending, NoAdmin, TxLabels,
           Granting, HasStatus, UnknownKind, WithStatus, Pending, Paid, Closed, Finished
<1>1. CASE ActivateDrop(p)
  BY <1>1, <1>0 DEF ActivateDrop
<1>2. CASE ActivateStart(p)
  BY <1>2, <1>0 DEF ActivateStart
<1>10. CASE ActivateUnknown(p)
  BY <1>10 DEF ActivateUnknown, LostInv
<1>3. CASE AccountExpired(p)
  BY <1>3, <1>0 DEF AccountExpired
<1>4. CASE CreateAccount(p)
  <2>1. HasStatus(row, Paid) => HasStatus(row', Paid)
    <3>1. CASE row = None
      BY <1>4, <3>1 DEF CreateAccount
    <3>2. CASE row # None
      <4>1. row \in Row /\ row' = [row EXCEPT !.guest = FALSE]
        BY <1>4, <3>2 DEF CreateAccount, TypeOK, GlobalsOK, RowOrNone
      <4>2. row' \in Row /\ row'.status = row.status
        BY <4>1 DEF Row
      <4> QED  BY <4>1, <4>2, NoneAssumption
    <3> QED  BY <3>1, <3>2
  <2>2. /\ UNCHANGED <<order, tasks, granted, count, cause, job, ret>>
        /\ pc' = [pc EXCEPT ![p] = "grant"] /\ pc[p] = "account"
        /\ \A q \in Proc \ {p} : snap'[q] = snap[q]
    BY <1>4, <1>0 DEF CreateAccount
  <2>3. job[p] = "activate" /\ ret[p] = "none"
    BY <2>2 DEF EffInv, OnTask, TypeOK, GoroutineOK
  <2> QED  BY <2>1, <2>2, <2>3, <1>0
<1>5. CASE TargetGone(p)
  BY <1>5, <1>0 DEF TargetGone
<1>6. CASE DuplicateToken(p)
  BY <1>6, <1>0 DEF DuplicateToken
<1>7. CASE Grant(p)
  BY <1>7, <1>0 DEF Grant, IsPurchase
<1>8. CASE Commission(p)
  BY <1>8, <1>0 DEF Commission
<1>9. CASE CountCoupon(p)
  <2>1. granted > 0
    BY <1>9 DEF CountCoupon, IInv, CopiesHonest, Entitled, LostInv
  <2>2. /\ UNCHANGED <<row, order, tasks, granted, count, cause, job>>
        /\ pc' = [pc EXCEPT ![p] = "get"] /\ ret' = [ret EXCEPT ![p] = "save"]
        /\ \A q \in Proc \ {p} : snap'[q] = snap[q]
    BY <1>9, <1>0 DEF CountCoupon
  <2> QED  BY <2>1, <2>2, <1>0
<1> QED
  BY <1>1, <1>2, <1>3, <1>4, <1>5, <1>6, <1>7, <1>8, <1>9, <1>10 DEF ActivateOrder

LEMMA LostSave ==
    ASSUME TypeOK, TypeOK', LostInv, order # None, NEW p \in Proc,
           SaveRow(p) \/ DelSaved(p)
    PROVE  LostInv'
<1>0. /\ pc \in [Proc -> Labels] /\ job \in [Proc -> Jobs]
      /\ ret \in [Proc -> Returns \cup {"none"}] /\ snap \in [Proc -> RowOrNone]
      /\ granted \in Nat /\ tasks \in Nat
  BY DEF TypeOK, GlobalsOK
<1> USE DEF At, Goto, Finish, storeVars, placeVars, payVars, queueVars,
            effectVars, procVars, histVars, LostInv, Safe, Accepted, NoAdmin,
            TxLabels, Granting, Finding, UnknownKind
<1>1. CASE SaveRow(p)
  <2>1. /\ UNCHANGED <<order, tasks, granted, count>>
        /\ row' = snap[p] /\ pc[p] = "save" /\ pc'[p] \in {"idle", "delSave"}
        /\ ret'[p] \in {"none", ret[p]} /\ job'[p] \in {"none", job[p]}
        /\ \A q \in Proc \ {p} : pc'[q] = pc[q] /\ job'[q] = job[q]
                                 /\ ret'[q] = ret[q] /\ snap'[q] = snap[q]
    BY <1>0, <1>1 DEF SaveRow
  <2>2. ret[p] = "none"
    BY <2>1 DEF TypeOK, GoroutineOK
  <2>3. cause' = {} /\ granted = 0 => cause = {} /\ ~HasStatus(row, Paid)
    <3>1. HasStatus(snap[p], Pending) \/ granted > 0
      BY <2>1 DEF SavesPending
    <3>2. CASE HasStatus(row, Paid) /\ snap[p].status = Pending
      BY <1>1, <3>2 DEF SaveRow
    <3>3. CASE ~(HasStatus(row, Paid) /\ snap[p].status = Pending)
      BY <1>1, <3>1, <3>3, <1>0 DEF SaveRow, HasStatus
    <3> QED  BY <3>2, <3>3
  <2>4. granted = 0 /\ cause' = {} => Safe'
    BY <2>1, <2>2, <2>3, <1>0
  <2>5. \A q \in Proc : NoAdmin(q)' /\ SavesPending(q)'
    BY <2>1, <2>2 DEF SavesPending
  <2> QED  BY <2>1, <2>4, <2>5
<1>2. CASE DelSaved(p)
  BY <1>0, <1>2 DEF DelSaved, SavesPending
<1> QED  BY <1>1, <1>2

LEMMA LostStep ==
    ASSUME TypeOK, TypeOK', IInv, EffInv, LostInv, NEW p \in Proc, Step(p)
    PROVE  LostInv'
<1>1. order # None
  BY NothingToDo DEF EffInv
<1>2. ~AdminUpdate(p)
  BY DEF LostInv, NoAdmin, TxLabels, AdminUpdate, AdminDecide, TxSave,
         TxDelSaved, TxStatus, TxDelStatus, TxEnqueue, Commit, DelKeys,
         Deciding, At
<1> QED
  BY <1>1, <1>2, LostFind, LostCheckout, LostSettlePaid, LostCloseOrder,
     LostActivateOrder, LostSave DEF Step

LEMMA LostBegin ==
    ASSUME TypeOK, TypeOK', EffInv, LostInv, "admin" \notin RequestJobs,
           NEW p \in Proc, BeginRequest(p) \/ BeginDeferClose(p) \/ BeginActivate(p)
    PROVE  LostInv'
<1>0. /\ pc \in [Proc -> Labels] /\ job \in [Proc -> Jobs]
      /\ ret \in [Proc -> Returns \cup {"none"}] /\ count \in [Counts -> Nat]
      /\ granted \in Nat /\ tasks \in Nat /\ "enqueued" \in Counts
  BY DEF TypeOK, GlobalsOK, Counts
<1>1. order # None
  BY DEF EffInv, Unplaced, BeginRequest, BeginCheckout, BeginClose,
         BeginNotify, BeginAdmin, BeginDeferClose, BeginActivate, TypeOK, GlobalsOK
<1>2. /\ pc[p] = "idle" /\ pc' = [pc EXCEPT ![p] = "get"]
      /\ ret' = [ret EXCEPT ![p] = "decide"]
      /\ job' \in {[job EXCEPT ![p] = j] : j \in Jobs \ {"admin", "none"}}
      /\ UNCHANGED <<row, snap, order, granted, cause>>
      /\ count'["enqueued"] = count["enqueued"]
      /\ tasks' = tasks \/ job'[p] = "activate"
  BY <1>0 DEF BeginRequest, BeginCheckout, BeginClose, BeginNotify, BeginAdmin,
         BeginDeferClose, BeginActivate, Begin, At, Count, Jobs, AllRequestJobs,
         Counts, storeVars, placeVars, payVars, queueVars, effectVars, histVars
<1> QED
  BY <1>0, <1>1, <1>2 DEF LostInv, Safe, Accepted, SavesPending, NoAdmin, TxLabels,
     Granting, Finding, UnknownKind

LEMMA LostEnvironment ==
    ASSUME TypeOK, EffInv, LostInv, "admin" \notin RequestJobs,
           Purchase \/ AdminCreate \/ GatewayPay
    PROVE  LostInv'
<1> USE DEF storeVars, placeVars, payVars, queueVars, effectVars, procVars, histVars
<1>1. ~AdminCreate
  BY DEF AdminCreate
<1>2. CASE Purchase
  <2>1. /\ order = None /\ UNCHANGED <<pc, job, ret, snap, tasks, granted, count, cause>>
    BY <1>2 DEF Purchase
  <2>2. count["enqueued"] = 0 /\ \A p \in Proc : pc[p] = "idle"
    BY <2>1 DEF EffInv, Unplaced, LostInv
  <2> QED
    BY <1>2, <2>1, <2>2 DEF Purchase, LostInv, Safe, Accepted, SavesPending,
                            NoAdmin, TxLabels, UnknownKind
<1>3. CASE GatewayPay
  BY <1>3 DEF GatewayPay, LostInv, Safe, Accepted, SavesPending, NoAdmin,
              TxLabels, Granting, HasStatus, UnknownKind
<1> QED  BY <1>1, <1>2, <1>3

LEMMA LostFault ==
    ASSUME TypeOK, TypeOK', EffInv, LostInv, Fault
    PROVE  LostInv'
<1>0. /\ pc \in [Proc -> Labels] /\ job \in [Proc -> Jobs]
      /\ ret \in [Proc -> Returns \cup {"none"}] /\ count \in [Counts -> Nat]
      /\ granted \in Nat /\ tasks \in Nat /\ "enqueued" \in Counts
  BY DEF TypeOK, GlobalsOK, Counts
<1> USE DEF At, Finish, Count, storeVars, placeVars, payVars, queueVars,
            effectVars, procVars, histVars, LostInv, Safe, Accepted,
            SavesPending, NoAdmin, TxLabels, Granting, Finding, UnknownKind
<1>1. ASSUME NEW p \in Proc, Abort(p) \/ LeaseExpires(p) \/ Panic(p)
      PROVE  LostInv'
  <2>1. order # None
    BY <1>1 DEF EffInv, Unplaced, Abort, LeaseExpires, Panic
  <2>2. CASE Abort(p)
    BY <1>0, <2>1, <2>2 DEF Abort, Counts
  <2>3. CASE LeaseExpires(p)
    BY <1>0, <2>1, <2>3 DEF LeaseExpires, Counts
  <2>4. CASE Panic(p)
    BY <1>0, <2>1, <2>4 DEF Panic, Counts
  <2> QED  BY <1>1, <2>2, <2>3, <2>4
<1>2. CASE (\E k \in Key : CacheExpires(k)) \/ TempExpires
  BY <1>2 DEF CacheExpires, TempExpires
<1>3. CASE Restart
  BY <1>0, <1>3 DEF Restart, Counts
<1> QED  BY <1>1, <1>2, <1>3 DEF Fault

\* As long as no administrator sets statuses, an accepted payment whose goods
\* never arrive was lost by one of the listed events: a stale read, a close or
\* a stale save over the paid row, a deleted row, an expired guest, a missing
\* target, a failing call or a restart; the interleaving alone loses nothing.
THEOREM NothingElseLosesPayments ==
    ASSUME "admin" \notin RequestJobs
    PROVE  Spec => []LostPaymentHasCause
<1>1. Init => LostInv
  BY DEF Init, LostInv, Safe, Accepted, SavesPending, NoAdmin, TxLabels, Counts,
         UnknownKind
<1>2. TypeOK /\ TypeOK' /\ IInv /\ EffInv /\ LostInv /\ [Next]_vars => LostInv'
  <2> SUFFICES ASSUME TypeOK, TypeOK', IInv, EffInv, LostInv, [Next]_vars
               PROVE  LostInv'
    OBVIOUS
  <2>1. CASE Purchase \/ AdminCreate \/ GatewayPay
    BY <2>1, LostEnvironment
  <2>2. CASE \E p \in Request : BeginRequest(p)
    BY <2>2, LostBegin DEF Proc
  <2>3. CASE \E p \in Worker : BeginDeferClose(p) \/ BeginActivate(p)
    BY <2>3, LostBegin DEF Proc
  <2>4. CASE \E p \in Proc : Step(p)
    BY <2>4, LostStep
  <2>5. CASE Fault
    BY <2>5, LostFault
  <2>6. CASE UNCHANGED vars
    BY <2>6 DEF vars, storeVars, placeVars, payVars, queueVars, effectVars,
                procVars, histVars, LostInv, Safe, Accepted, SavesPending,
                NoAdmin, TxLabels, Granting, HasStatus, UnknownKind
  <2> QED
    BY <2>1, <2>2, <2>3, <2>4, <2>5, <2>6 DEF Next
<1>3. TypeOK /\ LostInv => LostPaymentHasCause
  BY DEF LostInv, Safe, LostPaymentHasCause, Quiescent, Granting, Finding,
         TypeOK, GlobalsOK
<1> QED
  BY <1>1, <1>2, <1>3, EffCorrect, InvCorrect, TypeCorrect, PTL DEF Spec
=============================================================================
