----------------------------- MODULE LedgerProofs ------------------------------
(***************************************************************************)
(* Proofs about money: the balance and the gift of a user, coupons, and    *)
(* what a subscription is worth when it is given back.                     *)
(***************************************************************************)
EXTENDS Accounts, Coupons, Deductions, FiniteSetTheorems, TLAPS

W(b) == IF b THEN 1 ELSE 0

\* One element more or less.
LEMMA OneChanges ==
    ASSUME NEW S, NEW T, NEW c, IsFiniteSet(S), S \ {c} = T \ {c}
    PROVE  /\ Cardinality(S) \in Nat /\ Cardinality(T) \in Nat
           /\ Cardinality(T) = Cardinality(S) + W(c \in T) - W(c \in S)
<1>1. Cardinality(S) \in Nat
  BY FS_CardinalityType
<1>2. CASE c \in S /\ c \notin T
  <2>1. T = S \ {c}
    BY <1>2
  <2>2. Cardinality(S \ {c}) = Cardinality(S) - 1 /\ IsFiniteSet(S \ {c})
    BY <1>2, FS_RemoveElement
  <2>3. Cardinality(T) \in Nat
    BY <2>1, <2>2, FS_CardinalityType
  <2> QED  BY <1>1, <1>2, <2>1, <2>2, <2>3 DEF W
<1>3. CASE c \notin S /\ c \in T
  <2>1. T = S \cup {c}
    BY <1>3
  <2>2. Cardinality(S \cup {c}) = Cardinality(S) + 1
    BY <1>3, FS_AddElement
  <2> QED  BY <1>1, <1>3, <2>1, <2>2 DEF W
<1>4. CASE (c \in S) <=> (c \in T)
  <2>1. T = S
    BY <1>4
  <2>2. W(c \in T) = W(c \in S) /\ W(c \in S) \in Nat
    BY <2>1 DEF W
  <2> QED  BY <1>1, <2>1, <2>2
<1> QED  BY <1>2, <1>3, <1>4

(***************************************************************************)
(* Proofs about Accounts: a subscription is refunded at most once, unless  *)
(* two requests both passed the check before either saved the status; and  *)
(* the balance pays for no more than there was, and agrees with the logs,  *)
(* unless one of the marked events happened.                               *)
(***************************************************************************)
\* A return that has saved the status and has yet to commit its refund.
Returning(c) == task[c] \in Backs /\ place[c] \in {"save", "drop", "commit"}
Returns == {c \in Clerk : Returning(c)}

\* The part of the types the argument needs.
Shape ==
    /\ place \in [Clerk -> Places] /\ task \in [Clerk -> Tasks]
    /\ active \in BOOLEAN /\ refunds \in Nat /\ reopened \in Nat
    /\ \A c \in Clerk : place[c] \in {"read", "mark"} => task[c] = "pay"
    /\ \A c \in Clerk : task[c] = "lose" => place[c] \in {"check", "unsub", "commit"}

\* Whoever passed the check is alone, and the status he found still holds; what
\* was refunded, what is being returned and what is in use are no more than
\* the times the subscription came into use.
OneReturn ==
    /\ \A c, d \in Clerk : In(c, "unsub") /\ In(d, "unsub") => c = d
    /\ \A c \in Clerk : In(c, "unsub") => active
    /\ refunds + Cardinality(Returns) + W(active) <= 1 + reopened

ReturnInv == Shape /\ ("overlap" \in marks \/ OneReturn)

\* The returns after a step of one clerk.
LEMMA ReturnsMove ==
    ASSUME NEW c \in Clerk,
           \A d \in Clerk \ {c} : place'[d] = place[d] /\ task'[d] = task[d]
    PROVE  /\ Cardinality(Returns') = Cardinality(Returns) + W(Returning(c)') - W(Returning(c))
           /\ Cardinality(Returns) \in Nat /\ Cardinality(Returns') \in Nat
<1>1. Returns \ {c} = Returns' \ {c}
  BY DEF Returns, Returning
<1>2. IsFiniteSet(Returns)
  BY AccountAssumption, FS_Subset DEF Returns
<1>3. (c \in Returns <=> Returning(c)) /\ (c \in Returns' <=> Returning(c)')
  BY DEF Returns
<1>4. /\ Cardinality(Returns) \in Nat /\ Cardinality(Returns') \in Nat
      /\ Cardinality(Returns') = Cardinality(Returns) + W(c \in Returns') - W(c \in Returns)
  BY <1>1, <1>2, OneChanges
<1> QED  BY <1>3, <1>4 DEF W

\* A step of one clerk that neither begins nor advances a return, and changes
\* neither the status nor the refunds, keeps what ReturnInv says.
LEMMA OtherStep ==
    ASSUME ReturnInv, NEW c \in Clerk,
           Shape', marks \subseteq marks',
           UNCHANGED <<active, refunds, reopened>>,
           \A d \in Clerk \ {c} : place'[d] = place[d] /\ task'[d] = task[d],
           In(c, "unsub")' => In(c, "unsub"), Returning(c)' => Returning(c)
    PROVE  ReturnInv'
<1>1. \A d \in Clerk : In(d, "unsub")' => In(d, "unsub")
  BY DEF In
<1>2. \A d \in Clerk : Returning(d)' => Returning(d)
  BY DEF Returning
<1>3. refunds \in Nat /\ reopened \in Nat
  BY DEF ReturnInv, Shape
<1>4. OneReturn => OneReturn'
  <2>1. Cardinality(Returns') <= Cardinality(Returns)
    BY <1>2, ReturnsMove DEF W
  <2> QED  BY <1>1, <1>3, <2>1, ReturnsMove DEF OneReturn, W
<1> QED  BY <1>4 DEF ReturnInv

LEMMA InitReturn == AcctInit => ReturnInv
<1> SUFFICES ASSUME AcctInit  PROVE ReturnInv
  OBVIOUS
<1>1. Returns = {}
  BY DEF AcctInit, Returns, Returning
<1>2. Cardinality(Returns) = 0
  BY <1>1, FS_EmptySet
<1> QED  BY <1>2 DEF AcctInit, ReturnInv, Shape, OneReturn, W, In, Places, Tasks, Handed

\* The steps that belong to a return.
Answers(c) == CheckActive(c) \/ Unsubscribe(c) \/ Commit(c)

\* All others.
Elsewhere(c) ==
    \/ BeginTask(c) \/ GetUser(c) \/ QueryUser(c) \/ FillUser(c)
    \/ ReadBalance(c) \/ SaveUser(c) \/ DropUser(c) \/ MarkPaid(c)
    \/ LogCommission(c) \/ ClearUser(c) \/ TaskFails(c) \/ UpdateIgnored(c)

\* What a step of one clerk outside of a return leaves.
Leaves(c) ==
    /\ Shape' /\ marks \subseteq marks' /\ UNCHANGED <<active, refunds, reopened>>
    /\ \A d \in Clerk \ {c} : place'[d] = place[d] /\ task'[d] = task[d]
    /\ In(c, "unsub")' => In(c, "unsub")
    /\ Returning(c)' => Returning(c)

LEMMA ElsewhereLeaves ==
    ASSUME Shape, NEW c \in Clerk, Elsewhere(c)
    PROVE  Leaves(c)
<1> USE DEF Leaves, Shape, In, Returning, Places, Tasks, Handed, Backs
<1>1. CASE BeginTask(c)
  BY <1>1 DEF BeginTask, FirstPlace, acctStore, acctPast
<1>2. CASE GetUser(c)
  BY <1>2 DEF GetUser, GotRow, Done, Step, acctStore, acctPast
<1>3. CASE QueryUser(c)
  BY <1>3 DEF QueryUser, Step, acctStore, acctPast
<1>4. CASE FillUser(c)
  BY <1>4 DEF FillUser, GotRow, Done, Step, acctPast
<1>5. CASE ReadBalance(c)
  BY <1>5 DEF ReadBalance, Done, Step, acctStore, acctPast
<1>6. CASE SaveUser(c)
  BY <1>6 DEF SaveUser, Step
<1>7. CASE DropUser(c)
  BY <1>7 DEF DropUser, Done, Step, acctPast
<1>8. CASE MarkPaid(c)
  BY <1>8 DEF MarkPaid, Step, acctStore
<1>9. CASE LogCommission(c)
  BY <1>9 DEF LogCommission, Step, MarkIf
<1>10. CASE ClearUser(c)
  BY <1>10 DEF ClearUser, Done, acctPast
<1>11. CASE TaskFails(c)
  BY <1>11 DEF TaskFails, Done, MarkIf
<1>12. CASE UpdateIgnored(c)
  BY <1>12 DEF UpdateIgnored, Done, MarkIf
<1> QED  BY <1>1, <1>2, <1>3, <1>4, <1>5, <1>6, <1>7, <1>8, <1>9, <1>10, <1>11, <1>12 DEF Elsewhere

LEMMA ElsewhereStep ==
    ASSUME ReturnInv, NEW c \in Clerk, Elsewhere(c)
    PROVE  ReturnInv'
<1>1. Leaves(c)
  BY ElsewhereLeaves DEF ReturnInv
<1> QED  BY <1>1, OtherStep DEF Leaves

\* The check: whoever passes it while another has, is marked.
LEMMA CheckStep ==
    ASSUME ReturnInv, NEW c \in Clerk, CheckActive(c)
    PROVE  ReturnInv'
<1> USE DEF ReturnInv, Shape, Places, Tasks, Handed
<1>1. CASE ~active
  <2>1. Leaves(c)
    BY <1>1 DEF CheckActive, Done, In, Leaves, Returning, acctStore
  <2> QED  BY <2>1, OtherStep DEF Leaves
<1>2. CASE active
  <2>1. place' = [place EXCEPT ![c] = "unsub"] /\ UNCHANGED <<task, active, refunds, reopened>>
    BY <1>2 DEF CheckActive, Step, acctStore
  <2>2. marks' = IF Overlaps(c) THEN marks \cup {"overlap"} ELSE marks
    BY <1>2 DEF CheckActive, MarkIf
  <2>3. Shape'
    BY <2>1
  <2>4. CASE Overlaps(c) \/ "overlap" \in marks
    BY <2>2, <2>3, <2>4
  <2>5. CASE ~Overlaps(c) /\ OneReturn
    <3>1. \A d \in Clerk : In(d, "unsub")' <=> d = c
      BY <2>1, <2>5 DEF Overlaps, In
    <3>2. ~Returning(c)'
      BY <2>1 DEF Returning
    <3>3. Cardinality(Returns') <= Cardinality(Returns)
      BY <2>1, <3>2, ReturnsMove DEF W
    <3>4. OneReturn'
      BY <3>1, <3>3, <2>1, <2>5, <1>2, ReturnsMove DEF OneReturn, W
    <3> QED  BY <3>4, <2>3
  <2> QED  BY <2>4, <2>5
<1> QED  BY <1>1, <1>2

\* The status is saved: the one who passed the check now returns.
LEMMA UnsubscribeStep ==
    ASSUME ReturnInv, NEW c \in Clerk, Unsubscribe(c)
    PROVE  ReturnInv'
<1>1. /\ In(c, "unsub") /\ active' = FALSE
      /\ place' = [place EXCEPT ![c] = IF task[c] = "lose" THEN "commit" ELSE "save"]
      /\ UNCHANGED <<task, refunds, reopened, marks>>
  BY DEF Unsubscribe, Step, acctPast
<1>2. Shape'
  BY <1>1 DEF ReturnInv, Shape, Places
<1>3. OneReturn => OneReturn'
  <2> SUFFICES ASSUME OneReturn PROVE OneReturn'
    OBVIOUS
  <2>1. active /\ ~Returning(c)
    BY <1>1 DEF OneReturn, Returning, In
  <2>2. \A d \in Clerk : ~In(d, "unsub")'
    BY <1>1 DEF OneReturn, In, ReturnInv, Shape
  <2>3. Cardinality(Returns') <= Cardinality(Returns) + 1
    BY <1>1, <2>1, ReturnsMove DEF W
  <2>4. refunds \in Nat /\ reopened \in Nat
    BY DEF ReturnInv, Shape
  <2> QED  BY <1>1, <2>1, <2>2, <2>3, <2>4, ReturnsMove DEF OneReturn, W
<1> QED  BY <1>1, <1>2, <1>3 DEF ReturnInv

\* A commit; only that of a return counts a refund.
LEMMA CommitStep ==
    ASSUME ReturnInv, NEW c \in Clerk, Commit(c)
    PROVE  ReturnInv'
<1>1. /\ In(c, "commit") /\ UNCHANGED <<active, reopened>> /\ marks \subseteq marks'
      /\ place' = [place EXCEPT ![c] = "idle"]
      /\ task' = [task EXCEPT ![c] = "profile"]
      /\ refunds' = IF task[c] \in Backs THEN refunds + 1 ELSE refunds
  BY DEF Commit, Done, MarkIf
<1>2. Shape'
  BY <1>1 DEF ReturnInv, Shape, Places, Tasks, Handed
<1>3. \A d \in Clerk : In(d, "unsub")' => In(d, "unsub")
  BY <1>1 DEF In, ReturnInv, Shape
<1>4. ~Returning(c)' /\ (Returning(c) <=> task[c] \in Backs)
  BY <1>1 DEF Returning, ReturnInv, Shape, In
<1>5. OneReturn => OneReturn'
  <2> SUFFICES ASSUME OneReturn PROVE OneReturn'
    OBVIOUS
  <2>1. Cardinality(Returns') = Cardinality(Returns) - W(task[c] \in Backs)
    BY <1>1, <1>4, ReturnsMove DEF W, ReturnInv, Shape
  <2>2. refunds' = refunds + W(task[c] \in Backs) /\ refunds \in Nat /\ reopened \in Nat
    BY <1>1 DEF W, ReturnInv, Shape
  <2>3. refunds' + Cardinality(Returns') = refunds + Cardinality(Returns)
    BY <1>1, <2>1, <2>2, ReturnsMove DEF W, ReturnInv, Shape
  <2> QED  BY <1>1, <1>3, <2>3 DEF OneReturn
<1> QED  BY <1>1, <1>2, <1>5 DEF ReturnInv

\* The subscription comes into use again, whatever its status was.
LEMMA ReopenStep ==
    ASSUME ReturnInv, Reopen
    PROVE  ReturnInv'
<1>1. /\ ~active /\ active' = TRUE /\ reopened' = reopened + 1
      /\ UNCHANGED <<place, task, refunds, marks>>
  BY DEF Reopen, acctFlow
<1>2. Returns' = Returns /\ Cardinality(Returns) \in Nat
  <2>1. Returns' = Returns
    BY <1>1 DEF Returns, Returning
  <2>2. IsFiniteSet(Returns)
    BY AccountAssumption, FS_Subset DEF Returns
  <2> QED  BY <2>1, <2>2, FS_CardinalityType
<1>3. Shape'
  BY <1>1 DEF ReturnInv, Shape
<1>4. OneReturn => OneReturn'
  BY <1>1, <1>2 DEF OneReturn, In, W, ReturnInv, Shape
<1> QED  BY <1>1, <1>3, <1>4 DEF ReturnInv

LEMMA NextReturn == ReturnInv /\ [AcctNext]_acctVars => ReturnInv'
<1> SUFFICES ASSUME ReturnInv, [AcctNext]_acctVars PROVE ReturnInv'
  OBVIOUS
<1>1. CASE UNCHANGED acctVars
  <2>1. UNCHANGED <<place, task, active, refunds, reopened, marks>>
    BY <1>1 DEF acctVars, acctStore, acctFlow, acctPast
  <2>2. Returns' = Returns
    BY <2>1 DEF Returns, Returning
  <2> QED  BY <2>1, <2>2 DEF ReturnInv, Shape, OneReturn, In, W
<1>2. ASSUME NEW c \in Clerk, Elsewhere(c) PROVE ReturnInv'
  BY <1>2, ElsewhereStep
<1>3. ASSUME NEW c \in Clerk, Answers(c) PROVE ReturnInv'
  BY <1>3, CheckStep, UnsubscribeStep, CommitStep DEF Answers
<1> QED  BY <1>1, <1>2, <1>3, ReopenStep DEF AcctNext, Elsewhere, Answers

\* The invariant of the returns holds in every behaviour.
THEOREM ReturnCorrect == AcctSpec => []ReturnInv
BY InitReturn, NextReturn, PTL DEF AcctSpec

\* However many goroutines, of its owner or of others, return the subscription,
\* it is refunded at most once for every time it came into use, but for two
\* that both pass the check of its status before either saves it
\* (calculateRemainingAmount.go:29).
THEOREM RefundIsOnce == AcctSpec => []RefundedOnce
<1>1. ReturnInv => RefundedOnce
  <2>1. Cardinality(Returns) \in Nat
    BY AccountAssumption, FS_Subset, FS_CardinalityType DEF Returns
  <2> QED  BY <2>1 DEF ReturnInv, Shape, OneReturn, W, RefundedOnce
<1> QED  BY <1>1, ReturnCorrect, PTL

(***************************************************************************)
(* The money.  What every state looks like, whatever was marked.           *)
(***************************************************************************)
Base ==
    /\ user \in Account /\ entries \in Account
    /\ userCopy \in Account \cup {NoRow} /\ userLock \in Clerk \cup {NoRow}
    /\ place \in [Clerk -> Places] /\ task \in [Clerk -> Tasks]
    /\ seen \in [Clerk -> Account \cup {NoRow}]
    /\ funds \in Nat /\ paid \in Nat
    /\ \A c \in Clerk :
         /\ place[c] \in {"fill", "check", "unsub", "save", "drop", "mark", "log",
                          "commit"} /\ task[c] # "lose" => seen[c] \in Account
         /\ task[c] = "lose" => place[c] \in {"check", "unsub", "commit"}
         /\ place[c] \in {"read", "mark"} => task[c] = "pay"
         /\ place[c] = "log" => task[c] = "commission"
         /\ place[c] \in {"get", "query", "fill", "check", "unsub"} => task[c] # "pay"
         /\ place[c] = "commit" => task[c] \in {"order", "recharge", "refund", "pay", "lose"}

\* A transaction that has saved the user holds the row, and the row is still
\* what it was when it was saved; the gift an order takes is marked unless it
\* is less than the price.
Held ==
    /\ \A c \in Clerk : userLock = c <=> task[c] \in InTx /\ place[c] \in {"drop", "commit"}
    /\ "staleSave" \in marks \/ \A c \in Clerk : userLock = c => seen[c] = user
    /\ \/ "giftKept" \in marks
       \/ \A c \in Clerk : task[c] = "order" /\ place[c] \in {"drop", "commit"}
                              => seen[c].gift < PlanPrice

\* A payment between its debit and the status of its order, and until its log
\* commits; a refund and a commission that are saved and not logged.
Debited(c)   == task[c] = "pay" /\ place[c] \in {"drop", "mark"}
Unlogged(c)  == task[c] = "pay" /\ place[c] \in {"drop", "mark", "commit"}
Refunded(c)  == task[c] = "refund" /\ place[c] \in {"drop", "commit"}
Rewarded(c)  == task[c] = "commission" /\ place[c] \in {"drop", "log"}
Deciding(c)  == task[c] = "pay" /\ place[c] = "save"

Tainted == marks \cap {"staleSave", "edited"} # {}
Wrong   == marks \cap {"staleSave", "halfDone", "unchecked", "giftKept", "edited",
                      "foreign"} # {}

Funded ==
    /\ user.balance >= 0
    /\ user.balance + paid + Cardinality({c \in Clerk : Debited(c)}) <= funds
    /\ \A c \in Clerk : Deciding(c) => seen[c].balance >= 1

Ledger ==
    /\ user.balance + Cardinality({c \in Clerk : Unlogged(c)})
         = entries.balance + Cardinality({c \in Clerk : Refunded(c)})
    /\ user.commission = entries.commission + Cardinality({c \in Clerk : Rewarded(c)})
    /\ user.gift = entries.gift

BookInv == Base /\ Held /\ (Tainted \/ Funded) /\ (Wrong \/ Ledger)

Others(c) == \A d \in Clerk \ {c} : place'[d] = place[d] /\ task'[d] = task[d]


\* The four counts after a step of one clerk.
LEMMA CountsMove ==
    ASSUME NEW c \in Clerk, Others(c)
    PROVE  /\ Cardinality({d \in Clerk : Debited(d)}')
                = Cardinality({d \in Clerk : Debited(d)}) + W(Debited(c)') - W(Debited(c))
           /\ Cardinality({d \in Clerk : Debited(d)}) \in Nat
           /\ Cardinality({d \in Clerk : Unlogged(d)}')
                = Cardinality({d \in Clerk : Unlogged(d)}) + W(Unlogged(c)') - W(Unlogged(c))
           /\ Cardinality({d \in Clerk : Unlogged(d)}) \in Nat
           /\ Cardinality({d \in Clerk : Refunded(d)}')
                = Cardinality({d \in Clerk : Refunded(d)}) + W(Refunded(c)') - W(Refunded(c))
           /\ Cardinality({d \in Clerk : Refunded(d)}) \in Nat
           /\ Cardinality({d \in Clerk : Rewarded(d)}')
                = Cardinality({d \in Clerk : Rewarded(d)}) + W(Rewarded(c)') - W(Rewarded(c))
           /\ Cardinality({d \in Clerk : Rewarded(d)}) \in Nat
<1> USE AccountAssumption
<1>1. /\ Cardinality({d \in Clerk : Debited(d)}')
                = Cardinality({d \in Clerk : Debited(d)}) + W(Debited(c)') - W(Debited(c))
      /\ Cardinality({d \in Clerk : Debited(d)}) \in Nat
  <2> DEFINE S == {d \in Clerk : Debited(d)}
             T == {d \in Clerk : Debited(d)'}
  <2>1. S \ {c} = T \ {c}
    BY DEF Others, Debited
  <2>2. IsFiniteSet(S)
    BY FS_Subset
  <2>3. (c \in S <=> Debited(c)) /\ (c \in T <=> Debited(c)')
    OBVIOUS
  <2>4. Cardinality(T) = Cardinality(S) + W(c \in T) - W(c \in S) /\ Cardinality(S) \in Nat
    <3> HIDE DEF S, T
    <3> QED  BY <2>1, <2>2, OneChanges
  <2> QED  BY <2>3, <2>4 DEF W
<1>2. /\ Cardinality({d \in Clerk : Unlogged(d)}')
                = Cardinality({d \in Clerk : Unlogged(d)}) + W(Unlogged(c)') - W(Unlogged(c))
      /\ Cardinality({d \in Clerk : Unlogged(d)}) \in Nat
  <2> DEFINE S == {d \in Clerk : Unlogged(d)}
             T == {d \in Clerk : Unlogged(d)'}
  <2>1. S \ {c} = T \ {c}
    BY DEF Others, Unlogged
  <2>2. IsFiniteSet(S)
    BY FS_Subset
  <2>3. (c \in S <=> Unlogged(c)) /\ (c \in T <=> Unlogged(c)')
    OBVIOUS
  <2>4. Cardinality(T) = Cardinality(S) + W(c \in T) - W(c \in S) /\ Cardinality(S) \in Nat
    <3> HIDE DEF S, T
    <3> QED  BY <2>1, <2>2, OneChanges
  <2> QED  BY <2>3, <2>4 DEF W
<1>3. /\ Cardinality({d \in Clerk : Refunded(d)}')
                = Cardinality({d \in Clerk : Refunded(d)}) + W(Refunded(c)') - W(Refunded(c))
      /\ Cardinality({d \in Clerk : Refunded(d)}) \in Nat
  <2> DEFINE S == {d \in Clerk : Refunded(d)}
             T == {d \in Clerk : Refunded(d)'}
  <2>1. S \ {c} = T \ {c}
    BY DEF Others, Refunded
  <2>2. IsFiniteSet(S)
    BY FS_Subset
  <2>3. (c \in S <=> Refunded(c)) /\ (c \in T <=> Refunded(c)')
    OBVIOUS
  <2>4. Cardinality(T) = Cardinality(S) + W(c \in T) - W(c \in S) /\ Cardinality(S) \in Nat
    <3> HIDE DEF S, T
    <3> QED  BY <2>1, <2>2, OneChanges
  <2> QED  BY <2>3, <2>4 DEF W
<1>4. /\ Cardinality({d \in Clerk : Rewarded(d)}')
                = Cardinality({d \in Clerk : Rewarded(d)}) + W(Rewarded(c)') - W(Rewarded(c))
      /\ Cardinality({d \in Clerk : Rewarded(d)}) \in Nat
  <2> DEFINE S == {d \in Clerk : Rewarded(d)}
             T == {d \in Clerk : Rewarded(d)'}
  <2>1. S \ {c} = T \ {c}
    BY DEF Others, Rewarded
  <2>2. IsFiniteSet(S)
    BY FS_Subset
  <2>3. (c \in S <=> Rewarded(c)) /\ (c \in T <=> Rewarded(c)')
    OBVIOUS
  <2>4. Cardinality(T) = Cardinality(S) + W(c \in T) - W(c \in S) /\ Cardinality(S) \in Nat
    <3> HIDE DEF S, T
    <3> QED  BY <2>1, <2>2, OneChanges
  <2> QED  BY <2>3, <2>4 DEF W
<1> QED  BY <1>1, <1>2, <1>3, <1>4

\* What a step adds to the books is matched by what it changes in the row.
FundsMove(c) ==
    /\ user'.balance >= 0
    /\ user'.balance + paid' + W(Debited(c)') + funds
         <= user.balance + paid + W(Debited(c)) + funds'
    /\ Deciding(c)' => seen'[c].balance >= 1

LedgerMove(c) ==
    /\ user'.balance + W(Unlogged(c)') + entries.balance + W(Refunded(c))
         = user.balance + W(Unlogged(c)) + entries'.balance + W(Refunded(c)')
    /\ user'.commission + entries.commission + W(Rewarded(c))
         = user.commission + entries'.commission + W(Rewarded(c)')
    /\ user'.gift + entries.gift = user.gift + entries'.gift

\* Two balanced rows and a balanced move: the arithmetic of the balance.
LEMMA Sums ==
    ASSUME NEW b \in Int, NEW b1 \in Int, NEW e \in Int, NEW e1 \in Int,
           NEW u \in Int, NEW r \in Int, NEW wu \in Int, NEW wu1 \in Int,
           NEW wr \in Int, NEW wr1 \in Int,
           b + u = e + r, b1 + wu1 + e + wr = b + wu + e1 + wr1
    PROVE  b1 + (u + wu1 - wu) = e1 + (r + wr1 - wr)
OBVIOUS

\* The same for a commission, which no entry waits for.
LEMMA Sum ==
    ASSUME NEW b \in Int, NEW b1 \in Int, NEW e \in Int, NEW e1 \in Int,
           NEW r \in Int, NEW wr \in Int, NEW wr1 \in Int,
           b = e + r, b1 + e + wr = b + e1 + wr1
    PROVE  b1 = e1 + (r + wr1 - wr)
OBVIOUS

LEMMA BookStep ==
    ASSUME BookInv, NEW c \in Clerk, Others(c), Base', Held', marks \subseteq marks',
           \A d \in Clerk \ {c} : seen'[d] = seen[d],
           Tainted' \/ FundsMove(c), Wrong' \/ LedgerMove(c)
    PROVE  BookInv'
<1> DEFINE D == Cardinality({d \in Clerk : Debited(d)})
           U == Cardinality({d \in Clerk : Unlogged(d)})
           R == Cardinality({d \in Clerk : Refunded(d)})
           C == Cardinality({d \in Clerk : Rewarded(d)})
<1>1. /\ D \in Nat /\ U \in Nat /\ R \in Nat /\ C \in Nat
      /\ D' = D + W(Debited(c)') - W(Debited(c))
      /\ U' = U + W(Unlogged(c)') - W(Unlogged(c))
      /\ R' = R + W(Refunded(c)') - W(Refunded(c))
      /\ C' = C + W(Rewarded(c)') - W(Rewarded(c))
  BY CountsMove
<1>2. /\ W(Debited(c)) \in Nat /\ W(Debited(c)') \in Nat
      /\ W(Unlogged(c)) \in Nat /\ W(Unlogged(c)') \in Nat
      /\ W(Refunded(c)) \in Nat /\ W(Refunded(c)') \in Nat
      /\ W(Rewarded(c)) \in Nat /\ W(Rewarded(c)') \in Nat
  BY DEF W
<1>3. /\ funds \in Nat /\ funds' \in Nat /\ paid \in Nat /\ paid' \in Nat
      /\ user.balance \in Int /\ user'.balance \in Int
      /\ user.commission \in Int /\ user'.commission \in Int
      /\ user.gift \in Int /\ user'.gift \in Int
      /\ entries.balance \in Int /\ entries'.balance \in Int
      /\ entries.commission \in Int /\ entries'.commission \in Int
      /\ entries.gift \in Int /\ entries'.gift \in Int
  BY DEF BookInv, Base, Account
<1>4. Tainted' \/ Funded'
  <2> SUFFICES ASSUME ~Tainted' PROVE Funded'
    OBVIOUS
  <2>1. FundsMove(c) /\ Funded
    BY DEF BookInv, Tainted
  <2>2. \A d \in Clerk : Deciding(d)' => seen'[d].balance >= 1
    BY <2>1 DEF FundsMove, Funded, Deciding, Others
  <2>3. user.balance + paid + D <= funds
    BY <2>1 DEF Funded
  <2> HIDE DEF D
  <2>4. user'.balance + paid' + D' <= funds'
    BY <1>1, <1>2, <1>3, <2>1, <2>3 DEF FundsMove
  <2> QED  BY <2>1, <2>2, <2>4 DEF Funded, FundsMove, D
<1>5. Wrong' \/ Ledger'
  <2> SUFFICES ASSUME ~Wrong' PROVE Ledger'
    OBVIOUS
  <2>1. LedgerMove(c) /\ Ledger
    BY DEF BookInv, Wrong
  <2>2. user.balance + U = entries.balance + R /\ user.commission = entries.commission + C
        /\ user.gift = entries.gift
    BY <2>1 DEF Ledger
  <2> HIDE DEF U, R, C
  <2>3. user'.balance + U' = entries'.balance + R'
    <3>1. user'.balance + W(Unlogged(c)') + entries.balance + W(Refunded(c))
            = user.balance + W(Unlogged(c)) + entries'.balance + W(Refunded(c)')
      BY <2>1 DEF LedgerMove
    <3>2. user'.balance + (U + W(Unlogged(c)') - W(Unlogged(c)))
            = entries'.balance + (R + W(Refunded(c)') - W(Refunded(c)))
      <4> DEFINE u0 == W(Unlogged(c))
                 u1 == W(Unlogged(c)')
                 r0 == W(Refunded(c))
                 r1 == W(Refunded(c)')
      <4>1. u0 \in Int /\ u1 \in Int /\ r0 \in Int /\ r1 \in Int
        BY <1>2
      <4>2. U \in Int /\ R \in Int
        BY <1>1
      <4>3. user'.balance + u1 + entries.balance + r0
              = user.balance + u0 + entries'.balance + r1
        BY <3>1
      <4>4. user.balance + U = entries.balance + R
        BY <2>2
      <4>5. /\ user.balance \in Int /\ user'.balance \in Int
            /\ entries.balance \in Int /\ entries'.balance \in Int
        BY <1>3
      <4> HIDE DEF u0, u1, r0, r1
      <4>6. user'.balance + (U + u1 - u0) = entries'.balance + (R + r1 - r0)
        BY <4>1, <4>2, <4>3, <4>4, <4>5, Sums
      <4> QED  BY <4>6 DEF u0, u1, r0, r1
    <3> QED  BY <1>1, <3>2
  <2>4. user'.commission = entries'.commission + C'
    <3> DEFINE c0 == W(Rewarded(c))
               c1 == W(Rewarded(c)')
    <3>1. c0 \in Int /\ c1 \in Int /\ C \in Int
      BY <1>1, <1>2
    <3>2. user'.commission + entries.commission + c0
            = user.commission + entries'.commission + c1
      BY <2>1 DEF LedgerMove
    <3>3. user.commission = entries.commission + C
      BY <2>2
    <3>4. /\ user.commission \in Int /\ user'.commission \in Int
          /\ entries.commission \in Int /\ entries'.commission \in Int
      BY <1>3
    <3>5. C' = C + c1 - c0
      BY <1>1
    <3> HIDE DEF c0, c1
    <3>6. user'.commission = entries'.commission + (C + c1 - c0)
      BY <3>1, <3>2, <3>3, <3>4, Sum
    <3> QED  BY <3>5, <3>6
  <2>5. user'.gift = entries'.gift
    BY <1>3, <2>1, <2>2 DEF LedgerMove
  <2> QED  BY <2>3, <2>4, <2>5 DEF Ledger, U, R, C
<1> QED  BY <1>4, <1>5 DEF BookInv

\* What an operation saves, and what it logs, as numbers.
LEMMA SavedRow ==
    ASSUME NEW r \in Account, NEW t \in Tasks \ {"lose"}, NEW s \in Saved(t, r)
    PROVE  /\ s \in Account
           /\ t = "order" => /\ s.balance = r.balance /\ s.commission = r.commission
                             /\ s.gift = IF r.gift >= PlanPrice THEN r.gift ELSE 0
           /\ t # "order" => s.gift = r.gift
           /\ t = "pay" => s.balance = r.balance - 1
           /\ t \in {"refund", "grab", "recharge"} => s.balance = r.balance + 1
           /\ t \in {"commission", "profile"} => s.balance = r.balance
           /\ t = "commission" => s.commission = r.commission + 1
           /\ t # "commission" => s.commission = r.commission
<1> USE AccountAssumption DEF Account, Saved
<1>1. CASE t = "order"
  BY <1>1
<1>2. CASE t = "pay"
  BY <1>2
<1>3. CASE t \in {"refund", "grab"}
  BY <1>3
<1>4. CASE t = "recharge"
  BY <1>4
<1>5. CASE t = "commission"
  BY <1>5
<1>6. CASE t = "profile"
  BY <1>6
<1>7. CASE t = "admin"
  BY <1>7
<1> QED  BY <1>1, <1>2, <1>3, <1>4, <1>5, <1>6, <1>7 DEF Tasks, Handed

LEMMA LoggedRow ==
    ASSUME Base, NEW r \in Account,
           NEW t \in {"order", "pay", "refund", "recharge", "commission"}
    PROVE  LET e == Logged(t, r) IN
           /\ e \in Account
           /\ e.balance = IF t = "pay" THEN entries.balance - 1
                          ELSE IF t \in {"refund", "recharge"} THEN entries.balance + 1
                          ELSE entries.balance
           /\ e.commission = IF t = "commission" THEN entries.commission + 1
                             ELSE entries.commission
           /\ t # "order" => e.gift = entries.gift
           /\ t = "order" /\ r.gift < PlanPrice => e.gift = entries.gift - r.gift
<1> USE AccountAssumption DEF Account, Logged, Base, Backs
<1>1. CASE t = "order"
  BY <1>1
<1>2. CASE t = "pay"
  BY <1>2
<1>3. CASE t = "refund"
  BY <1>3
<1>4. CASE t = "recharge"
  BY <1>4
<1>5. CASE t = "commission"
  BY <1>5
<1> QED  BY <1>1, <1>2, <1>3, <1>4, <1>5

\* Steps that leave row, logs and history alone.
Quiet(c) ==
    /\ Others(c) /\ Base' /\ Held' /\ marks \subseteq marks'
    /\ \A d \in Clerk \ {c} : seen'[d] = seen[d]
    /\ UNCHANGED <<user, entries, funds, paid>>
    /\ Debited(c)' <=> Debited(c)
    /\ Unlogged(c)' <=> Unlogged(c)
    /\ Refunded(c)' <=> Refunded(c)
    /\ Rewarded(c)' <=> Rewarded(c)
    /\ Deciding(c)' => seen'[c].balance >= 1

LEMMA QuietStep ==
    ASSUME BookInv, NEW c \in Clerk, Quiet(c)
    PROVE  BookInv'
<1>1. /\ funds \in Nat /\ paid \in Nat
      /\ user.balance \in Int /\ user.commission \in Int /\ user.gift \in Int
      /\ entries.balance \in Int /\ entries.commission \in Int /\ entries.gift \in Int
  BY DEF BookInv, Base, Account
<1>2. Tainted' \/ FundsMove(c)
  <2>1. CASE Tainted
    BY <2>1 DEF Tainted, Quiet
  <2>2. CASE Funded
    <3>1. user.balance >= 0
      BY <2>2 DEF Funded
    <3> QED  BY <1>1, <3>1 DEF Quiet, FundsMove, W
  <2> QED  BY <2>1, <2>2 DEF BookInv
<1>3. LedgerMove(c)
  BY <1>1 DEF Quiet, LedgerMove, W
<1> QED  BY <1>2, <1>3, BookStep DEF Quiet

Reading(c) ==
    \/ BeginTask(c) \/ GetUser(c) \/ QueryUser(c) \/ FillUser(c) \/ CheckActive(c)
    \/ Unsubscribe(c) \/ ReadBalance(c) \/ DropUser(c) \/ ClearUser(c)

LEMMA ReadingStep ==
    ASSUME BookInv, NEW c \in Clerk, Reading(c)
    PROVE  BookInv'
<1> USE AccountAssumption DEF BookInv, Base, Held, Others, Quiet, Debited, Unlogged, Refunded,
        Rewarded, Deciding, In, Step, See, Done, GotRow, MarkIf, InTx, Tasks, FirstPlace,
        Handed, Places, acctStore, acctFlow, acctPast
<1>1. CASE BeginTask(c)
  <2>1. Others(c) /\ marks \subseteq marks' /\ UNCHANGED <<user, entries, funds, paid>>
        /\ \A d \in Clerk \ {c} : seen'[d] = seen[d]
    BY <1>1 DEF BeginTask
  <2>2. Base'
    BY <1>1 DEF BeginTask
  <2>3. Held'
    BY <1>1 DEF BeginTask
  <2>4. /\ Debited(c)' <=> Debited(c)
        /\ Unlogged(c)' <=> Unlogged(c)
        /\ Refunded(c)' <=> Refunded(c)
        /\ Rewarded(c)' <=> Rewarded(c)
        /\ Deciding(c)' => seen'[c].balance >= 1
    BY <1>1 DEF BeginTask
  <2>5. Quiet(c)
    BY <2>1, <2>2, <2>3, <2>4
  <2> QED  BY <2>5, QuietStep
<1>2. CASE GetUser(c)
  <2>1. Others(c) /\ marks \subseteq marks' /\ UNCHANGED <<user, entries, funds, paid>>
        /\ \A d \in Clerk \ {c} : seen'[d] = seen[d]
    BY <1>2 DEF GetUser
  <2>2. Base'
    BY <1>2 DEF GetUser
  <2>3. Held'
    BY <1>2 DEF GetUser
  <2>4. /\ Debited(c)' <=> Debited(c)
        /\ Unlogged(c)' <=> Unlogged(c)
        /\ Refunded(c)' <=> Refunded(c)
        /\ Rewarded(c)' <=> Rewarded(c)
        /\ Deciding(c)' => seen'[c].balance >= 1
    BY <1>2 DEF GetUser
  <2>5. Quiet(c)
    BY <2>1, <2>2, <2>3, <2>4
  <2> QED  BY <2>5, QuietStep
<1>3. CASE QueryUser(c)
  <2>1. Others(c) /\ marks \subseteq marks' /\ UNCHANGED <<user, entries, funds, paid>>
        /\ \A d \in Clerk \ {c} : seen'[d] = seen[d]
    BY <1>3 DEF QueryUser
  <2>2. Base'
    BY <1>3 DEF QueryUser
  <2>3. Held'
    BY <1>3 DEF QueryUser
  <2>4. /\ Debited(c)' <=> Debited(c)
        /\ Unlogged(c)' <=> Unlogged(c)
        /\ Refunded(c)' <=> Refunded(c)
        /\ Rewarded(c)' <=> Rewarded(c)
        /\ Deciding(c)' => seen'[c].balance >= 1
    BY <1>3 DEF QueryUser
  <2>5. Quiet(c)
    BY <2>1, <2>2, <2>3, <2>4
  <2> QED  BY <2>5, QuietStep
<1>4. CASE FillUser(c)
  <2>1. Others(c) /\ marks \subseteq marks' /\ UNCHANGED <<user, entries, funds, paid>>
        /\ \A d \in Clerk \ {c} : seen'[d] = seen[d]
    BY <1>4 DEF FillUser
  <2>2. Base'
    BY <1>4 DEF FillUser
  <2>3. Held'
    BY <1>4 DEF FillUser
  <2>4. /\ Debited(c)' <=> Debited(c)
        /\ Unlogged(c)' <=> Unlogged(c)
        /\ Refunded(c)' <=> Refunded(c)
        /\ Rewarded(c)' <=> Rewarded(c)
        /\ Deciding(c)' => seen'[c].balance >= 1
    BY <1>4 DEF FillUser
  <2>5. Quiet(c)
    BY <2>1, <2>2, <2>3, <2>4
  <2> QED  BY <2>5, QuietStep
<1>5. CASE CheckActive(c)
  <2>1. Others(c) /\ marks \subseteq marks' /\ UNCHANGED <<user, entries, funds, paid>>
        /\ \A d \in Clerk \ {c} : seen'[d] = seen[d]
    BY <1>5 DEF CheckActive
  <2>2. Base'
    BY <1>5 DEF CheckActive
  <2>3. Held'
    BY <1>5 DEF CheckActive
  <2>4. /\ Debited(c)' <=> Debited(c)
        /\ Unlogged(c)' <=> Unlogged(c)
        /\ Refunded(c)' <=> Refunded(c)
        /\ Rewarded(c)' <=> Rewarded(c)
        /\ Deciding(c)' => seen'[c].balance >= 1
    BY <1>5 DEF CheckActive
  <2>5. Quiet(c)
    BY <2>1, <2>2, <2>3, <2>4
  <2> QED  BY <2>5, QuietStep
<1>6. CASE Unsubscribe(c)
  <2>1. Others(c) /\ marks \subseteq marks' /\ UNCHANGED <<user, entries, funds, paid>>
        /\ \A d \in Clerk \ {c} : seen'[d] = seen[d]
    BY <1>6 DEF Unsubscribe
  <2>2. Base'
    BY <1>6 DEF Unsubscribe
  <2>3. Held'
    BY <1>6 DEF Unsubscribe
  <2>4. /\ Debited(c)' <=> Debited(c)
        /\ Unlogged(c)' <=> Unlogged(c)
        /\ Refunded(c)' <=> Refunded(c)
        /\ Rewarded(c)' <=> Rewarded(c)
        /\ Deciding(c)' => seen'[c].balance >= 1
    BY <1>6 DEF Unsubscribe
  <2>5. Quiet(c)
    BY <2>1, <2>2, <2>3, <2>4
  <2> QED  BY <2>5, QuietStep
<1>7. CASE ReadBalance(c)
  <2>1. Others(c) /\ marks \subseteq marks' /\ UNCHANGED <<user, entries, funds, paid>>
        /\ \A d \in Clerk \ {c} : seen'[d] = seen[d]
    BY <1>7 DEF ReadBalance
  <2>2. Base'
    BY <1>7 DEF ReadBalance, Account
  <2>3. Held'
    BY <1>7 DEF ReadBalance
  <2>4. /\ Debited(c)' <=> Debited(c)
        /\ Unlogged(c)' <=> Unlogged(c)
        /\ Refunded(c)' <=> Refunded(c)
        /\ Rewarded(c)' <=> Rewarded(c)
        /\ Deciding(c)' => seen'[c].balance >= 1
    BY <1>7 DEF ReadBalance
  <2>5. Quiet(c)
    BY <2>1, <2>2, <2>3, <2>4
  <2> QED  BY <2>5, QuietStep
<1>8. CASE DropUser(c)
  <2>1. Others(c) /\ marks \subseteq marks' /\ UNCHANGED <<user, entries, funds, paid>>
        /\ \A d \in Clerk \ {c} : seen'[d] = seen[d]
    BY <1>8 DEF DropUser
  <2>2. Base'
    BY <1>8 DEF DropUser
  <2>3. Held'
    BY <1>8 DEF DropUser
  <2>4. /\ Debited(c)' <=> Debited(c)
        /\ Unlogged(c)' <=> Unlogged(c)
        /\ Refunded(c)' <=> Refunded(c)
        /\ Rewarded(c)' <=> Rewarded(c)
        /\ Deciding(c)' => seen'[c].balance >= 1
    BY <1>8 DEF DropUser
  <2>5. Quiet(c)
    BY <2>1, <2>2, <2>3, <2>4
  <2> QED  BY <2>5, QuietStep
<1>9. CASE ClearUser(c)
  <2>1. Others(c) /\ marks \subseteq marks' /\ UNCHANGED <<user, entries, funds, paid>>
        /\ \A d \in Clerk \ {c} : seen'[d] = seen[d]
    BY <1>9 DEF ClearUser
  <2>2. Base'
    BY <1>9 DEF ClearUser
  <2>3. Held'
    BY <1>9 DEF ClearUser
  <2>4. /\ Debited(c)' <=> Debited(c)
        /\ Unlogged(c)' <=> Unlogged(c)
        /\ Refunded(c)' <=> Refunded(c)
        /\ Rewarded(c)' <=> Rewarded(c)
        /\ Deciding(c)' => seen'[c].balance >= 1
    BY <1>9 DEF ClearUser
  <2>5. Quiet(c)
    BY <2>1, <2>2, <2>3, <2>4
  <2> QED  BY <2>5, QuietStep
<1> QED
  BY <1>1, <1>2, <1>3, <1>4, <1>5, <1>6, <1>7, <1>8, <1>9 DEF Reading

\* What of a step is the same in all of them: the others do nothing.
LEMMA AloneStep ==
    ASSUME BookInv, NEW c \in Clerk,
           SaveUser(c) \/ MarkPaid(c) \/ LogCommission(c) \/ Commit(c)
             \/ TaskFails(c) \/ UpdateIgnored(c)
    PROVE  /\ Others(c) /\ marks \subseteq marks'
           /\ \A d \in Clerk \ {c} : seen'[d] = seen[d]
           /\ ~Deciding(c)'
BY DEF BookInv, Base, Others, Deciding, SaveUser, MarkPaid, LogCommission, Commit,
       TaskFails, UpdateIgnored, In, Step, See, Done, MarkIf

LEMMA Numbers ==
    ASSUME Base
    PROVE  /\ funds \in Nat /\ paid \in Nat
           /\ user.balance \in Int /\ user.commission \in Int /\ user.gift \in Int
           /\ entries.balance \in Int /\ entries.commission \in Int
           /\ entries.gift \in Int
BY DEF Base, Account

\* The row is saved, or, in a transaction, will be when it commits.
LEMMA SaveStep ==
    ASSUME BookInv, NEW c \in Clerk, SaveUser(c)
    PROVE  BookInv'
<1> USE DEF In
<1>1. /\ place[c] = "save" /\ task[c] \in Tasks \ {"lose"} /\ seen[c] \in Account /\ userLock = NoRow
      /\ place' = [place EXCEPT ![c] = "drop"]
      /\ UNCHANGED <<task, seen, entries, userCopy, paid>>
      /\ funds' = IF task[c] \in {"refund", "grab"} THEN funds + 1 ELSE funds
  BY DEF SaveUser, Step, BookInv, Base
<1>2. PICK r \in Saved(task[c], seen[c]) :
        /\ IF task[c] \in InTx
             THEN userLock' = c /\ UNCHANGED user
             ELSE user' = r /\ UNCHANGED userLock
        /\ marks' = marks \cup
             {m \in {"staleSave"} : seen[c] # user} \cup
             {m \in {"giftKept"} : task[c] = "order" /\ seen[c].gift = r.gift} \cup
             {m \in {"edited"} : task[c] = "admin" /\ r # seen[c]} \cup
             {m \in {"foreign"} : task[c] = "grab"}
  BY DEF SaveUser
<1>3. /\ r \in Account
      /\ task[c] = "order" => /\ r.balance = seen[c].balance /\ r.commission = seen[c].commission
                              /\ r.gift = IF seen[c].gift >= PlanPrice THEN seen[c].gift ELSE 0
      /\ task[c] # "order" => r.gift = seen[c].gift
      /\ task[c] = "pay" => r.balance = seen[c].balance - 1
      /\ task[c] \in {"refund", "grab", "recharge"} => r.balance = seen[c].balance + 1
      /\ task[c] \in {"commission", "profile"} => r.balance = seen[c].balance
      /\ task[c] = "commission" => r.commission = seen[c].commission + 1
      /\ task[c] # "commission" => r.commission = seen[c].commission
  BY <1>1, <1>2, SavedRow
<1>4. Base'
  BY <1>1, <1>2, <1>3 DEF BookInv, Base, Places
<1>5. Held'
  <2>1. \A d \in Clerk : userLock' = d <=> task'[d] \in InTx /\ place'[d] \in {"drop", "commit"}
    BY <1>1, <1>2, AccountAssumption DEF BookInv, Base, Held, InTx
  <2>2. "staleSave" \in marks' \/ \A d \in Clerk : userLock' = d => seen'[d] = user'
    BY <1>1, <1>2, AccountAssumption
  <2>3. \/ "giftKept" \in marks'
        \/ \A d \in Clerk : task'[d] = "order" /\ place'[d] \in {"drop", "commit"}
                              => seen'[d].gift < PlanPrice
    <3>1. CASE task[c] = "order"
      <4>1. seen[c].gift \in Int /\ PlanPrice \in Int
        BY <1>1, AccountAssumption DEF Account
      <4>2. "giftKept" \in marks' \/ seen[c].gift < PlanPrice
        BY <1>2, <1>3, <3>1, <4>1
      <4> QED  BY <1>1, <1>2, <4>2 DEF BookInv, Base, Held
    <3>2. CASE task[c] # "order"
      BY <1>1, <1>2, <3>2 DEF BookInv, Base, Held
    <3> QED  BY <3>1, <3>2
  <2> QED  BY <2>1, <2>2, <2>3 DEF Held
<1>6. Tainted' \/ (seen[c] = user /\ (task[c] = "admin" => r = user))
  BY <1>2 DEF Tainted
<1>7. /\ Tainted' \/ FundsMove(c)
      /\ Wrong' \/ LedgerMove(c)
  <2>1. CASE Tainted'
    BY <2>1 DEF Tainted, Wrong
  <2>2. CASE ~Tainted'
    <3>1. seen[c] = user /\ (task[c] = "admin" => r = user) /\ Funded
      BY <2>2, <1>2, <1>6 DEF Tainted, BookInv
    <3>2. /\ place'[c] = "drop" /\ task'[c] = task[c] /\ entries' = entries /\ paid' = paid
          /\ user.balance >= 0 /\ (task[c] = "pay" => user.balance >= 1)
      BY <1>1, <3>1 DEF Funded, Deciding, BookInv, Base
    <3>3. CASE task[c] \in InTx
      BY <1>1, <1>2, <3>2, <3>3, Numbers
         DEF BookInv, FundsMove, LedgerMove, W, Debited, Unlogged, Refunded,
             Rewarded, Deciding, InTx
    <3>4. CASE task[c] = "pay"
      BY <1>1, <1>2, <1>3, <3>1, <3>2, <3>4, Numbers
         DEF BookInv, FundsMove, LedgerMove, W, Debited, Unlogged, Refunded,
             Rewarded, Deciding, InTx
    <3>5. CASE task[c] = "refund"
      BY <1>1, <1>2, <1>3, <3>1, <3>2, <3>5, Numbers
         DEF BookInv, FundsMove, LedgerMove, W, Debited, Unlogged, Refunded,
             Rewarded, Deciding, InTx
    <3>6. CASE task[c] = "commission"
      BY <1>1, <1>2, <1>3, <3>1, <3>2, <3>6, Numbers
         DEF BookInv, FundsMove, LedgerMove, W, Debited, Unlogged, Refunded,
             Rewarded, Deciding, InTx
    <3>7. CASE task[c] \in {"profile", "admin"}
      BY <1>1, <1>2, <1>3, <3>1, <3>2, <3>7, Numbers
         DEF BookInv, FundsMove, LedgerMove, W, Debited, Unlogged, Refunded,
             Rewarded, Deciding, InTx
    <3>8. CASE task[c] = "grab"
      <4>1. "foreign" \in marks'
        BY <1>2, <3>8
      <4> QED
        BY <1>1, <1>2, <1>3, <3>1, <3>2, <3>8, <4>1, Numbers
           DEF BookInv, FundsMove, Wrong, W, Debited, Deciding, InTx
    <3> QED
      BY <1>1, <3>3, <3>4, <3>5, <3>6, <3>7, <3>8 DEF Tasks, Handed, InTx
  <2> QED  BY <2>1, <2>2
<1> QED  BY <1>4, <1>5, <1>7, AloneStep, BookStep

\* The status of the order, on a connection of its own.
LEMMA MarkPaidStep ==
    ASSUME BookInv, NEW c \in Clerk, MarkPaid(c)
    PROVE  BookInv'
<1>1. /\ place[c] = "mark" /\ task[c] = "pay" /\ paid' = paid + 1
      /\ place' = [place EXCEPT ![c] = "commit"]
      /\ UNCHANGED <<task, seen, user, entries, userCopy, userLock, funds, marks>>
  BY DEF MarkPaid, In, Step, acctStore, BookInv, Base
<1>2. Base' /\ Held'
  BY <1>1 DEF BookInv, Base, Held, InTx, Places
<1>3. Tainted' \/ FundsMove(c)
  <2>1. CASE Funded
    <3>1. user.balance >= 0
      BY <2>1 DEF Funded
    <3> QED  BY <1>1, <3>1, Numbers DEF BookInv, Base, FundsMove, W, Debited, Deciding
  <2> QED  BY <1>1, <2>1 DEF BookInv, Tainted
<1>4. LedgerMove(c)
  BY <1>1, Numbers DEF BookInv, Base, LedgerMove, W, Unlogged, Refunded, Rewarded
<1> QED  BY <1>2, <1>3, <1>4, AloneStep, BookStep

\* The log of a commission, or its failure.
LEMMA LogStep ==
    ASSUME BookInv, NEW c \in Clerk, LogCommission(c)
    PROVE  BookInv'
<1>1. /\ place[c] = "log" /\ task[c] = "commission" /\ seen[c] \in Account
      /\ place' = [place EXCEPT ![c] = "clear"] /\ marks \subseteq marks'
      /\ UNCHANGED <<task, seen, user, userCopy, userLock, funds, paid>>
      /\ \/ entries' = Logged("commission", seen[c]) /\ marks' = marks
         \/ entries' = entries /\ marks' = marks \cup {"halfDone"}
  BY DEF LogCommission, In, Step, MarkIf, BookInv, Base
<1>2. entries' = Logged("commission", seen[c]) =>
        /\ entries' \in Account /\ entries'.balance = entries.balance
        /\ entries'.commission = entries.commission + 1
        /\ entries'.gift = entries.gift
  BY <1>1, LoggedRow DEF BookInv
<1>3. Base' /\ Held'
  BY <1>1, <1>2 DEF BookInv, Base, Held, InTx, Places
<1>4. Tainted' \/ FundsMove(c)
  <2>1. CASE Funded
    <3>1. user.balance >= 0
      BY <2>1 DEF Funded
    <3> QED  BY <1>1, <3>1, Numbers DEF BookInv, Base, FundsMove, W, Debited, Deciding
  <2> QED  BY <1>1, <2>1 DEF BookInv, Tainted
<1>5. Wrong' \/ LedgerMove(c)
  <2>1. CASE entries' = entries /\ marks' = marks \cup {"halfDone"}
    BY <2>1 DEF Wrong
  <2>2. CASE entries' = Logged("commission", seen[c])
    <3>1. /\ entries'.balance = entries.balance
          /\ entries'.commission = entries.commission + 1
          /\ entries'.gift = entries.gift /\ UNCHANGED user
          /\ place'[c] = "clear" /\ task'[c] = "commission"
      BY <1>1, <1>2, <2>2 DEF BookInv, Base
    <3> QED
      BY <1>1, <3>1, Numbers
         DEF BookInv, LedgerMove, W, Unlogged, Refunded, Rewarded
  <2> QED  BY <1>1, <2>1, <2>2
<1> QED  BY <1>3, <1>4, <1>5, AloneStep, BookStep

\* A transaction commits: its log, and the row if it was saved in it.
LEMMA CommitBooks ==
    ASSUME BookInv, NEW c \in Clerk, Commit(c), task[c] # "lose"
    PROVE  BookInv'
<1>1. /\ place[c] = "commit" /\ task[c] \in {"order", "recharge", "refund", "pay"}
      /\ task[c] \in Tasks /\ seen[c] \in Account
      /\ place' = [place EXCEPT ![c] = "idle"] /\ task' = [task EXCEPT ![c] = "profile"]
      /\ seen' = [seen EXCEPT ![c] = NoRow]
      /\ UNCHANGED <<userCopy, paid, marks>>
      /\ entries' = Logged(task[c], seen[c])
      /\ funds' = IF task[c] = "recharge" THEN funds + 1 ELSE funds
  BY DEF Commit, In, Done, See, MarkIf, BookInv, Base
<1>2. IF task[c] \in InTx THEN user' \in Saved(task[c], seen[c]) /\ userLock' = NoRow
                          ELSE UNCHANGED <<user, userLock>>
  BY DEF Commit
<1>3. /\ entries' \in Account
      /\ entries'.balance = IF task[c] = "pay" THEN entries.balance - 1
                            ELSE IF task[c] \in {"refund", "recharge"} THEN entries.balance + 1
                            ELSE entries.balance
      /\ entries'.commission = entries.commission
      /\ task[c] # "order" => entries'.gift = entries.gift
      /\ task[c] = "order" /\ seen[c].gift < PlanPrice =>
           entries'.gift = entries.gift - seen[c].gift
  BY <1>1, LoggedRow DEF BookInv
<1>4. task[c] \in InTx =>
        /\ user' \in Account
        /\ task[c] = "order" => user'.balance = seen[c].balance
        /\ task[c] = "recharge" => user'.balance = seen[c].balance + 1
                                   /\ user'.gift = seen[c].gift
        /\ user'.commission = seen[c].commission
        /\ task[c] = "order" =>
             user'.gift = IF seen[c].gift >= PlanPrice THEN seen[c].gift ELSE 0
  BY <1>1, <1>2, SavedRow DEF InTx
<1>5. task[c] \in InTx <=> userLock = c
  BY <1>1 DEF BookInv, Held
<1>6. Base'
  BY <1>1, <1>2, <1>3, <1>4, AccountAssumption DEF BookInv, Base, Places, Tasks, Handed
<1>7. Held'
  <2>1. userLock' = IF userLock = c THEN NoRow ELSE userLock
    BY <1>2, <1>5
  <2>2. userLock' # NoRow => UNCHANGED user
    BY <1>2, <1>5, <2>1
  <2>3. \A d \in Clerk : d # NoRow
    BY AccountAssumption
  <2> QED  BY <1>1, <2>1, <2>2, <2>3 DEF BookInv, Base, Held, InTx
<1>8. /\ place'[c] = "idle" /\ task'[c] = "profile"
  BY <1>1 DEF BookInv, Base
<1>9. CASE task[c] \in InTx
  <2>1. CASE "staleSave" \in marks
    <3>1. Tainted' /\ Wrong'
      BY <1>1, <2>1 DEF Tainted, Wrong
    <3> QED  BY <1>6, <1>7, <3>1, AloneStep, BookStep
  <2>2. CASE "staleSave" \notin marks
    <3>1. seen[c] = user
      BY <1>5, <1>9, <2>2 DEF BookInv, Held
    <3>2. Tainted' \/ FundsMove(c)
      <4>1. CASE Funded
        <5>1. user.balance >= 0
          BY <4>1 DEF Funded
        <5> QED
          BY <1>1, <1>4, <1>8, <1>9, <3>1, <5>1, Numbers
             DEF BookInv, FundsMove, W, Debited, Deciding, InTx
      <4> QED  BY <1>1, <4>1 DEF BookInv, Tainted
    <3>3. Wrong' \/ LedgerMove(c)
      <4>1. CASE task[c] = "recharge"
        BY <1>1, <1>3, <1>4, <1>8, <1>9, <3>1, <4>1, Numbers
           DEF BookInv, LedgerMove, W, Unlogged, Refunded, Rewarded
      <4>2. CASE task[c] = "order" /\ "giftKept" \notin marks
        <5>1. seen[c].gift < PlanPrice /\ PlanPrice \in Int /\ seen[c].gift \in Int
          BY <1>1, <4>2, AccountAssumption DEF BookInv, Held, Account
        <5>2. /\ user'.gift = 0 /\ entries'.gift = entries.gift - user.gift
              /\ user'.balance = user.balance /\ user'.commission = user.commission
              /\ entries'.balance = entries.balance
              /\ entries'.commission = entries.commission
          BY <1>3, <1>4, <1>9, <3>1, <4>2, <5>1
        <5> QED
          BY <1>1, <1>8, <4>2, <5>2, Numbers
             DEF BookInv, LedgerMove, W, Unlogged, Refunded, Rewarded
      <4>3. CASE "giftKept" \in marks
        BY <1>1, <4>3 DEF Wrong
      <4> QED  BY <1>9, <4>1, <4>2, <4>3 DEF InTx
    <3> QED  BY <1>6, <1>7, <3>2, <3>3, AloneStep, BookStep
  <2> QED  BY <2>1, <2>2
<1>10. CASE task[c] \notin InTx
  <2>1. UNCHANGED <<user, funds, paid>> /\ task[c] \in {"refund", "pay"}
    BY <1>1, <1>2, <1>10 DEF InTx
  <2>2. Tainted' \/ FundsMove(c)
    <3>1. CASE Funded
      <4>1. user.balance >= 0
        BY <3>1 DEF Funded
      <4> QED
        BY <1>1, <1>8, <2>1, <4>1, Numbers DEF BookInv, FundsMove, W, Debited, Deciding
    <3> QED  BY <1>1, <3>1 DEF BookInv, Tainted
  <2>3. LedgerMove(c)
    BY <1>1, <1>3, <1>8, <2>1, Numbers
       DEF BookInv, LedgerMove, W, Unlogged, Refunded, Rewarded
  <2> QED  BY <1>6, <1>7, <2>2, <2>3, AloneStep, BookStep
<1> QED  BY <1>9, <1>10

\* The refund of another's request: the log without the money, which is marked.
LEMMA LoseBooks ==
    ASSUME BookInv, NEW c \in Clerk, Commit(c), task[c] = "lose"
    PROVE  BookInv'
<1>1. /\ place[c] = "commit" /\ task[c] = "lose"
      /\ place' = [place EXCEPT ![c] = "idle"] /\ task' = [task EXCEPT ![c] = "profile"]
      /\ seen' = [seen EXCEPT ![c] = NoRow]
      /\ UNCHANGED <<user, userCopy, userLock, funds, paid>>
      /\ marks' = marks \cup {"foreign"}
      /\ entries' = Logged("lose", seen[c])
  BY DEF Commit, In, Done, See, MarkIf, InTx
<1>2. entries' = [entries EXCEPT !.balance = @ + 1]
  BY <1>1 DEF Logged, Backs
<1>3. entries' \in Account
  BY <1>2 DEF BookInv, Base, Account
<1>4. Base'
  BY <1>1, <1>3 DEF BookInv, Base, Places, Tasks, Handed
<1>5. Held'
  BY <1>1 DEF BookInv, Base, Held, InTx
<1>6. /\ place'[c] = "idle" /\ task'[c] = "profile"
  BY <1>1 DEF BookInv, Base
<1>7. Tainted' \/ FundsMove(c)
  <2>1. CASE Funded
    <3>1. user.balance >= 0
      BY <2>1 DEF Funded
    <3> QED
      BY <1>1, <1>6, <3>1, Numbers DEF BookInv, FundsMove, W, Debited, Deciding
  <2> QED  BY <1>1, <2>1 DEF BookInv, Tainted
<1>8. Wrong'
  BY <1>1 DEF Wrong
<1> QED  BY <1>4, <1>5, <1>7, <1>8, AloneStep, BookStep

\* A call fails, or its failure is overlooked.
LEMMA FailStep ==
    ASSUME BookInv, NEW c \in Clerk, TaskFails(c) \/ UpdateIgnored(c)
    PROVE  BookInv'
<1>1. /\ place' = [place EXCEPT ![c] = "idle"] /\ task' = [task EXCEPT ![c] = "profile"]
      /\ seen' = [seen EXCEPT ![c] = NoRow] /\ marks \subseteq marks'
      /\ UNCHANGED <<user, userCopy, funds, paid>>
      /\ userLock' = IF userLock = c THEN NoRow ELSE userLock
      /\ entries' = entries \/ (entries' = Logged("order", seen[c]) /\ UpdateIgnored(c))
  BY DEF TaskFails, UpdateIgnored, Done, See, MarkIf, BookInv, Base, Held, In, InTx
<1>2. /\ place'[c] = "idle" /\ task'[c] = "profile"
  BY <1>1 DEF BookInv, Base
<1>3. entries' \in Account
  <2>1. CASE UpdateIgnored(c)
    <3>1. seen[c] \in Account
      BY <2>1 DEF UpdateIgnored, In, BookInv, Base
    <3>2. entries' = Logged("order", seen[c])
      BY <2>1 DEF UpdateIgnored
    <3> QED  BY <3>1, <3>2, LoggedRow DEF BookInv
  <2> QED  BY <1>1, <2>1 DEF BookInv, Base
<1>4. Base'
  BY <1>1, <1>3 DEF BookInv, Base, Places, Tasks, Handed
<1>5. Held'
  BY <1>1, AccountAssumption DEF BookInv, Base, Held, InTx
<1>6. Tainted' \/ FundsMove(c)
  <2>1. CASE Funded
    <3>1. user.balance >= 0
      BY <2>1 DEF Funded
    <3> QED
      BY <1>1, <1>2, <3>1, Numbers DEF BookInv, FundsMove, W, Debited, Deciding
  <2> QED  BY <1>1, <2>1 DEF BookInv, Tainted
<1>7. Wrong' \/ LedgerMove(c)
  <2>1. CASE UpdateIgnored(c)
    BY <2>1 DEF UpdateIgnored, MarkIf, Wrong
  <2>2. CASE TaskFails(c) /\ (Unlogged(c) \/ Refunded(c) \/ Rewarded(c))
    <3>1. task[c] \notin InTx \cup {"lose"} /\ place[c] \in {"drop", "mark", "commit"}
      BY <2>2 DEF TaskFails, Unlogged, Refunded, Rewarded, InTx
    <3> QED  BY <2>2, <3>1 DEF TaskFails, MarkIf, Wrong
  <2>3. CASE TaskFails(c) /\ ~(Unlogged(c) \/ Refunded(c) \/ Rewarded(c))
    <3>1. entries' = entries
      BY <2>3 DEF TaskFails
    <3> QED
      BY <1>1, <1>2, <2>3, <3>1, Numbers
         DEF BookInv, LedgerMove, W, Unlogged, Refunded, Rewarded
  <2> QED  BY <2>1, <2>2, <2>3
<1> QED  BY <1>4, <1>5, <1>6, <1>7, AloneStep, BookStep

LEMMA NextBooks == BookInv /\ [AcctNext]_acctVars => BookInv'
<1> SUFFICES ASSUME BookInv, [AcctNext]_acctVars PROVE BookInv'
  OBVIOUS
<1>1. CASE UNCHANGED acctVars \/ Reopen
  <2>1. UNCHANGED <<user, entries, userCopy, userLock, place, task, seen, funds, paid, marks>>
    BY <1>1 DEF Reopen, acctVars, acctStore, acctFlow, acctPast
  <2> QED
    BY <2>1 DEF BookInv, Base, Held, Tainted, Wrong, Funded, Ledger, Debited, Unlogged,
                Refunded, Rewarded, Deciding
<1>2. ASSUME NEW c \in Clerk, Reading(c) PROVE BookInv'
  BY <1>2, ReadingStep
<1>3. ASSUME NEW c \in Clerk,
             SaveUser(c) \/ MarkPaid(c) \/ LogCommission(c) \/ Commit(c)
               \/ TaskFails(c) \/ UpdateIgnored(c)
      PROVE  BookInv'
  BY <1>3, SaveStep, MarkPaidStep, LogStep, CommitBooks, LoseBooks, FailStep
<1> QED  BY <1>1, <1>2, <1>3 DEF AcctNext, Reading

LEMMA InitBooks == AcctInit => BookInv
<1> SUFFICES ASSUME AcctInit PROVE BookInv
  OBVIOUS
<1>1. /\ user \in Account /\ user.balance = 1 /\ entries = user
  BY AccountAssumption DEF AcctInit, Account
<1>2. Base /\ Held
  BY <1>1, AccountAssumption DEF AcctInit, Base, Held, Places, Tasks, Handed, InTx
<1>3. /\ {c \in Clerk : Debited(c)} = {} /\ {c \in Clerk : Unlogged(c)} = {}
      /\ {c \in Clerk : Refunded(c)} = {} /\ {c \in Clerk : Rewarded(c)} = {}
  BY DEF AcctInit, Debited, Unlogged, Refunded, Rewarded
<1>4. Funded
  BY <1>1, <1>3, FS_EmptySet DEF AcctInit, Funded, Deciding
<1>5. Ledger
  <2>1. /\ Cardinality({c \in Clerk : Unlogged(c)}) = 0
        /\ Cardinality({c \in Clerk : Refunded(c)}) = 0
        /\ Cardinality({c \in Clerk : Rewarded(c)}) = 0
    BY <1>3, FS_EmptySet
  <2> QED  BY <1>1, <1>2, <2>1, Numbers DEF Ledger
<1> QED  BY <1>2, <1>4, <1>5 DEF BookInv

\* The books are kept in every behaviour.
THEOREM BooksCorrect == AcctSpec => []BookInv
BY InitBooks, NextBooks, PTL DEF AcctSpec

\* The variables of the ledger keep their types.
THEOREM AcctTypeCorrect == AcctSpec => []AcctTypeOK
<1>1. BookInv /\ ReturnInv => AcctTypeOK
  BY DEF BookInv, Base, ReturnInv, Shape, AcctTypeOK
<1> QED  BY <1>1, BooksCorrect, ReturnCorrect, PTL

\* Payments from the balance never exceed what was there or was added, but for
\* crossing saves and an administrator's edit: whatever the interleaving, the
\* rollbacks and the failures.
THEOREM PaymentsCovered == AcctSpec => []SpentWithinFunds
<1>1. BookInv => SpentWithinFunds
  <2> SUFFICES ASSUME BookInv, Funded PROVE paid <= funds
    BY DEF BookInv, Tainted, SpentWithinFunds
  <2>1. Cardinality({c \in Clerk : Debited(c)}) \in Nat
    BY AccountAssumption, FS_Subset, FS_CardinalityType
  <2>2. /\ user.balance >= 0
        /\ user.balance + paid + Cardinality({c \in Clerk : Debited(c)}) <= funds
    BY DEF Funded
  <2> QED  BY <2>1, <2>2, Numbers DEF BookInv
<1> QED  BY <1>1, BooksCorrect, PTL

\* With nobody at work the row is what the logs add up to, or one of the
\* listed events is to blame.
THEOREM BooksBalance == AcctSpec => []LedgerBalanced
<1>1. BookInv => LedgerBalanced
  <2> SUFFICES ASSUME BookInv, Ledger, \A c \in Clerk : place[c] = "idle"
               PROVE  user = entries
    BY DEF BookInv, Wrong, LedgerBalanced, In
  <2>1. /\ {c \in Clerk : Unlogged(c)} = {} /\ {c \in Clerk : Refunded(c)} = {}
        /\ {c \in Clerk : Rewarded(c)} = {}
    BY DEF Unlogged, Refunded, Rewarded
  <2>2. /\ user.balance = entries.balance /\ user.commission = entries.commission
        /\ user.gift = entries.gift
    <3>1. /\ Cardinality({c \in Clerk : Unlogged(c)}) = 0
          /\ Cardinality({c \in Clerk : Refunded(c)}) = 0
          /\ Cardinality({c \in Clerk : Rewarded(c)}) = 0
      BY <2>1, FS_EmptySet
    <3> QED  BY <3>1, Numbers DEF Ledger, BookInv
  <2> QED  BY <2>2 DEF BookInv, Base, Account
<1> QED  BY <1>1, BooksCorrect, PTL

(***************************************************************************)
(* Proofs about Coupons: for any number of goroutines and any bounds, the  *)
(* two limits are exceeded only after an event that the properties name.   *)
(***************************************************************************)
\* Activations on their way to the row.
Counting ==
    {c \in Cashier : aim[c] = "activate" /\ desk[c] \in {"get", "query", "fill", "save"}}

\* What a goroutine has read, and what for, at each place.
Placed(c) ==
    /\ desk[c] \in {"fill", "limit", "insert", "save"} => saw[c] \in Nat
    /\ desk[c] = "idle" => aim[c] = "none"
    /\ desk[c] \in {"get", "query", "fill"} => aim[c] \in {"order", "guest", "activate"}
    /\ desk[c] = "limit" => aim[c] = "order"
    /\ desk[c] = "insert" => aim[c] \in {"order", "guest"}
    /\ desk[c] = "save" => aim[c] \in {"activate", "edit"}

DeskInv == CouponTypeOK /\ \A c \in Cashier : Placed(c)

\* As long as nothing excuses a wrong count: every order has a use, used,
\* waiting or on its way, and the row counts the uses.
Honoured ==
    /\ placed <= Count /\ usedCount = uses
    /\ uses + unused + Cardinality(Counting) <= placed
    /\ \A c \in Cashier : desk[c] \in {"limit", "insert"} => saw[c] < Count

Excuses == {"promised", "staleCheck", "staleSave", "notCounted", "unchecked",
            "redelivered"}
CountInv == excuses \cap Excuses # {} \/ Honoured

\* As long as nothing excuses one order too many of the user: whoever has
\* counted his orders may still insert one.
Pardons == {"together", "unchecked", "guest"}
LimitInv ==
    \/ excuses \cap Pardons # {}
    \/ /\ mine <= UserLimit
       /\ \A c \in Cashier :
             desk[c] = "insert" /\ aim[c] = "order" => mine < UserLimit

CouponInv == DeskInv /\ CountInv /\ LimitInv

LEMMA CountingFinite == IsFiniteSet(Counting) /\ Cardinality(Counting) \in Nat
BY CouponAssumption, FS_Subset, FS_CardinalityType DEF Counting

LEMMA CountingJoins ==
    ASSUME NEW c, c \notin Counting, Counting' = Counting \cup {c}
    PROVE  Cardinality(Counting') = Cardinality(Counting) + 1
BY CountingFinite, FS_AddElement

LEMMA CountingLeaves ==
    ASSUME NEW c, c \in Counting, Counting' = Counting \ {c}
    PROVE  Cardinality(Counting') = Cardinality(Counting) - 1
BY CountingFinite, FS_RemoveElement

----------------------------------------------------------------------------
LEMMA InitCoupon == CouponInit => CouponInv
<1> SUFFICES ASSUME CouponInit PROVE CouponInv
  OBVIOUS
<1>1. DeskInv /\ LimitInv
  BY CouponAssumption
  DEF CouponInit, DeskInv, CouponTypeOK, Placed, Desks, Aims, LimitInv
<1>2. Counting = {}
  BY DEF CouponInit, Counting
<1>3. CountInv
  BY <1>2, FS_EmptySet, CouponAssumption DEF CouponInit, CountInv, Honoured
<1> QED  BY <1>1, <1>3 DEF CouponInv

\* Types, and what a goroutine knows where it is.
LEMMA DeskStep ==
    ASSUME DeskInv, NEW c \in Cashier,
           \/ AskOrder(c) \/ EnterOrder(c) \/ ShowForm(c)
           \/ ActivateUse(c) \/ ActivateAgain(c)
           \/ GetCoupon(c) \/ QueryCoupon(c) \/ FillCoupon(c)
           \/ CountOrders(c) \/ InsertOrder(c)
           \/ SaveCount(c) \/ DropCoupon(c) \/ CouponFails(c)
    PROVE  DeskInv'
<1> USE CouponAssumption
    DEF DeskInv, CouponTypeOK, Placed, Desks, Aims, couponStore, On
<1>1. CASE AskOrder(c)
  BY <1>1 DEF AskOrder, Open
<1>2. CASE ActivateUse(c)
  BY <1>2 DEF ActivateUse, Open
<1>3. CASE ShowForm(c)
  BY <1>3 DEF ShowForm
<1>4. CASE GetCoupon(c)
  BY <1>4 DEF GetCoupon, LookedUp, Pass, Close
<1>5. CASE QueryCoupon(c)
  BY <1>5 DEF QueryCoupon, Pass
<1>6. CASE FillCoupon(c)
  BY <1>6 DEF FillCoupon, LookedUp, Pass, Close
<1>7. CASE CountOrders(c)
  BY <1>7 DEF CountOrders, Pass, Close
<1>8. CASE InsertOrder(c)
  BY <1>8 DEF InsertOrder, Close
<1>9. CASE SaveCount(c)
  BY <1>9 DEF SaveCount, Pass, ExcuseIf
<1>10. CASE DropCoupon(c)
  BY <1>10 DEF DropCoupon, Close
<1>11. CASE CouponFails(c)
  BY <1>11 DEF CouponFails, Close, ExcuseIf
<1>12. CASE EnterOrder(c)
  BY <1>12 DEF EnterOrder, couponFlow
<1>13. CASE ActivateAgain(c)
  BY <1>13 DEF ActivateAgain, Open
<1> QED
  BY <1>1, <1>2, <1>3, <1>4, <1>5, <1>6, <1>7, <1>8, <1>9, <1>10, <1>11, <1>12, <1>13

----------------------------------------------------------------------------
\* A step that neither orders nor counts: the goroutine reads, checks, drops
\* the copies or gives up.
Looks(c) ==
    \/ AskOrder(c) \/ ShowForm(c) \/ GetCoupon(c) \/ QueryCoupon(c)
    \/ FillCoupon(c) \/ CountOrders(c) \/ DropCoupon(c)

\* What such a step leaves.
LEMMA LooksLeaves ==
    ASSUME DeskInv, NEW c \in Cashier, Looks(c)
    PROVE  /\ UNCHANGED <<usedCount, placed, unused, mine, uses, excuses>>
           /\ \A d \in Cashier \ {c} :
                 desk'[d] = desk[d] /\ aim'[d] = aim[d] /\ saw'[d] = saw[d]
           /\ c \in Counting' <=> c \in Counting
           /\ desk'[c] = "limit" => saw'[c] < Count
           /\ desk'[c] = "insert" =>
                 /\ saw'[c] < Count \/ (desk[c] = "limit" /\ saw'[c] = saw[c])
                 /\ aim'[c] = "order" => mine < UserLimit
<1> USE CouponAssumption
    DEF DeskInv, CouponTypeOK, Placed, couponStore, On, Counting, LookedUp, Pass,
        Close, Open
<1>1. CASE AskOrder(c)
  BY <1>1 DEF AskOrder
<1>2. CASE ShowForm(c)
  BY <1>2 DEF ShowForm
<1>3. CASE GetCoupon(c)
  BY <1>3 DEF GetCoupon
<1>4. CASE QueryCoupon(c)
  BY <1>4 DEF QueryCoupon
<1>5. CASE FillCoupon(c)
  BY <1>5 DEF FillCoupon
<1>6. CASE CountOrders(c)
  BY <1>6 DEF CountOrders
<1>7. CASE DropCoupon(c)
  BY <1>7 DEF DropCoupon
<1> QED  BY <1>1, <1>2, <1>3, <1>4, <1>5, <1>6, <1>7 DEF Looks

LEMMA LooksStep ==
    ASSUME CouponInv, NEW c \in Cashier, Looks(c)
    PROVE  CountInv' /\ LimitInv'
<1>1. DeskInv /\ CountInv /\ LimitInv
  BY DEF CouponInv
<1>2. Counting' = Counting
  BY <1>1, LooksLeaves DEF Counting
<1>3. Honoured => Honoured'
  BY <1>1, <1>2, LooksLeaves DEF Honoured
<1>4. LimitInv'
  BY <1>1, LooksLeaves DEF LimitInv
<1> QED  BY <1>1, <1>3, <1>4, LooksLeaves DEF CountInv

\* An activation begins: its use is no longer waiting but on its way.
LEMMA ActivateStep ==
    ASSUME CouponInv, NEW c \in Cashier, ActivateUse(c)
    PROVE  CountInv' /\ LimitInv'
<1> USE DEF CouponInv, DeskInv, CouponTypeOK
<1>1. /\ desk[c] = "idle" /\ unused > 0 /\ unused' = unused - 1
      /\ desk' = [desk EXCEPT ![c] = "get"] /\ aim' = [aim EXCEPT ![c] = "activate"]
      /\ UNCHANGED <<usedCount, placed, mine, saw, uses, excuses>>
  BY DEF ActivateUse, Open, On
<1>2. c \notin Counting /\ Counting' = Counting \cup {c}
  BY <1>1 DEF Counting
<1>3. Cardinality(Counting') = Cardinality(Counting) + 1
  BY <1>2, CountingJoins
<1>4. Honoured => Honoured'
  BY <1>1, <1>3, CountingFinite DEF Honoured
<1>5. LimitInv'
  BY <1>1 DEF LimitInv
<1> QED  BY <1>1, <1>4, <1>5 DEF CountInv

\* An order is activated once more, which is an excuse; nothing is ordered.
LEMMA AgainStep ==
    ASSUME CouponInv, NEW c \in Cashier, ActivateAgain(c)
    PROVE  CountInv' /\ LimitInv'
<1> USE DEF CouponInv, DeskInv, CouponTypeOK
<1>1. /\ desk' = [desk EXCEPT ![c] = "get"] /\ aim' = [aim EXCEPT ![c] = "activate"]
      /\ mine' = mine /\ excuses' = excuses \cup {"redelivered"}
  BY DEF ActivateAgain, Open, ExcuseIf
<1>2. CountInv'
  BY <1>1 DEF CountInv, Excuses
<1>3. LimitInv'
  BY <1>1 DEF LimitInv
<1> QED  BY <1>2, <1>3

\* The administrator enters an order: the last that may be, or an excuse.
LEMMA EnterStep ==
    ASSUME CouponInv, NEW c \in Cashier, EnterOrder(c)
    PROVE  CountInv' /\ LimitInv'
<1> USE CouponAssumption DEF CouponInv, DeskInv, CouponTypeOK
<1>1. /\ desk[c] = "idle" /\ excuses \subseteq excuses'
      /\ placed' = placed + 1 /\ unused' = unused + 1 /\ mine' = mine + 1
      /\ UNCHANGED <<desk, aim, saw, usedCount, uses>>
  BY DEF EnterOrder, On, couponFlow
<1>2. CASE placed >= Count \/ mine >= UserLimit
  <2>1. "unchecked" \in excuses'
    BY <1>2 DEF EnterOrder
  <2> QED  BY <2>1 DEF CountInv, LimitInv, Excuses, Pardons
<1>3. CASE placed < Count /\ mine < UserLimit
  <2>1. Counting' = Counting
    BY <1>1 DEF Counting
  <2>2. Honoured => Honoured'
    BY <1>1, <1>3, <2>1, CountingFinite DEF Honoured
  <2>3. CountInv'
    BY <1>1, <2>2 DEF CountInv
  <2>4. CASE Crosses(c)
    BY <2>3, <2>4 DEF EnterOrder, LimitInv, Pardons
  <2>5. CASE ~Crosses(c)
    BY <1>1, <1>3, <2>3, <2>5 DEF LimitInv, Crosses, On
  <2> QED  BY <2>4, <2>5
<1> QED  BY <1>2, <1>3

\* An order is inserted.  Unless the check was stale, the row counts fewer
\* uses than Count; unless uses are promised twice, so do the orders.
LEMMA InsertStep ==
    ASSUME CouponInv, NEW c \in Cashier, InsertOrder(c)
    PROVE  CountInv' /\ LimitInv'
<1> USE CouponAssumption DEF CouponInv, DeskInv, CouponTypeOK, Placed
<1>1. /\ desk[c] = "insert" /\ placed' = placed + 1 /\ unused' = unused + 1
      /\ desk' = [desk EXCEPT ![c] = "idle"] /\ aim' = [aim EXCEPT ![c] = "none"]
      /\ saw' = [saw EXCEPT ![c] = Unknown]
      /\ UNCHANGED <<usedCount, uses>>
  BY DEF InsertOrder, Close, On
<1>2. excuses \subseteq excuses'
  BY DEF InsertOrder
<1>3. CountInv'
  <2>1. Counting' = Counting
    BY <1>1 DEF Counting
  <2>2. ASSUME Honoured, excuses' \cap Excuses = {} PROVE Honoured'
    <3>1. ~(uses < Count /\ placed >= Count) /\ saw[c] = usedCount
      BY <2>2 DEF InsertOrder, Excuses
    <3>2. saw[c] < Count
      BY <1>1, <2>2 DEF Honoured
    <3>3. placed < Count
      BY <3>1, <3>2, <2>2 DEF Honoured
    <3> QED  BY <1>1, <2>1, <2>2, <3>3, CountingFinite DEF Honoured
  <2> QED  BY <1>2, <2>2 DEF CountInv, Excuses
<1>4. LimitInv'
  <2>1. CASE Crosses(c)
    BY <2>1 DEF InsertOrder, LimitInv, Pardons
  <2>2. CASE aim[c] = "guest" /\ mine >= UserLimit
    BY <2>2 DEF InsertOrder, LimitInv, Pardons
  <2>3. ASSUME ~Crosses(c), ~(aim[c] = "guest" /\ mine >= UserLimit)
        PROVE  LimitInv'
    <3>1. \A d \in Cashier : ~(desk'[d] = "insert" /\ aim'[d] = "order")
      BY <2>3, <1>1 DEF Crosses, On
    <3>2. mine' \in {mine, mine + 1}
      BY DEF InsertOrder
    <3> QED  BY <1>1, <1>2, <2>3, <3>1, <3>2 DEF LimitInv
  <2> QED  BY <2>1, <2>2, <2>3
<1> QED  BY <1>3, <1>4

\* The row is saved: by an activation, whose use is now made, or by an edit.
LEMMA CouponSaveStep ==
    ASSUME CouponInv, NEW c \in Cashier, SaveCount(c)
    PROVE  CountInv' /\ LimitInv'
<1> USE DEF CouponInv, DeskInv, CouponTypeOK, Placed
<1>1. /\ desk[c] = "save" /\ desk' = [desk EXCEPT ![c] = "drop"]
      /\ excuses' = IF saw[c] # usedCount THEN excuses \cup {"staleSave"} ELSE excuses
      /\ UNCHANGED <<aim, saw, placed, unused, mine>>
  BY DEF SaveCount, On, Pass, ExcuseIf
<1>2. LimitInv'
  BY <1>1 DEF LimitInv
<1>3. CASE saw[c] # usedCount
  BY <1>1, <1>2, <1>3 DEF CountInv, Excuses
<1>4. CASE saw[c] = usedCount /\ aim[c] = "activate"
  <2>1. c \in Counting /\ Counting' = Counting \ {c}
    BY <1>1, <1>4 DEF Counting
  <2>2. Cardinality(Counting') = Cardinality(Counting) - 1
    BY <2>1, CountingLeaves
  <2>3. usedCount' = usedCount + 1 /\ uses' = uses + 1
    BY <1>4 DEF SaveCount
  <2>4. Honoured => Honoured'
    BY <1>1, <2>2, <2>3, CountingFinite DEF Honoured
  <2> QED  BY <1>1, <1>2, <1>4, <2>4 DEF CountInv
<1>5. CASE saw[c] = usedCount /\ aim[c] = "edit"
  <2>1. Counting' = Counting
    BY <1>1, <1>5 DEF Counting
  <2>2. UNCHANGED <<usedCount, uses>>
    BY <1>5 DEF SaveCount
  <2>3. Honoured => Honoured'
    BY <1>1, <2>1, <2>2 DEF Honoured
  <2> QED  BY <1>1, <1>2, <1>5, <2>3 DEF CountInv
<1> QED  BY <1>1, <1>3, <1>4, <1>5

\* A call fails.  Only an activation then leaves its use uncounted.
LEMMA CouponFailStep ==
    ASSUME CouponInv, NEW c \in Cashier, CouponFails(c)
    PROVE  CountInv' /\ LimitInv'
<1> USE DEF CouponInv, DeskInv, CouponTypeOK, Placed
<1>1. /\ desk' = [desk EXCEPT ![c] = "idle"] /\ aim' = [aim EXCEPT ![c] = "none"]
      /\ saw' = [saw EXCEPT ![c] = Unknown] /\ excuses \subseteq excuses'
      /\ UNCHANGED <<usedCount, placed, unused, mine>>
  BY DEF CouponFails, Close, ExcuseIf, couponStore
<1>2. LimitInv'
  BY <1>1 DEF LimitInv
<1>3. CASE aim[c] = "activate" /\ ~On(c, "drop")
  <2>1. "notCounted" \in excuses'
    BY <1>3 DEF CouponFails, ExcuseIf
  <2> QED  BY <1>2, <2>1 DEF CountInv, Excuses
<1>4. CASE aim[c] # "activate" \/ On(c, "drop")
  <2>1. Counting' = Counting /\ uses' = uses
    BY <1>1, <1>4 DEF Counting, On, CouponFails
  <2>2. Honoured => Honoured'
    BY <1>1, <2>1 DEF Honoured
  <2> QED  BY <1>1, <1>2, <2>2 DEF CountInv
<1> QED  BY <1>3, <1>4

----------------------------------------------------------------------------
LEMMA NextCoupon == CouponInv /\ [CouponNext]_couponVars => CouponInv'
<1> SUFFICES ASSUME CouponInv, [CouponNext]_couponVars PROVE CouponInv'
  OBVIOUS
<1>1. CASE UNCHANGED couponVars
  <2>1. UNCHANGED <<usedCount, couponCopy, placed, unused, mine, desk, aim, saw, uses,
                    excuses>>
    BY <1>1 DEF couponVars, couponStore, couponFlow
  <2>2. Counting' = Counting
    BY <2>1 DEF Counting
  <2> QED  BY <2>1, <2>2
           DEF CouponInv, DeskInv, CouponTypeOK, Placed, CountInv, Honoured, LimitInv
<1>2. ASSUME NEW c \in Cashier, Looks(c) PROVE CouponInv'
  BY <1>2, LooksStep, DeskStep DEF CouponInv, Looks
<1>3. ASSUME NEW c \in Cashier, ActivateUse(c) PROVE CouponInv'
  BY <1>3, ActivateStep, DeskStep DEF CouponInv
<1>4. ASSUME NEW c \in Cashier, InsertOrder(c) PROVE CouponInv'
  BY <1>4, InsertStep, DeskStep DEF CouponInv
<1>5. ASSUME NEW c \in Cashier, SaveCount(c) PROVE CouponInv'
  BY <1>5, CouponSaveStep, DeskStep DEF CouponInv
<1>6. ASSUME NEW c \in Cashier, CouponFails(c) PROVE CouponInv'
  BY <1>6, CouponFailStep, DeskStep DEF CouponInv
<1>7. ASSUME NEW c \in Cashier, EnterOrder(c) PROVE CouponInv'
  BY <1>7, EnterStep, DeskStep DEF CouponInv
<1>8. ASSUME NEW c \in Cashier, ActivateAgain(c) PROVE CouponInv'
  BY <1>8, AgainStep, DeskStep DEF CouponInv
<1> QED  BY <1>1, <1>2, <1>3, <1>4, <1>5, <1>6, <1>7, <1>8 DEF CouponNext, Looks

\* Types and the two invariants hold in every behaviour.
THEOREM CouponCorrect == CouponSpec => []CouponInv
BY InitCoupon, NextCoupon, PTL DEF CouponSpec

\* The variables of the coupon keep their types.
THEOREM CouponTypeCorrect == CouponSpec => []CouponTypeOK
<1>1. CouponInv => CouponTypeOK
  BY DEF CouponInv, DeskInv
<1> QED  BY <1>1, CouponCorrect, PTL

\* A coupon is used more than Count times only after an order was placed
\* against a promised use or a stale count, the administrator entered one too
\* many, or a use was lost, miscounted or made twice (model/coupon/model.go:48,
\* purchaseLogic.go:106, activateOrderLogic.go:90).
THEOREM CouponWithinCount == CouponSpec => []CouponLimit
<1>1. CouponInv => CouponLimit
  BY CountingFinite, CouponAssumption
  DEF CouponInv, DeskInv, CouponTypeOK, CountInv, Honoured, Excuses, CouponLimit
<1> QED  BY <1>1, CouponCorrect, PTL

\* One user exceeds his limit only when two of his orders were about to be
\* inserted at once (purchaseLogic.go:115), or one that nobody counts against it
\* is one too many (admin/order/createOrderLogic.go:46,
\* portal/purchaseLogic.go:76).
THEOREM UserWithinLimit == CouponSpec => []UserLimitKept
<1>1. CouponInv => UserLimitKept
  BY DEF CouponInv, LimitInv, Pardons, UserLimitKept
<1> QED  BY <1>1, CouponCorrect, PTL

(***************************************************************************)
(* Proofs about Deductions: nobody gets back more than he paid, or pays    *)
(* for giving back, but for the named cases; and without a cycle the       *)
(* amount only falls.  First quotients and the calendar: the days are      *)
(* numbered in the order of their dates.                                   *)
(***************************************************************************)
(***************************************************************************)
(* Quotients cut to an integer.                                            *)
(***************************************************************************)
LEMMA TimesLess ==
    ASSUME NEW a \in Int, NEW b \in Int, NEW c \in Nat, a <= b
    PROVE  a * c <= b * c /\ c * a <= c * b
<1>1. b - a \in Nat
  OBVIOUS
<1>2. (b - a) * c \in Nat
  BY <1>1
<1>3. (b - a) * c = b * c - a * c
  OBVIOUS
<1>4. a * c \in Int /\ b * c \in Int /\ c * a = a * c /\ c * b = b * c
  OBVIOUS
<1> HIDE <1>1
<1> QED  BY <1>2, <1>3, <1>4

LEMMA DivBounds ==
    ASSUME NEW a \in Int, NEW b \in Nat \ {0}
    PROVE  /\ a \div b \in Int
           /\ b * (a \div b) <= a /\ a < b * (a \div b) + b
  OBVIOUS

LEMMA DivLess ==
    ASSUME NEW a \in Int, NEW b \in Nat \ {0}, NEW c \in Int, a < b * c + b
    PROVE  a \div b <= c
<1> DEFINE q == a \div b
<1>1. q \in Int /\ b * q <= a
  BY DivBounds
<1> HIDE DEF q
<1>2. CASE q >= c + 1
  <2>1. b * (c + 1) <= b * q
    BY <1>1, <1>2, TimesLess
  <2>2. b * (c + 1) = b * c + b
    OBVIOUS
  <2>3. b * c \in Int /\ b * q \in Int
    BY <1>1
  <2> QED  BY <1>1, <2>1, <2>2, <2>3
<1> QED  BY <1>1, <1>2 DEF q

LEMMA DivMore ==
    ASSUME NEW a \in Int, NEW b \in Nat \ {0}, NEW c \in Int, b * c <= a
    PROVE  c <= a \div b
<1> DEFINE q == a \div b
<1>1. q \in Int /\ a < b * q + b
  BY DivBounds
<1> HIDE DEF q
<1>2. CASE q + 1 <= c
  <2>1. b * (q + 1) <= b * c
    BY <1>1, <1>2, TimesLess
  <2>2. b * (q + 1) = b * q + b
    BY <1>1
  <2>3. b * c \in Int /\ b * q \in Int
    BY <1>1
  <2> QED  BY <1>1, <2>1, <2>2, <2>3
<1> QED  BY <1>1, <1>2 DEF q

LEMMA TruncTyped ==
    ASSUME NEW a \in Int, NEW b \in Nat \ {0}
    PROVE  Trunc(a, b) \in Int /\ (a >= 0 => Trunc(a, b) >= 0) /\ (a <= 0 => Trunc(a, b) <= 0)
<1>1. CASE a >= 0
  <2>1. b * 0 <= a
    BY <1>1
  <2>2. a \div b \in Int /\ 0 <= a \div b
    BY <2>1, DivBounds, DivMore
  <2>3. a <= 0 => a \div b <= 0
    BY <1>1
  <2> QED  BY <1>1, <2>2, <2>3 DEF Trunc
<1>2. CASE ~(a >= 0)
  <2>1. -a \in Int /\ b * 0 <= -a
    BY <1>2
  <2>2. (-a) \div b \in Int /\ 0 <= (-a) \div b
    BY <2>1, DivBounds, DivMore
  <2> QED  BY <1>2, <2>2 DEF Trunc
<1> QED  BY <1>1, <1>2

\* More is not cut to less.
LEMMA TruncRises ==
    ASSUME NEW a \in Int, NEW c \in Int, NEW b \in Nat \ {0}, a <= c
    PROVE  Trunc(a, b) <= Trunc(c, b)
<1>1. ASSUME NEW x \in Int, NEW y \in Int, x <= y  PROVE x \div b <= y \div b
  <2>1. /\ x \div b \in Int /\ y \div b \in Int
        /\ b * (x \div b) <= x
    BY DivBounds
  <2>2. b * (x \div b) <= y
    BY <1>1, <2>1
  <2> QED  BY <2>1, <2>2, DivMore
<1>2. CASE a >= 0
  <2>1. c >= 0
    BY <1>2
  <2> QED  BY <1>1, <1>2, <2>1 DEF Trunc
<1>3. CASE ~(a >= 0) /\ c >= 0
  BY <1>3, TruncTyped
<1>4. CASE ~(a >= 0) /\ ~(c >= 0)
  <2>1. -a \in Int /\ -c \in Int /\ -c <= -a
    OBVIOUS
  <2>2. (-c) \div b <= (-a) \div b
    BY <1>1, <2>1
  <2>3. (-c) \div b \in Int /\ (-a) \div b \in Int
    BY <2>1, DivBounds
  <2> QED  BY <1>4, <2>2, <2>3 DEF Trunc
<1> QED  BY <1>2, <1>3, <1>4

\* A part of c times b, divided by b, is no more than c.
LEMMA TruncAtMost ==
    ASSUME NEW a \in Int, NEW b \in Nat \ {0}, NEW c \in Nat, a <= b * c
    PROVE  Trunc(a, b) <= c
<1>1. CASE a >= 0
  <2>1. b * c \in Int
    OBVIOUS
  <2>2. a < b * c + b
    BY <2>1
  <2> QED  BY <1>1, <2>2, DivLess DEF Trunc
<1>2. CASE ~(a >= 0)
  BY <1>2, TruncTyped
<1> QED  BY <1>1, <1>2

(***************************************************************************)
(* The calendar.                                                           *)
(***************************************************************************)
Months == 1..12
\* The day before the first of a month.
Eve(y, m)  == DayNo(y, m, 0)
Exists(t) == /\ t.y \in Nat /\ t.m \in Months /\ t.d \in Nat \ {0}
             /\ t.d <= Length(t.y, t.m)
\* The order of dates.
Later(s, t) ==
    \/ s.y < t.y
    \/ s.y = t.y /\ s.m < t.m
    \/ s.y = t.y /\ s.m = t.m /\ s.d < t.d

LEMMA Tables ==
    /\ Before[1] = 0 /\ Before[2] = 31 /\ Before[3] = 59 /\ Before[4] = 90
    /\ Before[5] = 120 /\ Before[6] = 151 /\ Before[7] = 181 /\ Before[8] = 212
    /\ Before[9] = 243 /\ Before[10] = 273 /\ Before[11] = 304 /\ Before[12] = 334
  BY DEF Before

LEMMA MonthCases ==
    ASSUME NEW m \in Months
    PROVE  \/ m = 1 \/ m = 2 \/ m = 3 \/ m = 4 \/ m = 5 \/ m = 6
           \/ m = 7 \/ m = 8 \/ m = 9 \/ m = 10 \/ m = 11 \/ m = 12
  BY DEF Months

LEMMA Lengths ==
    ASSUME NEW y \in Int, NEW m \in Months
    PROVE  /\ On28(y) \in {28, 29} /\ Length(y, m) \in 28..31
           /\ m = 2 => Length(y, m) = On28(y)
           /\ m \in {4, 6, 9, 11} => Length(y, m) = 30
           /\ m \notin {2, 4, 6, 9, 11} => Length(y, m) = 31
<1>1. On28(y) \in {28, 29}
  BY DEF On28
<1>2. CASE m = 2
  BY <1>1, <1>2 DEF Length
<1>3. CASE m \in {4, 6, 9, 11}
  BY <1>1, <1>3 DEF Length
<1>4. CASE m \notin {2, 4, 6, 9, 11}
  BY <1>1, <1>4 DEF Length
<1> QED  BY <1>1, <1>2, <1>3, <1>4

LEMMA BeforeTyped ==
    ASSUME NEW m \in Months
    PROVE  Before[m] \in Nat
  BY Tables, MonthCases

\* The leap years before a year: every fourth, but every hundredth only if it is
\* a four hundredth.
LEMMA LeapStep ==
    ASSUME NEW y \in Int
    PROVE  /\ Leaps(y) \in Int
           /\ Leaps(y + 1) = Leaps(y) + (On28(y) - 28)
           /\ \A z \in Int : y <= z => Leaps(y) <= Leaps(z)
<1>1. ASSUME NEW x \in Int  PROVE Leaps(x) \in Int
  BY DEF Leaps
<1>2. \A z \in Int : y <= z => Leaps(y) <= Leaps(z)
  <2> SUFFICES ASSUME NEW z \in Int, y <= z  PROVE Leaps(y) <= Leaps(z)
    OBVIOUS
  <2>1. ASSUME NEW n \in Int
        PROVE  /\ n \div 100 = (n \div 4) \div 25 /\ n \div 400 = (n \div 100) \div 4
               /\ n \div 4 \in Int /\ n \div 100 \in Int /\ n \div 400 \in Int
    OBVIOUS
  <2>2. (y - 1) \div 4 <= (z - 1) \div 4 /\ (y - 1) \div 400 <= (z - 1) \div 400
    OBVIOUS
  <2>3. ASSUME NEW n \in Int, NEW k \in Int, n <= k
        PROVE  n - n \div 25 <= k - k \div 25
    BY <2>3
  <2>4. (y - 1) \div 4 - (y - 1) \div 100 <= (z - 1) \div 4 - (z - 1) \div 100
    <3> DEFINE n == (y - 1) \div 4
               k == (z - 1) \div 4
    <3>1. y - 1 \in Int /\ z - 1 \in Int
      OBVIOUS
    <3>2. n \in Int /\ k \in Int /\ n <= k
      BY <2>1, <2>2, <3>1
    <3>3. (y - 1) \div 100 = n \div 25 /\ (z - 1) \div 100 = k \div 25
      BY <2>1, <3>1
    <3> HIDE DEF n, k
    <3>4. n - n \div 25 <= k - k \div 25
      BY <2>3, <3>2
    <3> QED  BY <3>3, <3>4 DEF n, k
  <2> DEFINE a == (y - 1) \div 4 - (y - 1) \div 100
             b == (z - 1) \div 4 - (z - 1) \div 100
  <2>5. a \in Int /\ b \in Int /\ (y - 1) \div 400 \in Int /\ (z - 1) \div 400 \in Int
    BY <2>1, y - 1 \in Int, z - 1 \in Int
  <2>6. Leaps(y) = a + (y - 1) \div 400 /\ Leaps(z) = b + (z - 1) \div 400
    BY <2>5 DEF Leaps
  <2>7. a <= b
    BY <2>4
  <2> HIDE DEF a, b
  <2> QED  BY <2>2, <2>5, <2>6, <2>7
<1>3. Leaps(y + 1) = y \div 4 - y \div 100 + y \div 400
  BY DEF Leaps
<1>4. ASSUME NEW k \in {4, 100, 400}
      PROVE  y \div k = (y - 1) \div k + (IF y % k = 0 THEN 1 ELSE 0)
  <2>1. CASE k = 4
    BY <2>1
  <2>2. CASE k = 100
    BY <2>2
  <2>3. CASE k = 400
    BY <2>3
  <2> QED  BY <1>4, <2>1, <2>2, <2>3
<1>5. (y % 400 = 0 => y % 100 = 0) /\ (y % 100 = 0 => y % 4 = 0)
  OBVIOUS
<1>6. Leaps(y + 1) = Leaps(y) + (On28(y) - 28)
  <2> DEFINE f == (y - 1) \div 4
             h == (y - 1) \div 100
             g == (y - 1) \div 400
  <2>1. Leaps(y) = f - h + g /\ f \in Int /\ h \in Int /\ g \in Int
    BY DEF Leaps
  <2>2. /\ y \div 4 = f + (IF y % 4 = 0 THEN 1 ELSE 0)
        /\ y \div 100 = h + (IF y % 100 = 0 THEN 1 ELSE 0)
        /\ y \div 400 = g + (IF y % 400 = 0 THEN 1 ELSE 0)
    BY <1>4
  <2> HIDE DEF f, h, g
  <2> QED  BY <1>3, <1>5, <2>1, <2>2 DEF On28
<1> QED  BY <1>1, <1>2, <1>6

LEMMA DayNoIs ==
    ASSUME NEW y \in Int, NEW m \in Months, NEW d \in Int
    PROVE  /\ Eve(y, m) \in Int /\ DayNo(y, m, d) = Eve(y, m) + d
           /\ DayNo(y, m, d) \in Int
<1>1. Leaps(y) \in Int /\ On28(y) \in Int /\ Before[m] \in Int
  <2>1. On28(y) \in {28, 29}
    BY Lengths
  <2>2. Before[m] \in Nat
    BY BeforeTyped
  <2>3. Leaps(y) \in Int
    BY LeapStep
  <2>4. On28(y) \in Int
    BY <2>1
  <2> QED  BY <2>2, <2>3, <2>4
<1>2. (IF m > 2 THEN On28(y) - 28 ELSE 0) \in Int
  BY <1>1
<1> QED  BY <1>1, <1>2 DEF DayNo, Eve

LEMMA Ends == 1 \in Months /\ 12 \in Months
  BY DEF Months

LEMMA EveTyped ==
    ASSUME NEW y \in Int, NEW m \in Months
    PROVE  Eve(y, m) \in Int /\ Length(y, m) \in Int /\ Length(y, m) >= 28 /\ Length(y, m) <= 31
<1>1. Eve(y, m) \in Int
  BY DayNoIs, 0 \in Int
<1>2. Length(y, m) \in 28..31
  BY Lengths
<1> QED  BY <1>1, <1>2

\* Months follow each other, and years do.
LEMMA EveStep ==
    ASSUME NEW y \in Int, NEW m \in Months
    PROVE  /\ m # 12 => Eve(y, m + 1) = Eve(y, m) + Length(y, m)
           /\ m = 12 => Eve(y + 1, 1) = Eve(y, m) + Length(y, m)
<1>1. /\ Leaps(y) \in Int /\ Leaps(y + 1) = Leaps(y) + (On28(y) - 28)
      /\ On28(y) \in {28, 29}
  BY LeapStep, Lengths
<1>2. CASE m = 12
  BY <1>1, <1>2, Tables, Lengths DEF Eve, DayNo
<1>3. CASE m # 12
  <2>1. Eve(y, m) = 365 * y + Leaps(y) + Before[m] + (IF m > 2 THEN On28(y) - 28 ELSE 0)
    BY <1>1, BeforeTyped DEF Eve, DayNo
  <2>2. m + 1 \in Months /\ Before[m] \in Nat
    BY <1>3, BeforeTyped DEF Months
  <2>3. Eve(y, m + 1) = 365 * y + Leaps(y) + Before[m + 1]
                          + (IF m + 1 > 2 THEN On28(y) - 28 ELSE 0)
    BY <1>1, <2>2, BeforeTyped DEF Eve, DayNo
  <2>4. Before[m + 1] + (IF m + 1 > 2 THEN On28(y) - 28 ELSE 0)
          = Before[m] + (IF m > 2 THEN On28(y) - 28 ELSE 0) + Length(y, m)
    <3>1. CASE m = 1 \/ m = 2
      BY <1>1, <3>1, Tables, Lengths
    <3>2. CASE m \in 3..11
      <4>1. Before[m + 1] = Before[m] + Length(y, m)
        BY <3>2, Tables, Lengths DEF Months
      <4>2. m > 2 /\ m + 1 > 2 /\ Length(y, m) \in Int
        BY <3>2, Lengths
      <4> QED  BY <1>1, <2>2, <4>1, <4>2
    <3> QED  BY <1>3, <3>1, <3>2 DEF Months
  <2>5. Length(y, m) \in Int /\ Before[m + 1] \in Int /\ 365 * y \in Int
    BY <2>2, Lengths, BeforeTyped
  <2> QED  BY <1>1, <1>3, <2>1, <2>2, <2>3, <2>4, <2>5
<1> QED  BY <1>2, <1>3

LEMMA EveRises ==
    ASSUME NEW y \in Int, NEW m \in Months, NEW n \in Months, m < n
    PROVE  Eve(y, m) + Length(y, m) <= Eve(y, n)
<1>1. ASSUME NEW k \in 1..11  PROVE Eve(y, k) + Length(y, k) = Eve(y, k + 1)
  BY EveStep DEF Months
<1>2. \A k \in Months : Eve(y, k) \in Int /\ Length(y, k) \in 28..31
  BY DayNoIs, Lengths, 0 \in Int
<1>3. \A k \in 1..11 : Eve(y, k) <= Eve(y, k + 1)
  <2>1. \A k \in 1..11 : k \in Months
    BY DEF Months
  <2> QED  BY <1>1, <1>2, <2>1
<1> DEFINE e == [k \in Months |-> Eve(y, k)]
<1>4. /\ e[1] <= e[2] /\ e[2] <= e[3] /\ e[3] <= e[4] /\ e[4] <= e[5] /\ e[5] <= e[6]
      /\ e[6] <= e[7] /\ e[7] <= e[8] /\ e[8] <= e[9] /\ e[9] <= e[10]
      /\ e[10] <= e[11] /\ e[11] <= e[12]
  BY <1>3 DEF Months
<1>5. \A k \in Months : e[k] \in Int /\ e[k] = Eve(y, k)
  BY <1>2
<1>6. e[m + 1] <= e[n]
  <2> HIDE DEF e
  <2>1. m + 1 \in Months /\ m + 1 <= n
    BY DEF Months
  <2>2. /\ e[1] \in Int /\ e[2] \in Int /\ e[3] \in Int /\ e[4] \in Int /\ e[5] \in Int
        /\ e[6] \in Int /\ e[7] \in Int /\ e[8] \in Int /\ e[9] \in Int
        /\ e[10] \in Int /\ e[11] \in Int /\ e[12] \in Int
    BY <1>5 DEF Months
  <2>3. \/ n = 2 \/ n = 3 \/ n = 4 \/ n = 5 \/ n = 6 \/ n = 7 \/ n = 8 \/ n = 9
        \/ n = 10 \/ n = 11 \/ n = 12
    BY DEF Months
  <2>4. \A k \in Months : k <= n => e[k] <= e[n]
    <3> SUFFICES ASSUME NEW k \in Months, k <= n  PROVE e[k] <= e[n]
      OBVIOUS
    <3>1. \/ k = 1 \/ k = 2 \/ k = 3 \/ k = 4 \/ k = 5 \/ k = 6
          \/ k = 7 \/ k = 8 \/ k = 9 \/ k = 10 \/ k = 11 \/ k = 12
      BY MonthCases
    <3> QED  BY <1>4, <2>2, <2>3, <3>1
  <2> QED  BY <2>1, <2>4
<1>7. m \in 1..11 /\ m + 1 \in Months
  BY DEF Months
<1> QED  BY <1>1, <1>5, <1>6, <1>7

\* A year is over before the next begins.
LEMMA YearRises ==
    ASSUME NEW y \in Int, NEW z \in Int, y < z, NEW m \in Months, NEW n \in Months
    PROVE  Eve(y, m) + Length(y, m) <= Eve(z, n)
<1>1. Eve(y, m) + Length(y, m) <= Eve(y, 12) + Length(y, 12)
  <2>1. 12 \in Months /\ Eve(y, m) \in Int /\ Eve(y, 12) \in Int
    BY Ends, EveTyped
  <2>2. Length(y, m) >= 28 /\ Length(y, m) \in Int /\ Length(y, 12) \in Int
        /\ Length(y, 12) >= 28
    BY <2>1, EveTyped
  <2>3. CASE m = 12
    BY <2>1, <2>2, <2>3
  <2>4. CASE m # 12
    <3>1. m < 12
      BY <2>4 DEF Months
    <3> QED  BY <2>1, <2>2, <3>1, EveRises
  <2> QED  BY <2>3, <2>4
<1>2. Eve(y, 12) + Length(y, 12) = Eve(y + 1, 1)
  BY EveStep, Ends
<1>3. Eve(y + 1, 1) <= Eve(z, 1)
  <2>1. /\ Leaps(y + 1) \in Int /\ Leaps(z) \in Int /\ Leaps(y + 1) <= Leaps(z)
    BY LeapStep
  <2>2. Eve(y + 1, 1) = 365 * (y + 1) + Leaps(y + 1) /\ Eve(z, 1) = 365 * z + Leaps(z)
    BY <2>1, Tables DEF Eve, DayNo
  <2> QED  BY <2>1, <2>2
<1>4. Eve(z, 1) <= Eve(z, n)
  <2>1. /\ 1 \in Months /\ Eve(z, 1) \in Int /\ Eve(z, n) \in Int
        /\ Length(z, 1) \in Int /\ Length(z, 1) >= 28
    BY Ends, EveTyped
  <2>2. CASE n = 1
    BY <2>1, <2>2
  <2>3. CASE n # 1
    <3>1. 1 < n
      BY <2>3 DEF Months
    <3> QED  BY <2>1, <3>1, EveRises
  <2> QED  BY <2>2, <2>3
<1>5. /\ Eve(y, m) \in Int /\ Eve(y + 1, 1) \in Int /\ Eve(z, 1) \in Int /\ Eve(z, n) \in Int
      /\ Length(y, m) \in Int
  <2>1. y + 1 \in Int
    OBVIOUS
  <2> QED  BY <2>1, Ends, EveTyped
<1> QED  BY <1>1, <1>2, <1>3, <1>4, <1>5

\* The number of a day says when it is.
LEMMA DaysInOrder ==
    ASSUME NEW s, NEW t, Exists(s), Exists(t), Later(s, t)
    PROVE  DayNo(s.y, s.m, s.d) < DayNo(t.y, t.m, t.d)
<1>1. /\ s.y \in Int /\ s.m \in Months /\ s.d \in Int /\ s.d <= Length(s.y, s.m)
      /\ t.y \in Int /\ t.m \in Months /\ t.d \in Int /\ t.d >= 1
  BY DEF Exists
<1>2. /\ DayNo(s.y, s.m, s.d) = Eve(s.y, s.m) + s.d /\ Eve(s.y, s.m) \in Int
      /\ DayNo(t.y, t.m, t.d) = Eve(t.y, t.m) + t.d /\ Eve(t.y, t.m) \in Int
      /\ Length(s.y, s.m) \in 28..31
  BY <1>1, DayNoIs, Lengths
<1>3. CASE s.y = t.y /\ s.m = t.m /\ s.d < t.d
  BY <1>1, <1>2, <1>3
<1>4. CASE (s.y = t.y /\ s.m < t.m) \/ s.y < t.y
  <2>1. Eve(s.y, s.m) + Length(s.y, s.m) <= Eve(t.y, t.m)
    BY <1>1, <1>4, EveRises, YearRises
  <2> QED  BY <1>1, <1>2, <2>1
<1> QED  BY <1>3, <1>4 DEF Later

LEMMA LaterOrNot ==
    ASSUME NEW s, NEW t, Exists(s), Exists(t), s \in Date, t \in Date
    PROVE  Later(s, t) \/ Later(t, s) \/ s = t
  BY DEF Exists, Later, Date

DayOf(t) == DayNo(t.y, t.m, t.d)

\* time.Date counts on where a month ends.
LEMMA NormalDay ==
    ASSUME NEW y \in Int, NEW m \in Months, NEW d \in Int
    PROVE  DayOf(Normal(y, m, d)) = DayNo(y, m, d)
<1>1. Length(y, m) \in Int /\ Eve(y, m) \in Int
  BY EveTyped
<1>2. CASE d <= Length(y, m)
  BY <1>2 DEF Normal, DayOf
<1>3. CASE ~(d <= Length(y, m)) /\ m = 12
  <2>1. DayOf(Normal(y, m, d)) = DayNo(y + 1, 1, d - Length(y, m))
    BY <1>3 DEF Normal, DayOf
  <2>2. DayNo(y + 1, 1, d - Length(y, m)) = Eve(y + 1, 1) + (d - Length(y, m))
    BY <1>1, Ends, DayNoIs
  <2>3. Eve(y + 1, 1) = Eve(y, m) + Length(y, m)
    BY <1>3, EveStep
  <2>4. DayNo(y, m, d) = Eve(y, m) + d
    BY DayNoIs
  <2> QED  BY <1>1, <2>1, <2>2, <2>3, <2>4
<1>4. CASE ~(d <= Length(y, m)) /\ m # 12
  <2>1. DayOf(Normal(y, m, d)) = DayNo(y, m + 1, d - Length(y, m))
    BY <1>4 DEF Normal, DayOf
  <2>2. DayNo(y, m + 1, d - Length(y, m)) = Eve(y, m + 1) + (d - Length(y, m))
    <3>1. m + 1 \in Months /\ d - Length(y, m) \in Int
      BY <1>1, <1>4 DEF Months
    <3> QED  BY <3>1, DayNoIs
  <2>3. Eve(y, m + 1) = Eve(y, m) + Length(y, m)
    BY <1>4, EveStep
  <2>4. DayNo(y, m, d) = Eve(y, m) + d
    BY DayNoIs
  <2> QED  BY <1>1, <2>1, <2>2, <2>3, <2>4
<1> QED  BY <1>2, <1>3, <1>4

\* A day of a longer month becomes one of the first days of the next.
LEMMA NormalExists ==
    ASSUME NEW y \in Nat, NEW m \in Months, NEW d \in 1..32
    PROVE  /\ Exists(Normal(y, m, d))
           /\ Normal(y, m, d) \in Date
           /\ Normal(y, m, d).d = d => Normal(y, m, d) = [y |-> y, m |-> m, d |-> d]
<1>1. Length(y, m) \in Int /\ Length(y, m) >= 28 /\ Length(y, m) <= 31
  BY EveTyped
<1>2. CASE d <= Length(y, m)
  BY <1>1, <1>2 DEF Normal, Exists, Date, Months
<1>3. CASE ~(d <= Length(y, m)) /\ m = 12
  <2>1. Normal(y, m, d) = [y |-> y + 1, m |-> 1, d |-> d - Length(y, m)]
    BY <1>3 DEF Normal
  <2>2. Length(y + 1, 1) \in Int /\ Length(y + 1, 1) >= 28
    BY Ends, EveTyped
  <2>3. d - Length(y, m) \in 1..4 /\ d - Length(y, m) # d
    BY <1>1, <1>3
  <2> QED  BY <2>1, <2>2, <2>3, Ends DEF Exists, Date
<1>4. CASE ~(d <= Length(y, m)) /\ m # 12
  <2>1. Normal(y, m, d) = [y |-> y, m |-> m + 1, d |-> d - Length(y, m)]
    BY <1>4 DEF Normal
  <2>2. m + 1 \in Months
    BY <1>4 DEF Months
  <2>3. Length(y, m + 1) \in Int /\ Length(y, m + 1) >= 28
    BY <2>2, EveTyped
  <2>4. d - Length(y, m) \in 1..4 /\ d - Length(y, m) # d
    BY <1>1, <1>4
  <2> QED  BY <2>1, <2>2, <2>3, <2>4 DEF Exists, Date, Months
<1> QED  BY <1>2, <1>3, <1>4

\* The day after an existing one.
LEMMA NextDay ==
    ASSUME NEW t, t \in Date, Exists(t)
    PROVE  Next1(t) \in Date /\ Exists(Next1(t)) /\ DayOf(Next1(t)) = DayOf(t) + 1
<1>1. t.y \in Nat /\ t.m \in Months /\ t.d \in 1..31 /\ t.d + 1 \in 1..32
  BY DEF Date, Months
<1>2. DayNo(t.y, t.m, t.d + 1) = Eve(t.y, t.m) + (t.d + 1) /\ DayOf(t) = Eve(t.y, t.m) + t.d
  BY <1>1, DayNoIs DEF DayOf
<1>3. Eve(t.y, t.m) \in Int
  BY <1>1, EveTyped
<1>4. Next1(t) \in Date /\ Exists(Next1(t))
  BY <1>1, NormalExists DEF Next1
<1>5. DayOf(Next1(t)) = DayNo(t.y, t.m, t.d + 1)
  BY <1>1, NormalDay DEF Next1
<1> QED  BY <1>1, <1>2, <1>3, <1>4, <1>5

(***************************************************************************)
(* An order, its purchase and its end.                                     *)
(***************************************************************************)
BoughtOn(o) == [y |-> o.y, m |-> o.m, d |-> o.d]
EndOf(o) == AddTime(o.unit, o.quantity, BoughtOn(o))
Spans == {"Year", "Month", "Day"}

\* The offers whose numbers are what the computation takes them for.
Sold == {o \in Offers :
           /\ o.quantity > 0 /\ o.amount >= 0 /\ o.share \in 0..100
           /\ o.traffic >= (IF o.unit = "NoLimit" THEN 1 ELSE 0)}

LEMMA OfferFacts ==
    ASSUME NEW o \in Sold
    PROVE  /\ o.unit \in Spans \cup {"NoLimit", "Other"} /\ o.cycle \in 0..3 /\ o.share \in 0..100
           /\ o.traffic \in Nat /\ o.amount \in Nat /\ o.quantity \in Nat \ {0}
           /\ o.y \in Nat /\ o.m \in Months /\ o.d \in 1..31
           /\ o.d <= Length(o.y, o.m)
           /\ o.unit = "NoLimit" => o.traffic > 0
           /\ BoughtOn(o) \in Date /\ Exists(BoughtOn(o))
<1>1. o \in Offer
  BY OfferAssumption DEF Sold
<1>2. /\ o.unit \in Spans \cup {"NoLimit", "Other"} /\ o.cycle \in 0..3 /\ o.share \in 0..100
      /\ o.traffic \in Nat /\ o.amount \in Nat /\ o.quantity \in Nat \ {0}
      /\ o.y \in Nat /\ o.m \in Months /\ o.d \in 1..31
  BY <1>1 DEF Offer, Units, Sold, Spans, Months
<1>3. o.d <= Length(o.y, o.m) /\ (o.unit = "NoLimit" => o.traffic > 0)
  BY OfferAssumption, <1>2 DEF Sold
<1> QED  BY <1>2, <1>3 DEF BoughtOn, Date, Exists, Months

LEMMA MonthsAdded ==
    ASSUME NEW k \in Nat
    PROVE  /\ k \div 12 \in Nat /\ (k % 12) + 1 \in Months
           /\ 12 * (k \div 12) + (k % 12) = k
  BY DEF Months

\* The end is later than the purchase; and where no month was overshot it is as
\* many units later as were paid.
LEMMA EndFacts ==
    ASSUME NEW o \in Sold
    PROVE  /\ o.unit \in Spans => DayOf(EndOf(o)) > DayOf(BoughtOn(o))
           /\ o.unit = "Day" => DayOf(EndOf(o)) = DayOf(BoughtOn(o)) + o.quantity
           /\ o.unit \in {"Year", "Month"} => EndOf(o) \in Date /\ Exists(EndOf(o))
           /\ o.unit = "Month" /\ EndOf(o).d = o.d =>
                12 * EndOf(o).y + EndOf(o).m = 12 * o.y + o.m + o.quantity
           /\ o.unit = "Year" /\ EndOf(o).d = o.d =>
                EndOf(o).y = o.y + o.quantity /\ EndOf(o).m = o.m
           /\ DayOf(EndOf(o)) \in Int /\ DayOf(BoughtOn(o)) \in Int
<1> DEFINE n == o.quantity
           b == BoughtOn(o)
<1>1. /\ o.y \in Nat /\ o.m \in Months /\ o.d \in 1..31 /\ o.d \in 1..32 /\ n \in Nat \ {0}
      /\ o.d <= Length(o.y, o.m) /\ o.y \in Int /\ o.d \in Int
      /\ b.y = o.y /\ b.m = o.m /\ b.d = o.d
  <2>1. /\ o.y \in Nat /\ o.m \in Months /\ o.d \in 1..31 /\ n \in Nat \ {0}
        /\ o.d <= Length(o.y, o.m)
    BY OfferFacts
  <2>2. b.y = o.y /\ b.m = o.m /\ b.d = o.d
    BY DEF BoughtOn
  <2>3. o.d \in 1..32 /\ o.y \in Int /\ o.d \in Int
    BY <2>1
  <2> QED  BY <2>1, <2>2, <2>3
<1>2. /\ Eve(o.y, o.m) \in Int /\ DayOf(b) = Eve(o.y, o.m) + o.d
      /\ Length(o.y, o.m) \in Int /\ Length(o.y, o.m) >= 28
  <2>1. DayNo(o.y, o.m, o.d) = Eve(o.y, o.m) + o.d /\ Eve(o.y, o.m) \in Int
    BY <1>1, DayNoIs
  <2>2. DayOf(b) = DayNo(o.y, o.m, o.d)
    BY DEF DayOf, BoughtOn
  <2> QED  BY <1>1, <2>1, <2>2, EveTyped
<1> HIDE DEF b
<1>3. CASE o.unit = "Year"
  <2>1. EndOf(o) = Normal(o.y + n, o.m, o.d) /\ o.y + n \in Nat
    BY <1>1, <1>3 DEF EndOf, AddTime, b
  <2> HIDE DEF n
  <2>2. DayOf(EndOf(o)) = Eve(o.y + n, o.m) + o.d /\ Eve(o.y + n, o.m) \in Int
    <3>1. o.y + n \in Int
      BY <2>1
    <3>2. DayOf(Normal(o.y + n, o.m, o.d)) = DayNo(o.y + n, o.m, o.d)
      BY <1>1, <3>1, NormalDay
    <3> QED  BY <1>1, <2>1, <3>1, <3>2, DayNoIs
  <2>3. Eve(o.y, o.m) + Length(o.y, o.m) <= Eve(o.y + n, o.m)
    BY <1>1, <2>1, YearRises
  <2>4. /\ EndOf(o) \in Date /\ Exists(EndOf(o))
        /\ EndOf(o).d = o.d => EndOf(o) = [y |-> o.y + n, m |-> o.m, d |-> o.d]
    BY <1>1, <2>1, NormalExists
  <2> QED  BY <1>1, <1>2, <1>3, <2>2, <2>3, <2>4 DEF b, n
<1>4. CASE o.unit = "Month"
  <2> DEFINE k == o.m - 1 + n
             y == o.y + k \div 12
             m == (k % 12) + 1
  <2>1. /\ k \in Nat /\ k \div 12 \in Nat /\ m \in Months /\ y \in Nat
        /\ 12 * y + m = 12 * o.y + o.m + n
    <3>1. k \in Nat
      BY <1>1 DEF Months
    <3>2. /\ k \div 12 \in Nat /\ m \in Months /\ 12 * (k \div 12) + (k % 12) = k
      BY <3>1, MonthsAdded
    <3>3. k = o.m - 1 + n /\ o.m \in Nat /\ n \in Nat
      BY <1>1 DEF Months
    <3> HIDE DEF k, n
    <3>4. k % 12 \in Int
      BY <3>1
    <3> DEFINE a == k \div 12
               c == k % 12
    <3>5. 12 * (o.y + a) + (c + 1) = 12 * o.y + o.m + n
      <4>1. a \in Int /\ c \in Int /\ 12 * a + c = k
        BY <3>2, <3>4
      <4> HIDE DEF a, c
      <4> QED  BY <1>1, <3>3, <4>1
    <3>6. y \in Nat
      BY <1>1, <3>2
    <3> QED  BY <3>1, <3>2, <3>5, <3>6
  <2>2. EndOf(o) = Normal(y, m, o.d)
    BY <1>1, <1>4 DEF EndOf, AddTime, b
  <2> HIDE DEF y, m, k
  <2>3. DayOf(EndOf(o)) = Eve(y, m) + o.d /\ Eve(y, m) \in Int
    <3>1. y \in Int /\ m \in Months
      BY <2>1
    <3>2. DayOf(Normal(y, m, o.d)) = DayNo(y, m, o.d)
      BY <1>1, <3>1, NormalDay
    <3> QED  BY <1>1, <2>2, <3>1, <3>2, DayNoIs
  <2>4. Eve(o.y, o.m) + Length(o.y, o.m) <= Eve(y, m)
    <3>1. o.y < y \/ (o.y = y /\ o.m < m)
      BY <1>1, <2>1 DEF Months
    <3> QED  BY <1>1, <2>1, <3>1, YearRises, EveRises
  <2>5. /\ EndOf(o) \in Date /\ Exists(EndOf(o))
        /\ EndOf(o).d = o.d => EndOf(o) = [y |-> y, m |-> m, d |-> o.d]
    BY <1>1, <2>1, <2>2, NormalExists
  <2>6. EndOf(o).d = o.d => 12 * EndOf(o).y + EndOf(o).m = 12 * o.y + o.m + n
    BY <2>1, <2>5
  <2> QED  BY <1>1, <1>2, <1>4, <2>3, <2>4, <2>5, <2>6 DEF b
<1>5. CASE o.unit = "Day"
  <2>1. EndOf(o) = Normal(o.y, o.m, o.d + n) /\ o.d + n \in Int
    BY <1>1, <1>5 DEF EndOf, AddTime, b
  <2>2. DayOf(EndOf(o)) = Eve(o.y, o.m) + (o.d + n)
    BY <1>1, <2>1, NormalDay, DayNoIs
  <2> QED  BY <1>1, <1>2, <1>5, <2>2 DEF b
<1>6. CASE o.unit = "NoLimit"
  <2>1. EndOf(o) = [y |-> 1970, m |-> 1, d |-> 1]
    BY <1>6 DEF EndOf, AddTime, Epoch
  <2>2. DayOf(EndOf(o)) = DayNo(1970, 1, 1)
    BY <2>1 DEF DayOf
  <2>3. DayOf(EndOf(o)) \in Int
    <3>1. Leaps(1970) \in Int
      BY LeapStep, 1970 \in Int
    <3> QED  BY <2>2, <3>1, Tables DEF DayNo
  <2> QED  BY <1>1, <1>2, <1>6, <2>3 DEF b, Spans
<1>7. CASE o.unit = "Other"
  <2>1. EndOf(o) = b
    BY <1>7 DEF EndOf, AddTime, b
  <2> QED  BY <1>1, <1>2, <1>7, <2>1 DEF b, Spans
<1> QED  BY <1>3, <1>4, <1>5, <1>6, <1>7, OfferFacts DEF Spans

(***************************************************************************)
(* The invariant: today is an existing day; and on the terms of the        *)
(* purchase, if they are sensible, it lies between the purchase and the    *)
(* end.                                                                    *)
(***************************************************************************)
Inside ==
    /\ offer \in Sold /\ expiry = EndOf(offer)
    /\ DayOf(BoughtOn(offer)) <= DayOf(today)
    /\ DayOf(today) = DayOf(BoughtOn(offer)) => evening
    /\ offer.unit \in Spans => At(today, Quarter) <= At(EndOf(offer), 2)

DedInv  == DedTypeOK /\ (~revised /\ Sensible => Inside)
Running == DedTypeOK /\ Inside

LEMMA AtIs ==
    ASSUME NEW t, NEW q
    PROVE  At(t, q) = 4 * DayOf(t) + q
  BY DEF At, DayOf

LEMMA DateTyped ==
    ASSUME NEW t, t \in Date, t.d <= Length(t.y, t.m)
    PROVE  /\ Exists(t) /\ t.y \in Int /\ t.m \in Months /\ t.d \in 1..31
           /\ DayOf(t) \in Int
<1>1. t.y \in Nat /\ t.m \in Months /\ t.d \in 1..31
  BY DEF Date, Months
<1>2. t.y \in Int /\ t.d \in Int /\ t.d \in Nat \ {0}
  BY <1>1
<1> QED  BY <1>1, <1>2, DayNoIs DEF Exists, DayOf

LEMMA DedInitInv == DedInit => DedInv
<1> SUFFICES ASSUME DedInit  PROVE DedInv
  OBVIOUS
<1>1. /\ offer \in Offers /\ today = BoughtOn(offer) /\ evening = TRUE /\ spentOn = 0
      /\ expiry = EndOf(offer) /\ revised = FALSE
  BY DEF DedInit, BoughtOn, Expiry, EndOf
<1>2. DedTypeOK
  <2>1. offer \in Offer /\ offer.d <= Length(offer.y, offer.m)
    BY <1>1, OfferAssumption
  <2>2. today \in Date /\ today.d <= Length(today.y, today.m)
    BY <1>1, <2>1 DEF BoughtOn, Offer, Date
  <2> QED  BY <1>1, <2>1, <2>2 DEF DedTypeOK
<1>3. ASSUME Sensible  PROVE Inside
  <2> offer \in Sold
    BY <1>1, <1>3 DEF Sensible, Sold
  <2>1. /\ DayOf(EndOf(offer)) \in Int /\ DayOf(today) \in Int
        /\ offer.unit \in Spans => DayOf(EndOf(offer)) > DayOf(today)
    BY <1>1, EndFacts
  <2>2. offer.unit \in Spans \cup {"NoLimit", "Other"}
    BY <1>1, OfferFacts
  <2>3. At(today, Quarter) = 4 * DayOf(today) + 3 /\ At(EndOf(offer), 2) = 4 * DayOf(EndOf(offer)) + 2
    BY <1>1, AtIs DEF Quarter
  <2>4. offer.unit \in Spans => At(today, Quarter) <= At(EndOf(offer), 2)
    BY <2>1, <2>2, <2>3
  <2>5. DayOf(BoughtOn(offer)) <= DayOf(today)
    BY <1>1, <2>1
  <2> QED  BY <1>1, <2>4, <2>5 DEF Inside
<1> QED  BY <1>2, <1>3 DEF DedInv

LEMMA DedStepInv == DedInv /\ [DedNext]_dedVars => DedInv'
<1> SUFFICES ASSUME DedInv, [DedNext]_dedVars  PROVE DedInv'
  OBVIOUS
<1>1. CASE DayPasses
  <2>1. /\ today' = Next1(today) /\ evening' \in BOOLEAN /\ UNCHANGED <<offer, expiry>>
        /\ UNCHANGED <<spentOn, revised>>
        /\ offer.unit \in Spans => At(today', IF evening' THEN 3 ELSE 1) <= At(expiry, 2)
    BY <1>1 DEF DayPasses, Spans
  <2>2. /\ today \in Date /\ Exists(today) /\ DayOf(today) \in Int
    BY DateTyped DEF DedInv, DedTypeOK
  <2>3. today' \in Date /\ Exists(today') /\ DayOf(today') = DayOf(today) + 1
    BY <2>1, <2>2, NextDay
  <2>4. DedTypeOK'
    BY <2>1, <2>3 DEF DedInv, DedTypeOK, Exists
  <2>5. ASSUME Inside  PROVE Inside'
    <3>1. DayOf(BoughtOn(offer)) < DayOf(today') /\ DayOf(BoughtOn(offer)) \in Int
      BY <2>2, <2>3, <2>5, EndFacts DEF Inside
    <3>2. offer.unit \in Spans => At(today', Quarter') <= At(EndOf(offer), 2)
      BY <2>1, <2>5 DEF Quarter, Inside
    <3> QED  BY <2>1, <2>2, <2>3, <2>5, <3>1, <3>2 DEF Inside
  <2> QED  BY <2>1, <2>4, <2>5 DEF DedInv, Sensible
<1>2. CASE TrafficUsed
  BY <1>2 DEF TrafficUsed, DedInv, DedTypeOK, Inside, Quarter, Sensible
<1>3. CASE Revise
  <2> UNCHANGED <<today, evening>> /\ revised' = TRUE
    BY <1>3 DEF Revise
  <2>1. PICK r \in Revisions :
          /\ offer' = [unit |-> r.unit, cycle |-> r.cycle, share |-> r.share,
                      traffic |-> r.traffic, amount |-> r.amount,
                      quantity |-> r.quantity,
                      y |-> offer.y, m |-> offer.m, d |-> offer.d]
          /\ expiry' = r.end /\ spentOn' = r.used
    BY <1>3 DEF Revise
  <2>2. r \in Terms
    BY OfferAssumption
  <2>3. offer' \in Offer /\ spentOn' \in Nat
    BY <2>1, <2>2 DEF DedInv, DedTypeOK, Offer, Terms
  <2> QED  BY <2>1, <2>3 DEF DedInv, DedTypeOK
<1>4. CASE UNCHANGED dedVars
  BY <1>4 DEF dedVars, DedInv, DedTypeOK, Inside, Quarter, Sensible
<1> QED  BY <1>1, <1>2, <1>3, <1>4 DEF DedNext

(***************************************************************************)
(* The days of a unit: those left are part of all of them.                 *)
(***************************************************************************)
LEMMA DaysTyped ==
    ASSUME NEW a \in Int, NEW c \in Int, NEW k \in Int
    PROVE  /\ Days(a) \in Int
           /\ a <= c => Days(a) <= Days(c)
           /\ Days(4 * k) = k
           /\ 4 * k <= a /\ 0 <= k => k <= Days(a)
           /\ a <= 0 => Days(a) <= 0
           /\ a >= 0 => Days(a) >= 0
<1>1. Days(4 * k) = k
  BY DEF Days, Trunc
<1>2. a <= c => Days(a) <= Days(c)
  BY TruncRises DEF Days
<1>3. 4 * k <= a => Days(4 * k) <= Days(a)
  BY TruncRises, 4 * k \in Int DEF Days
<1>4. Days(a) \in Int /\ (a <= 0 => Days(a) <= 0) /\ (a >= 0 => Days(a) >= 0)
  BY TruncTyped DEF Days
<1> QED  BY <1>1, <1>2, <1>3, <1>4

LEMMA OneDay ==
    ASSUME NEW a \in Int, 4 <= a
    PROVE  Days(a) \in Nat \ {0}
<1>1. 4 * 1 <= a /\ 1 \in Int /\ 0 <= 1
  OBVIOUS
<1>2. 1 <= Days(a) /\ Days(a) \in Int
  BY <1>1, DaysTyped
<1> QED  BY <1>2

LEMMA TodayFacts ==
    ASSUME Running
    PROVE  /\ offer \in Sold
           /\ today \in Date /\ Exists(today) /\ today.y \in Int /\ today.m \in Months
           /\ today.d \in 1..31 /\ today.d <= Length(today.y, today.m)
           /\ DayOf(today) \in Int /\ DayOf(today) = Eve(today.y, today.m) + today.d
           /\ Quarter \in {1, 3} /\ At(today, Quarter) = 4 * DayOf(today) + Quarter
           /\ At(today, Quarter) \in Int
           /\ Bought = 4 * DayOf(BoughtOn(offer)) + 2 /\ Bought < At(today, Quarter)
           /\ DayOf(BoughtOn(offer)) \in Int
           /\ expiry = EndOf(offer)
<1>1. /\ offer \in Sold /\ today \in Date /\ today.d <= Length(today.y, today.m)
      /\ evening \in BOOLEAN
  BY DEF Running, DedTypeOK, Inside
<1>2. /\ Exists(today) /\ today.y \in Int /\ today.m \in Months /\ today.d \in 1..31
      /\ DayOf(today) \in Int
  BY <1>1, DateTyped
<1>3. DayOf(today) = Eve(today.y, today.m) + today.d
  BY <1>2, DayNoIs DEF DayOf
<1>4. Quarter \in {1, 3} /\ (evening => Quarter = 3)
  BY DEF Quarter
<1>5. At(today, Quarter) = 4 * DayOf(today) + Quarter
  BY AtIs
<1>6. Bought = 4 * DayOf(BoughtOn(offer)) + 2 /\ expiry = EndOf(offer)
  BY AtIs DEF Bought, BoughtOn, Running, Inside
<1>7. DayOf(BoughtOn(offer)) \in Int
  BY <1>1, EndFacts
<1>8. /\ DayOf(BoughtOn(offer)) <= DayOf(today)
      /\ DayOf(today) = DayOf(BoughtOn(offer)) => Quarter = 3
  BY <1>4 DEF Running, Inside
<1>9. Bought < At(today, Quarter) /\ At(today, Quarter) \in Int
  BY <1>2, <1>4, <1>5, <1>6, <1>7, <1>8
<1> QED  BY <1>1, <1>2, <1>3, <1>4, <1>5, <1>6, <1>7, <1>9

\* No reset: to the end.
LEMMA DaysOfTheWhole ==
    ASSUME Running, offer.unit \in Spans, offer.cycle = 0
    PROVE  /\ DaysLeft \in Nat /\ DaysInAll \in Nat \ {0} /\ DaysLeft <= DaysInAll
<1>1. /\ offer \in Sold /\ At(today, Quarter) \in Int /\ Bought < At(today, Quarter)
      /\ Bought = 4 * DayOf(BoughtOn(offer)) + 2 /\ expiry = EndOf(offer)
      /\ DayOf(BoughtOn(offer)) \in Int
  BY TodayFacts
<1>2. /\ DayOf(EndOf(offer)) \in Int /\ DayOf(EndOf(offer)) > DayOf(BoughtOn(offer))
  BY <1>1, OfferFacts, EndFacts
<1>3. At(expiry, 2) = 4 * DayOf(EndOf(offer)) + 2
  BY <1>1, AtIs
<1>4. At(today, Quarter) <= At(expiry, 2)
  BY <1>1 DEF Running, Inside
<1> DEFINE e == At(expiry, 2)
           t == At(today, Quarter)
<1>5. DaysLeft = Days(e - t) /\ DaysInAll = Days(e - Bought)
  BY DEF DaysLeft, DaysInAll
<1>6. /\ e \in Int /\ t \in Int /\ Bought \in Int /\ t <= e /\ Bought < t /\ Bought + 4 <= e
  BY <1>1, <1>2, <1>3, <1>4
<1> HIDE DEF e, t
<1>7. /\ e - t \in Int /\ e - Bought \in Int /\ e - t <= e - Bought /\ e - t >= 0
      /\ 4 <= e - Bought
  BY <1>6
<1>8. Days(e - t) <= Days(e - Bought) /\ Days(e - t) >= 0 /\ Days(e - t) \in Int
  BY <1>7, DaysTyped
<1>9. Days(e - Bought) \in Nat \ {0}
  BY <1>7, OneDay
<1> QED  BY <1>5, <1>8, <1>9

\* Reset on the first of a month.
LEMMA DaysOfTheMonth ==
    ASSUME Running, offer.cycle = 1
    PROVE  /\ DaysLeft \in Nat /\ DaysInAll \in Nat \ {0} /\ DaysLeft <= DaysInAll
<1> DEFINE l == Length(today.y, today.m)
           v == Eve(today.y, today.m)
           q == Quarter
<1>1. /\ today.y \in Int /\ today.m \in Months /\ today.d \in 1..31 /\ today.d <= l
      /\ DayOf(today) = v + today.d /\ q \in {1, 3} /\ At(today, q) = 4 * DayOf(today) + q
  BY TodayFacts
<1>2. v \in Int /\ l \in Int /\ l >= 28 /\ DayNo(today.y, today.m, 1) = v + 1
  BY <1>1, EveTyped, DayNoIs, 1 \in Int
<1>3. DaysLeft = Days(4 * (DayNo(today.y, today.m, 1) + l) - At(today, q)) /\ DaysInAll = l
  BY DEF DaysLeft, DaysInAll, DaysToNextMonth, GetLastDayOfMonth
<1> HIDE DEF l, v, q
<1> DEFINE k == 4 * (DayNo(today.y, today.m, 1) + l) - At(today, q)
<1>4. k \in Int /\ 0 <= k /\ k <= 4 * l
  BY <1>1, <1>2
<1> HIDE DEF k
<1>5. Days(k) \in Int /\ Days(k) >= 0 /\ Days(k) <= Days(4 * l) /\ Days(4 * l) = l
  BY <1>2, <1>4, DaysTyped, 4 * l \in Int
<1> QED  BY <1>2, <1>3, <1>5 DEF k

\* Reset on the day of the purchase: what the code takes for all the days are
\* those gone by, and there is one at least.
LEMMA DaysOfTheTarget ==
    ASSUME Running, offer.cycle = 2
    PROVE  /\ DaysLeft \in Nat /\ DaysInAll \in Nat \ {0} /\ DaysLeft <= DaysInAll
<1> DEFINE t == today
           q == Quarter
           d == offer.d
           g == LastTarget(t, d)
<1>1. /\ t.y \in Int /\ t.m \in Months /\ t.d \in 1..31 /\ t.d <= Length(t.y, t.m)
      /\ DayOf(t) = Eve(t.y, t.m) + t.d /\ q \in {1, 3} /\ At(t, q) = 4 * DayOf(t) + q
      /\ d \in 1..31
  BY TodayFacts, OfferFacts
<1>2. /\ Eve(t.y, t.m) \in Int /\ Length(t.y, t.m) \in Int
  BY <1>1, EveTyped
<1>3. DaysInAll = Days(At(t, q) - At(g, 0)) /\ DaysLeft = DaysInAll - 1
  BY DEF DaysLeft, DaysInAll, DaysToMonthDay
<1>4. DayOf(g) \in Int /\ DayOf(g) < DayOf(t)
  <2>1. CASE t.d > d
    <3>1. g = [y |-> t.y, m |-> t.m, d |-> d]
      BY <1>1, <1>2, <2>1 DEF LastTarget, ValidDate
    <3>2. DayOf(g) = Eve(t.y, t.m) + d
      BY <1>1, <3>1, DayNoIs DEF DayOf
    <3> QED  BY <1>1, <1>2, <2>1, <3>2
  <2>2. ASSUME NEW y \in Int, NEW m \in Months, ~(t.d > d), g = ValidDate(y, m, d),
               Eve(t.y, t.m) = Eve(y, m) + Length(y, m)
        PROVE  DayOf(g) \in Int /\ DayOf(g) < DayOf(t)
    <3>1. Length(y, m) \in Int /\ Length(y, m) >= 28 /\ Eve(y, m) \in Int
      BY EveTyped
    <3> DEFINE x == IF d > Length(y, m) THEN Length(y, m) ELSE d
    <3>2. g = [y |-> y, m |-> m, d |-> x]
      BY <2>2 DEF ValidDate
    <3>3. x \in Int /\ x <= Length(y, m)
      BY <1>1, <3>1
    <3> HIDE DEF x
    <3>4. DayOf(g) = Eve(y, m) + x
      BY <3>2, <3>3, DayNoIs DEF DayOf
    <3> QED  BY <1>1, <2>2, <3>1, <3>3, <3>4
  <2>3. CASE ~(t.d > d) /\ t.m = 1
    <3>1. t.y - 1 \in Int /\ 12 \in Months /\ g = ValidDate(t.y - 1, 12, d)
      BY <1>1, <2>3, Ends DEF LastTarget
    <3>2. Eve((t.y - 1) + 1, 1) = Eve(t.y - 1, 12) + Length(t.y - 1, 12)
      BY <3>1, EveStep
    <3>3. (t.y - 1) + 1 = t.y
      BY <1>1
    <3>4. Eve(t.y, t.m) = Eve(t.y - 1, 12) + Length(t.y - 1, 12)
      BY <2>3, <3>2, <3>3
    <3> QED  BY <2>2, <2>3, <3>1, <3>4
  <2>4. CASE ~(t.d > d) /\ t.m # 1
    <3>1. t.m - 1 \in Months /\ t.m - 1 # 12 /\ (t.m - 1) + 1 = t.m
      BY <1>1, <2>4 DEF Months
    <3>2. g = ValidDate(t.y, t.m - 1, d)
      BY <2>4 DEF LastTarget
    <3>3. Eve(t.y, (t.m - 1) + 1) = Eve(t.y, t.m - 1) + Length(t.y, t.m - 1)
      BY <1>1, <3>1, EveStep
    <3> QED  BY <1>1, <2>2, <2>4, <3>1, <3>2, <3>3
  <2> QED  BY <2>1, <2>3, <2>4
<1>5. At(g, 0) = 4 * DayOf(g) + 0 /\ DayOf(t) \in Int
  BY <1>1, <1>2, AtIs
<1> DEFINE k == At(t, q) - At(g, 0)
<1>6. k \in Int /\ 4 <= k
  <2> HIDE DEF t, q, g
  <2> QED  BY <1>1, <1>4, <1>5
<1> HIDE DEF k
<1>7. Days(k) \in Nat \ {0}
  BY <1>6, OneDay
<1> QED  BY <1>3, <1>7 DEF k

\* Reset on the date of the purchase: the days left are counted from the coming
\* date back to today and are not positive.
LEMMA DaysOfTheYear ==
    ASSUME Running, offer.cycle = 3
    PROVE  /\ DaysLeft \in Int /\ DaysLeft <= 0 /\ DaysInAll \in Nat \ {0}
<1> DEFINE t == today
           a == At(today, Quarter)
<1>1. /\ t.y \in Int /\ t.m \in Months /\ t.d \in 1..31 /\ t.d <= Length(t.y, t.m)
      /\ DayOf(t) = Eve(t.y, t.m) + t.d /\ Quarter \in {1, 3} /\ a = 4 * DayOf(t) + Quarter
      /\ a \in Int /\ offer.m \in Months /\ offer.d \in 1..31 /\ offer.d \in Int
  <2>1. offer.m \in Months /\ offer.d \in 1..31
    BY TodayFacts, OfferFacts
  <2> QED  BY <2>1, TodayFacts
<1>2. ASSUME NEW y \in Int
      PROVE  /\ SameDay(y) = 4 * (Eve(y, offer.m) + offer.d) /\ SameDay(y) \in Int
             /\ SameDay(y) + 4 <= SameDay(y + 1)
  <2>1. /\ Eve(y, offer.m) \in Int /\ Eve(y + 1, offer.m) \in Int
        /\ Length(y, offer.m) \in Int /\ Length(y, offer.m) >= 28
    BY <1>1, EveTyped, y + 1 \in Int
  <2>2. Eve(y, offer.m) + Length(y, offer.m) <= Eve(y + 1, offer.m)
    BY <1>1, YearRises, y + 1 \in Int, y < y + 1
  <2>3. /\ SameDay(y) = 4 * (Eve(y, offer.m) + offer.d)
        /\ SameDay(y + 1) = 4 * (Eve(y + 1, offer.m) + offer.d)
    <3>1. /\ DayNo(y, offer.m, offer.d) = Eve(y, offer.m) + offer.d
          /\ DayNo(y + 1, offer.m, offer.d) = Eve(y + 1, offer.m) + offer.d
      BY <1>1, DayNoIs, y + 1 \in Int
    <3> QED  BY <3>1 DEF SameDay
  <2> QED  BY <1>1, <2>1, <2>2, <2>3
<1>3. a <= SameDay(t.y + 1)
  <2>1. t.y + 1 \in Int /\ t.y < t.y + 1
    BY <1>1
  <2>2. Eve(t.y, t.m) + Length(t.y, t.m) <= Eve(t.y + 1, offer.m)
    BY <1>1, <2>1, YearRises
  <2>3. /\ Eve(t.y, t.m) \in Int /\ Length(t.y, t.m) \in Int /\ Eve(t.y + 1, offer.m) \in Int
    BY <1>1, <2>1, EveTyped
  <2>4. SameDay(t.y + 1) = 4 * (Eve(t.y + 1, offer.m) + offer.d)
    BY <1>2, <2>1
  <2> HIDE DEF t, a
  <2> QED  BY <1>1, <2>2, <2>3, <2>4
<1>4. DaysLeft \in Int /\ DaysLeft <= 0
  <2> DEFINE g == IF SameDay(t.y) < a THEN SameDay(t.y + 1) ELSE SameDay(t.y)
  <2>1. DaysLeft = Days(a - g)
    BY DEF DaysLeft, DaysToYearDay
  <2>2. g \in Int /\ a <= g
    BY <1>1, <1>2, <1>3, t.y + 1 \in Int
  <2> HIDE DEF g, a
  <2>3. a - g \in Int /\ a - g <= 0
    BY <1>1, <2>2
  <2> QED  BY <2>1, <2>3, DaysTyped
<1>5. DaysInAll \in Nat \ {0}
  <2>1. DaysInAll = IF SameDay(t.y) > a THEN Days(SameDay(t.y) - SameDay(t.y - 1))
                                        ELSE Days(SameDay(t.y + 1) - SameDay(t.y))
    BY DEF DaysInAll, GetYearDays
  <2>2. ASSUME NEW y \in Int  PROVE Days(SameDay(y + 1) - SameDay(y)) \in Nat \ {0}
    <3>1. SameDay(y) \in Int /\ SameDay(y + 1) \in Int /\ SameDay(y) + 4 <= SameDay(y + 1)
      BY <1>2, y + 1 \in Int
    <3> DEFINE k == SameDay(y + 1) - SameDay(y)
    <3>2. k \in Int /\ 4 <= k
      BY <3>1
    <3> HIDE DEF k
    <3>3. Days(k) \in Nat \ {0}
      BY <3>2, OneDay
    <3> QED  BY <3>3 DEF k
  <2>3. t.y - 1 \in Int /\ (t.y - 1) + 1 = t.y
    BY <1>1
  <2>4. Days(SameDay(t.y) - SameDay(t.y - 1)) \in Nat \ {0}
    BY <2>2, <2>3
  <2> QED  BY <1>1, <2>1, <2>2, <2>4
<1> QED  BY <1>4, <1>5

(***************************************************************************)
(* The amount of the running unit: no more than the unit cost.             *)
(***************************************************************************)
LEMMA Price ==
    ASSUME Running
    PROVE  /\ UnitPrice \in Nat /\ offer.quantity \in Nat \ {0} /\ offer.amount \in Nat
           /\ offer.quantity * UnitPrice <= offer.amount
<1>1. offer.amount \in Nat /\ offer.quantity \in Nat \ {0}
  BY TodayFacts, OfferFacts
<1>2. ASSUME NEW a \in Nat, NEW q \in Nat \ {0}
      PROVE  Trunc(a, q) \in Nat /\ q * Trunc(a, q) <= a
  <2>1. a \in Int /\ q * 0 <= a
    OBVIOUS
  <2>2. a \div q \in Int /\ q * (a \div q) <= a /\ 0 <= a \div q
    BY <2>1, DivBounds, DivMore, 0 \in Int
  <2>3. Trunc(a, q) = a \div q
    BY DEF Trunc
  <2> QED  BY <2>2, <2>3
<1> QED  BY <1>1, <1>2 DEF UnitPrice

LEMMA ProportionBounds ==
    ASSUME Running, NEW l \in Int, NEW a \in Nat \ {0}, l <= a
    PROVE  /\ Proportion(l, a) \in Int /\ Proportion(l, a) <= UnitPrice
           /\ l >= 0 => Proportion(l, a) >= 0
<1> DEFINE u == UnitPrice
<1>1. u \in Nat
  BY Price
<1> HIDE DEF u
<1>2. u * l \in Int /\ u * l <= a * u
  <2>1. u * l <= u * a /\ u * a = a * u
    BY <1>1, TimesLess, a \in Int
  <2> QED  BY <1>1, <2>1
<1>3. l >= 0 => u * l >= 0
  <2>1. l >= 0 => u * 0 <= u * l
    BY <1>1, TimesLess, 0 \in Int
  <2> QED  BY <1>1, <2>1
<1>4. Trunc(u * l, a) <= u
  BY <1>1, <1>2, TruncAtMost
<1>5. Trunc(u * l, a) \in Int /\ (u * l >= 0 => Trunc(u * l, a) >= 0)
  BY <1>2, TruncTyped
<1>6. Proportion(l, a) = Trunc(u * l, a)
  BY DEF Proportion, u
<1> QED  BY <1>3, <1>4, <1>5, <1>6 DEF u

\* The weighted mean of two parts.
LEMMA WeightedBounds ==
    ASSUME Running, offer.traffic # 0, DaysLeft \in Int, DaysInAll \in Nat \ {0},
           DaysLeft <= DaysInAll
    PROVE  /\ Weighted \in Int /\ Weighted <= UnitPrice
           /\ DaysLeft >= 0 /\ TrafficLeft >= 0 => Weighted >= 0
<1> DEFINE u == UnitPrice
           l == DaysLeft
           a == DaysInAll
           s == offer.share
           r == 100 - offer.share
           f == offer.traffic
           w == TrafficLeft
<1>1. /\ u \in Nat /\ l \in Int /\ a \in Nat \ {0} /\ l <= a /\ s \in Nat /\ r \in Nat
      /\ f \in Nat \ {0} /\ w \in Int /\ w <= f /\ r + s = 100
  <2>1. offer \in Sold /\ spentOn \in Nat
    BY DEF Running, DedTypeOK, Inside
  <2>2. offer.share \in 0..100 /\ offer.traffic \in Nat
    BY <2>1, OfferFacts
  <2>3. w = offer.traffic - spentOn
    BY DEF TrafficLeft
  <2> QED  BY <2>1, <2>2, <2>3, Price
<1>2. Weighted = Trunc(u * (r * l * f + s * w * a), 100 * a * f)
  BY DEF Weighted
<1> HIDE DEF u, l, a, s, r, f, w
<1> DEFINE x == r * l * f
           y == s * w * a
           b == 100 * a * f
<1>3. x <= r * a * f /\ x \in Int /\ (l >= 0 => x >= 0) /\ r * a * f \in Int
  <2>1. r * l \in Int /\ r * a \in Int /\ r * l <= r * a
    BY <1>1, TimesLess, a \in Int
  <2>2. (r * l) * f <= (r * a) * f
    BY <1>1, <2>1, TimesLess
  <2>3. l >= 0 => r * 0 <= r * l
    BY <1>1, TimesLess, 0 \in Int
  <2>4. l >= 0 => 0 * f <= (r * l) * f
    BY <1>1, <2>1, <2>3, TimesLess, 0 \in Int
  <2> QED  BY <1>1, <2>1, <2>2, <2>4
<1>4. y <= s * f * a /\ y \in Int /\ (w >= 0 => y >= 0) /\ s * f * a \in Int
  <2>1. s * w \in Int /\ s * f \in Int /\ s * w <= s * f
    BY <1>1, TimesLess, f \in Int
  <2>2. (s * w) * a <= (s * f) * a
    BY <1>1, <2>1, TimesLess
  <2>3. w >= 0 => s * 0 <= s * w
    BY <1>1, TimesLess, 0 \in Int
  <2>4. w >= 0 => 0 * a <= (s * w) * a
    BY <1>1, <2>1, <2>3, TimesLess, 0 \in Int
  <2> QED  BY <1>1, <2>1, <2>2, <2>4
<1>5. r * a * f + s * f * a = b
  <2>1. r = 100 - s /\ s \in Int
    BY <1>1
  <2> DEFINE p == a * f
  <2>2. r * a * f = r * p /\ s * f * a = s * p /\ b = 100 * p /\ p \in Int
    BY <1>1
  <2> HIDE DEF p
  <2>3. (100 - s) * p + s * p = 100 * p
    BY <2>1, <2>2
  <2> QED  BY <2>1, <2>2, <2>3
<1>6. b \in Nat \ {0}
  <2>1. a * f \in Nat
    BY <1>1
  <2>2. 1 * f <= a * f
    BY <1>1, TimesLess, 1 \in Int, a \in Int
  <2>3. a * f >= 1
    BY <1>1, <2>1, <2>2
  <2> DEFINE p == a * f
  <2>4. b = 100 * p
    BY <1>1
  <2> HIDE DEF p
  <2> QED  BY <2>1, <2>3, <2>4 DEF p
<1> HIDE DEF x, y, b
<1>7. x + y \in Int /\ x + y <= b /\ (l >= 0 /\ w >= 0 => x + y >= 0)
  BY <1>3, <1>4, <1>5, <1>6
<1>8. u * (x + y) \in Int /\ u * (x + y) <= b * u
  <2>1. u * (x + y) <= u * b /\ u * b = b * u
    BY <1>1, <1>6, <1>7, TimesLess, b \in Int
  <2> QED  BY <1>1, <1>7, <2>1
<1>9. x + y >= 0 => u * (x + y) >= 0
  <2>1. x + y >= 0 => u * 0 <= u * (x + y)
    BY <1>1, <1>7, TimesLess, 0 \in Int
  <2> QED  BY <1>1, <2>1
<1>10. Weighted = Trunc(u * (x + y), b)
  BY <1>2 DEF x, y, b
<1>11. Trunc(u * (x + y), b) <= u
  BY <1>1, <1>6, <1>8, TruncAtMost
<1>12. /\ Trunc(u * (x + y), b) \in Int
       /\ u * (x + y) >= 0 => Trunc(u * (x + y), b) >= 0
  BY <1>6, <1>8, TruncTyped
<1> QED  BY <1>7, <1>9, <1>10, <1>11, <1>12 DEF u, l, w

\* The running unit is worth between nothing and its price, while traffic is
\* left and the cycle is not the yearly one.
LEMMA RunningUnit ==
    ASSUME Running, offer.unit \in Spans
    PROVE  /\ UnitTimeAmount \in Int /\ UnitTimeAmount <= UnitPrice
           /\ offer.cycle # 3 /\ (TrafficLeft >= 0 \/ offer.traffic = 0)
                => UnitTimeAmount >= 0
<1>1. offer \in Sold /\ spentOn \in Nat
  BY DEF Running, DedTypeOK, Inside
<1>2. offer.cycle \in 0..3 /\ offer.traffic \in Nat /\ UnitPrice \in Nat
  BY <1>1, OfferFacts, Price
<1>3. /\ DaysLeft \in Int /\ DaysInAll \in Nat \ {0} /\ DaysLeft <= DaysInAll
      /\ offer.cycle # 3 => DaysLeft >= 0
  <2>1. CASE offer.cycle = 0
    BY <2>1, DaysOfTheWhole
  <2>2. CASE offer.cycle = 1
    BY <2>2, DaysOfTheMonth
  <2>3. CASE offer.cycle = 2
    BY <2>3, DaysOfTheTarget
  <2>4. CASE offer.cycle = 3
    BY <2>4, DaysOfTheYear
  <2> QED  BY <1>2, <2>1, <2>2, <2>3, <2>4
<1>4. /\ Proportion(DaysLeft, DaysInAll) \in Int
      /\ Proportion(DaysLeft, DaysInAll) <= UnitPrice
      /\ DaysLeft >= 0 => Proportion(DaysLeft, DaysInAll) >= 0
  BY <1>3, ProportionBounds
<1>5. TrafficLeft \in Int /\ TrafficLeft <= offer.traffic
  BY <1>1, <1>2 DEF TrafficLeft
<1>6. CASE offer.traffic = 0
  BY <1>3, <1>4, <1>6 DEF UnitTimeAmount
<1>7. CASE offer.traffic # 0 /\ offer.share # 0
  <2>1. UnitTimeAmount = Weighted
    BY <1>7 DEF UnitTimeAmount
  <2> QED  BY <1>3, <1>7, <2>1, WeightedBounds
<1>8. CASE offer.traffic # 0 /\ offer.share = 0
  <2>1. UnitTimeAmount = Smaller(Proportion(DaysLeft, DaysInAll),
                                 Proportion(TrafficLeft, offer.traffic))
    BY <1>8 DEF UnitTimeAmount
  <2>2. offer.traffic \in Nat \ {0}
    BY <1>2, <1>8
  <2>3. /\ Proportion(TrafficLeft, offer.traffic) \in Int
        /\ Proportion(TrafficLeft, offer.traffic) <= UnitPrice
        /\ TrafficLeft >= 0 => Proportion(TrafficLeft, offer.traffic) >= 0
    BY <1>5, <2>2, ProportionBounds
  <2> QED  BY <1>2, <1>3, <1>4, <1>8, <2>1, <2>3 DEF Smaller
<1> QED  BY <1>6, <1>7, <1>8

(***************************************************************************)
(* The whole units left.                                                   *)
(***************************************************************************)
LEMMA InOrder ==
    ASSUME NEW s, NEW t, Exists(s), Exists(t), s \in Date, t \in Date,
           DayOf(s) <= DayOf(t), DayOf(s) \in Int, DayOf(t) \in Int
    PROVE  /\ s.y \in Nat /\ s.m \in Months /\ s.d \in 1..31
           /\ t.y \in Nat /\ t.m \in Months /\ t.d \in 1..31
           /\ s = t \/ Later(s, t)
<1>1. ~Later(t, s)
  BY DaysInOrder DEF DayOf
<1>2. s = t \/ Later(s, t)
  BY <1>1, LaterOrNot
<1> QED  BY <1>2 DEF Date, Months

\* The months from one date to a later one.
LEMMA MonthsBetween ==
    ASSUME NEW s, NEW t, s.y \in Nat, s.m \in Months, s.d \in 1..31,
           t.y \in Nat, t.m \in Months, t.d \in 1..31, s = t \/ Later(s, t)
    PROVE  /\ 12 * s.y + s.m <= 12 * t.y + t.m
           /\ 12 * s.y + s.m = 12 * t.y + t.m => s.y = t.y /\ s.m = t.m /\ s.d <= t.d
<1>1. CASE s.y < t.y
  BY <1>1 DEF Months
<1>2. CASE s.y = t.y /\ s.m < t.m
  BY <1>2 DEF Months
<1>3. CASE s.y = t.y /\ s.m = t.m /\ s.d <= t.d
  BY <1>3 DEF Months
<1> QED  BY <1>1, <1>2, <1>3 DEF Later

\* The units left after the running one: one less than were paid at most.
WholeUnits ==
    CASE offer.unit = "Year"  -> YearDiff(today, expiry)
      [] offer.unit = "Month" -> MonthDiff(today, expiry)
      [] offer.unit = "Day"   -> DayDiff(At(today, Quarter), At(expiry, 2))

LEMMA UnitsLeft ==
    ASSUME Running, offer.unit \in Spans
    PROVE  /\ WholeUnits \in Int
           /\ \/ WholeUnits <= offer.quantity - 1
              \/ Overshot
              \/ offer.unit = "Year" /\ EndsOnDate
           /\ WholeUnits >= 0 \/ EndsOnDate
<1> DEFINE s == today
           b == BoughtOn(offer)
           e == EndOf(offer)
           n == offer.quantity
<1>1. /\ offer \in Sold /\ n \in Nat \ {0} /\ expiry = e
      /\ s \in Date /\ Exists(s) /\ DayOf(s) \in Int
      /\ b \in Date /\ Exists(b) /\ DayOf(b) \in Int /\ DayOf(e) \in Int
      /\ b.y = offer.y /\ b.m = offer.m /\ b.d = offer.d
  <2>1. offer \in Sold
    BY TodayFacts
  <2> QED  BY <2>1, TodayFacts, OfferFacts, EndFacts DEF BoughtOn
<1>2. /\ Quarter \in {1, 3} /\ At(s, Quarter) = 4 * DayOf(s) + Quarter
      /\ Bought = 4 * DayOf(b) + 2 /\ Bought < At(s, Quarter)
      /\ At(e, 2) = 4 * DayOf(e) + 2 /\ At(s, Quarter) <= At(e, 2)
  BY <1>1, TodayFacts, AtIs DEF Running, Inside
<1>3. DayOf(b) <= DayOf(s) /\ DayOf(s) <= DayOf(e)
  <2> HIDE DEF s, b, e
  <2> QED  BY <1>1, <1>2
<1>4. /\ b.y \in Nat /\ b.m \in Months /\ b.d \in 1..31
      /\ s.y \in Nat /\ s.m \in Months /\ s.d \in 1..31
      /\ b = s \/ Later(b, s)
  BY <1>1, <1>3, InOrder
<1>5. CASE offer.unit = "Year"
  <2>1. /\ e \in Date /\ Exists(e)
        /\ e.d = offer.d => e.y = offer.y + n /\ e.m = offer.m
    BY <1>1, <1>5, EndFacts
  <2>2. /\ e.y \in Nat /\ e.m \in Months /\ e.d \in 1..31
        /\ s = e \/ Later(s, e)
    BY <1>1, <1>3, <2>1, InOrder
  <2>3. WholeUnits = (e.y - s.y) - (IF e.m < s.m \/ (e.m = s.m /\ e.d < s.d) THEN 1 ELSE 0)
    BY <1>1, <1>5 DEF WholeUnits, YearDiff
  <2>4. EndsOnDate <=> s.m = e.m /\ s.d = e.d
    BY <1>1 DEF EndsOnDate
  <2>5. Overshot <=> e.d # offer.d
    BY <1>1, <1>5 DEF Overshot
  <2> HIDE DEF s, e, b, n
  <2>6. WholeUnits \in Int
    BY <1>4, <2>2, <2>3
  <2>7. WholeUnits <= n - 1 \/ Overshot \/ EndsOnDate
    BY <1>1, <1>4, <2>1, <2>2, <2>3, <2>4, <2>5 DEF Later, Months
  <2>8. WholeUnits >= 0 \/ EndsOnDate
    BY <1>4, <2>2, <2>3, <2>4 DEF Later, Months
  <2> QED  BY <1>5, <2>6, <2>7, <2>8 DEF n
<1>6. CASE offer.unit = "Month"
  <2>1. /\ e \in Date /\ Exists(e)
        /\ e.d = offer.d => 12 * e.y + e.m = 12 * offer.y + offer.m + n
    BY <1>1, <1>6, EndFacts
  <2>2. /\ e.y \in Nat /\ e.m \in Months /\ e.d \in 1..31
        /\ s = e \/ Later(s, e)
    BY <1>1, <1>3, <2>1, InOrder
  <2>3. WholeUnits = (e.y - s.y) * 12 + (e.m - s.m) - (IF e.d <= s.d THEN 1 ELSE 0)
    BY <1>1, <1>6 DEF WholeUnits, MonthDiff
  <2>4. EndsOnDate <=> s.m = e.m /\ s.d = e.d
    BY <1>1 DEF EndsOnDate
  <2>5. Overshot <=> e.d # offer.d
    BY <1>1, <1>6 DEF Overshot
  <2> HIDE DEF s, e, b, n
  <2>6. WholeUnits \in Int
    BY <1>4, <2>2, <2>3 DEF Months
  <2> DEFINE x == 12 * b.y + b.m
             y == 12 * s.y + s.m
             z == 12 * e.y + e.m
  <2>7. /\ x \in Int /\ y \in Int /\ z \in Int
        /\ WholeUnits = z - y - (IF e.d <= s.d THEN 1 ELSE 0)
    <3>1. /\ b.y \in Int /\ b.m \in Int /\ s.y \in Int /\ s.m \in Int
          /\ e.y \in Int /\ e.m \in Int
      BY <1>4, <2>2 DEF Months
    <3>2. (e.y - s.y) * 12 + (e.m - s.m) = z - y
      BY <3>1
    <3> QED  BY <2>3, <3>1, <3>2
  <2>8. b.d \in Int /\ s.d \in Int /\ e.d \in Int
    BY <1>4, <2>2
  <2>9. x <= y /\ (x = y => b.d <= s.d)
    BY <1>4, MonthsBetween
  <2>10. y <= z /\ (y = z => s.m = e.m /\ s.d <= e.d)
    BY <1>4, <2>2, MonthsBetween
  <2>11. e.d = offer.d => z = x + n
    BY <1>1, <2>1
  <2> HIDE DEF x, y, z
  <2>12. WholeUnits <= n - 1 \/ Overshot
    BY <1>1, <2>5, <2>7, <2>8, <2>9, <2>11
  <2>13. WholeUnits >= 0 \/ EndsOnDate
    BY <2>4, <2>7, <2>8, <2>10
  <2> QED  BY <2>6, <2>12, <2>13 DEF n
<1>7. CASE offer.unit = "Day"
  <2> DEFINE k == At(e, 2) - At(s, Quarter)
  <2>1. WholeUnits = Days(k)
    BY <1>1, <1>7 DEF WholeUnits, DayDiff
  <2>2. DayOf(e) = DayOf(b) + n
    BY <1>1, <1>7, EndFacts
  <2> HIDE DEF s, b, e, n
  <2>3. k \in Int /\ 0 <= k /\ k <= 4 * n - 1
    BY <1>1, <1>2, <2>2
  <2> HIDE DEF k
  <2>4. Days(k) \in Int /\ Days(k) >= 0
    BY <2>3, DaysTyped
  <2>5. Days(k) <= n - 1
    <3>1. Days(k) = k \div 4
      BY <2>3 DEF Days, Trunc
    <3>2. k < 4 * (n - 1) + 4 /\ n - 1 \in Int
      BY <1>1, <2>3
    <3> QED  BY <2>3, <3>1, <3>2, DivLess
  <2> QED  BY <2>1, <2>4, <2>5 DEF n
<1> QED  BY <1>1, <1>5, <1>6, <1>7, OfferFacts DEF Spans

(***************************************************************************)
(* What is given back.                                                     *)
(***************************************************************************)
LEMMA RemainingIs ==
    ASSUME Running, offer.unit \in Spans
    PROVE  Remaining = WholeUnits * UnitPrice + UnitTimeAmount
<1>1. offer.unit \in Spans \cup {"NoLimit", "Other"}
  BY TodayFacts, OfferFacts
<1> QED  BY <1>1 DEF Remaining, WholeUnits, Spans

LEMMA DedSafe == DedInv => RefundInRange
<1> SUFFICES ASSUME Running  PROVE RefundInRange
  BY DEF DedInv, Running, RefundInRange
<1>1. offer \in Sold /\ spentOn \in Nat
  BY DEF Running, DedTypeOK, Inside
<1>2. /\ offer.traffic \in Nat /\ offer.amount \in Nat
      /\ offer.unit = "NoLimit" => offer.traffic > 0
  BY <1>1, OfferFacts
<1>3. CASE offer.unit = "NoLimit"
  <2>1. CASE offer.cycle # 0
    BY <1>2, <1>3, <2>1 DEF RefundInRange, Remaining
  <2>2. CASE offer.cycle = 0
    <3> DEFINE f == offer.traffic
               w == TrafficLeft
               a == offer.amount
    <3>1. Remaining = Trunc(w * a, f)
      BY <1>3, <2>2 DEF Remaining
    <3>2. /\ f \in Nat \ {0} /\ w \in Int /\ w <= f /\ a \in Nat
          /\ ~(spentOn > offer.traffic) => w >= 0
      BY <1>1, <1>2, <1>3 DEF TrafficLeft
    <3> HIDE DEF f, w, a
    <3>3. w * a \in Int /\ w * a <= f * a
      BY <3>2, TimesLess, f \in Int
    <3>4. w >= 0 => w * a >= 0
      <4>1. w >= 0 => 0 * a <= w * a
        BY <3>2, TimesLess, 0 \in Int
      <4> QED  BY <3>2, <4>1
    <3>5. Trunc(w * a, f) <= a
      BY <3>2, <3>3, TruncAtMost
    <3>6. w >= 0 => Trunc(w * a, f) >= 0
      BY <3>2, <3>3, <3>4, TruncTyped
    <3> QED  BY <1>2, <1>3, <3>1, <3>2, <3>5, <3>6 DEF RefundInRange, a
  <2> QED  BY <2>1, <2>2
<1>4. CASE offer.unit \in Spans
  <2> DEFINE u == UnitPrice
             k == WholeUnits
             r == UnitTimeAmount
             n == offer.quantity
  <2>1. Remaining = k * u + r
    BY <1>4, RemainingIs
  <2>2. /\ u \in Nat /\ n \in Nat \ {0} /\ n * u <= offer.amount /\ n * u \in Int
    BY Price
  <2>3. /\ r \in Int /\ r <= u
        /\ offer.cycle # 3 /\ ~(spentOn > offer.traffic /\ offer.traffic > 0)
             => r >= 0
    BY <1>1, <1>2, <1>4, RunningUnit DEF TrafficLeft
  <2>4. /\ k \in Int
        /\ \/ k <= n - 1
           \/ Overshot
           \/ offer.unit = "Year" /\ EndsOnDate
        /\ k >= 0 \/ EndsOnDate
    BY <1>4, UnitsLeft
  <2> HIDE DEF u, k, r, n
  <2>5. k <= n - 1 => Remaining <= offer.amount
    <3> SUFFICES ASSUME k <= n - 1  PROVE Remaining <= offer.amount
      OBVIOUS
    <3>1. k * u <= (n - 1) * u
      BY <2>2, <2>4, TimesLess, n - 1 \in Int
    <3>2. (n - 1) * u = n * u - u /\ k * u \in Int
      BY <2>2, <2>4
    <3> QED  BY <1>2, <2>1, <2>2, <2>3, <3>1, <3>2
  <2>6. k >= 0 /\ r >= 0 => Remaining >= 0
    <3>1. k >= 0 => k * u >= 0
      BY <2>2, <2>4, TimesLess, 0 \in Int, 0 * u = 0
    <3>2. k * u \in Int
      BY <2>2, <2>4
    <3> QED  BY <2>1, <2>3, <3>1, <3>2
  <2> QED  BY <2>3, <2>4, <2>5, <2>6 DEF RefundInRange
<1>5. CASE offer.unit = "Other"
  BY <1>2, <1>5 DEF RefundInRange, Remaining
<1> QED  BY <1>1, <1>3, <1>4, <1>5, OfferFacts

\* Every date the program looks at exists; and on the terms of the purchase, if
\* they are sensible, it lies between the purchase and the end.
THEOREM DedInvHolds == DedSpec => []DedInv
<1> QED  BY DedInitInv, DedStepInv, PTL DEF DedSpec

THEOREM DedTypeCorrect == DedSpec => []DedTypeOK
<1>1. DedInv => DedTypeOK
  BY DEF DedInv
<1> QED  BY <1>1, DedInvHolds, PTL

THEOREM RefundIsInRange == DedSpec => []RefundInRange
<1> QED  BY DedSafe, DedInvHolds, PTL

(***************************************************************************)
(* What is given back only falls.  The amount of a plan without a cycle,   *)
(* as a function of the time and of the traffic left.                      *)
(***************************************************************************)
LeftAt(o, t, q) == Days(At(EndOf(o), 2) - At(t, q))
AllOf(o)   == Days(At(EndOf(o), 2) - At(BoughtOn(o), 2))
PriceOf(o) == Trunc(o.amount, o.quantity)
Mean(o, l, w) ==
    Trunc(PriceOf(o) * ((100 - o.share) * l * o.traffic + o.share * w * AllOf(o)),
          100 * AllOf(o) * o.traffic)
UnitOf(o, l, w) ==
    IF o.traffic = 0 THEN Trunc(PriceOf(o) * l, AllOf(o))
    ELSE IF o.share # 0 THEN Mean(o, l, w)
    ELSE Smaller(Trunc(PriceOf(o) * l, AllOf(o)), Trunc(PriceOf(o) * w, o.traffic))
WholeOf(o, t, q) ==
    CASE o.unit = "Year"  -> YearDiff(t, EndOf(o))
      [] o.unit = "Month" -> MonthDiff(t, EndOf(o))
      [] o.unit = "Day"   -> LeftAt(o, t, q)
WorthOf(o, t, q, w) ==
    IF o.unit = "Other" THEN 0
    ELSE IF o.unit = "NoLimit" THEN Trunc(w * o.amount, o.traffic)
    ELSE WholeOf(o, t, q) * PriceOf(o) + UnitOf(o, LeftAt(o, t, q), w)

LEMMA AllTyped ==
    ASSUME NEW o \in Sold, o.unit \in Spans
    PROVE  AllOf(o) \in Nat \ {0}
<1>1. /\ DayOf(EndOf(o)) \in Int /\ DayOf(BoughtOn(o)) \in Int
      /\ DayOf(EndOf(o)) > DayOf(BoughtOn(o))
  BY OfferFacts, EndFacts
<1>2. /\ At(EndOf(o), 2) = 4 * DayOf(EndOf(o)) + 2
      /\ At(BoughtOn(o), 2) = 4 * DayOf(BoughtOn(o)) + 2
  BY AtIs
<1> DEFINE k == At(EndOf(o), 2) - At(BoughtOn(o), 2)
<1>3. k \in Int /\ 4 <= k
  BY <1>1, <1>2
<1> HIDE DEF k
<1> QED  BY <1>3, OneDay DEF AllOf, k

LEMMA PriceTyped ==
    ASSUME NEW o \in Sold
    PROVE  PriceOf(o) \in Nat
<1>1. o.amount \in Nat /\ o.quantity \in Nat \ {0}
  BY OfferFacts
<1> QED  BY <1>1, TruncTyped, o.amount \in Int DEF PriceOf

\* The weighted mean rises with each of its parts.
LEMMA MeanRises ==
    ASSUME NEW o \in Sold, o.unit \in Spans, o.traffic # 0,
           NEW l \in Int, NEW k \in Int, NEW w \in Int, NEW v \in Int, k <= l, v <= w
    PROVE  Mean(o, l, w) \in Int /\ Mean(o, k, v) \in Int /\ Mean(o, k, v) <= Mean(o, l, w)
<1> DEFINE u == PriceOf(o)
           a == AllOf(o)
           s == o.share
           r == 100 - o.share
           f == o.traffic
<1>1. /\ u \in Nat /\ a \in Nat \ {0} /\ s \in Nat /\ r \in Nat /\ f \in Nat \ {0}
  <2>1. s \in 0..100 /\ f \in Nat
    BY OfferFacts
  <2> QED  BY <2>1, AllTyped, PriceTyped
<1>2. /\ Mean(o, l, w) = Trunc(u * (r * l * f + s * w * a), 100 * a * f)
      /\ Mean(o, k, v) = Trunc(u * (r * k * f + s * v * a), 100 * a * f)
  BY DEF Mean
<1> HIDE DEF u, a, s, r, f
<1> DEFINE x == r * l * f
           y == s * w * a
           p == r * k * f
           q == s * v * a
           b == 100 * a * f
<1>3. x \in Int /\ p \in Int /\ p <= x
  <2>1. r * l \in Int /\ r * k \in Int /\ r * k <= r * l
    BY <1>1, TimesLess
  <2>2. (r * k) * f <= (r * l) * f
    BY <1>1, <2>1, TimesLess
  <2> QED  BY <1>1, <2>1, <2>2
<1>4. y \in Int /\ q \in Int /\ q <= y
  <2>1. s * w \in Int /\ s * v \in Int /\ s * v <= s * w
    BY <1>1, TimesLess
  <2>2. (s * v) * a <= (s * w) * a
    BY <1>1, <2>1, TimesLess
  <2> QED  BY <1>1, <2>1, <2>2
<1>5. b \in Nat \ {0}
  <2> DEFINE g == a * f
  <2>1. g \in Nat /\ 1 * f <= g
    BY <1>1, TimesLess, 1 \in Int, a \in Int
  <2>2. b = 100 * g
    BY <1>1
  <2> HIDE DEF g
  <2> QED  BY <1>1, <2>1, <2>2
<1>6. /\ Mean(o, l, w) = Trunc(u * (x + y), b)
      /\ Mean(o, k, v) = Trunc(u * (p + q), b)
  BY <1>2
<1> HIDE DEF x, y, p, q, b
<1>7. x + y \in Int /\ p + q \in Int /\ p + q <= x + y
  BY <1>3, <1>4
<1>8. u * (x + y) \in Int /\ u * (p + q) \in Int /\ u * (p + q) <= u * (x + y)
  <2>1. u * (p + q) <= u * (x + y)
    BY <1>1, <1>7, TimesLess
  <2> QED  BY <1>1, <1>7, <2>1
<1> QED  BY <1>5, <1>6, <1>8, TruncRises, TruncTyped

LEMMA ShareRises ==
    ASSUME NEW u \in Nat, NEW a \in Nat \ {0}, NEW l \in Int, NEW k \in Int, k <= l
    PROVE  /\ Trunc(u * k, a) \in Int /\ Trunc(u * l, a) \in Int
           /\ Trunc(u * k, a) <= Trunc(u * l, a)
<1>1. u * k \in Int /\ u * l \in Int
  OBVIOUS
<1>2. u * k <= u * l
  BY TimesLess
<1> QED  BY <1>1, <1>2, TruncRises, TruncTyped

LEMMA UnitRises ==
    ASSUME NEW o \in Sold, o.unit \in Spans,
           NEW l \in Int, NEW k \in Int, NEW w \in Int, NEW v \in Int, k <= l, v <= w
    PROVE  UnitOf(o, l, w) \in Int /\ UnitOf(o, k, v) \in Int /\ UnitOf(o, k, v) <= UnitOf(o, l, w)
<1>1. PriceOf(o) \in Nat /\ AllOf(o) \in Nat \ {0} /\ o.traffic \in Nat
  BY AllTyped, PriceTyped, OfferFacts
<1> DEFINE u == PriceOf(o)
           a == AllOf(o)
<1>2. /\ Trunc(u * k, a) \in Int /\ Trunc(u * l, a) \in Int /\ Trunc(u * k, a) <= Trunc(u * l, a)
  BY <1>1, ShareRises
<1>3. CASE o.traffic = 0
  BY <1>2, <1>3 DEF UnitOf
<1>4. CASE o.traffic # 0 /\ o.share # 0
  BY <1>4, MeanRises DEF UnitOf
<1>5. CASE o.traffic # 0 /\ o.share = 0
  <2>1. o.traffic \in Nat \ {0}
    BY <1>1, <1>5
  <2>2. /\ Trunc(u * v, o.traffic) \in Int /\ Trunc(u * w, o.traffic) \in Int
        /\ Trunc(u * v, o.traffic) <= Trunc(u * w, o.traffic)
    BY <1>1, <2>1, ShareRises
  <2> QED  BY <1>2, <1>5, <2>2 DEF UnitOf, Smaller
<1> QED  BY <1>3, <1>4, <1>5

\* A later date has no more whole units left.
LEMMA WholeFalls ==
    ASSUME NEW o \in Sold, o.unit \in Spans, NEW s, NEW t, NEW q \in Int, NEW p \in Int,
           s \in Date, t \in Date, Exists(s), Exists(t),
           DayOf(s) \in Int, DayOf(t) \in Int, DayOf(s) <= DayOf(t), At(s, q) <= At(t, p)
    PROVE  /\ LeftAt(o, s, q) \in Int /\ LeftAt(o, t, p) \in Int
           /\ LeftAt(o, t, p) <= LeftAt(o, s, q)
           /\ WholeOf(o, s, q) \in Int /\ WholeOf(o, t, p) \in Int
           /\ WholeOf(o, t, p) <= WholeOf(o, s, q)
<1> DEFINE e == EndOf(o)
<1>1. /\ LeftAt(o, s, q) \in Int /\ LeftAt(o, t, p) \in Int
      /\ LeftAt(o, t, p) <= LeftAt(o, s, q)
  <2> DEFINE x == At(e, 2) - At(s, q)
             y == At(e, 2) - At(t, p)
  <2>1. DayOf(e) \in Int
    BY EndFacts
  <2>2. At(e, 2) = 4 * DayOf(e) + 2 /\ At(s, q) = 4 * DayOf(s) + q /\ At(t, p) = 4 * DayOf(t) + p
    BY AtIs
  <2>3. x \in Int /\ y \in Int /\ y <= x
    <3> HIDE DEF e
    <3> QED  BY <2>1, <2>2
  <2> HIDE DEF x, y
  <2>4. Days(x) \in Int /\ Days(y) \in Int /\ Days(y) <= Days(x)
    BY <2>3, DaysTyped, 0 \in Int
  <2> QED  BY <2>4 DEF LeftAt, x, y
<1>2. /\ s.y \in Nat /\ s.m \in Months /\ s.d \in 1..31
      /\ t.y \in Nat /\ t.m \in Months /\ t.d \in 1..31
      /\ s = t \/ Later(s, t)
  BY InOrder
<1>3. CASE o.unit = "Day"
  BY <1>1, <1>3 DEF WholeOf
<1>4. ASSUME o.unit \in {"Year", "Month"}
      PROVE e.y \in Nat /\ e.m \in Months /\ e.d \in 1..31
  BY <1>4, EndFacts DEF Date, Months
<1>5. CASE o.unit = "Year"
  <2>1. /\ WholeOf(o, s, q) = (e.y - s.y) - (IF e.m < s.m \/ (e.m = s.m /\ e.d < s.d) THEN 1 ELSE 0)
        /\ WholeOf(o, t, p) = (e.y - t.y) - (IF e.m < t.m \/ (e.m = t.m /\ e.d < t.d) THEN 1 ELSE 0)
    BY <1>5 DEF WholeOf, YearDiff
  <2>2. e.y \in Nat /\ e.m \in Months /\ e.d \in 1..31
    BY <1>4, <1>5
  <2> HIDE DEF e
  <2>3. WholeOf(o, s, q) \in Int /\ WholeOf(o, t, p) \in Int
    BY <1>2, <2>1, <2>2
  <2>4. WholeOf(o, t, p) <= WholeOf(o, s, q)
    BY <1>2, <2>1, <2>2 DEF Later, Months
  <2> QED  BY <1>1, <2>3, <2>4
<1>6. CASE o.unit = "Month"
  <2> DEFINE x == 12 * s.y + s.m
             y == 12 * t.y + t.m
             z == 12 * e.y + e.m
  <2>1. WholeOf(o, s, q) = MonthDiff(s, e) /\ WholeOf(o, t, p) = MonthDiff(t, e)
    BY <1>6 DEF WholeOf
  <2>2. e.y \in Nat /\ e.m \in Months /\ e.d \in 1..31
    BY <1>4, <1>6
  <2> HIDE DEF e
  <2>3. /\ s.y \in Int /\ s.m \in Int /\ t.y \in Int /\ t.m \in Int
        /\ e.y \in Int /\ e.m \in Int /\ e.d \in Int /\ s.d \in Int /\ t.d \in Int
    BY <1>2, <2>2 DEF Months
  <2>4. x \in Int /\ y \in Int /\ z \in Int
    BY <2>3
  <2>5. MonthDiff(s, e) = z - x - (IF e.d <= s.d THEN 1 ELSE 0)
    BY <2>3 DEF MonthDiff
  <2>6. MonthDiff(t, e) = z - y - (IF e.d <= t.d THEN 1 ELSE 0)
    BY <2>3 DEF MonthDiff
  <2>7. x <= y /\ (x = y => s.d <= t.d)
    BY <1>2, MonthsBetween
  <2> HIDE DEF x, y, z
  <2>8. /\ WholeOf(o, s, q) = z - x - (IF e.d <= s.d THEN 1 ELSE 0)
        /\ WholeOf(o, t, p) = z - y - (IF e.d <= t.d THEN 1 ELSE 0)
    BY <2>1, <2>5, <2>6
  <2>9. WholeOf(o, s, q) \in Int /\ WholeOf(o, t, p) \in Int
    BY <2>4, <2>8
  <2>10. WholeOf(o, t, p) <= WholeOf(o, s, q)
    BY <2>3, <2>4, <2>7, <2>8
  <2> QED  BY <1>1, <2>9, <2>10
<1> QED  BY <1>1, <1>3, <1>5, <1>6, OfferFacts DEF Spans

LEMMA WorthFalls ==
    ASSUME NEW o \in Sold, NEW s, NEW t, NEW q \in Int, NEW p \in Int,
           s \in Date, t \in Date, Exists(s), Exists(t),
           DayOf(s) \in Int, DayOf(t) \in Int, DayOf(s) <= DayOf(t), At(s, q) <= At(t, p),
           NEW w \in Int, NEW v \in Int, v <= w
    PROVE  WorthOf(o, t, p, v) <= WorthOf(o, s, q, w)
<1>1. CASE o.unit = "NoLimit"
  <2>1. o.traffic \in Nat \ {0} /\ o.amount \in Nat
    BY <1>1, OfferFacts
  <2>2. v * o.amount <= w * o.amount /\ v * o.amount \in Int /\ w * o.amount \in Int
    BY <2>1, TimesLess
  <2> QED  BY <1>1, <2>1, <2>2, TruncRises DEF WorthOf
<1>2. CASE o.unit \in Spans
  <2> DEFINE u == PriceOf(o)
             j == WholeOf(o, s, q)
             k == WholeOf(o, t, p)
             x == UnitOf(o, LeftAt(o, s, q), w)
             y == UnitOf(o, LeftAt(o, t, p), v)
  <2>1. /\ LeftAt(o, s, q) \in Int /\ LeftAt(o, t, p) \in Int
        /\ LeftAt(o, t, p) <= LeftAt(o, s, q)
        /\ j \in Int /\ k \in Int /\ k <= j
    BY <1>2, WholeFalls
  <2>2. x \in Int /\ y \in Int /\ y <= x
    BY <1>2, <2>1, UnitRises
  <2>3. u \in Nat
    BY PriceTyped
  <2>4. WorthOf(o, s, q, w) = j * u + x /\ WorthOf(o, t, p, v) = k * u + y
    BY <1>2 DEF WorthOf, Spans
  <2> HIDE DEF u, j, k, x, y
  <2>5. k * u <= j * u /\ k * u \in Int /\ j * u \in Int
    BY <2>1, <2>3, TimesLess
  <2> QED  BY <2>2, <2>4, <2>5
<1>3. CASE o.unit = "Other"
  BY <1>3 DEF WorthOf
<1> QED  BY <1>1, <1>2, <1>3, OfferFacts

LEMMA RemainingIsWorth ==
    ASSUME Running, offer.cycle = 0
    PROVE  Remaining = WorthOf(offer, today, Quarter, TrafficLeft)
<1>1. expiry = EndOf(offer) /\ Bought = At(BoughtOn(offer), 2)
  BY DEF Running, Inside, Bought, BoughtOn
<1>2. UnitPrice = PriceOf(offer) /\ offer.unit \in Spans \cup {"NoLimit", "Other"}
  BY TodayFacts, OfferFacts DEF UnitPrice, PriceOf
<1>3. DaysLeft = LeftAt(offer, today, Quarter) /\ DaysInAll = AllOf(offer)
  BY <1>1 DEF DaysLeft, DaysInAll, LeftAt, AllOf
<1>4. CASE offer.unit = "NoLimit"
  BY <1>4 DEF Remaining, WorthOf
<1>5. CASE offer.unit \in Spans
  <2>1. Remaining = WholeUnits * UnitPrice + UnitTimeAmount
    BY <1>5, RemainingIs
  <2>2. WholeUnits = WholeOf(offer, today, Quarter)
    BY <1>1, <1>2, <1>5 DEF WholeUnits, WholeOf, DayDiff, LeftAt, Spans
  <2>3. UnitTimeAmount = UnitOf(offer, LeftAt(offer, today, Quarter), TrafficLeft)
    BY <1>2, <1>3 DEF UnitTimeAmount, UnitOf, Weighted, Mean, Proportion
  <2> QED  BY <1>2, <1>5, <2>1, <2>2, <2>3 DEF WorthOf, Spans
<1>6. CASE offer.unit = "Other"
  BY <1>6 DEF Remaining, WorthOf
<1> QED  BY <1>2, <1>4, <1>5, <1>6

WorthInv ==
    ~revised /\ Sensible /\ offer.cycle = 0 =>
        Remaining = WorthOf(offer, today, Quarter, TrafficLeft)

LEMMA DedStepFalls ==
    DedInv /\ DedInv' /\ WorthInv /\ WorthInv' /\ [DedNext]_dedVars
        => [ \/ revised' \/ ~Sensible \/ offer.cycle # 0
             \/ Remaining' <= Remaining ]_dedVars
<1> SUFFICES ASSUME DedInv, DedInv', WorthInv, WorthInv', [DedNext]_dedVars, offer.cycle = 0,
                    dedVars' # dedVars, ~revised', Sensible
             PROVE  Remaining' <= Remaining
  BY DEF dedVars
<1> DEFINE s == today
           t == today'
           q == Quarter
           p == Quarter'
           w == TrafficLeft
           v == TrafficLeft'
<1>1. DedNext
  OBVIOUS
<1>2. ~Revise
  BY DEF Revise
<1>3. offer' = offer /\ ~revised /\ Sensible' /\ offer \in Sold
  BY <1>1, <1>2 DEF DedNext, DayPasses, TrafficUsed, DedInv, Inside, Sensible
<1>4. Remaining = WorthOf(offer, s, q, w) /\ Remaining' = WorthOf(offer, t, p, v)
  BY <1>3 DEF WorthInv
<1>5. /\ s \in Date /\ Exists(s) /\ DayOf(s) \in Int
      /\ t \in Date /\ Exists(t) /\ DayOf(t) \in Int
      /\ q \in {1, 3} /\ p \in {1, 3} /\ spentOn \in Nat /\ spentOn' \in Nat
  BY DateTyped DEF DedInv, DedTypeOK, Quarter
<1>6. At(s, q) = 4 * DayOf(s) + q /\ At(t, p) = 4 * DayOf(t) + p
  BY AtIs
<1>7. offer.traffic \in Nat
  BY <1>3, OfferFacts
<1>8. w = offer.traffic - spentOn /\ v = offer.traffic - spentOn'
  BY <1>3 DEF TrafficLeft
<1>9. CASE DayPasses
  <2>1. t = Next1(s) /\ spentOn' = spentOn
    BY <1>9 DEF DayPasses
  <2>2. DayOf(t) = DayOf(s) + 1
    BY <1>5, <2>1, NextDay
  <2> HIDE DEF s, t, q, p, w, v
  <2>3. DayOf(s) <= DayOf(t) /\ At(s, q) <= At(t, p) /\ v <= w /\ v \in Int /\ w \in Int
    BY <1>5, <1>6, <1>7, <1>8, <2>1, <2>2
  <2>4. q \in Int /\ p \in Int
    BY <1>5
  <2> QED  BY <1>3, <1>4, <1>5, <2>3, <2>4, WorthFalls
<1>10. CASE TrafficUsed
  <2>1. t = s /\ spentOn' = spentOn + 1 /\ p = q
    BY <1>10 DEF TrafficUsed, Quarter
  <2> HIDE DEF s, t, q, p, w, v
  <2>2. DayOf(s) <= DayOf(t) /\ At(s, q) <= At(t, p) /\ v <= w /\ v \in Int /\ w \in Int
    BY <1>5, <1>6, <1>7, <1>8, <2>1
  <2>3. q \in Int /\ p \in Int
    BY <1>5
  <2> QED  BY <1>3, <1>4, <1>5, <2>2, <2>3, WorthFalls
<1> QED  BY <1>1, <1>2, <1>9, <1>10 DEF DedNext

\* What is given back falls as days pass and traffic is used, for plans without
\* a cycle.
THEOREM RefundOnlyFalls == DedSpec => RefundFalls
<1>1. DedInv => WorthInv
  BY RemainingIsWorth DEF WorthInv, DedInv, Running
<1>2. DedSpec => []DedInv
  BY DedInvHolds
<1> QED  BY <1>1, <1>2, DedStepFalls, PTL DEF DedSpec, RefundFalls
=============================================================================
