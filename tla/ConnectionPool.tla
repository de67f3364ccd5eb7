---------------------------- MODULE ConnectionPool ----------------------------
(***************************************************************************)
(* Transactions that need a second connection.  A payment with the balance *)
(* opens a transaction and calls, within it, operations of the models that *)
(* know nothing of it: they run on connections of their own, while the     *)
(* transaction keeps its one.  So do the return of a subscription and a    *)
(* registration with a trial.  The pool has at most MaxOpenConns           *)
(* connections, and nobody waits for one with a limit of time.             *)
(***************************************************************************)
EXTENDS Naturals, FiniteSets

CONSTANTS
    Caller,       \* requests that are served at the same time
    MaxOpenConns, \* connections of the pool: 10
    MaxCalls      \* the most operations a transaction calls

ASSUME PoolAssumption ==
    /\ IsFiniteSet(Caller)
    /\ MaxOpenConns \in Nat \ {0}
    /\ MaxCalls \in Nat

VARIABLES
    stage,  \* what a request is doing
    calls,  \* the operations its transaction has yet to call
    open    \* connections in use

poolVars == <<stage, calls, open>>

\* "opens" and "wants" wait for a connection, the first with none, the second
\* with that of the transaction; "calls" has both.
Stage == {"idle", "opens", "holds", "wants", "calls"}

PoolInit ==
    /\ stage = [c \in Caller |-> "idle"] /\ calls = [c \in Caller |-> 0]
    /\ open = 0

To(c, s) == stage' = [stage EXCEPT ![c] = s]

\* A request that writes: n operations in a transaction, or none, which is how
\* a plain statement looks to the pool.
Transaction(c, n) ==
    /\ stage[c] = "idle" /\ To(c, "opens")
    /\ calls' = [calls EXCEPT ![c] = n]
    /\ UNCHANGED open

BeginTx(c) ==
    /\ stage[c] = "opens" /\ open < MaxOpenConns
    /\ To(c, "holds") /\ open' = open + 1
    /\ UNCHANGED calls

\* The transaction calls an operation of a model: Update, UpdateOrderStatus,
\* UpdateSubscribe, InsertSubscribe.
CallModel(c) ==
    /\ stage[c] = "holds" /\ calls[c] > 0
    /\ To(c, "wants")
    /\ UNCHANGED <<calls, open>>

GetConn(c) ==
    /\ stage[c] = "wants" /\ open < MaxOpenConns
    /\ To(c, "calls") /\ open' = open + 1
    /\ UNCHANGED calls

\* Mutant: an operation keeps its connection.
PutConnKept(c) ==
    /\ stage[c] = "calls" /\ To(c, "holds")
    /\ calls' = [calls EXCEPT ![c] = @ - 1]
    /\ UNCHANGED open

\* The operation has succeeded; its connection goes back.
PutConn(c) ==
    /\ stage[c] = "calls" /\ To(c, "holds")
    /\ calls' = [calls EXCEPT ![c] = @ - 1] /\ open' = open - 1

\* It has failed, and the transaction is rolled back.
CallFails(c) ==
    /\ stage[c] = "calls" /\ To(c, "idle")
    /\ calls' = [calls EXCEPT ![c] = 0] /\ open' = open - 2

\* The end of a transaction; it is rolled back when a statement of its own
\* fails, whatever it has yet to call.
EndTx(c) ==
    /\ stage[c] = "holds" /\ calls[c] = 0
    /\ To(c, "idle") /\ open' = open - 1
    /\ UNCHANGED calls
RollbackTx(c) ==
    /\ stage[c] = "holds" /\ calls[c] > 0
    /\ To(c, "idle") /\ calls' = [calls EXCEPT ![c] = 0] /\ open' = open - 1

\* The client goes away and its context is cancelled while it waits.
Cancelled(c) ==
    /\ stage[c] \in {"opens", "wants"}
    /\ open' = IF stage[c] = "wants" THEN open - 1 ELSE open
    /\ To(c, "idle") /\ calls' = [calls EXCEPT ![c] = 0]

Works(c) == CallModel(c) \/ PutConn(c) \/ CallFails(c) \/ EndTx(c) \/ RollbackTx(c)

PoolNext ==
    \E c \in Caller :
       \/ \E n \in 0..MaxCalls : Transaction(c, n)
       \/ BeginTx(c) \/ GetConn(c) \/ Works(c) \/ Cancelled(c)

\* What holds a connection goes on; the pool serves those who wait one after
\* the other (database/sql hands a connection that comes back to a waiter).
PoolFair ==
    \A c \in Caller : /\ WF_poolVars(Works(c))
                      /\ SF_poolVars(BeginTx(c)) /\ SF_poolVars(GetConn(c))

PoolSpec == PoolInit /\ [][PoolNext]_poolVars /\ PoolFair

(***************************************************************************)
(* Properties.                                                             *)
(***************************************************************************)
Wants == {c \in Caller : stage[c] = "wants"}
Waits(c) == stage[c] \in {"opens", "wants"}

\* Every connection belongs to a transaction that waits for another one.
Stuck == Cardinality(Wants) = MaxOpenConns

PoolTypeOK ==
    /\ stage \in [Caller -> Stage] /\ calls \in [Caller -> 0..MaxCalls]
    /\ open \in 0..MaxOpenConns

\* As many balance payments at once as the pool has connections wait for each
\* other (purchaseCheckoutLogic.go:281); short of that, whoever waits for a
\* connection gets one, or its client goes away.
ServedUnlessStuck == \A c \in Caller : Waits(c) ~> ~Waits(c) \/ Stuck

\* The connections in use are those of the transactions and of their calls.
Holding == {c \in Caller : stage[c] \in {"holds", "wants", "calls"}}
Calling == {c \in Caller : stage[c] = "calls"}
Balanced == open = Cardinality(Holding) + Cardinality(Calling)

\* When no connection is free, somebody who has one can go on; unless stuck.
SomebodyGoesOn ==
    open = MaxOpenConns => Stuck \/ \E c \in Caller : stage[c] \in {"holds", "calls"}
=============================================================================
