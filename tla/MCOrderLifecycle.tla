-------------------------- MODULE MCOrderLifecycle --------------------------
(* Instances of OrderLifecycle for TLC. *)
EXTENDS OrderLifecycle, TLC

\* Goroutines of a kind are interchangeable.
GoroutineSymmetry == Permutations(Request) \cup Permutations(Worker)

\* Three stories told in one run: a guest pays through Stripe, and a task is
\* delivered again; or a renewal is paid from the balance, marked as paid by the
\* administrator, or both, or the server restarts in between; or the
\* administrator makes an order of a type nothing is delivered for, the customer
\* pays it from the balance, and a task is delivered again.
Story ==
    order # None =>
        \/ /\ order.kind = "guest" /\ order.method = "stripe" /\ commissions = 0
           /\ count["admin"] = 0 /\ count["restarted"] = 0
        \/ /\ order.kind = "renewal" /\ order.method = "balance" /\ ~order.gift
           /\ coupons = 0 /\ count["notified"] = 0 /\ count["redelivered"] = 0
           /\ count["admin"] + debits + count["restarted"] <= 2
        \/ /\ order.kind = "unknown" /\ order.method = "balance"
           /\ count["restarted"] = 0
=============================================================================
