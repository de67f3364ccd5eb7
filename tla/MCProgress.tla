------------------------------ MODULE MCProgress ------------------------------
(***************************************************************************)
(* What must come to pass, in the two parts where it hangs on fairness: a  *)
(* behaviour is one of the part it begins with, while the other rests, and *)
(* fairness is asked of that part alone.                                   *)
(***************************************************************************)
EXTENDS Subscriptions, ConnectionPool

VARIABLE part

MCInit == part \in {"subscriptions", "pool"} /\ SubInit /\ PoolInit

MCNext ==
    \/ part = "subscriptions" /\ SubNext /\ UNCHANGED <<part, poolVars>>
    \/ part = "pool" /\ PoolNext /\ UNCHANGED <<part, subVars>>

MCFair ==
    /\ \A w \in Worker :
         /\ WF_subVars(part = "subscriptions" /\ JobStep(w))
         /\ WF_subVars(part = "subscriptions" /\ BeginScan(w))
    /\ \A c \in Caller :
         /\ WF_poolVars(part = "pool" /\ Works(c))
         /\ SF_poolVars(part = "pool" /\ BeginTx(c))
         /\ SF_poolVars(part = "pool" /\ GetConn(c))

MCSpec == MCInit /\ [][MCNext]_<<part, subVars, poolVars>> /\ MCFair
=============================================================================
