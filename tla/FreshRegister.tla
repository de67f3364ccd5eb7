---------------------------- MODULE FreshRegister ----------------------------
(***************************************************************************)
(* What a row of ppanel-server that is read through Redis promises its     *)
(* readers.                                                                *)
(*                                                                         *)
(* The row has a version, the number of committed changes.  A reader asks  *)
(* under one of the row's keys and may be answered with an old version,    *)
(* but never with one that was not committed, and never with one below the *)
(* floor of the key: the version of the last update whose caller was told  *)
(* that the copies under that key are gone.                                *)
(***************************************************************************)
EXTENDS Naturals

CONSTANTS
    Key,   \* the keys under which the row is looked up
    None   \* nobody is answered

VARIABLES
    version, \* the committed version of the row
    floor,   \* for each key, the least version an answer may carry
    answer   \* the answer given in the last step

vars == <<version, floor, answer>>

Init ==
    /\ version = 1
    /\ floor = [k \in Key |-> 1]
    /\ answer = None

\* A change of the row is committed.
Write ==
    /\ version' = version + 1 /\ answer' = None
    /\ UNCHANGED floor

\* From now on nobody is answered with less than v under the keys K.
Promise(K, v) ==
    /\ v <= version
    /\ floor' = [k \in Key |-> IF k \in K /\ floor[k] < v THEN v ELSE floor[k]]
    /\ answer' = None
    /\ UNCHANGED version

\* A reader is answered.
Read(k) ==
    /\ \E v \in floor[k] .. version : answer' = [key |-> k, ver |-> v]
    /\ UNCHANGED <<version, floor>>

\* A step in which nobody is answered.
Silence == answer' = None /\ UNCHANGED <<version, floor>>

Next ==
    \/ Write \/ Silence
    \/ \E K \in SUBSET Key, v \in 1 .. version : Promise(K, v)
    \/ \E k \in Key : Read(k)

Spec == Init /\ [][Next]_vars
=============================================================================
