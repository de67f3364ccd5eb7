-------------------------------- MODULE Codes --------------------------------
(***************************************************************************)
(* The verification codes of one address.  A code is stored in Redis, over *)
(* the one before and with an expiry, sent by a task of the queue, and     *)
(* compared with what a request brings, which deletes what is stored or    *)
(* leaves it, depending on the request.  How often a code may be asked for *)
(* is what PeriodLimits models.  Two codes are taken to differ, though six *)
(* digits may be drawn twice.                                              *)
(***************************************************************************)
EXTENDS Naturals

CONSTANTS
    Asker,     \* requests that are served at the same time
    MaxCodes,  \* bound: codes issued
    MaxUses,   \* bound: requests that bring a code successfully
    MaxFlaws   \* bound: calls that fail, and restarts

ASSUME CodeAssumption == {MaxCodes, MaxUses, MaxFlaws} \subseteq Nat

NoCode == 0
Code   == 1..MaxCodes

VARIABLES
    current,  \* the code that is stored, or NoCode
    outbox,   \* tasks of the queue
    inbox,    \* codes the user has received
    errand,     \* what each request is at
    carries,  \* the code it is to send, or the one it accepted
    issued, flaws, \* history: counted for the bounds
    accepted, \* history: how often each code was accepted
    pardons   \* history: what let a code be accepted again

codeVars == <<current, outbox, inbox, errand, carries, issued, flaws, accepted, pardons>>

CodeInit ==
    /\ current = NoCode /\ outbox = {} /\ inbox = {}
    /\ errand = [r \in Asker |-> "idle"] /\ carries = [r \in Asker |-> NoCode]
    /\ issued = 0 /\ flaws = 0
    /\ accepted = [c \in Code |-> 0] /\ pardons = {}

AtErrand(r, s) == errand[r] = s
Turns(r, s, c) ==
    /\ errand' = [errand EXCEPT ![r] = s] /\ carries' = [carries EXCEPT ![r] = c]
Flaw == flaws < MaxFlaws /\ flaws' = flaws + 1

(***************************************************************************)
(* Asking for a code.                                                      *)
(***************************************************************************)
\* SendEmailCode, SendSmsCode, once the limits and the purpose of the code
\* allow it: the code is stored over the one before.
SetCode(r) ==
    /\ AtErrand(r, "idle") /\ issued < MaxCodes
    /\ issued' = issued + 1 /\ current' = issued + 1
    /\ Turns(r, "enqueue", issued + 1)
    /\ UNCHANGED <<outbox, inbox, flaws, accepted, pardons>>

\* The task is enqueued, or that fails, and the code is stored but never sent.
EnqueueCode(r) ==
    /\ AtErrand(r, "enqueue") /\ Turns(r, "idle", NoCode)
    /\ \/ outbox' = outbox \cup {carries[r]} /\ UNCHANGED flaws
       \/ Flaw /\ UNCHANGED outbox
    /\ UNCHANGED <<current, inbox, issued, accepted, pardons>>

\* SendEmailLogic, SendSmsLogic: workers take the tasks in any order, and one
\* that fails to send is done all the same.
Deliver(c) ==
    /\ c \in outbox /\ outbox' = outbox \ {c}
    /\ \/ inbox' = inbox \cup {c} /\ UNCHANGED flaws
       \/ Flaw /\ UNCHANGED inbox
    /\ UNCHANGED <<current, errand, carries, issued, accepted, pardons>>

\* The stored code expires.
Expires ==
    /\ current' = NoCode
    /\ UNCHANGED <<outbox, inbox, errand, carries, issued, flaws, accepted, pardons>>

(***************************************************************************)
(* Using a code.                                                           *)
(***************************************************************************)
\* The request brings the code that is stored.
Accepts(c) == c \in inbox /\ current = c /\ accepted[c] < MaxUses

\* TelephoneLogin, TelephoneUserRegister, VerifyEmail, UpdateBindMobile and
\* the application's Login: GET and compare, then delete.
Login(r, c) ==
    /\ AtErrand(r, "idle") /\ Accepts(c)
    /\ accepted' = [accepted EXCEPT ![c] = @ + 1]
    /\ pardons' = IF \E q \in Asker : AtErrand(q, "delete") /\ carries[q] = c
                    THEN pardons \cup {<<"overlap", c>>} ELSE pardons
    /\ Turns(r, "delete", c)
    /\ UNCHANGED <<current, outbox, inbox, issued, flaws>>

\* Mutant: the code stays.
DeleteCodeNot(r) ==
    /\ AtErrand(r, "delete") /\ Turns(r, "idle", NoCode)
    /\ UNCHANGED <<current, outbox, inbox, issued, flaws, accepted, pardons>>

\* Whatever code is stored by now; if DEL fails, or the process stops before
\* it, nobody notices.
DeleteCode(r) ==
    /\ AtErrand(r, "delete") /\ Turns(r, "idle", NoCode)
    /\ \/ current' = NoCode /\ UNCHANGED <<flaws, pardons>>
       \/ /\ Flaw /\ pardons' = pardons \cup {<<"notDeleted", carries[r]>>}
          /\ UNCHANGED current
    /\ UNCHANGED <<outbox, inbox, issued, accepted>>

\* ResetPassword, UserRegister and the application's Register and
\* ResetPassword: the code stays until it expires.
ResetPassword(r, c) ==
    /\ AtErrand(r, "idle") /\ Accepts(c)
    /\ accepted' = [accepted EXCEPT ![c] = @ + 1]
    /\ pardons' = pardons \cup {<<"kept", c>>}
    /\ UNCHANGED <<current, outbox, inbox, errand, carries, issued, flaws>>

\* The process starts again and flushes Redis, the queue with it.
Restarts ==
    /\ Flaw /\ current' = NoCode /\ outbox' = {}
    /\ errand' = [r \in Asker |-> "idle"] /\ carries' = [r \in Asker |-> NoCode]
    /\ UNCHANGED <<inbox, issued, accepted, pardons>>

CodeNext ==
    \/ Expires \/ Restarts
    \/ \E r \in Asker :
         \/ SetCode(r) \/ EnqueueCode(r) \/ DeleteCode(r)
         \/ \E c \in Code : Login(r, c) \/ ResetPassword(r, c)
    \/ \E c \in Code : Deliver(c)

CodeSpec == CodeInit /\ [][CodeNext]_codeVars

(***************************************************************************)
(* Properties.                                                             *)
(***************************************************************************)
CodeTypeOK ==
    /\ current \in Code \cup {NoCode} /\ outbox \subseteq Code /\ inbox \subseteq Code
    /\ errand \in [Asker -> {"idle", "enqueue", "delete"}]
    /\ carries \in [Asker -> Code \cup {NoCode}]
    /\ issued \in 0..MaxCodes /\ flaws \in 0..MaxFlaws
    /\ accepted \in [Code -> Nat]

\* A code is good for one request, unless that request leaves it stored
\* (resetPasswordLogic.go:68), two requests compared it before either deleted
\* it (telephoneLoginLogic.go:110), or the deletion failed, whose error nobody
\* looks at.
CodeUsedOnce ==
    \A c \in Code :
      accepted[c] <= 1 \/ \E why \in {"kept", "overlap", "notDeleted"} : <<why, c>> \in pardons
=============================================================================
