----------------------------- MODULE OnlineUsers -----------------------------
(***************************************************************************)
(* Which addresses the panel shows as online.  A node reports the users it *)
(* serves; NodeCacheClient keeps the addresses in one sorted set of all,   *)
(* with the second each expires as its score, and then the report itself   *)
(* under a key of the node.  The set is cleaned only by the next report    *)
(* that is not empty, and its key lives as long as an address.             *)
(*                                                                         *)
(* The two writes of a push are two round trips.  The first is a pipeline, *)
(* not a transaction: it carries the time at which it was put together and *)
(* runs later, commands of other pushes come in between, the client sends  *)
(* it again after a timeout, and it may break off.  The server empties     *)
(* Redis when it starts.  The set of each user, which is written alike and *)
(* read by nobody, is left out.                                            *)
(***************************************************************************)
EXTENDS Naturals

CONSTANTS
    Station,    \* nodes
    IP,         \* addresses of users
    Life,       \* minutes an address, and a key, lives: 5
    MaxMinute,  \* bound: the last minute
    MaxPushes,  \* bound: reports
    MaxCuts     \* bound: calls that fail or are sent again, and restarts

ASSUME OnlineAssumption ==
    /\ {Life, MaxMinute} \subseteq Nat \ {0}
    /\ {MaxPushes, MaxCuts} \subseteq Nat

\* A score of 0 is no entry; an end of 0 is no key, Never one without expiry.
Never == MaxMinute + Life + 1
Score == 0..Never

VARIABLES
    minute,
    allIps, allEnds,   \* the set of all: scores, and when its key expires
    shownOf, shownEnds, \* the last report of each node, and when it expires
    report,   \* the report a node's push is at; {} when it has none
    toAdd,    \* what of it the pipeline has yet to add
    asOf,     \* the minute the pipeline was put together
    pushes, cuts, \* history: counted for the bounds
    lastSeen, \* history: the minute of the report that last added an address
    forgotten, \* history: the addresses flushed and not added since
    lag,      \* history: the most minutes a pipeline took
    broke     \* history: some call failed since the server started

ipStore   == <<allIps, allEnds>>
nodeStore == <<shownOf, shownEnds>>
pushing   == <<report, toAdd, asOf>>
seenVars  == <<lastSeen, forgotten, lag, broke>>
onlineVars == <<minute, ipStore, nodeStore, pushing, pushes, cuts, seenVars>>

OnlineInit ==
    /\ minute = 1
    /\ allIps = [i \in IP |-> 0] /\ allEnds = 0
    /\ shownOf = [n \in Station |-> {}] /\ shownEnds = [n \in Station |-> 0]
    /\ report = [n \in Station |-> {}] /\ toAdd = [n \in Station |-> {}]
    /\ asOf = [n \in Station |-> 0] /\ pushes = 0 /\ cuts = 0
    /\ lastSeen = [i \in IP |-> 0] /\ forgotten = {} /\ lag = 0 /\ broke = FALSE

\* Keys that have expired are gone.
MinutePasses ==
    /\ minute < MaxMinute /\ minute' = minute + 1
    /\ allIps' = IF allEnds > minute' THEN allIps ELSE [i \in IP |-> 0]
    /\ shownOf' = [n \in Station |-> IF shownEnds[n] > minute' THEN shownOf[n]
                                                               ELSE {}]
    /\ UNCHANGED <<allEnds, shownEnds, pushing, pushes, cuts, seenVars>>

\* An empty report is refused.
PushOnlineUsers(n) ==
    /\ report[n] = {} /\ pushes < MaxPushes /\ pushes' = pushes + 1
    /\ \E r \in SUBSET IP \ {{}} :
         report' = [report EXCEPT ![n] = r] /\ toAdd' = [toAdd EXCEPT ![n] = r]
    /\ asOf' = [asOf EXCEPT ![n] = minute]
    /\ UNCHANGED <<minute, ipStore, nodeStore, cuts, seenVars>>

\* ZREMRANGEBYSCORE 0 now, then ZADD with the minute the address expires.
Added(set, ip, now) ==
    [i \in IP |-> IF i = ip THEN now + Life
                  ELSE IF set[i] <= now THEN 0 ELSE set[i]]

Seen(n, ip) ==
    /\ lastSeen' = [lastSeen EXCEPT ![ip] = asOf[n]]
    /\ forgotten' = forgotten \ {ip}
    /\ lag' = IF minute - asOf[n] > lag THEN minute - asOf[n] ELSE lag

\* Mutant: the key of all gets its life when it is new, and is not renewed.
AddOnlineUserIPOnce(n) ==
    \E ip \in toAdd[n] :
      /\ allIps'  = Added(allIps, ip, asOf[n])
      /\ allEnds' = IF allEnds > minute THEN allEnds ELSE minute + Life
      /\ toAdd'   = [toAdd EXCEPT ![n] = @ \ {ip}]
      /\ Seen(n, ip)
      /\ UNCHANGED <<minute, nodeStore, report, asOf, pushes, cuts, broke>>

\* The commands of the pipeline for one address, EXPIRE the last.
AddOnlineUserIP(n) ==
    \E ip \in toAdd[n] :
      /\ allIps'  = Added(allIps, ip, asOf[n])
      /\ allEnds' = minute + Life
      /\ toAdd'   = [toAdd EXCEPT ![n] = @ \ {ip}]
      /\ Seen(n, ip)
      /\ UNCHANGED <<minute, nodeStore, report, asOf, pushes, cuts, broke>>

\* SET with an expiry, once the pipeline is through.
UpdateNodeOnlineUser(n) ==
    /\ report[n] # {} /\ toAdd[n] = {}
    /\ shownOf' = [shownOf EXCEPT ![n] = report[n]]
    /\ shownEnds' = [shownEnds EXCEPT ![n] = minute + Life]
    /\ report' = [report EXCEPT ![n] = {}]
    /\ UNCHANGED <<minute, ipStore, toAdd, asOf, pushes, cuts, seenVars>>

\* No reply came in time: the client sends the commands again.
SendAgain(n) ==
    /\ report[n] # {} /\ cuts < MaxCuts /\ cuts' = cuts + 1
    /\ toAdd' = [toAdd EXCEPT ![n] = report[n]]
    /\ UNCHANGED <<minute, ipStore, nodeStore, report, asOf, pushes, seenVars>>

\* A call fails and the rest of the push is given up; at worst the connection
\* breaks between ZADD and EXPIRE, and a new key stays for ever.
PushFails(n) ==
    /\ report[n] # {} /\ cuts < MaxCuts /\ cuts' = cuts + 1
    /\ \/ UNCHANGED ipStore
       \/ \E ip \in toAdd[n] :
            /\ allIps'  = Added(allIps, ip, asOf[n])
            /\ allEnds' = IF allEnds > minute THEN allEnds ELSE Never
    /\ report' = [report EXCEPT ![n] = {}] /\ toAdd' = [toAdd EXCEPT ![n] = {}]
    /\ broke' = TRUE
    /\ UNCHANGED <<minute, nodeStore, asOf, pushes, lastSeen, forgotten, lag>>

\* The server starts again and flushes Redis; what it was pushing is lost.
FlushOnline ==
    /\ cuts < MaxCuts /\ cuts' = cuts + 1
    /\ allIps' = [i \in IP |-> 0] /\ allEnds' = 0
    /\ shownOf' = [n \in Station |-> {}] /\ shownEnds' = [n \in Station |-> 0]
    /\ report' = [n \in Station |-> {}] /\ toAdd' = [n \in Station |-> {}]
    /\ forgotten' = {i \in IP : lastSeen[i] > 0} /\ broke' = FALSE
    /\ UNCHANGED <<minute, asOf, pushes, lastSeen, lag>>

OnlineNext ==
    \/ MinutePasses \/ FlushOnline
    \/ \E n \in Station :
         \/ PushOnlineUsers(n) \/ AddOnlineUserIP(n)
         \/ UpdateNodeOnlineUser(n) \/ SendAgain(n) \/ PushFails(n)

OnlineSpec == OnlineInit /\ [][OnlineNext]_onlineVars

(***************************************************************************)
(* Properties.                                                             *)
(***************************************************************************)
OnlineTypeOK ==
    /\ minute \in 1..MaxMinute
    /\ allIps \in [IP -> Score] /\ allEnds \in Score
    /\ shownOf \in [Station -> SUBSET IP] /\ shownEnds \in [Station -> Score]
    /\ report \in [Station -> SUBSET IP] /\ toAdd \in [Station -> SUBSET IP]
    /\ asOf \in [Station -> 0..MaxMinute]

\* GetAllNodeOnlineUser, whose length is the number of users online, and
\* GetNodeOnlineUser, the addresses in the list of nodes.
OnlineNow == {i \in IP : allIps[i] > 0}
ShownBy(n) == shownOf[n]

\* An address counts as online for Life minutes after the report that last
\* added it, and never for twice as long and what a pipeline took: the set is
\* cleaned only when somebody is added (node.go:49), as of a time that is then
\* past (node.go:44), and the key keeps what is left as long (node.go:65).
\* Excused are pipelines that broke off since the server started; and that
\* start forgets an address until it is added again (serviceContext.go:82).  A
\* node shows no address that was never counted, because a push gives up after
\* the first call that fails (pushOnlineUsersLogic.go:57).
OnlineShown ==
    /\ \A i \in IP :
         \/ broke
         \/ /\ /\ lastSeen[i] > 0 /\ i \notin forgotten
               /\ minute < lastSeen[i] + Life
               => i \in OnlineNow
            /\ i \in OnlineNow =>
                  i \notin forgotten /\ minute < lastSeen[i] + 2 * Life + lag
    /\ \A n \in Station : \A i \in ShownBy(n) : lastSeen[i] > 0
=============================================================================
