------------------------------ MODULE DayTraffic ------------------------------
(***************************************************************************)
(* The traffic of the day, as the panel shows it: counters in Redis of     *)
(* each node, each user and of all, and rankings of the nodes and of the   *)
(* users.  A node's push counts for the node first and for its users one   *)
(* after the other; each count is a pipeline of commands on the counters,  *)
(* then on the rankings, which the client sends again after a timeout.     *)
(* The panel reads a ranking and then the counters of every line of it,    *)
(* while pushes go on.  The server empties Redis when it starts.           *)
(*                                                                         *)
(* The task in the queue a push ends with is part of Subscriptions.  The   *)
(* counters are never reset: nobody calls ResetTodayTrafficData.           *)
(***************************************************************************)
EXTENDS Naturals, FiniteSetsExt

CONSTANTS
    Server,     \* nodes
    Rider,      \* users
    MaxUp,      \* bound: units of traffic up in a report, and down
    MaxPushed,  \* bound: pushes
    MaxLost     \* bound: pipelines that fail or are sent again, and restarts

ASSUME DayAssumption ==
    /\ {MaxUp, MaxPushed, MaxLost} \subseteq Nat
    /\ IsFiniteSet(Server) /\ IsFiniteSet(Rider) /\ Server \cap Rider = {}

Counted == Server \cup Rider
Amount  == [up: Nat, down: Nat]
Usage   == [rider: Rider, up: 0..MaxUp, down: 0..MaxUp]

Zero == [up |-> 0, down |-> 0]
Plus(a, b) == [up |-> a.up + b.up, down |-> a.down + b.down]
Total(a) == a.up + a.down

VARIABLES
    counter,  \* HINCRBY: what is counted for a node or a user
    ranked,   \* ZINCRBY: the score in the ranking of nodes or of users
    allCount, \* INCRBY: what is counted for all nodes
    usages,   \* the part of each node's push that is yet to be counted
    toRank,   \* what a pipeline has counted and not ranked: [who, by]
    toRead,   \* the ranking the panel has read, who is not read yet
    board,    \* the lines it shows
    pushCount, lost, \* history: counted for the bounds
    reported, \* history: all traffic reported since the server started
    gaps      \* history: events since then that explain a difference

dayStore == <<counter, ranked, allCount>>
panel == <<toRead, board>>
dayVars == <<dayStore, panel, usages, toRank, pushCount, lost, reported, gaps>>

Nobody == [who |-> {}, by |-> Zero]

DayInit ==
    /\ counter = [c \in Counted |-> Zero] /\ ranked = [c \in Counted |-> 0]
    /\ allCount = Zero
    /\ usages = [n \in Server |-> {}] /\ toRank = [n \in Server |-> Nobody]
    /\ toRead = {} /\ board = {}
    /\ pushCount = 0 /\ lost = 0 /\ reported = Zero /\ gaps = {}

(***************************************************************************)
(* A push.  A pipeline is two steps, of the counters and of the rankings.  *)
(***************************************************************************)
Sum2(report) ==
    [up   |-> SumFunction([g \in report |-> g.up]),
     down |-> SumFunction([g \in report |-> g.down])]

Idle(n) == usages[n] = {} /\ toRank[n] = Nobody

AddToday(n, who, by) ==
    /\ toRank[n] = Nobody
    /\ counter' = [counter EXCEPT ![who] = Plus(@, by)]
    /\ toRank' = [toRank EXCEPT ![n] = [who |-> {who}, by |-> by]]

\* The whole report is summed up for the node.
AddNodeTodayTraffic(n) ==
    /\ Idle(n) /\ pushCount < MaxPushed /\ pushCount' = pushCount + 1
    /\ \E report \in SUBSET Usage :
         /\ report # {} /\ \A a, b \in report : a.rider = b.rider => a = b
         /\ usages' = [usages EXCEPT ![n] = report]
         /\ AddToday(n, n, Sum2(report))
         /\ reported' = Plus(reported, Sum2(report))
    /\ UNCHANGED <<ranked, allCount, panel, lost, gaps>>

\* A user without upload is refused, and left out.
AddUserTodayTraffic(n) ==
    /\ \E g \in usages[n] :
         /\ toRank[n] = Nobody
         /\ usages' = [usages EXCEPT ![n] = @ \ {g}]
         /\ \/ /\ g.up > 0
               /\ AddToday(n, g.rider, [up |-> g.up, down |-> g.down])
               /\ UNCHANGED gaps
            \/ /\ g.up = 0
               /\ gaps' = IF g.down > 0 THEN gaps \cup {"downOnly"} ELSE gaps
               /\ UNCHANGED <<counter, toRank>>
    /\ UNCHANGED <<ranked, allCount, panel, pushCount, lost, reported>>

\* Mutant: the traffic of all counts what a node reports, not its users.
RankAddAll(n) ==
    /\ \E c \in toRank[n].who :
         /\ ranked' = [ranked EXCEPT ![c] = @ + Total(toRank[n].by)]
         /\ allCount' = IF c \in Server THEN Plus(allCount, toRank[n].by) ELSE allCount
    /\ toRank' = [toRank EXCEPT ![n] = Nobody]
    /\ UNCHANGED <<counter, panel, usages, pushCount, lost, reported, gaps>>

Ranked(c, by) == ranked' = [ranked EXCEPT ![c] = @ + Total(by)]
CountForAll(c, by) ==
    allCount' = IF c \in Rider THEN Plus(allCount, by) ELSE allCount

\* The end of the pipeline.  That of a user counts for all nodes, too.
RankAdd(n) ==
    /\ \E c \in toRank[n].who :
         Ranked(c, toRank[n].by) /\ CountForAll(c, toRank[n].by)
    /\ toRank' = [toRank EXCEPT ![n] = Nobody]
    /\ UNCHANGED <<counter, panel, usages, pushCount, lost, reported, gaps>>

\* No reply came in time: Redis went through some of the commands or through
\* all, and the client sends them all again.
PipelineAgain(n) ==
    /\ lost < MaxLost /\ lost' = lost + 1
    /\ \E c \in toRank[n].who :
         /\ counter' = [counter EXCEPT ![c] = Plus(@, toRank[n].by)]
         /\ \/ UNCHANGED <<ranked, allCount>>
            \/ Ranked(c, toRank[n].by) /\ UNCHANGED allCount
            \/ Ranked(c, toRank[n].by) /\ CountForAll(c, toRank[n].by)
    /\ gaps' = gaps \cup {"again"}
    /\ UNCHANGED <<panel, usages, toRank, pushCount, reported>>

\* A pipeline breaks off.  For the node, the push is given up; for a user, the
\* others go on.
PipelineBreaks(n) ==
    /\ lost < MaxLost /\ lost' = lost + 1
    /\ \E c \in toRank[n].who :
         usages' = IF c \in Server THEN [usages EXCEPT ![n] = {}] ELSE usages
    /\ toRank' = [toRank EXCEPT ![n] = Nobody]
    /\ gaps' = gaps \cup {"broken"}
    /\ UNCHANGED <<dayStore, panel, pushCount, reported>>

\* The server starts again and flushes Redis.  What it was pushing is lost, and
\* what it was showing.
FlushDay ==
    /\ lost < MaxLost /\ lost' = lost + 1
    /\ counter' = [c \in Counted |-> Zero] /\ ranked' = [c \in Counted |-> 0]
    /\ allCount' = Zero
    /\ usages' = [n \in Server |-> {}] /\ toRank' = [n \in Server |-> Nobody]
    /\ toRead' = {} /\ board' = {}
    /\ reported' = Zero /\ gaps' = {}
    /\ UNCHANGED pushCount

(***************************************************************************)
(* The panel.                                                              *)
(***************************************************************************)
\* The scores of all that have one; the first ten, but there are fewer here.
ReadRank ==
    /\ toRead = {}
    /\ \E group \in {Server, Rider} :
         toRead' = {[who |-> c, total |-> ranked[c]] :
                      c \in {d \in group : ranked[d] > 0}}
    /\ board' = {}
    /\ UNCHANGED <<dayStore, usages, toRank, pushCount, lost, reported, gaps>>

\* The counters of one line.
ReadLine ==
    /\ \E r \in toRead :
         /\ board' = board \cup {[who |-> r.who, total |-> r.total,
                                  amount |-> counter[r.who]]}
         /\ toRead' = toRead \ {r}
    /\ UNCHANGED <<dayStore, usages, toRank, pushCount, lost, reported, gaps>>

DayNext ==
    \/ \E n \in Server :
         \/ AddNodeTodayTraffic(n) \/ AddUserTodayTraffic(n)
         \/ RankAdd(n) \/ PipelineAgain(n) \/ PipelineBreaks(n)
    \/ FlushDay \/ ReadRank \/ ReadLine

DaySpec == DayInit /\ [][DayNext]_dayVars

(***************************************************************************)
(* Properties.                                                             *)
(***************************************************************************)
DayTypeOK ==
    /\ counter \in [Counted -> Amount] /\ ranked \in [Counted -> Nat]
    /\ allCount \in Amount
    /\ usages \in [Server -> SUBSET Usage]
    /\ toRank \in [Server -> [who: SUBSET Counted, by: Amount]]
    /\ toRead \subseteq [who: Counted, total: Nat]
    /\ board \subseteq [who: Counted, total: Nat, amount: Amount]

\* However pushes and the panel interleave, a line of a ranking shows no more
\* in all than up and down together (the counters are written before and read
\* after the ranking).  And when every push is through and no pipeline broke
\* off, all that was reported since the server started is in the figure for all
\* (that start flushes the day's figures, serviceContext.go:82), unless a user
\* with downloads alone was refused (node.go:133); and nothing else is, and the
\* users' rankings add up to it, unless a pipeline was sent again.
FiguresAgree ==
    /\ \A l \in board : l.total <= Total(l.amount)
    /\ (\A n \in Server : Idle(n)) /\ "broken" \notin gaps =>
         /\ "again" \notin gaps =>
               /\ Total(allCount) = SumFunctionOnSet(ranked, Rider)
               /\ allCount = reported \/ "downOnly" \in gaps
         /\ \/ "downOnly" \in gaps
            \/ reported.up <= allCount.up /\ reported.down <= allCount.down
=============================================================================
