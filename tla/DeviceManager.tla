---------------------------- MODULE DeviceManager ----------------------------
(***************************************************************************)
(* The websockets of one user of ppanel-server: pkg/device/device.go, fed  *)
(* by logic/app/ws and logic/admin/user/kickOfflineByUserDeviceLogic.go.   *)
(*                                                                         *)
(* Every operation on a user's list of devices holds the user's mutex from *)
(* its first read to its last write, so each is one step, with one         *)
(* exception: the heartbeat check takes the list before it locks (Tick)    *)
(* and works on that slice afterwards (Check).  Meanwhile the list is      *)
(* replaced by fresh slices, or, by removeDevice, shifted in place in the  *)
(* array the check's slice refers to.                                      *)
(*                                                                         *)
(* The users share nothing but totalOnline, to which each contributes the  *)
(* amount counted here.  Time is abstracted to "no ping for longer than    *)
(* heartbeatTimeout".  What the callbacks write to user_device is modelled *)
(* in DeviceRows; what they do to the sessions is left out.                *)
(***************************************************************************)
EXTENDS Integers, FiniteSets, SequencesExt

CONSTANTS
    Device,    \* device identifiers
    Limits,    \* device limits a connection may find: the largest of the user's
               \* subscriptions in force, 0 when there is none
    Unlimited, \* what stands for no limit, 99 in the code
    MaxConn,   \* bound: connections accepted
    MaxKicks,  \* bound: devices kicked by the administrator
    None

ASSUME ConstantsAssumption ==
    /\ Limits \subseteq Nat /\ Unlimited \in Nat \ {0}
    /\ MaxConn \in Nat /\ MaxKicks \in Nat
    /\ None \notin Seq(Nat)

VARIABLES
    dev,     \* the devices of the connections, in the order accepted
    list,    \* userDevices: the connections in use, oldest first
    seen,    \* the slice the heartbeat check has taken
    shared,  \* whether list lies in the array of seen
    total,   \* totalOnline
    open,    \* connections the server has not closed
    live,    \* those of them whose client has not left
    reading, \* connections with a goroutine in listenToDevice
    silent,  \* connections without a ping for heartbeatTimeout
    due,     \* those of them that were so when the check read the clock
    kicks,   \* history: counted for the bound
    peak     \* history: the largest limit given since nothing was in use

vars == <<dev, list, seen, shared, total, open, live, reading,
          silent, due, kicks, peak>>

Init ==
    /\ dev = <<>>
    /\ list = <<>> /\ seen = None /\ shared = FALSE /\ total = 0
    /\ open = {} /\ live = {} /\ reading = {} /\ silent = {} /\ due = {}
    /\ kicks = 0 /\ peak = 0

\* Connections are numbered in the order they are accepted.
Conn     == DOMAIN dev

Checking == seen # None
InUse    == ToSet(list)
Of(d)    == {c \in Conn : dev[c] = d}

\* The entries of s that do not lie in C.
Without(s, C) ==
    LET kept[i \in 0..Len(s)] ==
          IF i = 0 THEN <<>>
          ELSE IF s[i] \in C THEN kept[i - 1] ELSE Append(kept[i - 1], s[i])
    IN  kept[Len(s)]

\* Conn.Close, on the connections C.
Close(C) == open' = open \ C /\ live' = live \ C

-----------------------------------------------------------------------------
(* AddDevice *)

MaxDevices(limit) == IF limit < 1 THEN Unlimited ELSE limit

TooLate(devices, limit) == Len(devices) > MaxDevices(limit)  \* Mutant: off by one.
Full(devices, limit)    == Len(devices) >= MaxDevices(limit)

\* AppWs looks the limit up anew for each connection.  A connection of a device
\* that is in the list takes its entry's place; the older connection is neither
\* closed nor uncounted.  Otherwise the oldest connection makes room when the
\* list is full: one only, also when the limit has fallen by more.
AddDevice(d, limit) ==
    LET c      == Len(dev) + 1
        others == Without(list, Of(d))
        again  == Of(d) \cap InUse # {}
        evict  == ~again /\ Full(others, limit)
    IN /\ Len(dev) < MaxConn
       /\ dev' = Append(dev, d)
       /\ list' = Append(IF evict THEN Tail(others) ELSE others, c)
       /\ shared' = FALSE
       /\ LET closed == IF evict THEN {Head(others)} ELSE {}
          IN /\ open' = (open \ closed) \cup {c}
             /\ live' = (live \ closed) \cup {c}
       /\ total' = IF evict THEN total ELSE total + 1
       /\ reading' = reading \cup {c}
       /\ peak' = IF peak > MaxDevices(limit) /\ (list # <<>> \/ Checking)
                  THEN peak ELSE MaxDevices(limit)
       /\ UNCHANGED <<seen, silent, due, kicks>>

-----------------------------------------------------------------------------
(* listenToDevice *)

\* Mutant: the entry goes away, its connection and the count do not.
RemoveKeepsOpen(d) ==
    /\ list' = Without(list, Of(d))
    /\ UNCHANGED <<seen, shared, open, live, total>>

\* The first entry of device d leaves the list, in place: a slice that shares
\* the array sees the entries behind it shifted.
RemoveDevice(d) ==
    LET at == {i \in DOMAIN list : list[i] \in Of(d)}
        i  == Min(at)
    IN IF at = {}
       THEN UNCHANGED <<list, seen, shared, open, live, total>>
       ELSE /\ list' = RemoveAt(list, i)
            /\ seen' = IF Checking /\ shared
                       THEN [k \in DOMAIN seen |->
                               IF k \in i..(Len(list) - 1) THEN seen[k + 1]
                                                           ELSE seen[k]]
                       ELSE seen
            /\ Close({list[i]})
            /\ total' = total - 1
            /\ UNCHANGED shared

\* The reader of c meets an error and removes the device of c, which may by
\* now stand for another connection.
Disconnected(c) ==
    /\ c \in reading \ live
    /\ reading' = reading \ {c}
    /\ RemoveDevice(dev[c])
    /\ UNCHANGED <<peak, dev, silent, due, kicks>>

\* A ping on c refreshes the first entry of its device.
UpdateHeartbeat(c) ==
    /\ c \in live /\ Of(dev[c]) \cap InUse # {}
    /\ LET i == Min({j \in DOMAIN list : list[j] \in Of(dev[c])})
       IN /\ silent' = silent \ {list[i]}
          /\ due' = due \ {list[i]}
    /\ UNCHANGED <<peak, dev, list, seen, shared, total, open, live, reading,
                   kicks>>

-----------------------------------------------------------------------------
(* KickDevice, of the administrator *)

KickDevice(d) ==
    /\ list # <<>> /\ kicks < MaxKicks
    /\ kicks' = kicks + 1
    /\ list' = Without(list, Of(d))
    /\ shared' = FALSE
    /\ Close(Of(d) \cap InUse)
    /\ total' = total - (Len(list) - Len(list'))
    /\ UNCHANGED <<peak, dev, seen, reading, silent, due>>

-----------------------------------------------------------------------------
(* StartHeartbeatCheck *)

\* The ticker fires: the check reads the clock and the list.
Tick ==
    /\ ~Checking /\ list # <<>>
    /\ seen' = list /\ shared' = TRUE
    /\ due' = silent \cap InUse
    /\ UNCHANGED <<peak, dev, list, total, open, live, reading, silent, kicks>>

\* Mutant: the comparison of times is reversed.
KeepExpired(s) == SelectSeq(s, LAMBDA c : c \in due)
Active(s)      == Without(s, due)

\* Under the lock it closes the expired entries of its slice and stores the
\* other ones as the user's list.
Check ==
    /\ Checking
    /\ list' = Active(seen)
    /\ Close(ToSet(seen) \ ToSet(list'))
    /\ total' = total - (Len(seen) - Len(list'))
    /\ seen' = None /\ shared' = FALSE /\ due' = {}
    /\ UNCHANGED <<peak, dev, reading, silent, kicks>>

-----------------------------------------------------------------------------
(* Clients and time *)

Leave(c) ==
    /\ c \in live
    /\ live' = live \ {c}
    /\ UNCHANGED <<peak, dev, list, seen, shared, total, open, reading,
                   silent, due, kicks>>

\* heartbeatTimeout has passed; of no interest for a connection that nothing
\* in the list or in the check's slice refers to.
Silence(c) ==
    /\ c \in InUse \cup (IF Checking THEN ToSet(seen) ELSE {})
    /\ c \notin silent
    /\ silent' = silent \cup {c}
    /\ UNCHANGED <<peak, dev, list, seen, shared, total, open, live, reading,
                   due, kicks>>

Next ==
    \/ \E d \in Device, limit \in Limits : AddDevice(d, limit)
    \/ \E d \in Device : KickDevice(d)
    \/ \E c \in Conn : Disconnected(c) \/ UpdateHeartbeat(c) \/ Leave(c) \/ Silence(c)
    \/ Tick \/ Check

\* Goroutines go on, the ticker ticks, and time passes.
Fairness ==
    /\ \A c \in 1..MaxConn : WF_vars(Disconnected(c)) /\ WF_vars(Silence(c))
    /\ WF_vars(Tick) /\ WF_vars(Check)

Spec     == Init /\ [][Next]_vars
FairSpec == Spec /\ Fairness

-----------------------------------------------------------------------------
(* Properties *)

\* Types; a list that shares the array of the check's slice is a prefix of it
\* (removeDevice shifts both alike), so the slice is never read past its end.
TypeOK ==
    /\ peak \in Nat
    /\ dev \in Seq(Device) /\ Len(dev) <= MaxConn
    /\ list \in Seq(Conn) /\ seen \in Seq(Conn) \cup {None}
    /\ shared \in BOOLEAN /\ total \in Int /\ kicks \in 0..MaxKicks
    /\ open \cup reading \cup silent \cup due \subseteq Conn
    /\ live \subseteq open \cap reading
    /\ Checking /\ shared => IsPrefix(list, seen)

\* However adding, removing, kicking and a check with an old slice interleave,
\* a user never has more connections in use than the largest limit one of them
\* was accepted under since he had none (device.go:150, 287).  The limit of the
\* moment is not kept: when it falls, the list stays as long as it is.
WithinLimit == Len(list) <= peak

\* The server closes a connection with a client only for a reason: it was
\* silent, the administrator kicked its device, another device needed its
\* place, or another connection of its device ended (device.go:162, 191, 237,
\* 273).  The last is no good reason: see DisconnectedRemoved.
ClosedForReason ==
    [][\A c \in live \ open' :
         \/ c \in silent /\ Checking /\ ~Checking'
         \/ kicks' # kicks
         \/ \E d \in Device, limit \in Limits :
              AddDevice(d, limit) /\ Full(list, limit) /\ c = Head(list)
         \/ \E e \in (reading \ reading') \ {c} : dev[e] = dev[c]]_vars

\* An entry leaves the list closed, unless a newer connection of its device
\* replaced it or the check stored a slice taken before it came
\* (device.go:140-147, 287): otherwise nobody could ever close it.
DroppedIsClosed ==
    [][\A c \in (InUse \ InUse') \cap open' :
         \/ dev' = Append(dev, dev[c])
         \/ Checking /\ ~Checking' /\ c \notin ToSet(seen)]_vars

\* totalOnline moves with the list, except when a device connects again
\* (device.go:141, 169) and when the check stores an old slice (274, 287).
CountMovesWithList ==
    [][total' - total # Len(list') - Len(list) =>
         \/ \E c \in InUse : dev' = Append(dev, dev[c])
         \/ Checking /\ ~Checking' /\ list # seen]_vars

\* A device without a client leaves the list for good until one comes, even if
\* the check has put back an entry that had been removed (device.go:263, 287).
Dead(d)    == Of(d) \cap live = {}
DeadLeaves ==
    \A d \in Device :
       Dead(d) /\ Of(d) \cap InUse # {} ~> ~Dead(d) \/ Of(d) \cap InUse = {}

\* "remove device when disconnected" (device.go:64): what leaves the list when
\* a reader meets an error has no client any more.
DisconnectedRemoved ==
    [][reading' \ reading = {} /\ reading # reading' =>
         InUse \ InUse' \subseteq Conn \ live]_vars
=============================================================================
