------------------------------ MODULE DeviceRows ------------------------------
(***************************************************************************)
(* One device's row of user_device: whose the device is, and whether it is *)
(* online (model/user/device.go, svc/devce.go, logic/app/auth, logic/app/  *)
(* ws, logic/admin/user).                                                  *)
(*                                                                         *)
(* Nine jobs write the row, as goroutines without an order: the callbacks  *)
(* of the device manager, logins, password resets and registrations in the *)
(* app, the administrator's edits, and every save of a user, for it saves  *)
(* the user's devices too.  A job finds a copy of the row, by identifier   *)
(* or by id, changes a column, and saves the whole copy.  Both ways of     *)
(* finding are cached, but what is saved clears the copy by id only: the   *)
(* copy by identifier stays what it was for a week.  As nothing clears it, *)
(* finding it and caching it are one step here.                            *)
(*                                                                         *)
(* The schema has no unique index on the identifier: the device may have   *)
(* two rows, of which the first is found.  The columns for its address,    *)
(* its agent and the administrator's switch are left out.                  *)
(***************************************************************************)
EXTENDS Naturals, FiniteSets

CONSTANTS
    DeviceUser, \* users
    Routine,    \* goroutines that write the row at the same time
    Absent,     \* no row, no copy
    MaxInserted, \* bound: rows ever inserted
    MaxRoutines, \* bound: jobs begun
    MaxBlows    \* bound: failures, evictions, expiries, heartbeat checks, saves of a user

ASSUME RowAssumption ==
    /\ MaxInserted \in Nat \ {0} /\ {MaxRoutines, MaxBlows} \subseteq Nat
    /\ Absent \notin [owner: DeviceUser, online: BOOLEAN]
    /\ Absent \notin [user: DeviceUser, on: BOOLEAN]

VARIABLES
    device,  \* user_device, by id
    newest,  \* its AUTO_INCREMENT
    copyOf,  \* cache:user:device:id
    named,   \* cache:user:device:number: the id and the row, or none
    listed,  \* cache:user:id: the devices in the copy of a user
    members, \* users that have registered
    online,  \* users with a connection of the device in use
    slice,   \* the list the heartbeat check has taken: whose, and whether the
             \* device is in it
    chore,   \* what each goroutine is at
    begun,   \* history: counted for the bound
    blows,   \* history: counted for the bound
    late,    \* history: rows changed since the copy by id was read
    holder,  \* history: who took the device over last
    astray,  \* history: what may have changed its owner since
    doubt    \* history: what may have made online untrue

rowVars == <<device, newest, copyOf, named, listed, members, online, slice,
             chore, begun, blows, late, holder, astray, doubt>>

Id         == 1..MaxInserted
UserDevice == [owner: DeviceUser, online: BOOLEAN]
Slice      == [user: DeviceUser, on: BOOLEAN]
Callback   == {"online", "offline"}
TakeOver   == {"login", "reset"}
ByName     == Callback \cup TakeOver \cup {"register"}
ById       == {"edit", "kick", "delete"}

\* at: the next step of the job; row: the row as it was found; read: the row
\* FindOneDevice has read and is about to cache.
NoChore == [do |-> "none", at |-> "rest", by |-> Absent, id |-> 0,
            row |-> Absent, read |-> Absent]

RowInit ==
    /\ newest = 1
    /\ \E u \in DeviceUser :
         /\ device = [i \in Id |-> IF i = 1 THEN [owner |-> u, online |-> FALSE]
                                            ELSE Absent]
         /\ holder = u /\ members \in {{u}, DeviceUser}
    /\ copyOf = [i \in Id |-> Absent] /\ named = Absent
    /\ listed = [u \in DeviceUser |-> {}] /\ online = {} /\ slice = Absent
    /\ chore = [g \in Routine |-> NoChore] /\ begun = 0 /\ blows = 0
    /\ late = {} /\ astray = {} /\ doubt = {}

RowIds     == {i \in Id : device[i] # Absent}
IsFirst(i) == i \in RowIds /\ \A k \in RowIds : i <= k
FoundCopy  == \* FindOneDeviceByIdentifier: {}, or the copy it returns
    IF named # Absent THEN {named}
    ELSE {[id |-> i, row |-> device[i]] : i \in {k \in Id : IsFirst(k)}}

ChoreAt(g, p) == chore[g].at = p
ChoreTo(g, p) == chore' = [chore EXCEPT ![g].at = p]
Finishes(g)   == chore' = [chore EXCEPT ![g] = NoChore]
Pending       == {g \in Routine : chore[g].do \in Callback}
Raced         == IF Pending # {} THEN {"raced"} ELSE {}

\* The goroutines but g that are about to save a copy they have taken, with the
\* owner they found, and with the state they found.
Copies(g)   == {k \in Routine \ {g} : chore[k].row # Absent}
Owners(g)   == {k \in Copies(g) : chore[k].do \in Callback \cup {"edit", "kick"}}
States(g)   == {k \in Copies(g) : chore[k].do \notin Callback}

Blow == blows < MaxBlows /\ blows' = blows + 1

Begin(g, do, by, i) ==
    /\ ChoreAt(g, "rest") /\ begun < MaxRoutines /\ begun' = begun + 1
    /\ chore' = [chore EXCEPT ![g] =
                 [do |-> do, by |-> by, id |-> i, row |-> Absent, read |-> Absent,
                  at |-> IF do \in ByName THEN "find"
                         ELSE IF do = "delete" THEN "check" ELSE "look"]]

(***************************************************************************)
(* Where the jobs come from.                                               *)
(***************************************************************************)
\* A websocket of user u names the device, which is looked for, not whose it is.
Connect(g, u) ==
    /\ u \in members /\ Begin(g, "online", u, 0)
    /\ \E c \in FoundCopy : named' = c
    /\ online' = online \cup {u}
    /\ doubt' = doubt \cup Raced
    /\ UNCHANGED <<slice, device, newest, copyOf, listed, members, blows, late, holder, astray>>

\* A connection of u ends, and a callback is to say so.
Loses(g, u) ==
    /\ Begin(g, "offline", u, 0)
    /\ online' = online \ {u}
    /\ doubt' = doubt \cup Raced \cup (IF online' # {} THEN {"shared"} ELSE {})
    /\ UNCHANGED <<device, newest, copyOf, named, listed, members, blows, late, holder, astray>>

\* In place: the list the check has taken may lose the device, too.
Disconnect(g, u) ==
    /\ u \in online /\ Loses(g, u)
    /\ \/ UNCHANGED slice
       \/ slice = [user |-> u, on |-> TRUE] /\ slice' = [user |-> u, on |-> FALSE]

\* The heartbeat check takes the list of u before it locks it.
TakeList(u) ==
    /\ slice = Absent /\ Blow
    /\ slice' = [user |-> u, on |-> u \in online]
    /\ UNCHANGED <<device, newest, copyOf, named, listed, members, online, chore, begun,
                   late, holder, astray, doubt>>

\* Under the lock it ends the device's connection that has expired, or stores
\* the list without a callback: a connection that ended meanwhile is back in
\* use, one that came meanwhile is not.
ListExpires(g, u) == slice = [user |-> u, on |-> TRUE] /\ Loses(g, u) /\ slice' = Absent

StoreList ==
    /\ slice # Absent /\ slice' = Absent
    /\ online' = IF slice.on THEN online \cup {slice.user} ELSE online \ {slice.user}
    /\ doubt' = IF online' = online THEN doubt ELSE doubt \cup {"heartbeat"}
    /\ UNCHANGED <<device, newest, copyOf, named, listed, members, chore, begun, blows,
                   late, holder, astray>>

\* Another device of u takes its place: no offline callback is run.
Evict(u) ==
    /\ u \in online /\ online' = online \ {u}
    /\ Blow
    /\ doubt' = doubt \cup {"evicted"}
    /\ UNCHANGED <<slice, device, newest, copyOf, named, listed, members, chore, begun,
                   late, holder, astray>>

Request(g) ==
    /\ \/ \E u \in members, do \in TakeOver : Begin(g, do, u, 0)
       \/ \E u \in DeviceUser \ members : Begin(g, "register", u, 0)
       \/ \E i \in 1..newest, do \in ById : Begin(g, do, Absent, i)
    /\ UNCHANGED <<slice, device, newest, copyOf, named, listed, members, online, blows,
                   late, holder, astray, doubt>>

(***************************************************************************)
(* Finding the row.                                                        *)
(***************************************************************************)
SameOwner(i, r) == i \in RowIds /\ r.owner = device[i].owner
SameState(i, r) == i \in RowIds /\ r.online = device[i].online

\* The copy by id may be behind: somebody is about to clear it, or has cached it late.
Behind(i) == i \in late \/ \E k \in Routine : ChoreAt(k, "clear") /\ chore[k].id = i

FindByName(g) ==
    /\ ChoreAt(g, "find")
    /\ \/ /\ FoundCopy = {}
          /\ IF chore[g].do \in {"login", "register"} THEN ChoreTo(g, "create") ELSE Finishes(g)
          /\ doubt' = IF chore[g].do \in Callback THEN doubt \cup {"dead"} ELSE doubt
          /\ UNCHANGED <<named, astray>>
       \/ \E c \in FoundCopy :
            /\ named' = c
            /\ IF chore[g].do = "reset" /\ c.row.owner = chore[g].by
               THEN Finishes(g) /\ UNCHANGED <<astray, doubt>>
               ELSE /\ chore' = [chore EXCEPT ![g].at = "check", ![g].id = c.id,
                                 ![g].row = IF chore[g].do = "register" THEN Absent ELSE c.row]
                    /\ astray' = IF chore[g].do \in Callback /\ ~SameOwner(c.id, c.row)
                                 THEN astray \cup {"kept"} ELSE astray
                    /\ doubt' = IF chore[g].do \in TakeOver /\ ~SameState(c.id, c.row)
                                THEN doubt \cup {"kept"} ELSE doubt
    /\ UNCHANGED <<slice, device, newest, copyOf, listed, members, online, begun, blows,
                   late, holder>>

\* FindOneDevice, of the administrator: the copy by id, or the row, which is
\* cached a step later.
Look(g) ==
    LET i == chore[g].id
        then == IF chore[g].do = "kick" THEN "kick" ELSE "check"
    IN /\ ChoreAt(g, "look")
       /\ \/ /\ copyOf[i] # Absent
             /\ chore' = [chore EXCEPT ![g].row = copyOf[i], ![g].at = then]
             /\ astray' = IF Behind(i) /\ ~SameOwner(i, copyOf[i])
                          THEN astray \cup {"late"} ELSE astray
             /\ doubt' = IF chore[g].do = "edit" /\ Behind(i) /\ ~SameState(i, copyOf[i])
                         THEN doubt \cup {"late"} ELSE doubt
          \/ /\ copyOf[i] = Absent /\ i \in RowIds
             /\ chore' = [chore EXCEPT ![g].row = device[i], ![g].read = device[i],
                                   ![g].at = "lookFill"]
             /\ UNCHANGED <<astray, doubt>>
          \/ /\ copyOf[i] = Absent /\ i \notin RowIds
             /\ Finishes(g) /\ UNCHANGED <<astray, doubt>>
       /\ UNCHANGED <<slice, device, newest, copyOf, named, listed, members, online, begun,
                      blows, late, holder>>

Fill(g) ==
    /\ ChoreAt(g, "lookFill") \/ ChoreAt(g, "checkFill")
    /\ LET i == chore[g].id
       IN /\ copyOf' = [copyOf EXCEPT ![i] = chore[g].read]
          /\ late' = IF chore[g].read = device[i] THEN late \ {i} ELSE late \cup {i}
    /\ chore' = [chore EXCEPT ![g].read = Absent,
                 ![g].at = IF ChoreAt(g, "checkFill") THEN "write"
                           ELSE IF chore[g].do = "kick" THEN "kick" ELSE "check"]
    /\ UNCHANGED <<slice, device, newest, named, listed, members, online, begun, blows,
                   holder, astray, doubt>>

\* DeviceManager.KickDevice, with the owner the administrator's copy names.
KickOffline(g) ==
    /\ ChoreAt(g, "kick") /\ ChoreTo(g, "check")
    /\ online' = online \ {chore[g].row.owner}
    /\ doubt' = doubt \cup Raced \cup (IF online' # {} THEN {"missed"} ELSE {})
    /\ UNCHANGED <<slice, device, newest, copyOf, named, listed, members, begun, blows,
                   late, holder, astray>>

\* UpdateDevice and DeleteDevice look for the row by id before they write.
FindAgain(g) ==
    LET i == chore[g].id
    IN /\ ChoreAt(g, "check")
       /\ \/ copyOf[i] # Absent /\ ChoreTo(g, "write") /\ UNCHANGED doubt
          \/ /\ copyOf[i] = Absent /\ i \in RowIds
             /\ chore' = [chore EXCEPT ![g].read = device[i], ![g].at = "checkFill"]
             /\ UNCHANGED doubt
          \/ /\ copyOf[i] = Absent /\ i \notin RowIds
             /\ IF chore[g].do = "register" THEN ChoreTo(g, "create") ELSE Finishes(g)
             /\ doubt' = IF chore[g].do \in Callback \cup {"kick"} THEN doubt \cup {"dead"}
                         ELSE doubt
       /\ UNCHANGED <<slice, device, newest, copyOf, named, listed, members, online, begun,
                      blows, late, holder, astray>>

(***************************************************************************)
(* Writing it.                                                             *)
(***************************************************************************)
\* Mutant: whoever kicks forgets device.Online = false.
KickedStaysOn(j) == [owner  |-> IF j.do \in TakeOver THEN j.by ELSE j.row.owner,
                     online |-> IF j.do \in Callback THEN j.do = "online" ELSE j.row.online]

Changed(j) == [owner  |-> IF j.do \in TakeOver THEN j.by ELSE j.row.owner,
               online |-> IF j.do \in Callback \cup {"kick"} THEN j.do = "online"
                                                             ELSE j.row.online]

\* What a write by g that leaves the rows d may have spoilt.
Twice(d)     == IF \E i, k \in Id : i # k /\ d[i] # Absent /\ d[k] # Absent
                THEN {"twice"} ELSE {}
MixedOwner(g) == IF Owners(g) # {} THEN {"mixed"} ELSE {}
MixedState(g) == IF States(g) # {} THEN {"mixed"} ELSE {}

\* u has taken the device over: it is his, but for those who still hold a copy.
TakenBy(g, u, d) == holder' = u /\ astray' = MixedOwner(g) \cup Twice(d)

\* A callback that ran alone has put the state right.
Settles(g, d) == /\ chore[g].do \in Callback /\ Pending = {g} /\ States(g) = {} /\ Twice(d) = {}
                 /\ (chore[g].do = "online") = (online # {})

\* Save inserts the row again if it is gone.
Save(g) ==
    LET j == chore[g]
        d == [device EXCEPT ![j.id] = Changed(j)]
    IN /\ ChoreAt(g, "write") /\ j.do \notin {"delete", "register"}
       /\ device' = d
       /\ chore' = [chore EXCEPT ![g].at = "clear", ![g].row = Absent]
       /\ IF j.do \in TakeOver THEN TakenBy(g, j.by, d)
          ELSE astray' = astray \cup MixedOwner(g) \cup Twice(d) /\ UNCHANGED holder
       /\ doubt' = IF Settles(g, d) THEN {} ELSE doubt \cup MixedState(g) \cup Twice(d)
       /\ UNCHANGED <<slice, newest, copyOf, named, listed, members, online, begun, blows,
                      late>>

Delete(g) ==
    LET d == [device EXCEPT ![chore[g].id] = Absent]
    IN /\ ChoreAt(g, "write") /\ chore[g].do \in {"delete", "register"}
       /\ device' = d /\ ChoreTo(g, "clear")
       /\ astray' = astray \cup MixedOwner(g)
       /\ doubt' = doubt \cup MixedState(g)
       /\ UNCHANGED <<slice, newest, copyOf, named, listed, members, online, begun, blows,
                      late, holder>>

\* Mutant: the key that is deleted is the one by identifier.
ClearsTheName(g) ==
    /\ ChoreAt(g, "clear") /\ named' = Absent
    /\ IF chore[g].do = "register" THEN ChoreTo(g, "create") ELSE Finishes(g)
    /\ UNCHANGED <<slice, device, newest, copyOf, listed, members, online, begun, blows,
                   late, holder, astray, doubt>>

\* The copy by id is deleted, and by no job the one by identifier.
Clear(g) ==
    /\ ChoreAt(g, "clear")
    /\ copyOf' = [copyOf EXCEPT ![chore[g].id] = Absent] /\ late' = late \ {chore[g].id}
    /\ IF chore[g].do = "register" THEN ChoreTo(g, "create") ELSE Finishes(g)
    /\ UNCHANGED <<slice, device, newest, named, listed, members, online, begun, blows,
                   holder, astray, doubt>>

\* gorm inserts the devices of a user it saves; one that is there becomes his,
\* one that is gone returns, with the state of the copy.
Upsert(u, o) == [i \in Id |->
    IF i \notin listed[u] THEN device[i]
    ELSE IF i \in RowIds THEN [device[i] EXCEPT !.owner = u] ELSE [owner |-> u, online |-> o]]

\* A registration creates a user with the device; a login saves the user with it
\* and those he has.
Create(g) ==
    LET u == chore[g].by
    IN /\ ChoreAt(g, "create") /\ Finishes(g)
       /\ IF chore[g].do = "register" /\ u \in members
          THEN UNCHANGED <<device, newest, listed, members, late, holder, astray, doubt>>
          ELSE /\ newest < MaxInserted /\ newest' = newest + 1
               /\ \E o \in BOOLEAN : LET d == [Upsert(u, o) EXCEPT ![newest'] =
                                                 [owner |-> u, online |-> FALSE]]
                  IN device' = d /\ TakenBy(g, u, d) /\ doubt' = doubt \cup Twice(d) \cup
                       MixedState(g) \cup (IF online # {} THEN {"anew"} ELSE {})
               /\ late' = late \cup listed[u]
               /\ listed' = [listed EXCEPT ![u] = {}] /\ members' = members \cup {u}
       /\ UNCHANGED <<slice, copyOf, named, online, begun, blows>>

\* A user is read, with his devices, and cached; whatever saves him saves them.
LoadUser(u) ==
    /\ u \in members /\ listed[u] = {}
    /\ listed' = [listed EXCEPT ![u] = {i \in RowIds : device[i].owner = u}]
    /\ UNCHANGED <<slice, device, newest, copyOf, named, members, online, chore, begun,
                   blows, late, holder, astray, doubt>>

SaveWithDevices(u) ==
    /\ Blow /\ listed[u] # {} /\ listed' = [listed EXCEPT ![u] = {}]
    /\ \E o \in BOOLEAN : device' = Upsert(u, o)
    /\ late' = late \cup listed[u]
    /\ astray' = IF device' = device THEN astray ELSE astray \cup {"user"}
    /\ doubt' = IF listed[u] \subseteq RowIds THEN doubt ELSE doubt \cup {"user"}
    /\ UNCHANGED <<slice, newest, copyOf, named, members, online, chore, begun, holder>>

(***************************************************************************)
(* A step of the database or of the cache fails; a copy expires.           *)
(***************************************************************************)
Fails(g) ==
    /\ ~ChoreAt(g, "rest") /\ Blow /\ Finishes(g)
    /\ doubt' = IF chore[g].do \in Callback \cup {"kick"} /\ ~ChoreAt(g, "clear")
                THEN doubt \cup {"failed"} ELSE doubt
    /\ late' = IF ChoreAt(g, "clear") THEN late \cup {chore[g].id} ELSE late
    /\ UNCHANGED <<slice, device, newest, copyOf, named, listed, members, online, begun,
                   holder, astray>>

Expire ==
    /\ Blow
    /\ \/ named' = Absent /\ UNCHANGED <<copyOf, late>>
       \/ \E i \in Id : copyOf' = [copyOf EXCEPT ![i] = Absent] /\ late' = late \ {i}
                        /\ UNCHANGED named
    /\ UNCHANGED <<slice, device, newest, listed, members, online, chore, begun, holder,
                   astray, doubt>>

Work(g) ==
    \/ Request(g) \/ FindByName(g) \/ Look(g) \/ Fill(g) \/ KickOffline(g) \/ FindAgain(g)
    \/ Save(g) \/ Delete(g) \/ Clear(g) \/ Create(g) \/ Fails(g)
    \/ \E u \in DeviceUser : Connect(g, u) \/ Disconnect(g, u) \/ ListExpires(g, u)

RowNext ==
    \/ \E g \in Routine : Work(g)
    \/ \E u \in DeviceUser : Evict(u) \/ TakeList(u) \/ LoadUser(u) \/ SaveWithDevices(u)
    \/ StoreList \/ Expire

RowSpec == RowInit /\ [][RowNext]_rowVars

(***************************************************************************)
(* Properties.                                                             *)
(***************************************************************************)
Copy == [id: Id, row: UserDevice]
Chore  == [do: {"none"} \cup ByName \cup ById, by: DeviceUser \cup {Absent},
         at: {"rest", "find", "look", "lookFill", "kick", "check", "checkFill", "write",
              "clear", "create"},
         id: Id \cup {0}, row: UserDevice \cup {Absent}, read: UserDevice \cup {Absent}]

RowTypeOK ==
    /\ device \in [Id -> UserDevice \cup {Absent}] /\ newest \in Id
    /\ copyOf \in [Id -> UserDevice \cup {Absent}] /\ named \in Copy \cup {Absent}
    /\ listed \in [DeviceUser -> SUBSET Id] /\ {members, online} \subseteq SUBSET DeviceUser
    /\ slice \in Slice \cup {Absent}
    /\ chore \in [Routine -> Chore]
    /\ begun \in 0..MaxRoutines /\ blows \in 0..MaxBlows
    /\ late \subseteq Id /\ holder \in DeviceUser
    /\ astray \subseteq {"kept", "late", "mixed", "twice", "user"}
    /\ doubt \subseteq {"kept", "late", "mixed", "twice", "user", "raced", "shared",
                        "evicted", "heartbeat", "missed", "dead", "anew", "failed"}

\* "Change the user who owns the device" (loginLogic.go:162): when nothing is at
\* work, the device is the user's who took it over last.
LoginKept ==
    (\A g \in Routine : ChoreAt(g, "rest")) => \A i \in RowIds : IsFirst(i) => device[i].owner = holder

\* The device stays the user's who logged in or registered with it last, unless
\* since then a callback found the copy by identifier that nothing clears, the
\* administrator found an old copy by id, somebody saved a copy of the row, or
\* of a user, taken before, or the device had two rows (device.go:49-83).
OwnerKept == astray = {} => \A i \in RowIds : device[i].owner = holder

\* When no callback is on its way and no administrator is kicking, the row says
\* whether the device is connected, unless something has happened since a
\* callback last ran alone: two callbacks under way at once (device.go:173, 195),
\* an eviction or a kick, which call none, a heartbeat check that put back an old
\* list (263, 287), a connection of another user, a whole row saved from an old
\* copy, a second row, a row made anew, or a failure.
OnlineTruthful ==
    doubt = {} /\ Pending = {} /\ (\A g \in Routine : chore[g].do # "kick") =>
        \A i \in RowIds : device[i].online <=> online # {}
=============================================================================
