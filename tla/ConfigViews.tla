---------------------------- MODULE ConfigViews ----------------------------
(***************************************************************************)
(* One category of the system's settings: rows of the table system, the    *)
(* copy of the category in Redis, and the struct in the memory of the      *)
(* process that requests are served from.                                  *)
(*                                                                         *)
(* The administrator saves a category as one UPDATE per setting, in a      *)
(* transaction that also deletes the copy; after the commit most handlers  *)
(* load the category again, through the cache, into memory, by the names   *)
(* of the struct's fields; a new subscription path restarts the server.    *)
(* Two settings stand for all of a category, "a" for the path and for the  *)
(* keys of Turnstile.  A value is the request that set it.                 *)
(***************************************************************************)
EXTENDS Naturals

CONSTANTS
    Handler,    \* goroutines
    Categories, \* the categories considered
    MaxSaves,   \* bound: requests of the administrator
    MaxLoads,   \* bound: reads and reloads
    MaxMishaps, \* bound: calls that fail
    Void        \* no copy, no goroutine, a struct that nothing is set in

Setting == {"a", "b"}
Rows    == [Setting -> Nat]
Lines   == {"idle", "second", "clear", "commit", "after", "restart", "shut",
            "get", "query", "fill", "assign"}
Duties  == {"save", "read", "reload", "restart"}

ASSUME ConfAssumption ==
    /\ Categories \subseteq {"site", "register", "invite", "verify", "node",
                             "subscribe", "verify_code", "tos", "privacy",
                             "currency"}
    /\ {MaxSaves, MaxLoads, MaxMishaps} \subseteq Nat
    /\ Void \notin Handler /\ Void \notin Rows

VARIABLES
    category, \* the category
    stored,   \* its committed rows
    confCopy, \* its copy in Redis
    memory,   \* the struct in memory
    confLock, \* the goroutine whose open transaction holds the rows
    line, duty, \* where a goroutine is, in which operation
    draft,    \* the rows as its transaction left them
    loaded,   \* what its lookup found
    saves, loads, mishaps, \* history: counted for the bounds
    blots     \* history: events that explain a wrong view

confStore == <<stored, confCopy, memory, confLock>>
confFlow  == <<line, duty, draft, loaded>>
confPast  == <<saves, loads, mishaps, blots>>
confVars  == <<category, confStore, confFlow, confPast>>

(***************************************************************************)
(* What the handlers differ in: a failing UPDATE ends the loop, but some   *)
(* return only the error of the deletion, and commit what they have; some  *)
(* do not load the category again.                                         *)
(***************************************************************************)
Site       == [swallows |-> FALSE, reloads |-> TRUE]
Register   == [swallows |-> FALSE, reloads |-> TRUE]
Invite     == [swallows |-> FALSE, reloads |-> TRUE]
Verify     == [swallows |-> FALSE, reloads |-> TRUE]
Node       == [swallows |-> TRUE,  reloads |-> TRUE]
Subscribe  == [swallows |-> TRUE,  reloads |-> TRUE]
VerifyCode == [swallows |-> TRUE,  reloads |-> FALSE]
\* These are read through the copy alone and have no struct.
Tos           == [swallows |-> TRUE,  reloads |-> FALSE]
PrivacyPolicy == [swallows |-> TRUE,  reloads |-> FALSE]
Currency      == [swallows |-> FALSE, reloads |-> FALSE]

\* Mutant: the node settings are not loaded again.
HandlerKept(c) ==
    [site |-> Site, register |-> Register, invite |-> Invite, verify |-> Verify,
     node |-> VerifyCode, subscribe |-> Subscribe, verify_code |-> VerifyCode,
     tos |-> Tos, privacy |-> PrivacyPolicy, currency |-> Currency][c]

HandlerOf(c) ==
    [site |-> Site, register |-> Register, invite |-> Invite, verify |-> Verify,
     node |-> Node, subscribe |-> Subscribe, verify_code |-> VerifyCode,
     tos |-> Tos, privacy |-> PrivacyPolicy, currency |-> Currency][c]

InMemory == category \notin {"tos", "privacy", "currency"}

\* SystemConfigSliceReflectToStruct looks the field up that has the name of
\* the row's key.  Those of verify_code (VerifyCodeExpireTime, ...) are not
\* those of config.VerifyCode (ExpireTime, ...), so nothing is set.
Converted(c, rows) == IF c = "verify_code" THEN Void ELSE rows

ConfInit ==
    /\ category \in Categories
    /\ stored = [s \in Setting |-> 0] /\ confCopy = stored
    /\ memory = Converted(category, stored)
    /\ confLock = Void
    /\ line = [h \in Handler |-> "idle"] /\ duty = [h \in Handler |-> "read"]
    /\ draft = [h \in Handler |-> Void] /\ loaded = [h \in Handler |-> Void]
    /\ saves = 0 /\ loads = 0 /\ mishaps = 0 /\ blots = {}

Is(h, l)   == line[h] = l
GoOn(h, l) == line' = [line EXCEPT ![h] = l] /\ UNCHANGED duty

\* The goroutine is done.
Rest(h) ==
    /\ line'   = [line EXCEPT ![h] = "idle"]
    /\ duty'   = [duty EXCEPT ![h] = "read"]
    /\ draft'  = [draft EXCEPT ![h] = Void]
    /\ loaded' = [loaded EXCEPT ![h] = Void]

BlotIf(b, m) == blots' = IF b THEN blots \cup {m} ELSE blots

\* Requests are taken: no restart is between Shutdown and the next listener.
Serving == \A k \in Handler : duty[k] = "restart" => Is(k, "restart")

----------------------------------------------------------------------------
\* The handler opens its transaction; its first UPDATE locks the rows.
BeginSettings(h) ==
    /\ Is(h, "idle") /\ Serving /\ saves < MaxSaves /\ saves' = saves + 1
    /\ confLock = Void /\ confLock' = h
    /\ line' = [line EXCEPT ![h] = "second"]
    /\ duty' = [duty EXCEPT ![h] = "save"]
    /\ draft' = [draft EXCEPT ![h] = [stored EXCEPT !["a"] = saves + 1]]
    /\ UNCHANGED <<category, stored, confCopy, memory, loaded, loads, mishaps,
                   blots>>

\* Mutant: the handlers that test the error of the loop swallow it too.
WriteSecondAny(h) ==
    /\ Is(h, "second")
    /\ \/ /\ draft' = [draft EXCEPT ![h]["b"] = draft[h]["a"]]
          /\ GoOn(h, "clear") /\ UNCHANGED <<confLock, mishaps, blots, loaded>>
       \/ /\ mishaps < MaxMishaps /\ mishaps' = mishaps + 1
          /\ GoOn(h, "clear")
          /\ BlotIf(HandlerOf(category).swallows, "half")
          /\ UNCHANGED <<draft, confLock, loaded>>
    /\ UNCHANGED <<category, stored, confCopy, memory, saves, loads>>

\* The loop's last UPDATE; when it fails, the handler either goes on to the
\* deletion or returns the error.
WriteSecond(h) ==
    /\ Is(h, "second")
    /\ \/ /\ draft' = [draft EXCEPT ![h]["b"] = draft[h]["a"]]
          /\ GoOn(h, "clear") /\ UNCHANGED <<confLock, mishaps, blots, loaded>>
       \/ /\ mishaps < MaxMishaps /\ mishaps' = mishaps + 1
          /\ \/ /\ HandlerOf(category).swallows
                /\ GoOn(h, "clear") /\ BlotIf(TRUE, "half")
                /\ UNCHANGED <<draft, confLock, loaded>>
             \/ /\ ~HandlerOf(category).swallows
                /\ Rest(h) /\ confLock' = Void /\ UNCHANGED blots
    /\ UNCHANGED <<category, stored, confCopy, memory, saves, loads>>

\* Redis.Del, inside the transaction; if it fails, all is rolled back.
ClearConf(h) ==
    /\ Is(h, "clear")
    /\ \/ /\ confCopy' = Void /\ GoOn(h, "commit")
          /\ UNCHANGED <<confLock, draft, loaded, mishaps>>
       \/ /\ mishaps < MaxMishaps /\ mishaps' = mishaps + 1
          /\ Rest(h) /\ confLock' = Void /\ UNCHANGED confCopy
    /\ UNCHANGED <<category, stored, memory, saves, loads, blots>>

\* After the commit the category is loaded again, or the handler returns.
CommitConf(h) ==
    /\ Is(h, "commit")
    /\ stored' = draft[h] /\ confLock' = Void
    /\ \/ /\ HandlerOf(category).reloads
          /\ line' = [line EXCEPT ![h] = "after"]
          /\ duty' = [duty EXCEPT ![h] = "reload"]
          /\ UNCHANGED <<draft, loaded>>
       \/ ~HandlerOf(category).reloads /\ Rest(h)
    /\ UNCHANGED <<category, confCopy, memory, saves, loads, mishaps, blots>>

\* What precedes the load: Verify copies the request's keys of Turnstile into
\* memory, unless they are empty; Subscribe looks whether the path is new.
AfterCommit(h) ==
    /\ Is(h, "after")
    /\ \/ /\ category = "subscribe" /\ memory["a"] # draft[h]["a"]
          /\ line' = [line EXCEPT ![h] = "restart"]
          /\ duty' = [duty EXCEPT ![h] = "restart"]
          /\ UNCHANGED memory
       \/ /\ category = "subscribe" => memory["a"] = draft[h]["a"]
          /\ GoOn(h, "get")
          /\ \/ UNCHANGED memory
             \/ /\ category = "verify"
                /\ memory' = [memory EXCEPT !["a"] = draft[h]["a"]]
    /\ draft' = [draft EXCEPT ![h] = Void]
    /\ UNCHANGED <<category, stored, confCopy, confLock, loaded, confPast>>

\* Service.Restart: Shutdown waits for the requests under way, and Start loads
\* all the categories before it listens; if one of them outlasts the five
\* seconds, the listeners are closed and that is all.
Restart(h) ==
    /\ Is(h, "restart")
    /\ LET busy == {k \in Handler : ~Is(k, "idle") /\ duty[k] # "restart"}
       IN \/ busy = {} /\ GoOn(h, "get")
          \/ busy # {} /\ GoOn(h, "shut")
    /\ UNCHANGED <<category, confStore, draft, loaded, confPast>>

\* The transaction fails to commit.
CommitFails(h) ==
    /\ Is(h, "commit") /\ mishaps < MaxMishaps /\ mishaps' = mishaps + 1
    /\ confLock' = Void
    /\ Rest(h)
    /\ UNCHANGED <<category, stored, confCopy, memory, saves, loads, blots>>

(***************************************************************************)
(* The getters of SystemModel: GET; on a miss SELECT, then SET.  What they *)
(* return is answered, or assigned to the struct.                          *)
(***************************************************************************)
\* A request reads the category.  initialize.Verify, called when "verify" is
\* saved, loads "verify_code" too; the restart for a new path loads the others.
BeginLoad(h) ==
    /\ Is(h, "idle") /\ Serving /\ loads < MaxLoads /\ loads' = loads + 1
    /\ \/ UNCHANGED duty /\ line' = [line EXCEPT ![h] = "get"]
       \/ /\ category = "verify_code"
          /\ duty' = [duty EXCEPT ![h] = "reload"]
          /\ line' = [line EXCEPT ![h] = "get"]
       \/ /\ InMemory /\ category # "subscribe"
          /\ duty' = [duty EXCEPT ![h] = "restart"]
          /\ line' = [line EXCEPT ![h] = "restart"]
    /\ UNCHANGED <<category, confStore, draft, loaded, saves, mishaps, blots>>

Loaded(h, r) ==
    \/ /\ duty[h] # "read"
       /\ GoOn(h, "assign")
       /\ loaded' = [loaded EXCEPT ![h] = r] /\ UNCHANGED draft
    \/ duty[h] = "read" /\ Rest(h)

GetConf(h) ==
    /\ Is(h, "get")
    /\ \/ confCopy # Void /\ Loaded(h, confCopy)
       \/ confCopy = Void /\ GoOn(h, "query") /\ UNCHANGED <<draft, loaded>>
    /\ UNCHANGED <<category, confStore, confPast>>

QueryConf(h) ==
    /\ Is(h, "query")
    /\ loaded' = [loaded EXCEPT ![h] = stored]
    /\ GoOn(h, "fill")
    /\ UNCHANGED <<category, confStore, draft, confPast>>

FillConf(h) ==
    /\ Is(h, "fill")
    /\ confCopy' = loaded[h]
    /\ Loaded(h, loaded[h])
    /\ BlotIf(loaded[h] # stored \/ \E k \in Handler : Is(k, "commit"), "lateFill")
    /\ UNCHANGED <<category, stored, memory, confLock, saves, loads, mishaps>>

AssignConf(h) ==
    /\ Is(h, "assign")
    /\ memory' = Converted(category, loaded[h])
    /\ BlotIf(loaded[h] # stored /\ confCopy # loaded[h], "crossed")
    /\ Rest(h)
    /\ UNCHANGED <<category, stored, confCopy, confLock, saves, loads, mishaps>>

\* The lookup of a reload fails: the error is logged, the struct stays.  (Site
\* and Node panic; the handler's recovery answers with an error.)
LoadFails(h) ==
    /\ line[h] \in {"get", "query"} /\ mishaps < MaxMishaps
    /\ mishaps' = mishaps + 1
    /\ BlotIf(duty[h] # "read", "notLoaded")
    /\ Rest(h)
    /\ UNCHANGED <<category, confStore, saves, loads>>

ConfNext ==
    \E h \in Handler :
      \/ BeginSettings(h) \/ WriteSecond(h) \/ ClearConf(h)
      \/ CommitConf(h) \/ CommitFails(h) \/ AfterCommit(h) \/ Restart(h)
      \/ BeginLoad(h) \/ GetConf(h) \/ QueryConf(h) \/ FillConf(h)
      \/ AssignConf(h) \/ LoadFails(h)

ConfSpec == ConfInit /\ [][ConfNext]_confVars

(***************************************************************************)
(* Properties.                                                             *)
(***************************************************************************)
ConfTypeOK ==
    /\ category \in Categories /\ stored \in Rows /\ memory \in Rows \cup {Void}
    /\ confCopy \in Rows \cup {Void} /\ confLock \in Handler \cup {Void}
    /\ line \in [Handler -> Lines] /\ duty \in [Handler -> Duties]
    /\ draft \in [Handler -> Rows \cup {Void}]
    /\ loaded \in [Handler -> Rows \cup {Void}]

\* A category is saved as a whole or not at all; unless an UPDATE failed in a
\* handler that returns only the error of the deletion
\* (updateNodeConfigLogic.go:51 and its like).
ConfigWhole == stored["a"] = stored["b"] \/ "half" \in blots

\* When nothing is under way, requests are served what the conversion makes
\* of the settings that are stored (of verify_code it makes nothing: whatever
\* is saved, the struct stays empty); unless a reader filled the copy with
\* what it had read before the commit, which comes after the deletion
\* (updateSiteConfigLogic.go:53), another request's reload overtook this one,
\* or the reload failed.
ConfResting == \A h \in Handler : Is(h, "idle")
MemoryFresh ==
    ConfResting /\ InMemory /\ memory # Converted(category, stored) =>
        blots \cap {"lateFill", "crossed", "notLoaded"} # {}
=============================================================================
