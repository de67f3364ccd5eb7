------------------------------ MODULE CachedRow ------------------------------
(***************************************************************************)
(* A row of MySQL read and written through pkg/cache, as every model of    *)
(* ppanel-server does it.                                                  *)
(*                                                                         *)
(* The row is looked up under its id and under an alias: the token of a    *)
(* row of user_subscribe, the identifier of a row of user_device.  Each    *)
(* lookup key has its own copy in Redis.  A lookup is GET, on a miss       *)
(* SELECT, then SET; an update looks the row up by its key to learn which  *)
(* keys to delete, runs its statement, alone or inside the caller's        *)
(* transaction, and then deletes the keys.  Each of these calls is a step, *)
(* so goroutines interleave between any two.                               *)
(*                                                                         *)
(* The columns of the row are abstracted to a version: the number of       *)
(* committed changes.  A deleted row has no alias.                         *)
(***************************************************************************)
EXTENDS Naturals

CONSTANTS
    Proc,       \* goroutines
    Alias,      \* tokens or identifiers the row may carry
    FirstAlias, \* the one it was inserted with
    Tables,     \* the tables considered
    MaxUpdates, \* bound: updates and deletions started
    MaxFailed,  \* bound: calls that fail and end their operation
    None        \* no copy, no goroutine, no alias

Id  == "id"
Key == Alias \cup {Id}
AllTables == {"subscribe", "device"}

ASSUME ConstantsAssumption ==
    /\ Tables \subseteq AllTables /\ FirstAlias \in Alias
    /\ MaxUpdates \in Nat /\ MaxFailed \in Nat

ASSUME DistinctAssumption ==
    /\ None \notin Proc /\ None \notin Alias /\ Id \notin Alias

\* The expiry of a copy in days; redis keeps a value set with 0 for ever.
NoExpiry == 0  \* Mutant: the default is left out.
Expiry   == 7

Row  == [ver: Nat \ {0}, alias: Alias \cup {None}]
ASSUME CopyAssumption == None \notin Row

Op == [kind: {"read", "save", "delete"}, key: Key,
       target: Alias \cup {None}, tx: BOOLEAN]

Labels == {"idle", "get", "query", "fill", "exec", "del", "commit"}

VARIABLES
    table,   \* the table the row belongs to
    row,     \* the committed row
    cache,   \* the copies in Redis
    lock,    \* the goroutine whose open transaction holds the row lock
    pc, op,  \* where a goroutine is, and in which operation
    got,     \* the row its lookup found
    wrote,   \* the row as its statement left it
    updates, failed, \* history: counted for the bounds
    floor,   \* history: per key, the version of the last acknowledged update
    answer   \* history: the answer of a lookup, in the step that gives it

storeVars == <<row, cache, lock>>
procVars  == <<pc, op, got, wrote>>
boundVars == <<updates, failed>>
vars == <<table, storeVars, procVars, boundVars, floor, answer>>

Init ==
    /\ table \in Tables
    /\ row = [ver |-> 1, alias |-> FirstAlias]
    /\ cache = [k \in Key |-> None] /\ lock = None
    /\ pc = [p \in Proc |-> "idle"] /\ op = [p \in Proc |-> None]
    /\ got = [p \in Proc |-> None] /\ wrote = [p \in Proc |-> None]
    /\ updates = 0 /\ failed = 0
    /\ floor = [k \in Key |-> 1] /\ answer = None

At(p, l) == pc[p] = l

\* No lookup returns in this step.
Silent == answer' = None

Idle(p) ==
    /\ pc'    = [pc EXCEPT ![p] = "idle"]
    /\ op'    = [op EXCEPT ![p] = None]
    /\ got'   = [got EXCEPT ![p] = None]
    /\ wrote' = [wrote EXCEPT ![p] = None]

(***************************************************************************)
(* Operations start with a lookup.                                         *)
(***************************************************************************)
Begin(p, o) ==
    /\ At(p, "idle")
    /\ pc' = [pc EXCEPT ![p] = "get"]
    /\ op' = [op EXCEPT ![p] = o]
    /\ Silent
    /\ UNCHANGED <<table, got, wrote, storeVars, failed, floor>>

\* FindOneSubscribe, FindOneSubscribeByToken, FindOneDevice and
\* FindOneDeviceByIdentifier.
BeginRead(p) ==
    /\ \E k \in Key :
         Begin(p, [kind |-> "read", key |-> k, target |-> None, tx |-> FALSE])
    /\ UNCHANGED updates

\* UpdateSubscribe and UpdateDevice: the caller's row may carry another alias.
BeginSave(p) ==
    /\ updates < MaxUpdates /\ updates' = updates + 1
    /\ \E a \in Alias, t \in BOOLEAN :
         Begin(p, [kind |-> "save", key |-> Id, target |-> a, tx |-> t])

\* DeleteSubscribeById and DeleteDevice go by id, DeleteSubscribe by token.
BeginDelete(p) ==
    /\ updates < MaxUpdates /\ updates' = updates + 1
    /\ \E k \in (IF table = "subscribe" THEN Key ELSE {Id}), t \in BOOLEAN :
         Begin(p, [kind |-> "delete", key |-> k, target |-> None, tx |-> t])

(***************************************************************************)
(* QueryCtx: GET; on a miss SELECT, then SET.                              *)
(***************************************************************************)
\* The lookup found r; an update goes on with its statement.
Arrive(p, r) ==
    /\ answer' = [key |-> op[p].key, ver |-> r.ver]
    /\ \/ op[p].kind = "read" /\ Idle(p)
       \/ /\ op[p].kind # "read"
          /\ pc'  = [pc EXCEPT ![p] = "exec"]
          /\ got' = [got EXCEPT ![p] = r]
          /\ UNCHANGED <<op, wrote>>

Get(p) ==
    /\ At(p, "get")
    /\ \/ /\ cache[op[p].key] # None
          /\ Arrive(p, cache[op[p].key])
       \/ /\ cache[op[p].key] = None
          /\ pc' = [pc EXCEPT ![p] = "query"]
          /\ Silent
          /\ UNCHANGED <<op, got, wrote>>
    /\ UNCHANGED <<table, storeVars, boundVars, floor>>

\* The WHERE clause of the SELECT.
Matches(k) == row.alias # None /\ k \in {Id, row.alias}

Query(p) ==
    /\ At(p, "query") /\ Matches(op[p].key)
    /\ pc'  = [pc EXCEPT ![p] = "fill"]
    /\ got' = [got EXCEPT ![p] = row]
    /\ Silent
    /\ UNCHANGED <<table, op, wrote, storeVars, boundVars, floor>>

\* ErrRecordNotFound is returned and nothing is cached.
QueryNotFound(p) ==
    /\ At(p, "query") /\ ~Matches(op[p].key)
    /\ Idle(p) /\ Silent
    /\ UNCHANGED <<table, storeVars, boundVars, floor>>

Fill(p) ==
    /\ At(p, "fill")
    /\ cache' = [cache EXCEPT ![op[p].key] = got[p]]
    /\ Arrive(p, got[p])
    /\ UNCHANGED <<table, row, lock, boundVars, floor>>

\* A copy reaches its expiry, or another model's DEL drops it.
Expire(k) ==
    /\ Expiry > 0 /\ cache[k] # None
    /\ cache' = [cache EXCEPT ![k] = None]
    /\ Silent
    /\ UNCHANGED <<table, row, lock, procVars, boundVars, floor>>

(***************************************************************************)
(* ExecCtx: the statement, then DEL of the keys of the looked-up row.      *)
(***************************************************************************)
\* Save writes the row, and inserts it again when it was deleted; DELETE may
\* find nothing to delete.
Result(o) ==
    IF o.kind = "save" THEN [ver |-> row.ver + 1, alias |-> o.target]
    ELSE IF Matches(o.key) THEN [ver |-> row.ver + 1, alias |-> None]
    ELSE row

\* Without a transaction the statement commits at once; in one it takes the
\* row lock and shows after the commit.
Exec(p) ==
    /\ At(p, "exec") /\ lock = None
    /\ wrote' = [wrote EXCEPT ![p] = Result(op[p])]
    /\ pc' = [pc EXCEPT ![p] = "del"]
    /\ \/ op[p].tx  /\ lock' = p /\ UNCHANGED row
       \/ ~op[p].tx /\ row' = Result(op[p]) /\ UNCHANGED lock
    /\ Silent
    /\ UNCHANGED <<table, op, got, cache, boundVars, floor>>

\* Mutant: getSubscribeCacheKey names the id only, as user_device does.
IdKeyOnly(r) == {Id}

\* getSubscribeCacheKey; UpdateDevice and DeleteDevice name the id only.
CacheKeys(r) == IF table = "subscribe" THEN {Id, r.alias} ELSE {Id}

\* The keys an acknowledged update answers for: unless another lookup, begun
\* before it, is about to SET an older row.
Settled(p) ==
    {k \in IF table = "subscribe" THEN {Id, got[p].alias} ELSE {Id} :
        \A q \in Proc : At(q, "fill") /\ op[q].key = k
                          => got[q].ver >= wrote[p].ver}

Acknowledge(p) ==
    floor' = [k \in Key |-> IF k \in Settled(p) /\ floor[k] < wrote[p].ver
                            THEN wrote[p].ver ELSE floor[k]]

Del(p) ==
    /\ At(p, "del")
    /\ cache' = [k \in Key |-> IF k \in CacheKeys(got[p]) THEN None ELSE cache[k]]
    /\ \/ /\ op[p].tx
          /\ pc' = [pc EXCEPT ![p] = "commit"]
          /\ UNCHANGED <<op, got, wrote, floor>>
       \/ ~op[p].tx /\ Acknowledge(p) /\ Idle(p)
    /\ Silent
    /\ UNCHANGED <<table, row, lock, boundVars>>

Commit(p) ==
    /\ At(p, "commit")
    /\ row' = wrote[p] /\ lock' = None
    /\ Idle(p) /\ Silent
    /\ UNCHANGED <<table, cache, boundVars, floor>>

\* Mutant: ExecCtx does not return the error of DEL.
DelErrorIgnored(p) ==
    /\ ~At(p, "idle") /\ failed < MaxFailed /\ failed' = failed + 1
    /\ IF At(p, "del") /\ ~op[p].tx THEN Acknowledge(p) ELSE UNCHANGED floor
    /\ lock' = IF lock = p THEN None ELSE lock
    /\ Idle(p) /\ Silent
    /\ UNCHANGED <<table, row, cache, updates>>

\* A call to MySQL or Redis fails: the operation ends with the error, and an
\* open transaction rolls back.
Abort(p) ==
    /\ ~At(p, "idle") /\ failed < MaxFailed /\ failed' = failed + 1
    /\ lock' = IF lock = p THEN None ELSE lock
    /\ Idle(p) /\ Silent
    /\ UNCHANGED <<table, row, cache, updates, floor>>

Step(p) ==
    \/ Get(p) \/ Query(p) \/ QueryNotFound(p) \/ Fill(p)
    \/ Exec(p) \/ Del(p) \/ Commit(p)

Next ==
    \/ \E p \in Proc : BeginRead(p) \/ BeginSave(p) \/ BeginDelete(p)
                         \/ Step(p) \/ Abort(p)
    \/ \E k \in Key : Expire(k)

Spec == Init /\ [][Next]_vars

\* A goroutine in the middle of an operation is scheduled until it ends, and
\* Redis drops a copy when its time to live is over.
Fairness ==
    /\ \A p \in Proc : WF_vars(Step(p))
    /\ \A k \in Key : WF_vars(Expire(k))

FairSpec == Spec /\ Fairness

(***************************************************************************)
(* Properties.                                                             *)
(***************************************************************************)
Typed ==
    /\ table \in AllTables
    /\ row \in Row
    /\ cache \in [Key -> Row \cup {None}]
    /\ lock \in Proc \cup {None}
    /\ pc \in [Proc -> Labels]
    /\ op \in [Proc -> Op \cup {None}]
    /\ got \in [Proc -> Row \cup {None}]
    /\ wrote \in [Proc -> Row \cup {None}]
    /\ updates \in Nat /\ failed \in Nat
    /\ floor \in [Key -> Nat \ {0}]
    /\ answer \in [key: Key, ver: Nat \ {0}] \cup {None}

\* What goroutine p holds at each place.
Located(p) ==
    /\ ~At(p, "idle") => op[p] \in Op
    /\ pc[p] \in {"fill", "exec", "del", "commit"} => got[p] \in Row
    /\ pc[p] \in {"exec", "del", "commit"} => op[p].kind # "read"
    /\ pc[p] \in {"del", "commit"} => wrote[p] \in Row
    /\ lock = p <=> pc[p] \in {"del", "commit"} /\ op[p].tx
    /\ At(p, "commit") => op[p].tx

\* Types; a goroutine holds the row lock exactly while its transaction is
\* open, and has looked a row up wherever it needs one (gorm.go:81-114).
TypeOK == Typed /\ \A p \in Proc : Located(p)

\* After an update outside a transaction has been acknowledged, no copy of an
\* older row is cached, or on its way into the cache, under the keys of the
\* row the update looked up (gorm.go:81, subscribe.go:111): whatever other
\* updates, deletions, transactions and failures happen before and after.
FreshAfterWrite ==
    /\ \A k \in Key : cache[k] # None => cache[k].ver >= floor[k]
    /\ \A p \in Proc : At(p, "fill") => got[p].ver >= floor[op[p].key]

AsRegister == INSTANCE FreshRegister WITH version <- row.ver

\* Readers see a register that may lag behind but answers with committed
\* versions only, and never below what an acknowledged update promised
\* (gorm.go:102 against gorm.go:81).
ImplementsRegister == AsRegister!Spec

\* When the updates are over, every copy ends up equal to the row, and only
\* under keys that still name it: what a race, a transaction, a failed DEL or
\* a forgotten key left stale is repaired by the expiry alone (gorm.go:77).
EventuallyFresh ==
    <>[](\A k \in Key : cache[k] # None => cache[k] = row /\ Matches(k))
=============================================================================
