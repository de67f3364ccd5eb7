------------------------------ MODULE StoreProofs ------------------------------
(***************************************************************************)
(* Proofs about what lies between the panel and its database: the copies   *)
(* of a row in Redis, the configuration in memory, and the pool of         *)
(* connections.                                                            *)
(***************************************************************************)
EXTENDS CachedRow, ConfigViews, ConnectionPool, FiniteSetTheorems, TLAPS

(***************************************************************************)
(* The inductive invariant of CachedRow, and that it implements            *)
(* FreshRegister, for any number of goroutines and any bounds.             *)
(***************************************************************************)
\* No copy, in Redis or on its way there, is newer than the committed row,
\* and no floor is above it.
NothingAhead ==
    /\ \A k \in Key : cache[k] # None => cache[k].ver <= row.ver
    /\ \A p \in Proc : At(p, "fill") => got[p].ver <= row.ver
    /\ \A k \in Key : floor[k] <= row.ver

\* A statement that ran alone has left a committed version; one inside an
\* open transaction leaves the committed version or the next one.
WrittenInOrder ==
    \A p \in Proc : pc[p] \in {"del", "commit"} =>
        IF op[p].tx THEN wrote[p].ver \in {row.ver, row.ver + 1}
                    ELSE wrote[p].ver <= row.ver

IInv == TypeOK /\ FreshAfterWrite /\ NothingAhead /\ WrittenInOrder

LEMMA InitInv == Init => IInv
  BY ConstantsAssumption, DistinctAssumption, CopyAssumption
  DEF Init, IInv, TypeOK, Typed, Located, FreshAfterWrite, NothingAhead,
      WrittenInOrder, At, Row, Op, Key, Id, AllTables, Labels

(***************************************************************************)
(* Types.                                                                  *)
(***************************************************************************)
\* A goroutine that begins an operation has nothing in hand but the request.
LEMMA BeginType ==
  ASSUME NEW p \in Proc, NEW o \in Op, TypeOK, Begin(p, o), updates' \in Nat
  PROVE  TypeOK'
  <1> USE DEF Begin, storeVars, At, Silent
  <1>1. Typed'
    BY DEF TypeOK, Typed, Labels
  <1>2. ASSUME NEW q \in Proc PROVE Located(q)'
    <2>1. CASE q = p
      BY <2>1 DEF TypeOK, Typed, Located, Labels
    <2>2. CASE q # p
      <3>1. /\ pc'[q] = pc[q] /\ op'[q] = op[q] /\ got'[q] = got[q]
            /\ wrote'[q] = wrote[q] /\ lock' = lock
        BY <2>2 DEF TypeOK, Typed
      <3>2. QED
        BY <3>1 DEF TypeOK, Located
    <2>3. QED
      BY <2>1, <2>2
  <1>3. QED
    BY <1>1, <1>2 DEF TypeOK

\* A goroutine whose step leaves another one alone does not misplace it.
LEMMA OthersLocated ==
  ASSUME NEW q \in Proc, Located(q),
         pc'[q] = pc[q], op'[q] = op[q], got'[q] = got[q],
         wrote'[q] = wrote[q], (lock' = q) <=> (lock = q)
  PROVE  Located(q)'
  BY DEF Located, At

\* The end of an operation, with the lock given back.
LEMMA IdleType ==
  ASSUME NEW p \in Proc, TypeOK, Idle(p), lock' = (IF lock = p THEN None ELSE lock),
         (Typed /\ Idle(p)) => Typed'
  PROVE  TypeOK'
  <1>1. Typed'
    BY DEF TypeOK
  <1>2. ASSUME NEW q \in Proc PROVE Located(q)'
    <2>1. CASE q = p
      BY <2>1, DistinctAssumption DEF TypeOK, Typed, Located, Idle, At
    <2>2. CASE q # p
      BY <2>2, OthersLocated, DistinctAssumption DEF TypeOK, Typed, Idle
    <2>3. QED
      BY <2>1, <2>2
  <1>3. QED
    BY <1>1, <1>2 DEF TypeOK

LEMMA TypeStep == TypeOK /\ [Next]_vars => TypeOK'
  <1> SUFFICES ASSUME TypeOK, [Next]_vars PROVE TypeOK'
    OBVIOUS
  <1>1. ASSUME NEW p \in Proc, BeginRead(p) PROVE TypeOK'
    <2>1. \A k \in Key : [kind |-> "read", key |-> k, target |-> None,
                          tx |-> FALSE] \in Op
      BY DEF Op
    <2>2. QED
      BY <1>1, <2>1, BeginType DEF BeginRead, TypeOK, Typed
  <1>2. ASSUME NEW p \in Proc, BeginSave(p) PROVE TypeOK'
    <2>1. \A a \in Alias, t \in BOOLEAN :
            [kind |-> "save", key |-> Id, target |-> a, tx |-> t] \in Op
      BY DEF Op, Key
    <2>2. updates' \in Nat
      BY <1>2 DEF BeginSave, TypeOK, Typed
    <2>3. QED
      BY <1>2, <2>1, <2>2, BeginType DEF BeginSave
  <1>3. ASSUME NEW p \in Proc, BeginDelete(p) PROVE TypeOK'
    <2>1. \A k \in Key, t \in BOOLEAN :
            [kind |-> "delete", key |-> k, target |-> None, tx |-> t] \in Op
      BY DEF Op
    <2>2. updates' \in Nat
      BY <1>3 DEF BeginDelete, TypeOK, Typed
    <2>3. QED
      BY <1>3, <2>1, <2>2, BeginType DEF BeginDelete, Key
  <1>4. ASSUME NEW p \in Proc, NEW r \in Row, Arrive(p, r), ~At(p, "idle"),
               pc[p] \in {"get", "fill"}, lock' = lock,
               cache' \in [Key -> Row \cup {None}],
               UNCHANGED <<table, row, updates, failed, floor>>
        PROVE  TypeOK'
    <2>1. op[p] \in Op /\ lock # p
      BY <1>4 DEF TypeOK, Located, At
    <2>2. answer' \in [key: Key, ver: Nat \ {0}]
      BY <1>4, <2>1 DEF Arrive, Op, Row
    <2>3. /\ pc' \in [Proc -> Labels] /\ op' \in [Proc -> Op \cup {None}]
          /\ got' \in [Proc -> Row \cup {None}]
          /\ wrote' \in [Proc -> Row \cup {None}]
      BY <1>4 DEF TypeOK, Typed, Arrive, Idle, Labels
    <2>4. Typed'
      BY <1>4, <2>2, <2>3 DEF TypeOK, Typed
    <2>5. ASSUME NEW q \in Proc PROVE Located(q)'
      <3>1. CASE q = p
        BY <1>4, <2>1, <3>1 DEF TypeOK, Typed, Located, Arrive, Idle, At
      <3>2. CASE q # p
        BY <1>4, <3>2, OthersLocated DEF TypeOK, Typed, Arrive, Idle
      <3>3. QED
        BY <3>1, <3>2
    <2>6. QED
      BY <2>4, <2>5 DEF TypeOK
  <1>5. ASSUME NEW p \in Proc, Get(p) PROVE TypeOK'
    <2>1. op[p] \in Op
      BY <1>5 DEF Get, TypeOK, Located, At
    <2>2. CASE cache[op[p].key] # None
      <3>1. cache[op[p].key] \in Row
        BY <2>1, <2>2 DEF TypeOK, Typed, Op
      <3>2. QED
        BY <1>4, <1>5, <2>2, <3>1
        DEF Get, TypeOK, Typed, At, storeVars, boundVars
    <2>3. CASE cache[op[p].key] = None
      <3>1. Typed'
        BY <1>5, <2>3
        DEF Get, TypeOK, Typed, At, Silent, storeVars, boundVars, Labels
      <3>2. ASSUME NEW q \in Proc PROVE Located(q)'
        BY <1>5, <2>3
        DEF Get, TypeOK, Typed, Located, At, storeVars, Labels
      <3>3. QED
        BY <3>1, <3>2 DEF TypeOK
    <2>4. QED
      BY <2>2, <2>3
  <1>6. ASSUME NEW p \in Proc, Query(p) PROVE TypeOK'
    <2>1. Typed'
      BY <1>6 DEF Query, TypeOK, Typed, At, Silent, storeVars, boundVars, Labels
    <2>2. ASSUME NEW q \in Proc PROVE Located(q)'
      BY <1>6 DEF Query, TypeOK, Typed, Located, At, storeVars
    <2>3. QED
      BY <2>1, <2>2 DEF TypeOK
  <1>7. ASSUME NEW p \in Proc, QueryNotFound(p) PROVE TypeOK'
    <2>1. lock # p /\ lock' = lock
      BY <1>7 DEF QueryNotFound, TypeOK, Located, At, storeVars
    <2>2. Typed'
      BY <1>7 DEF QueryNotFound, TypeOK, Typed, Idle, Silent, storeVars,
                  boundVars, Labels
    <2>3. QED
      BY <1>7, <2>1, <2>2, IdleType DEF QueryNotFound
  <1>8. ASSUME NEW p \in Proc, Fill(p) PROVE TypeOK'
    <2>1. op[p].key \in Key /\ got[p] \in Row
      BY <1>8 DEF Fill, TypeOK, Located, At, Op
    <2>2. cache' \in [Key -> Row \cup {None}]
      BY <1>8, <2>1 DEF Fill, TypeOK, Typed
    <2>3. QED
      BY <1>4, <1>8, <2>1, <2>2 DEF Fill, At, boundVars
  <1>9. ASSUME NEW p \in Proc, Exec(p) PROVE TypeOK'
    <2>1. op[p] \in Op /\ op[p].kind # "read" /\ got[p] \in Row
      BY <1>9 DEF Exec, TypeOK, Located, At
    <2>2. Result(op[p]) \in Row
      BY <2>1 DEF Result, Row, Op, TypeOK, Typed
    <2>3. Typed'
      BY <1>9, <2>2 DEF Exec, TypeOK, Typed, Silent, boundVars, Labels
    <2>4. ASSUME NEW q \in Proc PROVE Located(q)'
      <3>1. CASE q = p
        BY <1>9, <2>1, <2>2, <3>1, DistinctAssumption
        DEF Exec, TypeOK, Typed, Located, At, Op
      <3>2. CASE q # p
        BY <1>9, <3>2, OthersLocated, DistinctAssumption DEF Exec, TypeOK, Typed
      <3>3. QED
        BY <3>1, <3>2
    <2>5. QED
      BY <2>3, <2>4 DEF TypeOK
  <1>10. ASSUME NEW p \in Proc, Del(p) PROVE TypeOK'
    <2>1. op[p] \in Op /\ wrote[p] \in Row /\ (lock = p <=> op[p].tx)
      BY <1>10 DEF Del, TypeOK, Located, At
    <2>2. CASE op[p].tx
      <3>1. Typed'
        BY <1>10, <2>1, <2>2
        DEF Del, TypeOK, Typed, Silent, Idle, boundVars, Labels
      <3>2. ASSUME NEW q \in Proc PROVE Located(q)'
        BY <1>10, <2>1, <2>2 DEF Del, TypeOK, Typed, Located, At
      <3>3. QED
        BY <3>1, <3>2 DEF TypeOK
    <2>3. CASE ~op[p].tx
      <3>1. floor' \in [Key -> Nat \ {0}]
        BY <1>10, <2>1, <2>3 DEF Del, Acknowledge, TypeOK, Typed, Row
      <3>2. Typed'
        BY <1>10, <2>1, <2>3, <3>1
        DEF Del, TypeOK, Typed, Silent, Idle, boundVars, Labels
      <3>3. QED
        BY <1>10, <2>1, <2>3, <3>2, IdleType DEF Del
    <2>4. QED
      BY <2>2, <2>3
  <1>11. ASSUME NEW p \in Proc, Commit(p) PROVE TypeOK'
    <2>1. wrote[p] \in Row /\ lock = p
      BY <1>11 DEF Commit, TypeOK, Located, At
    <2>2. Typed'
      BY <1>11, <2>1 DEF Commit, TypeOK, Typed, Silent, Idle, boundVars, Labels
    <2>3. QED
      BY <1>11, <2>1, <2>2, IdleType DEF Commit
  <1>12. ASSUME NEW p \in Proc, Abort(p) PROVE TypeOK'
    <2>1. Typed'
      BY <1>12 DEF Abort, TypeOK, Typed, Silent, Idle, Labels
    <2>2. QED
      BY <1>12, <2>1, IdleType DEF Abort
  <1>13. ASSUME NEW k \in Key, Expire(k) PROVE TypeOK'
    <2>1. Typed'
      BY <1>13 DEF Expire, TypeOK, Typed, Silent, procVars, boundVars
    <2>2. \A q \in Proc : Located(q)'
      BY <1>13, OthersLocated DEF Expire, TypeOK, procVars
    <2>3. QED
      BY <2>1, <2>2 DEF TypeOK
  <1>14. CASE UNCHANGED vars
    <2>1. Typed'
      BY <1>14 DEF vars, storeVars, procVars, boundVars, TypeOK, Typed
    <2>2. \A q \in Proc : Located(q)'
      BY <1>14, OthersLocated DEF vars, storeVars, procVars, TypeOK
    <2>3. QED
      BY <2>1, <2>2 DEF TypeOK
  <1>15. QED
    BY <1>1, <1>2, <1>3, <1>5, <1>6, <1>7, <1>8, <1>9, <1>10, <1>11, <1>12,
       <1>13, <1>14 DEF Next, Step

\* Every reachable state is typed, and no goroutine holds the row lock
\* outside its transaction or goes on with a row it did not find
\* (gorm.go:81-114).
THEOREM TypeCorrect == Spec => []TypeOK
  <1>1. Init => TypeOK
    BY InitInv DEF IInv
  <1>2. QED
    BY <1>1, TypeStep, PTL DEF Spec

(***************************************************************************)
(* Freshness.                                                              *)
(***************************************************************************)
\* What a step needs of its store and its goroutine when it neither changes
\* the row nor raises a floor: a goroutine arrives before its SET or at its
\* DEL only with a row that is good for it.
LEMMA QuietStep ==
  ASSUME IInv, TypeOK',
         UNCHANGED <<row, floor>>,
         \A k \in Key : \/ cache'[k] \in {None, cache[k]}
                        \/ \E q \in Proc : /\ At(q, "fill") /\ op[q].key = k
                                           /\ cache'[k] = got[q],
         \A q \in Proc : pc'[q] \in {"fill", "del", "commit"} =>
             \/ At(q, pc'[q]) /\ op'[q] = op[q] /\ got'[q] = got[q]
                              /\ wrote'[q] = wrote[q]
             \/ pc'[q] = "fill" /\ got'[q] = row
             \/ pc'[q] = "del" /\ op'[q].tx
                               /\ wrote'[q].ver \in {row.ver, row.ver + 1}
             \/ At(q, "del") /\ pc'[q] = "commit" /\ op'[q] = op[q]
                             /\ op[q].tx /\ wrote'[q] = wrote[q]
  PROVE  IInv'
  <1>1. \A q \in Proc : At(q, "fill") => op[q].key \in Key
    BY DEF IInv, TypeOK, Located, At, Op
  <1>2. \A q \in Proc : At(q, "fill")' => op'[q].key \in Key
    BY DEF TypeOK, Located, At, Op
  <1>3. FreshAfterWrite'
    <2>1. ASSUME NEW k \in Key, cache'[k] # None
          PROVE  cache'[k].ver >= floor'[k]
      BY <2>1 DEF IInv, FreshAfterWrite
    <2>2. ASSUME NEW q \in Proc, pc'[q] = "fill"
          PROVE  got'[q].ver >= floor'[op'[q].key]
      <3>1. CASE got'[q] = row
        BY <1>2, <2>2, <3>1 DEF IInv, NothingAhead, TypeOK, Typed, Row, At
      <3>2. CASE ~(got'[q] = row)
        BY <2>2, <3>2 DEF IInv, FreshAfterWrite, At
      <3>3. QED
        BY <3>1, <3>2
    <2>3. QED
      BY <2>1, <2>2 DEF FreshAfterWrite, At
  <1>4. NothingAhead'
    <2>1. ASSUME NEW k \in Key, cache'[k] # None PROVE cache'[k].ver <= row'.ver
      BY <2>1 DEF IInv, NothingAhead
    <2>2. ASSUME NEW q \in Proc, pc'[q] = "fill" PROVE got'[q].ver <= row'.ver
      BY <2>2 DEF IInv, NothingAhead, At, TypeOK, Typed, Row
    <2>3. QED
      BY <2>1, <2>2 DEF NothingAhead, IInv, At
  <1>5. WrittenInOrder'
    BY DEF WrittenInOrder, IInv, At
  <1>6. QED
    BY <1>3, <1>4, <1>5 DEF IInv

LEMMA InvStep == IInv /\ [Next]_vars => IInv'
  <1> SUFFICES ASSUME IInv, [Next]_vars PROVE IInv'
    OBVIOUS
  <1>0. TypeOK /\ TypeOK'
    BY TypeStep DEF IInv
  <1>1. ASSUME NEW p \in Proc, BeginRead(p) \/ BeginSave(p) \/ BeginDelete(p)
        PROVE  IInv'
    <2>1. /\ UNCHANGED <<row, cache, floor, got, wrote>>
          /\ pc' = [pc EXCEPT ![p] = "get"]
          /\ \A q \in Proc : q # p => op'[q] = op[q]
      BY <1>0, <1>1 DEF BeginRead, BeginSave, BeginDelete, Begin, storeVars,
                        TypeOK, Typed
    <2>2. QED
      BY <1>0, <2>1, QuietStep DEF TypeOK, Typed, At
  <1>2. ASSUME NEW p \in Proc, Get(p) PROVE IInv'
    <2>1. UNCHANGED <<row, cache, floor>>
      BY <1>2 DEF Get, storeVars
    <2>2. pc'[p] \in {"idle", "query", "exec"}
      BY <1>0, <1>2 DEF Get, Arrive, Idle, TypeOK, Typed
    <2>3. \A q \in Proc : q # p => /\ pc'[q] = pc[q] /\ op'[q] = op[q]
                                   /\ got'[q] = got[q] /\ wrote'[q] = wrote[q]
      BY <1>0, <1>2 DEF Get, Arrive, Idle, TypeOK, Typed
    <2>4. QED
      BY <1>0, <2>1, <2>2, <2>3, QuietStep DEF At
  <1>3. ASSUME NEW p \in Proc, Query(p) PROVE IInv'
    <2>1. /\ UNCHANGED <<row, cache, floor, op, wrote>>
          /\ pc' = [pc EXCEPT ![p] = "fill"] /\ got' = [got EXCEPT ![p] = row]
      BY <1>3 DEF Query, storeVars
    <2>2. QED
      BY <1>0, <2>1, QuietStep DEF TypeOK, Typed, At
  <1>4. ASSUME NEW p \in Proc, QueryNotFound(p) \/ Abort(p) PROVE IInv'
    <2>1. UNCHANGED <<row, cache, floor>> /\ Idle(p)
      BY <1>4 DEF QueryNotFound, Abort, storeVars
    <2>2. QED
      BY <1>0, <2>1, QuietStep DEF Idle, TypeOK, Typed, At
  <1>5. ASSUME NEW p \in Proc, Fill(p) PROVE IInv'
    <2>1. /\ UNCHANGED <<row, floor>> /\ At(p, "fill")
          /\ cache' = [cache EXCEPT ![op[p].key] = got[p]]
      BY <1>5 DEF Fill
    <2>2. pc'[p] \in {"idle", "exec"}
      BY <1>0, <1>5 DEF Fill, Arrive, Idle, TypeOK, Typed
    <2>3. \A q \in Proc : q # p => /\ pc'[q] = pc[q] /\ op'[q] = op[q]
                                   /\ got'[q] = got[q] /\ wrote'[q] = wrote[q]
      BY <1>0, <1>5 DEF Fill, Arrive, Idle, TypeOK, Typed
    <2>4. \A k \in Key : \/ cache'[k] \in {None, cache[k]}
                         \/ k = op[p].key /\ cache'[k] = got[p]
      BY <1>0, <2>1 DEF TypeOK, Typed
    <2>5. QED
      BY <1>0, <2>1, <2>2, <2>3, <2>4, QuietStep DEF At
  <1>6. ASSUME NEW p \in Proc, Exec(p) PROVE IInv'
    <2>1. /\ op[p] \in Op /\ lock = None /\ UNCHANGED <<cache, floor, op, got>>
          /\ pc' = [pc EXCEPT ![p] = "del"]
          /\ wrote' = [wrote EXCEPT ![p] = Result(op[p])]
      BY <1>0, <1>6 DEF Exec, TypeOK, Located, At
    <2>2. Result(op[p]).ver \in {row.ver, row.ver + 1}
      BY <1>0, <2>1 DEF Result, TypeOK, Typed, Row
    <2>3. CASE op[p].tx
      <3>1. row' = row
        BY <1>6, <2>3 DEF Exec
      <3>2. QED
        BY <1>0, <2>1, <2>2, <2>3, <3>1, QuietStep DEF TypeOK, Typed, At
    <2>4. CASE ~op[p].tx
      <3>1. row' = Result(op[p]) /\ row'.ver >= row.ver
        BY <1>0, <1>6, <2>2, <2>4 DEF Exec, TypeOK, Typed, Row
      <3>2. \A q \in Proc : q # p /\ pc[q] \in {"del", "commit"} => ~op[q].tx
        BY <1>0, <2>1, DistinctAssumption DEF TypeOK, Located
      <3>3. /\ \A q \in Proc : At(q, "fill") => got[q] \in Row
            /\ \A q \in Proc : pc[q] \in {"del", "commit"} => wrote[q] \in Row
        BY <1>0 DEF TypeOK, Located, At
      <3>4. FreshAfterWrite'
        BY <1>0, <2>1 DEF IInv, FreshAfterWrite, At, TypeOK, Typed
      <3>5. NothingAhead'
        <4>1. \A k \in Key : cache[k] # None => cache[k].ver <= row'.ver
          BY <1>0, <3>1 DEF IInv, NothingAhead, TypeOK, Typed, Row
        <4>2. \A q \in Proc : At(q, "fill") => got[q].ver <= row'.ver
          BY <1>0, <3>1, <3>3 DEF IInv, NothingAhead, TypeOK, Typed, Row
        <4>3. \A k \in Key : floor[k] <= row'.ver
          BY <1>0, <3>1 DEF IInv, NothingAhead, TypeOK, Typed, Row
        <4>4. QED
          BY <1>0, <2>1, <4>1, <4>2, <4>3 DEF NothingAhead, At, TypeOK, Typed
      <3>6. WrittenInOrder'
        <4>1. ASSUME NEW q \in Proc, pc'[q] \in {"del", "commit"}
              PROVE  ~op'[q].tx /\ wrote'[q].ver <= row'.ver
          <5>1. CASE q = p
            BY <1>0, <2>1, <2>4, <3>1, <5>1 DEF TypeOK, Typed, Row
          <5>2. CASE q # p
            <6>1. ~op[q].tx /\ wrote[q].ver <= row.ver
              BY <1>0, <2>1, <3>2, <4>1, <5>2 DEF IInv, WrittenInOrder, TypeOK, Typed
            <6>2. QED
              BY <1>0, <2>1, <3>1, <3>3, <4>1, <5>2, <6>1 DEF TypeOK, Typed, Row
          <5>3. QED
            BY <5>1, <5>2
        <4>2. QED
          BY <4>1 DEF WrittenInOrder
      <3>7. QED
        BY <1>0, <3>4, <3>5, <3>6 DEF IInv
    <2>5. QED
      BY <2>3, <2>4
  <1>7. ASSUME NEW p \in Proc, Del(p) PROVE IInv'
    <2>1. /\ At(p, "del") /\ UNCHANGED row
          /\ cache' = [k \in Key |-> IF k \in CacheKeys(got[p]) THEN None
                                                               ELSE cache[k]]
      BY <1>7 DEF Del
    <2>2. CASE op[p].tx
      <3>1. UNCHANGED <<op, got, wrote, floor>> /\ pc' = [pc EXCEPT ![p] = "commit"]
        BY <1>7, <2>2 DEF Del
      <3>2. QED
        BY <1>0, <2>1, <2>2, <3>1, QuietStep DEF TypeOK, Typed, At
    <2>3. CASE ~op[p].tx
      <3>1. Acknowledge(p) /\ Idle(p)
        BY <1>7, <2>3 DEF Del
      <3>2. wrote[p] \in Row /\ wrote[p].ver <= row.ver
        BY <1>0, <2>1, <2>3 DEF IInv, WrittenInOrder, TypeOK, Located, At
      <3>3. Settled(p) \subseteq CacheKeys(got[p])
        BY DEF Settled, CacheKeys
      <3>4. \A k \in Key : floor'[k] = IF k \in Settled(p) /\ floor[k] < wrote[p].ver
                                       THEN wrote[p].ver ELSE floor[k]
        BY <3>1 DEF Acknowledge
      <3>5. \A q \in Proc : At(q, "fill")' =>
              /\ q # p /\ At(q, "fill") /\ got'[q] = got[q] /\ op'[q] = op[q]
              /\ got[q] \in Row /\ op[q].key \in Key
        BY <1>0, <3>1 DEF Idle, TypeOK, Typed, Located, At, Op
      <3>6. FreshAfterWrite'
        <4>1. ASSUME NEW k \in Key, cache'[k] # None
              PROVE  cache'[k].ver >= floor'[k]
          BY <2>1, <3>3, <3>4, <4>1 DEF IInv, FreshAfterWrite
        <4>2. ASSUME NEW q \in Proc, At(q, "fill")'
              PROVE  got'[q].ver >= floor'[op'[q].key]
          <5>1. got[q].ver >= floor[op[q].key]
            BY <3>5, <4>2 DEF IInv, FreshAfterWrite
          <5>2. op[q].key \in Settled(p) => got[q].ver >= wrote[p].ver
            BY <3>5, <4>2 DEF Settled
          <5>3. QED
            BY <3>4, <3>5, <4>2, <5>1, <5>2
        <4>3. QED
          BY <4>1, <4>2 DEF FreshAfterWrite
      <3>7. NothingAhead'
        <4>1. \A k \in Key : cache'[k] # None => cache'[k].ver <= row'.ver
          BY <2>1 DEF IInv, NothingAhead
        <4>2. \A q \in Proc : At(q, "fill")' => got'[q].ver <= row'.ver
          BY <2>1, <3>5 DEF IInv, NothingAhead
        <4>3. \A k \in Key : floor'[k] <= row'.ver
          BY <2>1, <3>2, <3>4 DEF IInv, NothingAhead
        <4>4. QED
          BY <4>1, <4>2, <4>3 DEF NothingAhead
      <3>8. WrittenInOrder'
        BY <1>0, <2>1, <3>1 DEF IInv, WrittenInOrder, Idle, TypeOK, Typed
      <3>9. QED
        BY <1>0, <3>6, <3>7, <3>8 DEF IInv
    <2>4. QED
      BY <2>2, <2>3
  <1>8. ASSUME NEW p \in Proc, Commit(p) PROVE IInv'
    <2>1. /\ op[p].tx /\ lock = p /\ At(p, "commit") /\ wrote[p] \in Row
          /\ UNCHANGED <<cache, floor>> /\ row' = wrote[p] /\ Idle(p)
      BY <1>0, <1>8 DEF Commit, TypeOK, Located, At
    <2>2. row'.ver \in {row.ver, row.ver + 1}
      BY <2>1 DEF IInv, WrittenInOrder, At
    <2>3. row.ver \in Nat /\ row'.ver \in Nat /\ row'.ver >= row.ver
      BY <1>0, <2>1, <2>2 DEF TypeOK, Typed, Row
    <2>4. \A q \in Proc : q # p /\ pc[q] \in {"del", "commit"} => ~op[q].tx
      BY <1>0, <2>1 DEF TypeOK, Located
    <2>5. \A q \in Proc : pc'[q] # "idle" =>
            /\ q # p /\ pc'[q] = pc[q] /\ got'[q] = got[q] /\ op'[q] = op[q]
            /\ wrote'[q] = wrote[q]
      BY <1>0, <2>1 DEF Idle, TypeOK, Typed
    <2>6. FreshAfterWrite'
      BY <2>1, <2>5 DEF IInv, FreshAfterWrite, At
    <2>7. NothingAhead'
      <3>1. \A k \in Key : cache[k] # None => cache[k].ver <= row'.ver
        BY <1>0, <2>3 DEF IInv, NothingAhead, TypeOK, Typed, Row
      <3>2. ASSUME NEW q \in Proc, At(q, "fill")' PROVE got'[q].ver <= row'.ver
        <4>1. At(q, "fill") /\ got[q] \in Row /\ got'[q] = got[q]
          BY <1>0, <2>5, <3>2 DEF TypeOK, Located, At
        <4>2. QED
          BY <2>3, <4>1 DEF IInv, NothingAhead, Row
      <3>3. \A k \in Key : floor[k] <= row'.ver
        BY <1>0, <2>3 DEF IInv, NothingAhead, TypeOK, Typed
      <3>4. QED
        BY <2>1, <3>1, <3>2, <3>3 DEF NothingAhead
    <2>8. WrittenInOrder'
      <3>1. ASSUME NEW q \in Proc, pc'[q] \in {"del", "commit"}
            PROVE  ~op'[q].tx /\ wrote'[q].ver <= row'.ver
        <4>1. q # p /\ pc[q] = pc'[q] /\ op'[q] = op[q] /\ wrote'[q] = wrote[q]
          BY <2>5, <3>1
        <4>2. wrote[q] \in Row /\ ~op[q].tx /\ wrote[q].ver <= row.ver
          BY <1>0, <2>4, <3>1, <4>1 DEF IInv, WrittenInOrder, TypeOK, Located
        <4>3. QED
          BY <2>3, <4>1, <4>2 DEF Row
      <3>2. QED
        BY <3>1 DEF WrittenInOrder
    <2>9. QED
      BY <1>0, <2>6, <2>7, <2>8 DEF IInv
  <1>9. ASSUME NEW k \in Key, Expire(k) PROVE IInv'
    <2>1. /\ UNCHANGED <<row, floor, pc, op, got, wrote>>
          /\ cache' = [cache EXCEPT ![k] = None]
      BY <1>9 DEF Expire, procVars
    <2>2. QED
      BY <1>0, <2>1, QuietStep DEF TypeOK, Typed, At
  <1>10. CASE UNCHANGED vars
    BY <1>0, <1>10, QuietStep DEF vars, storeVars, procVars, At
  <1>11. QED
    BY <1>1, <1>2, <1>3, <1>4, <1>5, <1>6, <1>7, <1>8, <1>9, <1>10
    DEF Next, Step

\* The inductive invariant, of which the two theorems below are consequences.
THEOREM InvCorrect == Spec => []IInv
  BY InitInv, InvStep, PTL DEF Spec

\* No stale copy outlives an acknowledged update under the keys of the row it
\* looked up, for any number of goroutines, keys, updates and failures
\* (gorm.go:81).
THEOREM FreshCorrect == Spec => []FreshAfterWrite
  <1>1. IInv => FreshAfterWrite
    BY DEF IInv
  <1>2. QED
    BY <1>1, InvCorrect, PTL

(***************************************************************************)
(* Refinement.                                                             *)
(***************************************************************************)
LEMMA RefineInit == Init => AsRegister!Init
  BY DEF Init, AsRegister!Init

LEMMA RefineStep == IInv /\ [Next]_vars => [AsRegister!Next]_(AsRegister!vars)
  <1> SUFFICES ASSUME IInv, [Next]_vars PROVE [AsRegister!Next]_(AsRegister!vars)
    OBVIOUS
  <1>0. TypeOK
    BY DEF IInv
  <1>1. ASSUME Silent, UNCHANGED <<row, floor>> PROVE AsRegister!Next
    BY <1>1 DEF Silent, AsRegister!Next, AsRegister!Silence
  <1>2. ASSUME NEW p \in Proc, NEW r \in Row, op[p] \in Op, Arrive(p, r),
               floor[op[p].key] <= r.ver, r.ver <= row.ver,
               UNCHANGED <<row, floor>>
        PROVE  AsRegister!Next
    <2>1. op[p].key \in Key /\ r.ver \in floor[op[p].key] .. row.ver
      BY <1>0, <1>2 DEF Op, Row, TypeOK, Typed
    <2>2. AsRegister!Read(op[p].key)
      BY <1>2, <2>1 DEF AsRegister!Read, Arrive
    <2>3. QED
      BY <2>1, <2>2 DEF AsRegister!Next
  <1>3. ASSUME Silent, UNCHANGED floor, row'.ver \in {row.ver, row.ver + 1}
        PROVE  AsRegister!Next
    BY <1>3 DEF Silent, AsRegister!Next, AsRegister!Silence, AsRegister!Write
  <1>4. ASSUME NEW p \in Proc, BeginRead(p) \/ BeginSave(p) \/ BeginDelete(p)
        PROVE  AsRegister!Next
    BY <1>1, <1>4 DEF BeginRead, BeginSave, BeginDelete, Begin, storeVars
  <1>5. ASSUME NEW p \in Proc, Get(p) PROVE AsRegister!Next
    <2>1. op[p] \in Op /\ op[p].key \in Key
      BY <1>0, <1>5 DEF Get, TypeOK, Located, At, Op
    <2>2. CASE cache[op[p].key] # None
      <3>1. /\ cache[op[p].key] \in Row /\ cache[op[p].key].ver <= row.ver
            /\ cache[op[p].key].ver >= floor[op[p].key]
        BY <1>0, <2>1, <2>2 DEF IInv, FreshAfterWrite, NothingAhead, TypeOK, Typed
      <3>2. Arrive(p, cache[op[p].key]) /\ UNCHANGED <<row, floor>>
        BY <1>5, <2>2 DEF Get, storeVars
      <3>3. floor[op[p].key] <= cache[op[p].key].ver
        BY <1>0, <2>1, <3>1 DEF TypeOK, Typed, Row
      <3>4. QED
        BY <1>2, <2>1, <3>1, <3>2, <3>3
    <2>3. CASE cache[op[p].key] = None
      BY <1>1, <1>5, <2>3 DEF Get, storeVars
    <2>4. QED
      BY <2>2, <2>3
  <1>6. ASSUME NEW p \in Proc, Query(p) \/ QueryNotFound(p) \/ Abort(p)
        PROVE  AsRegister!Next
    BY <1>1, <1>6 DEF Query, QueryNotFound, Abort, storeVars
  <1>7. ASSUME NEW p \in Proc, Fill(p) PROVE AsRegister!Next
    <2>1. /\ op[p] \in Op /\ op[p].key \in Key /\ got[p] \in Row
          /\ got[p].ver >= floor[op[p].key] /\ got[p].ver <= row.ver
      BY <1>0, <1>7 DEF Fill, IInv, FreshAfterWrite, NothingAhead, TypeOK,
                        Located, At, Op
    <2>2. floor[op[p].key] <= got[p].ver
      BY <1>0, <2>1 DEF TypeOK, Typed, Row
    <2>3. QED
      BY <1>2, <1>7, <2>1, <2>2 DEF Fill
  <1>8. ASSUME NEW p \in Proc, Exec(p) PROVE AsRegister!Next
    <2>1. Result(op[p]).ver \in {row.ver, row.ver + 1}
      BY <1>0 DEF Result, TypeOK, Typed, Row
    <2>2. QED
      BY <1>3, <1>8, <2>1 DEF Exec
  <1>9. ASSUME NEW p \in Proc, Del(p) PROVE AsRegister!Next
    <2>1. CASE op[p].tx
      BY <1>1, <1>9, <2>1 DEF Del
    <2>2. CASE ~op[p].tx
      <3>1. wrote[p] \in Row /\ wrote[p].ver <= row.ver
        BY <1>0, <1>9, <2>2 DEF Del, IInv, WrittenInOrder, TypeOK, Located, At
      <3>2. wrote[p].ver \in 1 .. row.ver
        BY <1>0, <3>1 DEF Row, TypeOK, Typed
      <3>3. floor' = [k \in Key |->
                        IF k \in Settled(p) \cap Key /\ floor[k] < wrote[p].ver
                        THEN wrote[p].ver ELSE floor[k]]
        BY <1>9, <2>2 DEF Del, Acknowledge
      <3>4. AsRegister!Promise(Settled(p) \cap Key, wrote[p].ver)
        BY <1>9, <3>1, <3>3 DEF Del, Silent, AsRegister!Promise
      <3>5. QED
        BY <3>2, <3>4 DEF AsRegister!Next
    <2>3. QED
      BY <2>1, <2>2
  <1>10. ASSUME NEW p \in Proc, Commit(p) PROVE AsRegister!Next
    <2>1. wrote[p].ver \in {row.ver, row.ver + 1}
      BY <1>0, <1>10 DEF Commit, IInv, WrittenInOrder, TypeOK, Located, At
    <2>2. QED
      BY <1>3, <1>10, <2>1 DEF Commit
  <1>11. ASSUME NEW k \in Key, Expire(k) PROVE AsRegister!Next
    BY <1>1, <1>11 DEF Expire
  <1>12. CASE UNCHANGED vars
    BY <1>12 DEF vars, storeVars, AsRegister!vars
  <1>13. QED
    BY <1>4, <1>5, <1>6, <1>7, <1>8, <1>9, <1>10, <1>11, <1>12 DEF Next, Step

\* A row read through Redis is a register that may lag behind, but answers
\* with committed versions only and never below what an acknowledged update
\* promised (gorm.go:81 and 102).
THEOREM RowImplementsRegister == Spec => ImplementsRegister
  BY InvCorrect, RefineInit, RefineStep, PTL
  DEF Spec, ImplementsRegister, AsRegister!Spec

(***************************************************************************)
(* Proofs about ConfigViews: for any number of goroutines and any bounds,  *)
(* half of a category is stored, or old settings are served, only after an *)
(* event that the properties name.                                         *)
(***************************************************************************)
InTx(h) == line[h] \in {"second", "clear", "commit"}

\* A goroutine that will load the category, and assign what it loads.
Reloading(h) == duty[h] \in {"reload", "restart"}

\* A goroutine that has a row to go on with has one, and the transaction
\* that is open is the one that holds the lock.
Led(h) ==
    /\ InTx(h) => draft[h] \in Rows /\ confLock = h /\ duty[h] = "save"
    /\ confLock = h => InTx(h)
    /\ line[h] = "after" => draft[h] \in Rows
    /\ line[h] \in {"fill", "assign"} => loaded[h] \in Rows
    /\ line[h] \in {"after", "assign", "restart", "shut"} => Reloading(h)
    /\ duty[h] = "save" => InTx(h)
    /\ duty[h] # "read" => line[h] # "idle"

ConfTypeInv ==
    /\ ConfTypeOK /\ saves \in Nat
    /\ category # "verify_code" => memory \in Rows
    /\ \A h \in Handler : Led(h)

\* Whole drafts are what a transaction goes on with, but for a failure it
\* swallows.
WholeInv ==
    \/ "half" \in blots
    \/ /\ stored["a"] = stored["b"]
       /\ \A h \in Handler : line[h] \in {"clear", "commit"} =>
                                draft[h]["a"] = draft[h]["b"]

\* As long as nothing excuses an old view: no copy is older than the rows,
\* there is none when they are about to change, and the memory has what they
\* are converted to or somebody is about to give it that.
Current ==
    /\ confCopy \in {Void, stored}
    /\ (\E h \in Handler : line[h] = "commit") => confCopy = Void
    /\ InMemory => \/ memory = Converted(category, stored)
                   \/ \E h \in Handler : Reloading(h)

Reasons == {"lateFill", "crossed", "notLoaded"}
FreshInv == blots \cap Reasons # {} \/ Current

ConfInv == ConfTypeInv /\ WholeInv /\ FreshInv

Acts(h) ==
    \/ BeginSettings(h) \/ WriteSecond(h) \/ ClearConf(h)
    \/ CommitConf(h) \/ CommitFails(h) \/ AfterCommit(h) \/ Restart(h)
    \/ BeginLoad(h) \/ GetConf(h) \/ QueryConf(h) \/ FillConf(h)
    \/ AssignConf(h) \/ LoadFails(h)

----------------------------------------------------------------------------
LEMMA InitConf == ConfInit => ConfInv
BY ConfAssumption
DEF ConfInit, ConfInv, ConfTypeInv, ConfTypeOK, Led, InTx, WholeInv, FreshInv, Current,
    Reloading, Converted, InMemory, Rows, Setting, Lines, Duties

\* A category that is in memory is loaded again, but for verify_code.
LEMMA Reloaded ==
    ASSUME category \in Categories, InMemory, category # "verify_code"
    PROVE  HandlerOf(category).reloads
BY ConfAssumption
DEF InMemory, HandlerOf, Site, Register, Invite, Verify, Node, Subscribe, VerifyCode,
    Tos, PrivacyPolicy, Currency

LEMMA ConfTypeStep ==
    ASSUME ConfTypeInv, NEW h \in Handler, Acts(h)
    PROVE  ConfTypeInv'
<1> USE ConfAssumption
    DEF ConfTypeInv, ConfTypeOK, Led, InTx, Reloading, Rows, Setting, Lines, Duties, Is,
        GoOn, confStore
<1>1. CASE BeginSettings(h)
  BY <1>1 DEF BeginSettings
<1>2. CASE WriteSecond(h)
  <2>1. line[h] = "second" /\ draft[h] \in Rows /\ confLock = h
    BY <1>2 DEF WriteSecond
  <2>2. UNCHANGED <<category, stored, memory, confCopy, saves>>
    BY <1>2 DEF WriteSecond
  <2>3. CASE draft' = [draft EXCEPT ![h]["b"] = draft[h]["a"]] /\ GoOn(h, "clear")
                /\ UNCHANGED <<confLock, loaded>>
    <3>1. draft' \in [Handler -> Rows \cup {Void}] /\ draft'[h] \in Rows
      BY <2>1, <2>3
    <3>2. \A k \in Handler \ {h} : draft'[k] = draft[k]
      BY <2>3
    <3>3. /\ line' = [line EXCEPT ![h] = "clear"]
          /\ UNCHANGED <<duty, confLock, loaded>>
      BY <2>3
    <3>4. ConfTypeOK'
      BY <2>2, <3>1, <3>3
    <3>5. ASSUME NEW k \in Handler  PROVE Led(k)'
      BY <2>1, <3>1, <3>2, <3>3
    <3> QED  BY <2>2, <3>4, <3>5
  <2>4. CASE GoOn(h, "clear") /\ UNCHANGED <<draft, confLock, loaded>>
    BY <2>1, <2>2, <2>4
  <2>5. CASE Rest(h) /\ confLock' = Void
    BY <2>1, <2>2, <2>5 DEF Rest
  <2>6. \/ /\ draft' = [draft EXCEPT ![h]["b"] = draft[h]["a"]]
           /\ GoOn(h, "clear") /\ UNCHANGED <<confLock, loaded>>
        \/ GoOn(h, "clear") /\ UNCHANGED <<draft, confLock, loaded>>
        \/ Rest(h) /\ confLock' = Void
    BY <1>2 DEF WriteSecond
  <2> HIDE DEF ConfTypeInv, GoOn
  <2> QED  BY <2>3, <2>4, <2>5, <2>6
<1>3. CASE ClearConf(h)
  BY <1>3 DEF ClearConf, Rest
<1>4. CASE CommitConf(h)
  BY <1>4 DEF CommitConf, Rest
<1>5. CASE CommitFails(h)
  <2>1. /\ line[h] = "commit" /\ Rest(h) /\ confLock' = Void
        /\ UNCHANGED <<category, stored, confCopy, memory, saves>>
    BY <1>5 DEF CommitFails
  <2>2. ConfTypeOK'
    BY <2>1 DEF Rest
  <2>3. confLock = h /\ \A k \in Handler \ {h} : ~InTx(k)
    BY <2>1
  <2>4. ASSUME NEW k \in Handler  PROVE Led(k)'
    BY <2>1, <2>3 DEF Rest
  <2> QED  BY <2>1, <2>2, <2>4
<1>6. CASE BeginLoad(h)
  BY <1>6 DEF BeginLoad
<1>7. CASE GetConf(h)
  BY <1>7 DEF GetConf, Loaded, Rest, confPast
<1>8. CASE QueryConf(h)
  BY <1>8 DEF QueryConf, confPast
<1>9. CASE FillConf(h)
  <2>1. /\ line[h] = "fill" /\ loaded[h] \in Rows /\ confCopy' = loaded[h]
        /\ UNCHANGED <<category, stored, memory, confLock, saves>>
    BY <1>9 DEF FillConf
  <2>2. CASE /\ duty[h] # "read" /\ GoOn(h, "assign") /\ UNCHANGED draft
             /\ loaded' = [loaded EXCEPT ![h] = loaded[h]]
    BY <2>1, <2>2
  <2>3. CASE Rest(h)
    BY <2>1, <2>3 DEF Rest
  <2> QED  BY <1>9, <2>2, <2>3 DEF FillConf, Loaded
<1>10. CASE AssignConf(h)
  BY <1>10 DEF AssignConf, Rest, Converted
<1>11. CASE LoadFails(h)
  BY <1>11 DEF LoadFails, Rest
<1>12. CASE AfterCommit(h)
  <2>1. CASE UNCHANGED memory
    BY <1>12, <2>1 DEF AfterCommit, confPast
  <2>3. CASE category = "verify" /\ memory' = [memory EXCEPT !["a"] = draft[h]["a"]]
    <3>1. memory \in Rows /\ draft[h] \in Rows
      BY <1>12, <2>3 DEF AfterCommit
    <3>2. memory' \in Rows
      BY <3>1, <2>3
    <3>3. /\ line[h] = "after" /\ draft' = [draft EXCEPT ![h] = Void]
          /\ UNCHANGED <<category, stored, confCopy, confLock, loaded, saves>>
          /\ \/ /\ line' = [line EXCEPT ![h] = "restart"]
                /\ duty' = [duty EXCEPT ![h] = "restart"]
             \/ /\ line' = [line EXCEPT ![h] = "get"]
                /\ UNCHANGED duty
      BY <1>12 DEF AfterCommit, confPast
    <3> QED  BY <3>2, <3>3
  <2> QED  BY <1>12, <2>1, <2>3 DEF AfterCommit
<1>13. CASE Restart(h)
  BY <1>13 DEF Restart, confPast
<1> QED  BY <1>1, <1>2, <1>3, <1>4, <1>5, <1>6, <1>7, <1>8, <1>9, <1>10, <1>11, <1>12,
            <1>13 DEF Acts

LEMMA WholeStep ==
    ASSUME ConfTypeInv, WholeInv, NEW h \in Handler, Acts(h)
    PROVE  WholeInv'
<1> USE DEF ConfTypeInv, ConfTypeOK, Led, InTx, Rows, Setting, WholeInv, Is, GoOn, confStore
<1>1. CASE BeginSettings(h)
  BY <1>1 DEF BeginSettings
<1>2. CASE WriteSecond(h)
  BY <1>2 DEF WriteSecond, Rest, BlotIf
<1>3. CASE ClearConf(h)
  BY <1>3 DEF ClearConf, Rest
<1>4. CASE CommitConf(h)
  BY <1>4 DEF CommitConf, Rest, BlotIf
<1>5. CASE CommitFails(h)
  BY <1>5 DEF CommitFails, Rest
<1>6. CASE BeginLoad(h)
  BY <1>6 DEF BeginLoad
<1>7. CASE GetConf(h)
  BY <1>7 DEF GetConf, Loaded, Rest, confPast
<1>8. CASE QueryConf(h)
  BY <1>8 DEF QueryConf, confPast
<1>9. CASE FillConf(h)
  BY <1>9 DEF FillConf, Loaded, Rest, BlotIf
<1>10. CASE AssignConf(h)
  BY <1>10 DEF AssignConf, Rest, BlotIf
<1>11. CASE LoadFails(h)
  BY <1>11 DEF LoadFails, Rest, BlotIf
<1>12. CASE AfterCommit(h)
  BY <1>12 DEF AfterCommit, confPast
<1>13. CASE Restart(h)
  BY <1>13 DEF Restart, confPast
<1> QED  BY <1>1, <1>2, <1>3, <1>4, <1>5, <1>6, <1>7, <1>8, <1>9, <1>10, <1>11, <1>12,
            <1>13 DEF Acts

----------------------------------------------------------------------------
\* A step that leaves the rows, the copy and the memory as they are: it may
\* neither reach a commit with a copy there nor give up a reload in silence.
LEMMA StillFresh ==
    ASSUME FreshInv, NEW h \in Handler,
           UNCHANGED <<category, stored, confCopy, memory>>,
           blots \subseteq blots',
           \A k \in Handler \ {h} : line'[k] = line[k] /\ duty'[k] = duty[k],
           line'[h] = "commit" => line[h] = "commit",
           Reloading(h) => Reloading(h)'
    PROVE  FreshInv'
<1>1. \A k \in Handler : Reloading(k) => Reloading(k)'
  BY DEF Reloading
<1>2. (\E k \in Handler : line'[k] = "commit") => \E k \in Handler : line[k] = "commit"
  OBVIOUS
<1>3. Current => Current'
  BY <1>1, <1>2 DEF Current, InMemory
<1> QED  BY <1>3 DEF FreshInv

\* The copy is deleted.
LEMMA ClearStep ==
    ASSUME ConfTypeInv, FreshInv, NEW h \in Handler, ClearConf(h)
    PROVE  FreshInv'
<1> USE DEF ConfTypeInv, ConfTypeOK, Is
<1>1. /\ line[h] = "clear" /\ UNCHANGED <<category, stored, memory, blots>>
      /\ \A k \in Handler \ {h} : line'[k] = line[k] /\ duty'[k] = duty[k]
      /\ confCopy' = Void \/ (confCopy' = confCopy /\ line'[h] # "commit")
      /\ ~Reloading(h)
  BY DEF ClearConf, GoOn, Rest, Led, InTx, Reloading
<1>2. \A k \in Handler : Reloading(k) => Reloading(k)'
  BY <1>1 DEF Reloading
<1>3. Current => Current'
  BY <1>1, <1>2 DEF Current, InMemory
<1> QED  BY <1>1, <1>3 DEF FreshInv

\* The rows change: there is no copy, and a reload follows, or nothing is
\* served from memory, or the category is the one that converts to nothing.
LEMMA CommitStep ==
    ASSUME ConfTypeInv, FreshInv, NEW h \in Handler, CommitConf(h)
    PROVE  FreshInv'
<1> USE DEF ConfTypeInv, ConfTypeOK, Is
<1>1. /\ line[h] = "commit" /\ UNCHANGED <<category, confCopy, memory>>
      /\ blots \subseteq blots' /\ confLock = h
      /\ \A k \in Handler \ {h} : line'[k] = line[k] /\ duty'[k] = duty[k]
      /\ line'[h] # "commit"
  BY DEF CommitConf, Rest, BlotIf, Led, InTx
<1>2. \A k \in Handler : line'[k] # "commit"
  BY <1>1 DEF Led, InTx
<1>3. CASE HandlerOf(category).reloads
  <2>1. Reloading(h)'
    BY <1>3 DEF CommitConf, Reloading
  <2> QED  BY <2>1, <1>1, <1>2 DEF FreshInv, Current
<1>4. CASE ~HandlerOf(category).reloads
  <2>1. category = "verify_code" \/ ~InMemory'
    BY <1>1, <1>4, Reloaded DEF InMemory
  <2>2. ~Reloading(h) /\ blots' = blots
    BY <1>4 DEF CommitConf, Led, InTx, Reloading
  <2>3. \A k \in Handler : Reloading(k) => Reloading(k)'
    BY <2>2, <1>1 DEF Reloading
  <2>4. Current => Current'
    BY <2>1, <2>3, <1>1, <1>2 DEF Current, InMemory, Converted
  <2> QED  BY <2>2, <2>4 DEF FreshInv
<1> QED  BY <1>3, <1>4

\* A reader fills the copy; late, or with the rows.
LEMMA FillStep ==
    ASSUME ConfTypeInv, FreshInv, NEW h \in Handler, FillConf(h)
    PROVE  FreshInv'
<1> USE DEF ConfTypeInv, ConfTypeOK, Is
<1>1. /\ line[h] = "fill" /\ UNCHANGED <<category, stored, memory>>
      /\ confCopy' = loaded[h]
      /\ \A k \in Handler \ {h} : line'[k] = line[k] /\ duty'[k] = duty[k]
      /\ line'[h] # "commit"
      /\ Reloading(h) => Reloading(h)'
  BY DEF FillConf, Loaded, Rest, GoOn, Reloading
<1>2. CASE loaded[h] # stored \/ \E k \in Handler : line[k] = "commit"
  <2>1. "lateFill" \in blots'
    BY <1>2 DEF FillConf, BlotIf
  <2> QED  BY <2>1 DEF FreshInv, Reasons
<1>3. CASE loaded[h] = stored /\ \A k \in Handler : line[k] # "commit"
  <2>1. blots' = blots
    BY <1>3 DEF FillConf, BlotIf
  <2>2. \A k \in Handler : Reloading(k) => Reloading(k)'
    BY <1>1 DEF Reloading
  <2>3. Current => Current'
    BY <1>1, <1>3, <2>2 DEF Current, InMemory
  <2> QED  BY <2>1, <2>3 DEF FreshInv
<1> QED  BY <1>2, <1>3

\* The memory is given what was loaded: the rows, or else a copy that is
\* older than they are, or something that another reload overtook.
LEMMA AssignStep ==
    ASSUME ConfTypeInv, FreshInv, NEW h \in Handler, AssignConf(h)
    PROVE  FreshInv'
<1> USE DEF ConfTypeInv, ConfTypeOK, Is
<1>1. /\ line[h] = "assign" /\ UNCHANGED <<category, stored, confCopy>>
      /\ memory' = Converted(category, loaded[h]) /\ loaded[h] \in Rows
      /\ blots' = IF loaded[h] # stored /\ confCopy # loaded[h]
                    THEN blots \cup {"crossed"} ELSE blots
      /\ line' = [line EXCEPT ![h] = "idle"]
  BY DEF AssignConf, Rest, BlotIf, Led
<1>2. CASE loaded[h] = stored
  BY <1>1, <1>2 DEF FreshInv, Current
<1>3. CASE loaded[h] # stored /\ confCopy # loaded[h]
  BY <1>1, <1>3 DEF FreshInv, Reasons
<1>4. CASE loaded[h] # stored /\ confCopy = loaded[h]
  <2>1. ~Current
    BY <1>1, <1>4, ConfAssumption DEF Current
  <2> QED  BY <2>1, <1>1, <1>4 DEF FreshInv
<1> QED  BY <1>2, <1>3, <1>4

\* A lookup fails; a reload that does is marked.
LEMMA FailStep ==
    ASSUME ConfTypeInv, FreshInv, NEW h \in Handler, LoadFails(h)
    PROVE  FreshInv'
<1> USE DEF ConfTypeInv, ConfTypeOK
<1>1. CASE duty[h] # "read"
  <2>1. "notLoaded" \in blots'
    BY <1>1 DEF LoadFails, BlotIf
  <2> QED  BY <2>1 DEF FreshInv, Reasons
<1>2. CASE duty[h] = "read"
  BY <1>2, StillFresh DEF LoadFails, Rest, BlotIf, Reloading, confStore
<1> QED  BY <1>1, <1>2

\* A step on the way to the load.
LEMMA LeadStep ==
    ASSUME ConfTypeInv, FreshInv, NEW h \in Handler, AfterCommit(h) \/ Restart(h)
    PROVE  FreshInv'
<1> USE DEF ConfTypeInv, ConfTypeOK, Is
<1>1. /\ UNCHANGED <<category, stored, confCopy, blots>>
      /\ Reloading(h)' /\ line'[h] # "commit"
      /\ \A k \in Handler \ {h} : line'[k] = line[k]
  BY DEF AfterCommit, Restart, GoOn, Reloading, Led, confStore, confPast
<1>2. Current => Current'
  BY <1>1 DEF Current
<1> QED  BY <1>1, <1>2 DEF FreshInv

LEMMA FreshStep ==
    ASSUME ConfTypeInv, FreshInv, NEW h \in Handler, Acts(h)
    PROVE  FreshInv'
<1> USE DEF ConfTypeInv, ConfTypeOK, Is, confStore, confPast, Reloading
<1>1. CASE BeginSettings(h)
  BY <1>1, StillFresh DEF BeginSettings, Led
<1>2. CASE WriteSecond(h)
  BY <1>2, StillFresh DEF WriteSecond, GoOn, Rest, BlotIf, Led, InTx
<1>3. CASE CommitFails(h)
  <2>1. ~Reloading(h)
    BY <1>3 DEF CommitFails, Led, InTx
  <2> QED  BY <1>3, <2>1, StillFresh DEF CommitFails, Rest
<1>4. CASE BeginLoad(h)
  BY <1>4, StillFresh DEF BeginLoad
<1>5. CASE GetConf(h)
  BY <1>5, StillFresh DEF GetConf, Loaded, Rest, GoOn
<1>6. CASE QueryConf(h)
  BY <1>6, StillFresh DEF QueryConf, GoOn
<1> QED  BY <1>1, <1>2, <1>3, <1>4, <1>5, <1>6, ClearStep, CommitStep, FillStep,
            AssignStep, FailStep, LeadStep DEF Acts

----------------------------------------------------------------------------
LEMMA NextConf == ConfInv /\ [ConfNext]_confVars => ConfInv'
<1> SUFFICES ASSUME ConfInv, [ConfNext]_confVars PROVE ConfInv'
  OBVIOUS
<1>1. CASE UNCHANGED confVars
  BY <1>1 DEF ConfInv, ConfTypeInv, ConfTypeOK, Led, InTx, WholeInv, FreshInv, Current,
             InMemory, Reloading, Converted, confVars, confStore, confFlow, confPast
<1>2. ASSUME NEW h \in Handler, Acts(h) PROVE ConfInv'
  BY <1>2, ConfTypeStep, WholeStep, FreshStep DEF ConfInv
<1> QED  BY <1>1, <1>2 DEF ConfNext, Acts

\* Types and the two invariants hold in every behaviour.
THEOREM ConfCorrect == ConfSpec => []ConfInv
BY InitConf, NextConf, PTL DEF ConfSpec

\* The variables of the configuration keep their types.
THEOREM ConfTypeCorrect == ConfSpec => []ConfTypeOK
<1>1. ConfInv => ConfTypeOK
  BY DEF ConfInv, ConfTypeInv
<1> QED  BY <1>1, ConfCorrect, PTL

\* Half of a category is stored only when a handler swallowed the failure of
\* an UPDATE (updateNodeConfigLogic.go:51 and its like).
THEOREM StoredWhole == ConfSpec => []ConfigWhole
<1>1. ConfInv => ConfigWhole
  BY DEF ConfInv, WholeInv, ConfigWhole
<1> QED  BY <1>1, ConfCorrect, PTL

\* When nothing is under way, the process serves what the conversion makes of
\* the stored settings, but for a copy filled across a commit, and a reload
\* overtaken or failed (updateSiteConfigLogic.go:53, verify.go:40); through
\* the copy into memory and the restart of the server as well.
THEOREM ServedFresh == ConfSpec => []MemoryFresh
<1>1. ConfInv => MemoryFresh
  <2> SUFFICES ASSUME ConfInv, ConfResting, InMemory,
                      memory # Converted(category, stored)
               PROVE  blots \cap Reasons # {}
    BY DEF MemoryFresh, Reasons
  <2>1. \A h \in Handler : ~Reloading(h)
    BY DEF ConfResting, Is, Reloading, ConfInv, ConfTypeInv, ConfTypeOK, Led, Duties
  <2> QED  BY <2>1 DEF ConfInv, FreshInv, Current
<1> QED  BY <1>1, ConfCorrect, PTL

(***************************************************************************)
(* Proofs about ConnectionPool: for any number of requests, any pool and   *)
(* any number of calls, connections are neither lost nor given twice, and  *)
(* when none is free somebody who has one can go on, unless all of them    *)
(* are those of transactions that wait.                                    *)
(***************************************************************************)
\* A transaction that waits for a connection has an operation to call.
HasCall == \A c \in Caller : stage[c] \in {"wants", "calls"} => calls[c] > 0
PoolInv == PoolTypeOK /\ Balanced /\ HasCall

LEMMA HoldersFinite ==
    /\ IsFiniteSet(Holding) /\ Cardinality(Holding) \in Nat
    /\ IsFiniteSet(Calling) /\ Cardinality(Calling) \in Nat
BY PoolAssumption, FS_Subset, FS_CardinalityType DEF Holding, Calling

\* How the two sets change when one request goes from one stage to another.
LEMMA HoldingChanges ==
    ASSUME NEW c \in Caller, NEW s \in Stage, stage \in [Caller -> Stage],
           stage' = [stage EXCEPT ![c] = s]
    PROVE  /\ Cardinality(Holding') =
                Cardinality(Holding)
                + (IF s \in {"holds", "wants", "calls"} THEN 1 ELSE 0)
                - (IF stage[c] \in {"holds", "wants", "calls"} THEN 1 ELSE 0)
           /\ Cardinality(Calling') =
                Cardinality(Calling)
                + (IF s = "calls" THEN 1 ELSE 0)
                - (IF stage[c] = "calls" THEN 1 ELSE 0)
<1>1. Cardinality(Holding') = Cardinality(Holding)
        + (IF s \in {"holds", "wants", "calls"} THEN 1 ELSE 0)
        - (IF stage[c] \in {"holds", "wants", "calls"} THEN 1 ELSE 0)
  <2>0. c \in Holding <=> stage[c] \in {"holds", "wants", "calls"}
    BY DEF Holding
  <2>1. CASE c \in Holding /\ s \in {"holds", "wants", "calls"}
    <3>1. Holding' = Holding
      BY <2>1 DEF Holding
    <3> QED  BY <3>1, <2>0, <2>1, HoldersFinite
  <2>2. CASE c \in Holding /\ s \notin {"holds", "wants", "calls"}
    <3>1. Holding' = Holding \ {c}
      BY <2>2 DEF Holding
    <3>2. Cardinality(Holding \ {c}) = Cardinality(Holding) - 1
      BY <2>2, HoldersFinite, FS_RemoveElement
    <3> QED  BY <3>1, <3>2, <2>0, <2>2, HoldersFinite
  <2>3. CASE c \notin Holding /\ s \in {"holds", "wants", "calls"}
    <3>1. Holding' = Holding \cup {c}
      BY <2>3 DEF Holding
    <3>2. Cardinality(Holding \cup {c}) = Cardinality(Holding) + 1
      BY <2>3, HoldersFinite, FS_AddElement
    <3> QED  BY <3>1, <3>2, <2>0, <2>3, HoldersFinite
  <2>4. CASE c \notin Holding /\ s \notin {"holds", "wants", "calls"}
    <3>1. Holding' = Holding
      BY <2>4 DEF Holding
    <3> QED  BY <3>1, <2>0, <2>4, HoldersFinite
  <2> QED  BY <2>1, <2>2, <2>3, <2>4
<1>2. Cardinality(Calling') = Cardinality(Calling)
        + (IF s = "calls" THEN 1 ELSE 0) - (IF stage[c] = "calls" THEN 1 ELSE 0)
  <2>0. c \in Calling <=> stage[c] = "calls"
    BY DEF Calling
  <2>1. CASE c \in Calling /\ s = "calls"
    <3>1. Calling' = Calling
      BY <2>1 DEF Calling
    <3> QED  BY <3>1, <2>0, <2>1, HoldersFinite
  <2>2. CASE c \in Calling /\ s # "calls"
    <3>1. Calling' = Calling \ {c}
      BY <2>2 DEF Calling
    <3>2. Cardinality(Calling \ {c}) = Cardinality(Calling) - 1
      BY <2>2, HoldersFinite, FS_RemoveElement
    <3> QED  BY <3>1, <3>2, <2>0, <2>2, HoldersFinite
  <2>3. CASE c \notin Calling /\ s = "calls"
    <3>1. Calling' = Calling \cup {c}
      BY <2>3 DEF Calling
    <3>2. Cardinality(Calling \cup {c}) = Cardinality(Calling) + 1
      BY <2>3, HoldersFinite, FS_AddElement
    <3> QED  BY <3>1, <3>2, <2>0, <2>3, HoldersFinite
  <2>4. CASE c \notin Calling /\ s # "calls"
    <3>1. Calling' = Calling
      BY <2>4 DEF Calling
    <3> QED  BY <3>1, <2>0, <2>4, HoldersFinite
  <2> QED  BY <2>1, <2>2, <2>3, <2>4
<1> QED  BY <1>1, <1>2

\* Whoever holds connections is counted among those in use.
LEMMA HeldIsOpen ==
    ASSUME PoolInv, NEW c \in Caller
    PROVE  /\ c \in Holding => open >= 1
           /\ c \in Calling => open >= 2
<1>1. c \in Holding => Cardinality(Holding) >= 1
  BY HoldersFinite, FS_EmptySet
<1>2. c \in Calling => c \in Holding /\ Cardinality(Calling) >= 1
  BY HoldersFinite, FS_EmptySet DEF Calling, Holding
<1> QED  BY <1>1, <1>2, HoldersFinite DEF PoolInv, Balanced

LEMMA InitPool == PoolInit => PoolInv
<1> SUFFICES ASSUME PoolInit PROVE PoolInv
  OBVIOUS
<1>1. Holding = {} /\ Calling = {}
  BY DEF PoolInit, Holding, Calling
<1>2. Balanced
  BY <1>1, FS_EmptySet DEF Balanced, PoolInit
<1>3. PoolTypeOK
  BY PoolAssumption DEF PoolInit, PoolTypeOK, Stage
<1> QED  BY <1>2, <1>3 DEF PoolInv, PoolInit, HasCall

\* What every step of a request is: it goes from its stage to another, and
\* the connections in use change by those it takes and gives back.
LEMMA StepPool ==
    ASSUME PoolInv, NEW c \in Caller, NEW s \in Stage, To(c, s),
           calls' \in [Caller -> 0..MaxCalls], open' \in 0..MaxOpenConns,
           \A d \in Caller \ {c} : calls'[d] = calls[d],
           s \in {"wants", "calls"} => calls'[c] > 0,
           open' = open
             + (IF s \in {"holds", "wants", "calls"} THEN 1 ELSE 0)
             - (IF stage[c] \in {"holds", "wants", "calls"} THEN 1 ELSE 0)
             + (IF s = "calls" THEN 1 ELSE 0)
             - (IF stage[c] = "calls" THEN 1 ELSE 0)
    PROVE  PoolInv'
<1> USE DEF PoolInv, PoolTypeOK, HasCall
<1>1. stage' = [stage EXCEPT ![c] = s]
  BY DEF To
<1>2. PoolTypeOK'
  BY <1>1
<1>3. Balanced'
  <2> DEFINE h == (IF s \in {"holds", "wants", "calls"} THEN 1 ELSE 0)
                  - (IF stage[c] \in {"holds", "wants", "calls"} THEN 1 ELSE 0)
             k == (IF s = "calls" THEN 1 ELSE 0) - (IF stage[c] = "calls" THEN 1 ELSE 0)
  <2>1. h \in Int /\ k \in Int /\ open \in Nat
    OBVIOUS
  <2>2. open' = open + h + k
    OBVIOUS
  <2>3. /\ Cardinality(Holding') = Cardinality(Holding) + h
        /\ Cardinality(Calling') = Cardinality(Calling) + k
    BY <1>1, HoldingChanges, HoldersFinite
  <2>4. open = Cardinality(Holding) + Cardinality(Calling)
    BY DEF Balanced
  <2>5. open' = Cardinality(Holding') + Cardinality(Calling')
    <3> HIDE DEF h, k
    <3> QED  BY <2>1, <2>2, <2>3, <2>4, HoldersFinite
  <2> QED  BY <2>5 DEF Balanced
<1>4. \A d \in Caller : stage'[d] \in {"wants", "calls"} => calls'[d] > 0
  BY <1>1
<1> QED  BY <1>2, <1>3, <1>4

LEMMA NextPool == PoolInv /\ [PoolNext]_poolVars => PoolInv'
<1> SUFFICES ASSUME PoolInv, [PoolNext]_poolVars PROVE PoolInv'
  OBVIOUS
<1> USE PoolAssumption DEF Stage
<1>0. PoolTypeOK /\ HasCall
  BY DEF PoolInv
<1>1. CASE UNCHANGED poolVars
  BY <1>1 DEF PoolInv, PoolTypeOK, HasCall, Balanced, Holding, Calling, poolVars
<1>2. ASSUME NEW c \in Caller, NEW n \in 0..MaxCalls, Transaction(c, n) PROVE PoolInv'
  BY <1>0, <1>2, StepPool DEF Transaction, PoolTypeOK, HasCall
<1>3. ASSUME NEW c \in Caller, BeginTx(c) PROVE PoolInv'
  BY <1>0, <1>3, StepPool DEF BeginTx, PoolTypeOK, HasCall
<1>4. ASSUME NEW c \in Caller, CallModel(c) PROVE PoolInv'
  BY <1>0, <1>4, StepPool DEF CallModel, PoolTypeOK, HasCall
<1>5. ASSUME NEW c \in Caller, GetConn(c) PROVE PoolInv'
  BY <1>0, <1>5, StepPool DEF GetConn, PoolTypeOK, HasCall
<1>6. ASSUME NEW c \in Caller, PutConn(c) PROVE PoolInv'
  <2>1. open >= 2
    BY <1>6, HeldIsOpen DEF PutConn, Calling
  <2> QED  BY <1>0, <1>6, <2>1, StepPool DEF PutConn, PoolTypeOK, HasCall
<1>7. ASSUME NEW c \in Caller, CallFails(c) PROVE PoolInv'
  <2>1. open >= 2
    BY <1>7, HeldIsOpen DEF CallFails, Calling
  <2> QED  BY <1>0, <1>7, <2>1, StepPool DEF CallFails, PoolTypeOK, HasCall
<1>8. ASSUME NEW c \in Caller, EndTx(c) PROVE PoolInv'
  <2>1. open >= 1
    BY <1>8, HeldIsOpen DEF EndTx, Holding
  <2> QED  BY <1>0, <1>8, <2>1, StepPool DEF EndTx, PoolTypeOK, HasCall
<1>9. ASSUME NEW c \in Caller, RollbackTx(c) PROVE PoolInv'
  <2>1. open >= 1
    BY <1>9, HeldIsOpen DEF RollbackTx, Holding
  <2> QED  BY <1>0, <1>9, <2>1, StepPool DEF RollbackTx, PoolTypeOK, HasCall
<1>10. ASSUME NEW c \in Caller, Cancelled(c) PROVE PoolInv'
  <2>1. stage[c] = "wants" => open >= 1
    BY HeldIsOpen DEF Holding
  <2> QED  BY <1>0, <1>10, <2>1, StepPool DEF Cancelled, PoolTypeOK, HasCall
<1> QED  BY <1>1, <1>2, <1>3, <1>4, <1>5, <1>6, <1>7, <1>8, <1>9, <1>10
         DEF PoolNext, Works

\* Types, and the connections in use are those of the requests.
THEOREM PoolCorrect == PoolSpec => []PoolInv
BY InitPool, NextPool, PTL DEF PoolSpec

\* No connection is lost or given twice (pkg/orm/mysql.go:54).
THEOREM ConnectionsBalanced == PoolSpec => [](PoolTypeOK /\ Balanced)
<1>1. PoolInv => PoolTypeOK /\ Balanced
  BY DEF PoolInv
<1> QED  BY <1>1, PoolCorrect, PTL

\* The only way for everybody to wait is that every connection is that of a
\* transaction in the middle of a nested call (purchaseCheckoutLogic.go:281).
THEOREM OnlyNestingBlocks == PoolSpec => []SomebodyGoesOn
<1>1. PoolInv => SomebodyGoesOn
  <2> SUFFICES ASSUME PoolInv, open = MaxOpenConns,
                      \A c \in Caller : stage[c] \notin {"holds", "calls"}
               PROVE  Stuck
    BY DEF SomebodyGoesOn
  <2>1. Holding = Wants /\ Calling = {}
    BY DEF Holding, Calling, Wants
  <2>2. open = Cardinality(Wants)
    BY <2>1, FS_EmptySet, HoldersFinite DEF PoolInv, Balanced
  <2> QED  BY <2>2 DEF Stuck
<1> QED  BY <1>1, PoolCorrect, PTL
=============================================================================
