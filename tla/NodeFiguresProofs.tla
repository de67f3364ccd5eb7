--------------------------- MODULE NodeFiguresProofs ---------------------------
(***************************************************************************)
(* Proofs about what the panel shows of its nodes: the addresses that are  *)
(* online, and the traffic of the day.                                     *)
(***************************************************************************)
EXTENDS OnlineUsers, DayTraffic, FiniteSetTheorems, TLAPS

(***************************************************************************)
(* Which addresses are shown as online, proved of any nodes, addresses and *)
(* lifetime.  The key of all expires Life minutes after the last address   *)
(* was added, and what is in it then had not expired when that pipeline    *)
(* was put together: so an address that is still counted was reported less *)
(* than two lives and the longest pipeline ago.                            *)
(***************************************************************************)
\* The types, and those of the history.
OnlineTypeInv ==
    /\ OnlineTypeOK
    /\ lastSeen \in [IP -> 0..MaxMinute] /\ lag \in Nat
    /\ \A i \in IP : lastSeen[i] <= minute
    /\ \A n \in Station :
          /\ toAdd[n] \subseteq report[n] /\ asOf[n] <= minute
          /\ report[n] # {} => 0 < asOf[n]

\* What the set of all knows of an address, while no pipeline has broken off.
Known(i) ==
    /\ lastSeen[i] > 0 /\ i \notin forgotten =>
          /\ lastSeen[i] + Life <= allEnds
          /\ minute < lastSeen[i] + Life => allIps[i] > 0
    /\ allIps[i] > 0 =>
          /\ lastSeen[i] > 0 /\ i \notin forgotten
          /\ allIps[i] = lastSeen[i] + Life
          /\ minute < allEnds /\ allEnds < allIps[i] + Life + lag

\* What a node shows, or has added of its report, was counted once.
CountedOnce ==
    \A n \in Station : \A i \in IP :
        (i \in shownOf[n] \/ (i \in report[n] /\ i \notin toAdd[n])) => lastSeen[i] > 0

SeenInv == CountedOnce /\ (broke \/ \A i \in IP : Known(i))

LEMMA OnlineTypeInit == OnlineInit => OnlineTypeInv
  BY OnlineAssumption DEF OnlineInit, OnlineTypeInv, OnlineTypeOK, Score, Never

LEMMA AddedTyped ==
    ASSUME OnlineTypeInv, NEW ip \in IP, NEW n \in Station
    PROVE  /\ Added(allIps, ip, asOf[n]) \in [IP -> Score]
           /\ minute + Life \in Score /\ Never \in Score
  BY OnlineAssumption DEF OnlineTypeInv, OnlineTypeOK, Added, Score, Never

LEMMA OnlineTypeStep == OnlineTypeInv /\ [OnlineNext]_onlineVars => OnlineTypeInv'
<1> SUFFICES ASSUME OnlineTypeInv, [OnlineNext]_onlineVars  PROVE OnlineTypeInv'
  OBVIOUS
<1> USE OnlineAssumption
<1>1. CASE MinutePasses
  <2>1. minute' \in 1..MaxMinute /\ 0 \in Score
    BY <1>1 DEF MinutePasses, OnlineTypeInv, OnlineTypeOK, Score, Never
  <2>3. /\ \A n \in Station : asOf[n] <= minute'
        /\ \A i \in IP : lastSeen[i] <= minute'
    BY <1>1 DEF MinutePasses, OnlineTypeInv, OnlineTypeOK
  <2>2. allIps' \in [IP -> Score] /\ shownOf' \in [Station -> SUBSET IP]
    BY <1>1, <2>1 DEF MinutePasses, OnlineTypeInv, OnlineTypeOK
  <2> QED
    BY <1>1, <2>1, <2>2, <2>3
    DEF MinutePasses, OnlineTypeInv, OnlineTypeOK, pushing, seenVars
<1>2. ASSUME NEW n \in Station, PushOnlineUsers(n)  PROVE OnlineTypeInv'
  <2>1. minute \in 0..MaxMinute /\ 0 < minute
    BY DEF OnlineTypeInv, OnlineTypeOK
  <2> QED
    BY <1>2, <2>1
    DEF PushOnlineUsers, OnlineTypeInv, OnlineTypeOK, ipStore, nodeStore, seenVars
<1>3. ASSUME NEW n \in Station, AddOnlineUserIP(n)  PROVE OnlineTypeInv'
  <2>1. PICK ip \in toAdd[n] :
           /\ allIps'  = Added(allIps, ip, asOf[n]) /\ allEnds' = minute + Life
           /\ toAdd'   = [toAdd EXCEPT ![n] = @ \ {ip}]
           /\ Seen(n, ip)
           /\ UNCHANGED <<minute, nodeStore, report, asOf>>
    BY <1>3 DEF AddOnlineUserIP
  <2>2. ip \in IP
    BY <2>1 DEF OnlineTypeInv, OnlineTypeOK
  <2>3. allIps' \in [IP -> Score] /\ allEnds' \in Score
    BY <2>1, <2>2, AddedTyped
  <2>4. asOf[n] \in 0..MaxMinute /\ asOf[n] <= minute /\ minute \in Nat
    BY DEF OnlineTypeInv, OnlineTypeOK
  <2>5. /\ lastSeen' \in [IP -> 0..MaxMinute] /\ lag' \in Nat
        /\ \A i \in IP : lastSeen'[i] <= minute
    BY <2>1, <2>2, <2>4 DEF OnlineTypeInv, Seen
  <2>6. /\ toAdd' \in [Station -> SUBSET IP]
        /\ \A m \in Station : toAdd'[m] \subseteq report[m]
    BY <2>1 DEF OnlineTypeInv, OnlineTypeOK
  <2> QED  BY <2>1, <2>3, <2>5, <2>6 DEF OnlineTypeInv, OnlineTypeOK, nodeStore
<1>4. ASSUME NEW n \in Station, UpdateNodeOnlineUser(n)  PROVE OnlineTypeInv'
  <2>1. shownEnds' \in [Station -> Score]
    BY <1>4 DEF UpdateNodeOnlineUser, OnlineTypeInv, OnlineTypeOK, Score, Never
  <2> QED
    BY <1>4, <2>1
    DEF UpdateNodeOnlineUser, OnlineTypeInv, OnlineTypeOK, ipStore, seenVars
<1>5. ASSUME NEW n \in Station, PushFails(n)  PROVE OnlineTypeInv'
  <2>1. allIps' \in [IP -> Score] /\ allEnds' \in Score
    <3>1. CASE UNCHANGED ipStore
      BY <3>1 DEF OnlineTypeInv, OnlineTypeOK, ipStore
    <3>2. ASSUME NEW ip \in toAdd[n], allIps' = Added(allIps, ip, asOf[n]),
                 allEnds' = IF allEnds > minute THEN allEnds ELSE Never
          PROVE  allIps' \in [IP -> Score] /\ allEnds' \in Score
      <4>1. ip \in IP
        BY <3>2 DEF OnlineTypeInv, OnlineTypeOK
      <4> QED  BY <3>2, <4>1, AddedTyped DEF OnlineTypeInv, OnlineTypeOK
    <3> QED  BY <1>5, <3>1, <3>2 DEF PushFails
  <2> QED  BY <1>5, <2>1 DEF PushFails, OnlineTypeInv, OnlineTypeOK, nodeStore
<1>6. CASE UNCHANGED onlineVars
  BY <1>6
  DEF onlineVars, ipStore, nodeStore, pushing, seenVars, OnlineTypeInv, OnlineTypeOK
<1>7. ASSUME NEW n \in Station, SendAgain(n)  PROVE OnlineTypeInv'
  BY <1>7 DEF SendAgain, OnlineTypeInv, OnlineTypeOK, ipStore, nodeStore, seenVars
<1>8. CASE FlushOnline
  <2>1. 0 \in Score
    BY DEF Score, Never
  <2> QED  BY <1>8, <2>1 DEF FlushOnline, OnlineTypeInv, OnlineTypeOK
<1> QED  BY <1>1, <1>2, <1>3, <1>4, <1>5, <1>6, <1>7, <1>8 DEF OnlineNext

\* Every variable of the online figures has its type.
THEOREM OnlineTypeCorrect == OnlineSpec => []OnlineTypeOK
<1>1. OnlineTypeInv => OnlineTypeOK
  BY DEF OnlineTypeInv
<1> QED  BY <1>1, OnlineTypeInit, OnlineTypeStep, PTL DEF OnlineSpec

LEMMA SeenStep == OnlineTypeInv /\ SeenInv /\ [OnlineNext]_onlineVars => SeenInv'
<1> SUFFICES ASSUME OnlineTypeInv, SeenInv, [OnlineNext]_onlineVars  PROVE SeenInv'
  OBVIOUS
<1> USE OnlineAssumption DEF OnlineTypeInv, OnlineTypeOK, Score, pushing, seenVars
\* Nobody's entry goes before its time.
<1>1. CASE MinutePasses
  <2>1. CountedOnce'
    BY <1>1 DEF MinutePasses, SeenInv, CountedOnce
  <2>2. ASSUME NEW i \in IP, Known(i)  PROVE Known(i)'
    <3>1. CASE allEnds > minute'
      BY <1>1, <2>2, <3>1 DEF MinutePasses, Known
    <3>2. CASE ~(allEnds > minute')
      BY <1>1, <2>2, <3>2 DEF MinutePasses, Known
    <3> QED  BY <3>1, <3>2
  <2> QED  BY <1>1, <2>1, <2>2 DEF MinutePasses, SeenInv
<1>2. ASSUME NEW n \in Station, PushOnlineUsers(n)  PROVE SeenInv'
  BY <1>2 DEF PushOnlineUsers, SeenInv, CountedOnce, Known, ipStore, nodeStore
<1>3. ASSUME NEW n \in Station, AddOnlineUserIP(n)  PROVE SeenInv'
  <2>1. PICK ip \in toAdd[n] :
           /\ allIps'  = Added(allIps, ip, asOf[n]) /\ allEnds' = minute + Life
           /\ toAdd'   = [toAdd EXCEPT ![n] = @ \ {ip}]
           /\ Seen(n, ip)
           /\ UNCHANGED <<minute, nodeStore, report, broke>>
    BY <1>3 DEF AddOnlineUserIP
  <2>2. ip \in IP /\ 0 < asOf[n] /\ asOf[n] <= minute
    BY <2>1
  <2>3. /\ \A i \in IP : lastSeen'[i] = IF i = ip THEN asOf[n] ELSE lastSeen[i]
        /\ forgotten' = forgotten \ {ip}
        /\ lag' \in Nat /\ lag <= lag' /\ minute - asOf[n] <= lag'
    BY <2>1, <2>2 DEF Seen
  <2>4. CountedOnce'
    BY <2>1, <2>2, <2>3 DEF SeenInv, CountedOnce, nodeStore
  <2>5. ASSUME NEW i \in IP, Known(i)  PROVE Known(i)'
    <3>1. CASE i = ip
      BY <2>1, <2>2, <2>3, <3>1 DEF Known, Added
    <3>2. CASE i # ip
      <4>1. allIps'[i] = IF allIps[i] <= asOf[n] THEN 0 ELSE allIps[i]
        BY <2>1, <3>2 DEF Added
      <4>2. lastSeen'[i] = lastSeen[i] /\ (i \in forgotten' <=> i \in forgotten)
        BY <2>3, <3>2
      <4>3. /\ {minute, asOf[n], lag, lag', allIps[i], lastSeen[i], Life} \subseteq Nat
            /\ allEnds' = minute + Life /\ minute' = minute /\ Life > 0
        BY <2>1, <2>3
      <4> QED  BY <2>2, <2>3, <2>5, <4>1, <4>2, <4>3 DEF Known
    <3> QED  BY <3>1, <3>2
  <2> QED  BY <2>1, <2>4, <2>5 DEF SeenInv
<1>4. ASSUME NEW n \in Station, UpdateNodeOnlineUser(n)  PROVE SeenInv'
  BY <1>4 DEF UpdateNodeOnlineUser, SeenInv, CountedOnce, Known, ipStore
<1>5. ASSUME NEW n \in Station, PushFails(n)  PROVE SeenInv'
  BY <1>5 DEF PushFails, SeenInv, CountedOnce, nodeStore
<1>6. CASE UNCHANGED onlineVars
  BY <1>6 DEF onlineVars, ipStore, nodeStore, SeenInv, CountedOnce, Known
<1>7. ASSUME NEW n \in Station, SendAgain(n)  PROVE SeenInv'
  <2>1. \A m \in Station : toAdd'[m] = IF m = n THEN report[n] ELSE toAdd[m]
    BY <1>7 DEF SendAgain
  <2>2. CountedOnce'
    BY <1>7, <2>1 DEF SendAgain, SeenInv, CountedOnce, nodeStore
  <2>3. \A i \in IP : Known(i) => Known(i)'
    BY <1>7 DEF SendAgain, Known, ipStore
  <2> QED  BY <1>7, <2>2, <2>3 DEF SendAgain, SeenInv
<1>8. CASE FlushOnline
  <2>1. CountedOnce'
    BY <1>8 DEF FlushOnline, CountedOnce
  <2>2. ASSUME NEW i \in IP  PROVE Known(i)'
    BY <1>8, <2>2 DEF FlushOnline, Known
  <2> QED  BY <2>1, <2>2 DEF SeenInv
<1> QED  BY <1>1, <1>2, <1>3, <1>4, <1>5, <1>6, <1>7, <1>8 DEF OnlineNext

\* An address counts as online for Life minutes after the report that last
\* added it, and never for twice as long and what a pipeline took; unless a
\* pipeline broke off since the server started.  That start forgets it.  A node
\* shows no address that was never counted.
THEOREM OnlineIsShown == OnlineSpec => []OnlineShown
<1>1. OnlineInit => SeenInv
  BY OnlineAssumption DEF OnlineInit, SeenInv, CountedOnce, Known
<1>2. OnlineTypeInv /\ SeenInv => OnlineShown
  <2> SUFFICES ASSUME OnlineTypeInv, SeenInv  PROVE OnlineShown
    OBVIOUS
  <2>1. ASSUME NEW i \in IP, Known(i)
        PROVE  /\ /\ lastSeen[i] > 0 /\ i \notin forgotten
                  /\ minute < lastSeen[i] + Life
                  => i \in OnlineNow
               /\ i \in OnlineNow =>
                     i \notin forgotten /\ minute < lastSeen[i] + 2 * Life + lag
    BY <2>1, OnlineAssumption DEF Known, OnlineNow, OnlineTypeInv, OnlineTypeOK, Score
  <2>2. \A n \in Station : \A i \in ShownBy(n) : lastSeen[i] > 0
    BY DEF SeenInv, CountedOnce, ShownBy, OnlineTypeInv, OnlineTypeOK
  <2> QED  BY <2>1, <2>2 DEF SeenInv, OnlineShown
<1> QED  BY <1>1, <1>2, OnlineTypeInit, OnlineTypeStep, SeenStep, PTL DEF OnlineSpec

(***************************************************************************)
(* Proofs about DayTraffic, for any nodes, users and reports.  The figure  *)
(* for all and what the pushes still owe it add up to what was reported    *)
(* (ReportInv); a ranking never runs ahead of its counters (LineInv).      *)
(***************************************************************************)
(***************************************************************************)
(* Sums.                                                                   *)
(***************************************************************************)
LEMMA LeastNat ==
    ASSUME NEW T \in SUBSET Nat, T # {}
    PROVE  \E n \in T : \A m \in T : n <= m
<1> DEFINE R == OpToRel(<, Nat)
<1>1. PICK n \in T : \A m \in T : ~(<<m, n>> \in R)
  <2>1. IsWellFoundedOn(R, Nat)
    BY NatLessThanWellFounded
  <2> HIDE DEF R
  <2> QED  BY <2>1, WFMin
<1>2. \A m \in T : ~(m < n)
  BY <1>1 DEF OpToRel
<1> QED  BY <1>2

\* One element of a set, and the rest of it.
Some(T) == CHOOSE x \in T : TRUE
Rest(T) == T \ {Some(T)}
SumStep(f, T, s) == IF T = {} THEN 0 ELSE f[Some(T)] + s[Rest(T)]
Sums(f, S, s) == s = [T \in SUBSET S |-> SumStep(f, T, s)]

LEMMA SomeRest ==
    ASSUME NEW T, IsFiniteSet(T), T # {}
    PROVE  /\ Some(T) \in T /\ IsFiniteSet(Rest(T)) /\ Rest(T) \subseteq T
           /\ Cardinality(T) \in Nat /\ Cardinality(Rest(T)) \in Nat
           /\ Cardinality(Rest(T)) = Cardinality(T) - 1
<1>1. Some(T) \in T
  BY DEF Some
<1>2. IsFiniteSet(Rest(T)) /\ Cardinality(Rest(T)) = Cardinality(T) - 1
  BY <1>1, FS_RemoveElement DEF Rest
<1>3. Rest(T) \subseteq T
  BY DEF Rest
<1> QED  BY <1>1, <1>2, <1>3, FS_CardinalityType

LEMMA SumsExist ==
    ASSUME NEW f, NEW S, IsFiniteSet(S)
    PROVE  \E s : Sums(f, S, s)
<1> DEFINE Sub(n) == {T \in SUBSET S : Cardinality(T) <= n}
           Upto(n, s) == s = [T \in Sub(n) |-> SumStep(f, T, s)]
           Bad == {n \in Nat : ~\E s : Upto(n, s)}
<1>1. \A T \in SUBSET S : IsFiniteSet(T) /\ Cardinality(T) \in Nat
  BY FS_Subset, FS_CardinalityType
<1>2. Bad = {}
  <2> SUFFICES ASSUME Bad # {}  PROVE FALSE
    OBVIOUS
  <2>1. PICK n \in Bad : \A m \in Bad : n <= m
    <3>1. Bad \in SUBSET Nat
      OBVIOUS
    <3> HIDE DEF Bad
    <3> QED  BY <3>1, LeastNat
  <2>2. CASE n = 0
    <3>1. \A T \in Sub(0) : T = {}
      BY <1>1, FS_EmptySet
    <3>2. Upto(0, [T \in Sub(0) |-> 0])
      BY <3>1 DEF SumStep
    <3> QED  BY <2>1, <2>2, <3>2
  <2>3. CASE n > 0
    <3>1. n - 1 \in Nat /\ ~(n <= n - 1)
      BY <2>1, <2>3
    <3>2. PICK g : Upto(n - 1, g)
      BY <2>1, <3>1
    <3> DEFINE h == [T \in Sub(n) |-> SumStep(f, T, g)]
    <3>3. ASSUME NEW T \in Sub(n)  PROVE h[T] = SumStep(f, T, h)
      <4>1. CASE T = {}
        BY <4>1 DEF SumStep
      <4>2. CASE T # {}
        <5>1. /\ Rest(T) \in SUBSET S /\ Cardinality(Rest(T)) <= n - 1
              /\ Cardinality(Rest(T)) <= n
          BY <1>1, <2>1, <4>2, SomeRest
        <5>2. h[Rest(T)] = SumStep(f, Rest(T), g)
          BY <5>1
        <5>3. g[Rest(T)] = SumStep(f, Rest(T), g)
          BY <3>2, <5>1
        <5>4. h[T] = SumStep(f, T, g)
          OBVIOUS
        <5> HIDE DEF h
        <5> QED  BY <4>2, <5>2, <5>3, <5>4 DEF SumStep
      <4> QED  BY <4>1, <4>2
    <3>4. Upto(n, h)
      <4>1. h = [T \in Sub(n) |-> h[T]]
        OBVIOUS
      <4> HIDE DEF h, Sub
      <4> QED  BY <3>3, <4>1
    <3> HIDE DEF h, Upto
    <3> QED  BY <2>1, <3>4
  <2> QED  BY <2>1, <2>2, <2>3
<1>3. Cardinality(S) \in Nat /\ Sub(Cardinality(S)) = SUBSET S
  BY <1>1, FS_Subset
<1>4. PICK s : Upto(Cardinality(S), s)
  BY <1>2, <1>3
<1>5. Sums(f, S, s)
  BY <1>3, <1>4 DEF Sums
<1> QED  BY <1>5

LEMMA SumIs ==
    ASSUME NEW f, NEW S, IsFiniteSet(S)
    PROVE  \E s : Sums(f, S, s) /\ SumFunctionOnSet(f, S) = s[S]
<1> DEFINE s == CHOOSE r : Sums(f, S, r)
<1>1. SumFunctionOnSet(f, S) = s[S]
  BY DEF SumFunctionOnSet, FoldFunctionOnSet, MapThenFoldSet, Sums, SumStep, Some, Rest
<1>2. Sums(f, S, s)
  BY SumsExist
<1> QED  BY <1>1, <1>2

\* Sums over a subset do not depend on what they are part of, nor on values of
\* the function elsewhere.
LEMMA SumsAgree ==
    ASSUME NEW f, NEW g, NEW S, NEW U, NEW s, NEW u, IsFiniteSet(S), IsFiniteSet(U),
           Sums(f, S, s), Sums(g, U, u),
           NEW V, V \subseteq S, V \subseteq U, \A x \in V : f[x] = g[x]
    PROVE  s[V] = u[V]
<1> DEFINE Bad == {n \in Nat : \E T \in SUBSET V : Cardinality(T) = n /\ s[T] # u[T]}
<1>1. \A T \in SUBSET V : IsFiniteSet(T) /\ Cardinality(T) \in Nat
  BY FS_Subset, FS_CardinalityType
<1>2. Bad = {}
  <2> SUFFICES ASSUME Bad # {}  PROVE FALSE
    OBVIOUS
  <2>1. PICK n \in Bad : \A m \in Bad : n <= m
    <3>1. Bad \in SUBSET Nat
      OBVIOUS
    <3> HIDE DEF Bad
    <3> QED  BY <3>1, LeastNat
  <2>2. PICK T \in SUBSET V : Cardinality(T) = n /\ s[T] # u[T]
    BY <2>1
  <2>3. s[T] = SumStep(f, T, s) /\ u[T] = SumStep(g, T, u)
    BY DEF Sums
  <2>4. CASE T = {}
    BY <2>2, <2>3, <2>4 DEF SumStep
  <2>5. CASE T # {}
    <3>1. /\ Some(T) \in T /\ Rest(T) \in SUBSET V /\ Cardinality(Rest(T)) \in Nat
          /\ ~(n <= Cardinality(Rest(T)))
      BY <1>1, <2>2, <2>5, SomeRest
    <3>2. s[Rest(T)] = u[Rest(T)]
      BY <2>1, <3>1
    <3> QED  BY <2>2, <2>3, <2>5, <3>1, <3>2 DEF SumStep
  <2> QED  BY <2>4, <2>5
<1> QED  BY <1>1, <1>2

LEMMA SumCongruent ==
    ASSUME NEW f, NEW g, NEW S, IsFiniteSet(S), \A x \in S : f[x] = g[x]
    PROVE  SumFunctionOnSet(f, S) = SumFunctionOnSet(g, S)
<1>1. PICK s : Sums(f, S, s) /\ SumFunctionOnSet(f, S) = s[S]
  BY SumIs
<1>2. PICK u : Sums(g, S, u) /\ SumFunctionOnSet(g, S) = u[S]
  BY SumIs
<1> QED  BY <1>1, <1>2, SumsAgree

LEMMA SumEmpty ==
    ASSUME NEW f
    PROVE  SumFunctionOnSet(f, {}) = 0
<1>1. PICK s : Sums(f, {}, s) /\ SumFunctionOnSet(f, {}) = s[{}]
  BY SumIs, FS_EmptySet
<1> QED  BY <1>1 DEF Sums, SumStep

LEMMA SumSome ==
    ASSUME NEW f, NEW S, IsFiniteSet(S), S # {}
    PROVE  SumFunctionOnSet(f, S) = f[Some(S)] + SumFunctionOnSet(f, Rest(S))
<1>1. PICK s : Sums(f, S, s) /\ SumFunctionOnSet(f, S) = s[S]
  BY SumIs
<1>2. IsFiniteSet(Rest(S)) /\ Rest(S) \subseteq S
  BY SomeRest
<1>3. PICK u : Sums(f, Rest(S), u) /\ SumFunctionOnSet(f, Rest(S)) = u[Rest(S)]
  BY <1>2, SumIs
<1>4. s[Rest(S)] = u[Rest(S)]
  BY <1>1, <1>2, <1>3, SumsAgree
<1> QED  BY <1>1, <1>3, <1>4 DEF Sums, SumStep

\* A sum is a natural number, and any element may be taken out.
SumGood(f, T) ==
    /\ SumFunctionOnSet(f, T) \in Nat
    /\ \A x \in T : SumFunctionOnSet(f, T) = f[x] + SumFunctionOnSet(f, T \ {x})

LEMMA SumFacts ==
    ASSUME NEW f, NEW S, IsFiniteSet(S), \A x \in S : f[x] \in Nat
    PROVE  \A T \in SUBSET S : SumGood(f, T)
<1> DEFINE Bad == {n \in Nat : \E T \in SUBSET S : Cardinality(T) = n /\ ~SumGood(f, T)}
<1>1. \A T \in SUBSET S : IsFiniteSet(T) /\ Cardinality(T) \in Nat
  BY FS_Subset, FS_CardinalityType
<1>2. Bad = {}
  <2> SUFFICES ASSUME Bad # {}  PROVE FALSE
    OBVIOUS
  <2>1. PICK n \in Bad : \A m \in Bad : n <= m
    <3>1. Bad \in SUBSET Nat
      OBVIOUS
    <3> HIDE DEF Bad
    <3> QED  BY <3>1, LeastNat
  <2>2. PICK T \in SUBSET S : Cardinality(T) = n /\ ~SumGood(f, T)
    BY <2>1
  <2>3. CASE T = {}
    BY <2>2, <2>3, SumEmpty DEF SumGood
  <2>4. CASE T # {}
    <3> DEFINE a == Some(T)
               B == Rest(T)
    <3>1. /\ a \in T /\ B \in SUBSET S /\ B = T \ {a} /\ IsFiniteSet(T)
          /\ f[a] \in Nat
      BY <1>1, <2>4, SomeRest DEF Rest
    <3>2. SumFunctionOnSet(f, T) = f[a] + SumFunctionOnSet(f, B)
      BY <1>1, <2>4, SumSome
    <3>3. \A x \in T : SumGood(f, T \ {x})
      <4> SUFFICES ASSUME NEW x \in T  PROVE SumGood(f, T \ {x})
        OBVIOUS
      <4>1. /\ T \ {x} \in SUBSET S /\ Cardinality(T \ {x}) \in Nat
            /\ Cardinality(T \ {x}) = n - 1
        BY <1>1, <2>2, FS_RemoveElement
      <4>2. ~(n <= Cardinality(T \ {x}))
        BY <2>1, <4>1
      <4> QED  BY <2>1, <4>1, <4>2
    <3> HIDE DEF a, B
    <3>4. SumFunctionOnSet(f, T) \in Nat /\ SumFunctionOnSet(f, B) \in Nat
      BY <3>1, <3>2, <3>3 DEF SumGood
    <3>5. ASSUME NEW x \in T
          PROVE  SumFunctionOnSet(f, T) = f[x] + SumFunctionOnSet(f, T \ {x})
      <4>1. CASE x = a
        BY <3>1, <3>2, <4>1
      <4>2. CASE x # a
        <5> DEFINE D == T \ {a, x}
        <5>1. x \in B /\ a \in T \ {x} /\ B \ {x} = D /\ (T \ {x}) \ {a} = D /\ x \in S
          BY <3>1, <4>2
        <5> HIDE DEF D
        <5>2. SumGood(f, B) /\ SumGood(f, T \ {x})
          BY <3>1, <3>3
        <5>3. SumFunctionOnSet(f, B) = f[x] + SumFunctionOnSet(f, D)
          BY <5>1, <5>2 DEF SumGood
        <5>4. /\ SumFunctionOnSet(f, T \ {x}) = f[a] + SumFunctionOnSet(f, D)
              /\ SumFunctionOnSet(f, T \ {x}) \in Nat
          BY <5>1, <5>2 DEF SumGood
        <5>5. D \in SUBSET S /\ D = B \ {x} /\ f[x] \in Nat
          BY <3>1, <5>1
        <5>6. SumFunctionOnSet(f, D) \in Nat
          <6>1. IsFiniteSet(B) /\ Cardinality(B) = n - 1 /\ Cardinality(B) \in Nat
            BY <1>1, <2>2, <3>1, FS_RemoveElement
          <6>2. Cardinality(D) = Cardinality(B) - 1 /\ Cardinality(D) \in Nat
            BY <1>1, <5>1, <5>5, <6>1, FS_RemoveElement
          <6>3. ~(n <= Cardinality(D))
            BY <2>1, <6>1, <6>2
          <6>4. SumGood(f, D)
            BY <2>1, <5>5, <6>2, <6>3
          <6> QED  BY <6>4 DEF SumGood
        <5> QED  BY <3>1, <3>2, <5>3, <5>4, <5>5, <5>6
      <4> QED  BY <4>1, <4>2
    <3>6. SumGood(f, T)
      BY <3>4, <3>5 DEF SumGood
    <3> QED  BY <2>2, <3>6
  <2> QED  BY <2>3, <2>4
<1> QED  BY <1>1, <1>2

\* A sum of naturals; what changes when one of them does.
LEMMA SumTaken ==
    ASSUME NEW f, NEW S, IsFiniteSet(S), \A x \in S : f[x] \in Nat
    PROVE  /\ SumFunctionOnSet(f, S) \in Nat
           /\ \A x \in S : SumFunctionOnSet(f, S) = f[x] + SumFunctionOnSet(f, S \ {x})
  BY SumFacts DEF SumGood

LEMMA SumChanged ==
    ASSUME NEW f, NEW g, NEW S, IsFiniteSet(S), NEW x \in S,
           \A y \in S : f[y] \in Nat /\ g[y] \in Nat /\ (y # x => g[y] = f[y])
    PROVE  /\ SumFunctionOnSet(f, S) \in Nat /\ SumFunctionOnSet(g, S) \in Nat
           /\ SumFunctionOnSet(g, S) + f[x] = SumFunctionOnSet(f, S) + g[x]
<1> DEFINE F == SumFunctionOnSet(f, S)
           G == SumFunctionOnSet(g, S)
           FR == SumFunctionOnSet(f, S \ {x})
           GR == SumFunctionOnSet(g, S \ {x})
<1>1. F \in Nat /\ F = f[x] + FR /\ FR \in Nat
  <2>1. SumGood(f, S) /\ SumGood(f, S \ {x})
    BY SumFacts
  <2> QED  BY <2>1 DEF SumGood
<1>2. G \in Nat /\ G = g[x] + GR /\ GR \in Nat
  <2>1. SumGood(g, S) /\ SumGood(g, S \ {x})
    BY SumFacts
  <2> QED  BY <2>1 DEF SumGood
<1>3. FR = GR
  <2>1. IsFiniteSet(S \ {x}) /\ \A y \in S \ {x} : f[y] = g[y]
    BY FS_RemoveElement
  <2> QED  BY <2>1, SumCongruent
<1> HIDE DEF F, G, FR, GR
<1>4. f[x] \in Nat /\ g[x] \in Nat
  OBVIOUS
<1>5. G + f[x] = F + g[x]
  BY <1>1, <1>2, <1>3, <1>4
<1> QED  BY <1>1, <1>2, <1>5 DEF F, G

LEMMA SumZero ==
    ASSUME NEW f, NEW S, IsFiniteSet(S), \A x \in S : f[x] = 0
    PROVE  SumFunctionOnSet(f, S) = 0
<1> DEFINE Bad == {n \in Nat : \E T \in SUBSET S :
                      Cardinality(T) = n /\ SumFunctionOnSet(f, T) # 0}
<1>1. \A T \in SUBSET S : IsFiniteSet(T) /\ Cardinality(T) \in Nat
  BY FS_Subset, FS_CardinalityType
<1>2. Bad = {}
  <2> SUFFICES ASSUME Bad # {}  PROVE FALSE
    OBVIOUS
  <2>1. PICK n \in Bad : \A m \in Bad : n <= m
    <3>1. Bad \in SUBSET Nat
      OBVIOUS
    <3> HIDE DEF Bad
    <3> QED  BY <3>1, LeastNat
  <2>2. PICK T \in SUBSET S : Cardinality(T) = n /\ SumFunctionOnSet(f, T) # 0
    BY <2>1
  <2>3. T # {}
    BY <2>2, SumEmpty
  <2>4. /\ Some(T) \in T /\ Rest(T) \in SUBSET S /\ Cardinality(Rest(T)) \in Nat
        /\ ~(n <= Cardinality(Rest(T)))
    BY <1>1, <2>2, <2>3, SomeRest
  <2>5. SumFunctionOnSet(f, Rest(T)) = 0
    BY <2>1, <2>4
  <2>6. SumFunctionOnSet(f, T) = f[Some(T)] + SumFunctionOnSet(f, Rest(T))
    BY <1>1, <2>3, SumSome
  <2> QED  BY <2>2, <2>4, <2>5, <2>6
<1> QED  BY <1>1, <1>2

(***************************************************************************)
(* Types.                                                                  *)
(***************************************************************************)
Pipeline(n) ==
    \/ toRank[n] = Nobody
    \/ \E c \in {n} \cup Rider : toRank[n].who = {c} /\ toRank[n].by \in Amount

DayTypeInv ==
    /\ DayTypeOK /\ reported \in Amount
    /\ \A n \in Server : IsFiniteSet(usages[n]) /\ Pipeline(n)

LEMMA Amounts ==
    /\ Zero \in Amount
    /\ \A a, b \in Amount : /\ Plus(a, b) \in Amount /\ Total(a) \in Nat
                            /\ Plus(a, b).up = a.up + b.up
                            /\ Plus(a, b).down = a.down + b.down
                            /\ Total(Plus(a, b)) = Total(a) + Total(b)
  BY DEF Zero, Amount, Plus, Total

LEMMA Sum2Facts ==
    ASSUME NEW R \in SUBSET Usage, IsFiniteSet(R)
    PROVE  /\ Sum2(R) \in Amount
           /\ \A g \in R : /\ Sum2(R).up = g.up + Sum2(R \ {g}).up
                           /\ Sum2(R).down = g.down + Sum2(R \ {g}).down
<1> DEFINE U(S) == [g \in S |-> g.up]
           D(S) == [g \in S |-> g.down]
<1>1. \A S : Sum2(S).up = SumFunctionOnSet(U(S), S) /\ Sum2(S).down = SumFunctionOnSet(D(S), S)
  BY DEF Sum2, SumFunction
<1>2. \A g \in R : /\ g.up \in Nat /\ g.down \in Nat
                   /\ U(R)[g] = g.up /\ D(R)[g] = g.down
  BY DayAssumption DEF Usage
<1>3. ASSUME NEW g \in R
      PROVE  /\ SumFunctionOnSet(U(R), R \ {g}) = SumFunctionOnSet(U(R \ {g}), R \ {g})
             /\ SumFunctionOnSet(D(R), R \ {g}) = SumFunctionOnSet(D(R \ {g}), R \ {g})
  <2>1. IsFiniteSet(R \ {g})
    BY FS_RemoveElement
  <2>2. \A h \in R \ {g} : U(R)[h] = U(R \ {g})[h] /\ D(R)[h] = D(R \ {g})[h]
    OBVIOUS
  <2> HIDE DEF U, D
  <2> QED  BY <2>1, <2>2, SumCongruent
<1> HIDE DEF U, D
<1>4. /\ SumFunctionOnSet(U(R), R) \in Nat /\ SumFunctionOnSet(D(R), R) \in Nat
      /\ \A g \in R : /\ SumFunctionOnSet(U(R), R) = g.up + SumFunctionOnSet(U(R), R \ {g})
                      /\ SumFunctionOnSet(D(R), R) = g.down + SumFunctionOnSet(D(R), R \ {g})
  <2>1. /\ \A g \in R : U(R)[g] \in Nat
        /\ \A g \in R : D(R)[g] \in Nat
    BY <1>2
  <2> QED  BY <1>2, <2>1, SumTaken
<1>5. Sum2(R) \in Amount
  <2>1. Sum2(R) = [up |-> Sum2(R).up, down |-> Sum2(R).down]
    BY DEF Sum2
  <2> QED  BY <1>1, <1>4, <2>1 DEF Amount
<1> QED  BY <1>1, <1>3, <1>4, <1>5

LEMMA Sum2Empty == Sum2({}) = Zero
  BY SumEmpty DEF Sum2, SumFunction, Zero

\* A report names a user once.
LEMMA ReportFinite ==
    ASSUME NEW R \in SUBSET Usage, \A a, b \in R : a.rider = b.rider => a = b
    PROVE  IsFiniteSet(R)
<1> DEFINE f == [g \in R |-> g.rider]
<1>1. f \in Injection(R, Rider)
  BY DEF Injection, IsInjective, Usage
<1> HIDE DEF f
<1> QED  BY <1>1, DayAssumption, FS_Injection

LEMMA DayTypeInit == DayInit => DayTypeInv
<1> SUFFICES ASSUME DayInit  PROVE DayTypeInv
  OBVIOUS
<1> QED  BY Amounts, FS_EmptySet DEF DayInit, DayTypeInv, DayTypeOK, Pipeline, Nobody

\* A pipeline at its first step.
LEMMA AddTodayTyped ==
    ASSUME DayTypeInv, NEW n \in Server, NEW who \in {n} \cup Rider, NEW by \in Amount,
           AddToday(n, who, by)
    PROVE  /\ counter' \in [Counted -> Amount]
           /\ toRank' \in [Server -> [who: SUBSET Counted, by: Amount]]
           /\ \A m \in Server : Pipeline(m)'
<1>1. who \in Counted /\ [who |-> {who}, by |-> by] \in [who: SUBSET Counted, by: Amount]
  BY DEF Counted
<1>2. counter' \in [Counted -> Amount]
  BY <1>1, Amounts DEF AddToday, DayTypeInv, DayTypeOK
<1>3. toRank' \in [Server -> [who: SUBSET Counted, by: Amount]]
  BY <1>1 DEF AddToday, DayTypeInv, DayTypeOK
<1>4. \A m \in Server : Pipeline(m)'
  BY <1>1 DEF AddToday, DayTypeInv, DayTypeOK, Pipeline
<1> QED  BY <1>2, <1>3, <1>4

LEMMA DayTypeStep == DayTypeInv /\ [DayNext]_dayVars => DayTypeInv'
<1> SUFFICES ASSUME DayTypeInv, [DayNext]_dayVars  PROVE DayTypeInv'
  OBVIOUS
<1>1. Nobody \in [who: SUBSET Counted, by: Amount]
  BY Amounts DEF Nobody
<1>2. ASSUME NEW n \in Server, AddNodeTodayTraffic(n)  PROVE DayTypeInv'
  <2>1. PICK push \in SUBSET Usage :
           /\ \A a, b \in push : a.rider = b.rider => a = b
           /\ usages' = [usages EXCEPT ![n] = push]
           /\ AddToday(n, n, Sum2(push))
           /\ reported' = Plus(reported, Sum2(push))
    BY <1>2 DEF AddNodeTodayTraffic
  <2>2. IsFiniteSet(push) /\ Sum2(push) \in Amount
    BY <2>1, ReportFinite, Sum2Facts
  <2>3. /\ counter' \in [Counted -> Amount]
        /\ toRank' \in [Server -> [who: SUBSET Counted, by: Amount]]
        /\ \A m \in Server : Pipeline(m)'
    BY <2>1, <2>2, AddTodayTyped
  <2>4. reported' \in Amount
    BY <2>1, <2>2, Amounts DEF DayTypeInv
  <2>5. usages' \in [Server -> SUBSET Usage] /\ \A m \in Server : IsFiniteSet(usages'[m])
    BY <2>1, <2>2 DEF DayTypeInv, DayTypeOK
  <2> QED  BY <1>2, <2>3, <2>4, <2>5 DEF AddNodeTodayTraffic, DayTypeInv, DayTypeOK, panel
<1>3. ASSUME NEW n \in Server, AddUserTodayTraffic(n)  PROVE DayTypeInv'
  <2>1. PICK g \in usages[n] :
           /\ usages' = [usages EXCEPT ![n] = @ \ {g}]
           /\ \/ AddToday(n, g.rider, [up |-> g.up, down |-> g.down])
              \/ UNCHANGED <<counter, toRank>>
    BY <1>3 DEF AddUserTodayTraffic
  <2>2. g.rider \in Rider /\ [up |-> g.up, down |-> g.down] \in Amount
    BY DayAssumption DEF DayTypeInv, DayTypeOK, Usage, Amount
  <2>3. /\ counter' \in [Counted -> Amount]
        /\ toRank' \in [Server -> [who: SUBSET Counted, by: Amount]]
        /\ \A m \in Server : Pipeline(m)'
    <3>1. CASE UNCHANGED <<counter, toRank>>
      BY <3>1 DEF DayTypeInv, DayTypeOK, Pipeline
    <3> QED  BY <2>1, <2>2, <3>1, AddTodayTyped
  <2>4. usages' \in [Server -> SUBSET Usage] /\ \A m \in Server : IsFiniteSet(usages'[m])
    BY <2>1, FS_RemoveElement DEF DayTypeInv, DayTypeOK
  <2> QED  BY <1>3, <2>3, <2>4 DEF AddUserTodayTraffic, DayTypeInv, DayTypeOK, panel
<1>4. ASSUME NEW n \in Server, RankAdd(n)  PROVE DayTypeInv'
  <2>1. PICK c \in toRank[n].who :
           /\ ranked' = [ranked EXCEPT ![c] = @ + Total(toRank[n].by)]
           /\ allCount' = IF c \in Rider THEN Plus(allCount, toRank[n].by) ELSE allCount
    BY <1>4 DEF RankAdd, Ranked, CountForAll
  <2>2. c \in Counted /\ toRank[n].by \in Amount
    BY DEF DayTypeInv, DayTypeOK
  <2>3. ranked' \in [Counted -> Nat] /\ allCount' \in Amount
    BY <2>1, <2>2, Amounts DEF DayTypeInv, DayTypeOK
  <2>4. /\ toRank' \in [Server -> [who: SUBSET Counted, by: Amount]]
        /\ \A m \in Server : Pipeline(m)'
    BY <1>1, <1>4 DEF RankAdd, DayTypeInv, DayTypeOK, Pipeline
  <2> QED  BY <1>4, <2>3, <2>4 DEF RankAdd, DayTypeInv, DayTypeOK, panel
<1>5. ASSUME NEW n \in Server, PipelineBreaks(n)  PROVE DayTypeInv'
  <2>1. \/ usages' = [usages EXCEPT ![n] = {}]
        \/ usages' = usages
    BY <1>5 DEF PipelineBreaks
  <2>2. usages' \in [Server -> SUBSET Usage] /\ \A m \in Server : IsFiniteSet(usages'[m])
    BY <2>1, FS_EmptySet DEF DayTypeInv, DayTypeOK
  <2>3. /\ toRank' \in [Server -> [who: SUBSET Counted, by: Amount]]
        /\ \A m \in Server : Pipeline(m)'
    BY <1>1, <1>5 DEF PipelineBreaks, DayTypeInv, DayTypeOK, Pipeline
  <2> QED  BY <1>5, <2>2, <2>3 DEF PipelineBreaks, DayTypeInv, DayTypeOK, dayStore, panel
<1>6. CASE ReadRank
  <2>1. /\ toRead' \subseteq [who: Counted, total: Nat] /\ board' = {}
        /\ UNCHANGED <<dayStore, usages, toRank, reported>>
    BY <1>6 DEF ReadRank, DayTypeInv, DayTypeOK, Counted
  <2> QED  BY <2>1 DEF DayTypeInv, DayTypeOK, dayStore, Pipeline
<1>7. CASE ReadLine
  <2>1. PICK r \in toRead :
           /\ board' = board \cup {[who |-> r.who, total |-> r.total, amount |-> counter[r.who]]}
           /\ toRead' = toRead \ {r}
    BY <1>7 DEF ReadLine
  <2>2. board' \subseteq [who: Counted, total: Nat, amount: Amount]
    BY <2>1 DEF DayTypeInv, DayTypeOK
  <2> QED  BY <1>7, <2>1, <2>2 DEF ReadLine, DayTypeInv, DayTypeOK, dayStore, Pipeline
<1>8. CASE UNCHANGED dayVars
  BY <1>8 DEF dayVars, dayStore, panel, DayTypeInv, DayTypeOK, Pipeline
<1>9. ASSUME NEW n \in Server, PipelineAgain(n)  PROVE DayTypeInv'
  <2>1. PICK c \in toRank[n].who :
           /\ counter' = [counter EXCEPT ![c] = Plus(@, toRank[n].by)]
           /\ ranked' = ranked \/ Ranked(c, toRank[n].by)
           /\ allCount' = allCount \/ CountForAll(c, toRank[n].by)
    BY <1>9 DEF PipelineAgain
  <2>2. c \in Counted /\ toRank[n].by \in Amount
    BY DEF DayTypeInv, DayTypeOK
  <2>3. counter' \in [Counted -> Amount] /\ ranked' \in [Counted -> Nat] /\ allCount' \in Amount
    BY <2>1, <2>2, Amounts DEF DayTypeInv, DayTypeOK, Ranked, CountForAll
  <2> QED  BY <1>9, <2>3 DEF PipelineAgain, DayTypeInv, DayTypeOK, panel, Pipeline
<1>10. CASE FlushDay
  BY <1>1, <1>10, Amounts, FS_EmptySet DEF FlushDay, DayTypeInv, DayTypeOK, Pipeline
<1> QED  BY <1>2, <1>3, <1>4, <1>5, <1>6, <1>7, <1>8, <1>9, <1>10 DEF DayNext

\* Every variable of the figures has its type.
THEOREM DayTypeCorrect == DaySpec => []DayTypeOK
<1>1. DayTypeInv => DayTypeOK
  BY DEF DayTypeInv
<1> QED  BY <1>1, DayTypeInit, DayTypeStep, PTL DEF DaySpec

(***************************************************************************)
(* What a line shows.                                                      *)
(***************************************************************************)
\* Of what pipeline v has counted for c, what is not ranked yet.
Part(c, v) == IF c \in v.who THEN Total(v.by) ELSE 0
Pending(c) == [n \in Server |-> Part(c, toRank[n])]

\* What is ranked was counted before, and what is read was ranked.
LineInv ==
    /\ \A c \in Counted :
         ranked[c] + SumFunctionOnSet(Pending(c), Server) <= Total(counter[c])
    /\ \A r \in toRead : r.total <= ranked[r.who]
    /\ \A l \in board : l.total <= Total(l.amount)

LEMMA PartTyped ==
    ASSUME DayTypeInv
    PROVE  /\ Nobody \in [who: SUBSET Counted, by: Amount]
           /\ \A c \in Counted : Part(c, Nobody) = 0 /\ ranked[c] \in Nat
                                   /\ counter[c] \in Amount /\ Total(counter[c]) \in Nat
           /\ \A c \in Counted : \A v \in [who: SUBSET Counted, by: Amount] : Part(c, v) \in Nat
  BY Amounts DEF Nobody, Part, DayTypeInv, DayTypeOK

\* When one pipeline changes.
LEMMA PendingMoves ==
    ASSUME DayTypeInv, NEW n \in Server, NEW v \in [who: SUBSET Counted, by: Amount],
           toRank' = [toRank EXCEPT ![n] = v], NEW c \in Counted
    PROVE  /\ SumFunctionOnSet(Pending(c), Server) \in Nat
           /\ SumFunctionOnSet(Pending(c)', Server) \in Nat
           /\ SumFunctionOnSet(Pending(c)', Server) + Part(c, toRank[n])
                = SumFunctionOnSet(Pending(c), Server) + Part(c, v)
<1> DEFINE f == Pending(c)
           g == [m \in Server |-> Part(c, toRank'[m])]
<1>1. Pending(c)' = g
  BY DEF Pending, Part, Total
<1>2. \A m \in Server : toRank[m] \in [who: SUBSET Counted, by: Amount]
  BY DEF DayTypeInv, DayTypeOK
<1>3. \A m \in Server : toRank'[m] = IF m = n THEN v ELSE toRank[m]
  BY DEF DayTypeInv, DayTypeOK
<1>4. \A m \in Server : /\ f[m] = Part(c, toRank[m])
                        /\ g[m] = Part(c, toRank'[m])
  BY DEF Pending
<1> HIDE DEF f, g
<1>5. \A m \in Server : f[m] \in Nat /\ g[m] \in Nat /\ (m # n => g[m] = f[m])
  BY <1>2, <1>3, <1>4, PartTyped
<1>6. /\ SumFunctionOnSet(f, Server) \in Nat /\ SumFunctionOnSet(g, Server) \in Nat
      /\ SumFunctionOnSet(g, Server) + f[n] = SumFunctionOnSet(f, Server) + g[n]
  BY <1>5, DayAssumption, SumChanged
<1> QED  BY <1>1, <1>3, <1>4, <1>6 DEF f

\* When nothing moves it.
LEMMA PendingStays ==
    ASSUME UNCHANGED toRank, NEW c
    PROVE  Pending(c)' = Pending(c)
  BY DEF Pending, Part, Total

LEMMA LineInit == DayInit => LineInv
<1> SUFFICES ASSUME DayInit  PROVE LineInv
  OBVIOUS
<1>1. DayTypeInv
  BY DayTypeInit
<1>2. ASSUME NEW c \in Counted
      PROVE  ranked[c] + SumFunctionOnSet(Pending(c), Server) <= Total(counter[c])
  <2>1. \A n \in Server : Pending(c)[n] = 0
    BY DEF DayInit, Pending, Part, Nobody
  <2>2. SumFunctionOnSet(Pending(c), Server) = 0
    BY <2>1, DayAssumption, SumZero
  <2> QED  BY <2>2 DEF DayInit, Zero, Total
<1> QED  BY <1>2 DEF DayInit, LineInv

\* A count for who, and its pipeline begins.
LEMMA AddTodayShown ==
    ASSUME DayTypeInv, LineInv, NEW n \in Server, NEW who \in {n} \cup Rider,
           NEW by \in Amount, AddToday(n, who, by), UNCHANGED <<ranked, panel>>
    PROVE  LineInv'
<1> DEFINE v == [who |-> {who}, by |-> by]
<1>1. /\ who \in Counted /\ v \in [who: SUBSET Counted, by: Amount]
      /\ toRank[n] = Nobody /\ toRank' = [toRank EXCEPT ![n] = v]
      /\ counter' = [counter EXCEPT ![who] = Plus(@, by)]
  BY DEF AddToday, Counted
<1>2. ASSUME NEW c \in Counted
      PROVE  ranked[c] + SumFunctionOnSet(Pending(c)', Server) <= Total(counter'[c])
  <2>1. /\ SumFunctionOnSet(Pending(c), Server) \in Nat
        /\ SumFunctionOnSet(Pending(c)', Server) \in Nat
        /\ SumFunctionOnSet(Pending(c)', Server) + Part(c, Nobody)
             = SumFunctionOnSet(Pending(c), Server) + Part(c, v)
    BY <1>1, PendingMoves
  <2>2. /\ Part(c, Nobody) = 0 /\ ranked[c] \in Nat /\ counter[c] \in Amount
        /\ Total(counter[c]) \in Nat /\ Total(by) \in Nat
    BY PartTyped, Amounts
  <2>3. ranked[c] + SumFunctionOnSet(Pending(c), Server) <= Total(counter[c])
    BY DEF LineInv
  <2>4. CASE c = who
    <3>1. Part(c, v) = Total(by)
      BY <2>4 DEF Part
    <3>2. Total(counter'[c]) = Total(counter[c]) + Total(by)
      BY <1>1, <2>2, <2>4, Amounts DEF DayTypeInv, DayTypeOK
    <3> QED  BY <2>1, <2>2, <2>3, <3>1, <3>2
  <2>5. CASE c # who
    <3>1. Part(c, v) = 0 /\ counter'[c] = counter[c]
      BY <1>1, <2>5 DEF Part, DayTypeInv, DayTypeOK
    <3> QED  BY <2>1, <2>2, <2>3, <3>1
  <2> QED  BY <2>4, <2>5
<1>3. UNCHANGED <<ranked, toRead, board>>
  BY DEF panel
<1> HIDE DEF v
<1> QED  BY <1>2, <1>3 DEF LineInv, Total

LEMMA LineStep == DayTypeInv /\ LineInv /\ [DayNext]_dayVars => LineInv'
<1> SUFFICES ASSUME DayTypeInv, LineInv, [DayNext]_dayVars  PROVE LineInv'
  OBVIOUS
<1>1. ASSUME UNCHANGED <<counter, ranked, toRank, toRead, board>>  PROVE LineInv'
  BY <1>1, PendingStays DEF LineInv, Total
<1>2. ASSUME NEW n \in Server, AddNodeTodayTraffic(n)  PROVE LineInv'
  <2>1. PICK push \in SUBSET Usage :
           /\ \A a, b \in push : a.rider = b.rider => a = b
           /\ AddToday(n, n, Sum2(push))
    BY <1>2 DEF AddNodeTodayTraffic
  <2>2. Sum2(push) \in Amount
    BY <2>1, ReportFinite, Sum2Facts
  <2>3. UNCHANGED <<ranked, panel>>
    BY <1>2 DEF AddNodeTodayTraffic
  <2> QED  BY <2>1, <2>2, <2>3, AddTodayShown
<1>3. ASSUME NEW n \in Server, AddUserTodayTraffic(n)  PROVE LineInv'
  <2>1. PICK g \in usages[n] :
           \/ AddToday(n, g.rider, [up |-> g.up, down |-> g.down])
           \/ UNCHANGED <<counter, toRank>>
    BY <1>3 DEF AddUserTodayTraffic
  <2>2. g.rider \in Rider /\ [up |-> g.up, down |-> g.down] \in Amount
    BY DayAssumption DEF DayTypeInv, DayTypeOK, Usage, Amount
  <2>3. UNCHANGED <<ranked, panel>>
    BY <1>3 DEF AddUserTodayTraffic
  <2>4. CASE AddToday(n, g.rider, [up |-> g.up, down |-> g.down])
    <3> DEFINE by == [up |-> g.up, down |-> g.down]
    <3>1. g.rider \in {n} \cup Rider /\ by \in Amount
      BY <2>2
    <3> HIDE DEF by
    <3> QED  BY <2>3, <2>4, <3>1, AddTodayShown DEF by
  <2>5. CASE UNCHANGED <<counter, toRank>>
    BY <1>1, <2>3, <2>5 DEF panel
  <2> QED  BY <2>1, <2>4, <2>5
<1>4. ASSUME NEW n \in Server, RankAdd(n)  PROVE LineInv'
  <2>1. PICK d \in toRank[n].who : ranked' = [ranked EXCEPT ![d] = @ + Total(toRank[n].by)]
    BY <1>4 DEF RankAdd, Ranked
  <2>2. /\ toRank' = [toRank EXCEPT ![n] = Nobody] /\ UNCHANGED <<counter, toRead, board>>
    BY <1>4 DEF RankAdd, panel
  <2>3. d \in Counted /\ toRank[n].by \in Amount /\ toRank[n].who = {d} /\ Total(toRank[n].by) \in Nat
    <3>1. toRank[n] \in [who: SUBSET Counted, by: Amount]
      BY DEF DayTypeInv, DayTypeOK
    <3>2. toRank[n].who = {d}
      BY <2>1 DEF DayTypeInv, Pipeline, Nobody
    <3>3. d \in Counted /\ toRank[n].by \in Amount
      BY <2>1, <3>1
    <3> QED  BY <3>2, <3>3, Amounts
  <2>4. \A c \in Counted : ranked'[c] \in Nat /\ ranked[c] <= ranked'[c]
    BY <2>1, <2>3, PartTyped DEF DayTypeInv, DayTypeOK
  <2>5. ASSUME NEW c \in Counted
        PROVE  ranked'[c] + SumFunctionOnSet(Pending(c)', Server) <= Total(counter[c])
    <3>1. /\ SumFunctionOnSet(Pending(c), Server) \in Nat
          /\ SumFunctionOnSet(Pending(c)', Server) \in Nat
          /\ SumFunctionOnSet(Pending(c)', Server) + Part(c, toRank[n])
               = SumFunctionOnSet(Pending(c), Server) + Part(c, Nobody)
      BY <2>2, PartTyped, PendingMoves
    <3>2. Part(c, Nobody) = 0 /\ ranked[c] \in Nat /\ Total(counter[c]) \in Nat
      BY PartTyped
    <3>3. ranked[c] + SumFunctionOnSet(Pending(c), Server) <= Total(counter[c])
      BY DEF LineInv
    <3>4. ranked'[c] = ranked[c] + Part(c, toRank[n]) /\ Part(c, toRank[n]) \in Nat
      BY <2>1, <2>3, <3>2 DEF Part, DayTypeInv, DayTypeOK
    <3> QED  BY <3>1, <3>2, <3>3, <3>4
  <2>6. \A r \in toRead : r.total <= ranked'[r.who]
    <3> SUFFICES ASSUME NEW r \in toRead  PROVE r.total <= ranked'[r.who]
      OBVIOUS
    <3>1. r.who \in Counted /\ r.total \in Nat /\ ranked[r.who] \in Nat
      BY DEF DayTypeInv, DayTypeOK
    <3> QED  BY <2>4, <3>1 DEF LineInv
  <2> QED  BY <2>2, <2>5, <2>6 DEF LineInv, Total
<1>5. ASSUME NEW n \in Server, PipelineBreaks(n)  PROVE LineInv'
  <2>1. /\ toRank' = [toRank EXCEPT ![n] = Nobody]
        /\ UNCHANGED <<counter, ranked, toRead, board>>
    BY <1>5 DEF PipelineBreaks, dayStore, panel
  <2>2. ASSUME NEW c \in Counted
        PROVE  ranked[c] + SumFunctionOnSet(Pending(c)', Server) <= Total(counter[c])
    <3>1. /\ SumFunctionOnSet(Pending(c), Server) \in Nat
          /\ SumFunctionOnSet(Pending(c)', Server) \in Nat
          /\ SumFunctionOnSet(Pending(c)', Server) + Part(c, toRank[n])
               = SumFunctionOnSet(Pending(c), Server) + Part(c, Nobody)
      BY <2>1, PartTyped, PendingMoves
    <3>2. /\ Part(c, Nobody) = 0 /\ ranked[c] \in Nat /\ Total(counter[c]) \in Nat
          /\ Part(c, toRank[n]) \in Nat
      BY PartTyped DEF DayTypeInv, DayTypeOK
    <3>3. ranked[c] + SumFunctionOnSet(Pending(c), Server) <= Total(counter[c])
      BY DEF LineInv
    <3> QED  BY <3>1, <3>2, <3>3
  <2> QED  BY <2>1, <2>2 DEF LineInv, Total
<1>6. CASE ReadRank
  <2>1. /\ board' = {} /\ UNCHANGED <<counter, ranked, toRank>>
        /\ \A r \in toRead' : r.who \in Counted /\ r.total = ranked[r.who]
    BY <1>6 DEF ReadRank, dayStore, Counted
  <2>2. \A r \in toRead' : r.total <= ranked[r.who]
    BY <2>1, PartTyped
  <2> QED  BY <2>1, <2>2, PendingStays DEF LineInv, Total
\* The counters have what the ranking had, and more.
<1>7. CASE ReadLine
  <2>1. PICK r \in toRead :
           /\ board' = board \cup {[who |-> r.who, total |-> r.total, amount |-> counter[r.who]]}
           /\ toRead' = toRead \ {r} /\ UNCHANGED <<counter, ranked, toRank>>
    BY <1>7 DEF ReadLine, dayStore
  <2>2. r.total <= Total(counter[r.who])
    <3> DEFINE c == r.who
    <3>1. c \in Counted /\ r.total \in Nat
      BY DEF DayTypeInv, DayTypeOK
    <3>2. r.total <= ranked[c] /\ ranked[c] + SumFunctionOnSet(Pending(c), Server) <= Total(counter[c])
      BY <3>1 DEF LineInv
    <3>3. SumFunctionOnSet(Pending(c), Server) \in Nat
      <4>1. \A m \in Server : Pending(c)[m] \in Nat
        BY <3>1, PartTyped DEF Pending, DayTypeInv, DayTypeOK
      <4> QED  BY <4>1, DayAssumption, SumTaken
    <3>4. ranked[c] \in Nat /\ Total(counter[c]) \in Nat
      BY <3>1, PartTyped
    <3> HIDE DEF c
    <3>5. r.total <= Total(counter[c])
      BY <3>1, <3>2, <3>3, <3>4
    <3> QED  BY <3>5 DEF c
  <2> QED  BY <2>1, <2>2, PendingStays DEF LineInv, Total
<1>8. CASE UNCHANGED dayVars
  BY <1>1, <1>8 DEF dayVars, dayStore, panel
\* The counters are ahead by one more of what is pending.
<1>9. ASSUME NEW n \in Server, PipelineAgain(n)  PROVE LineInv'
  <2>1. PICK d \in toRank[n].who :
           /\ counter' = [counter EXCEPT ![d] = Plus(@, toRank[n].by)]
           /\ ranked' = ranked \/ ranked' = [ranked EXCEPT ![d] = @ + Total(toRank[n].by)]
    BY <1>9 DEF PipelineAgain, Ranked
  <2>2. UNCHANGED <<toRank, toRead, board>>
    BY <1>9 DEF PipelineAgain, panel
  <2>3. d \in Counted /\ toRank[n].by \in Amount /\ Total(toRank[n].by) \in Nat
    BY <2>1, Amounts DEF DayTypeInv, DayTypeOK
  <2> DEFINE t == Total(toRank[n].by)
  <2>4. ASSUME NEW c \in Counted
        PROVE  /\ ranked'[c] \in Nat /\ ranked[c] <= ranked'[c]
               /\ \/ ranked'[c] = ranked[c] /\ Total(counter'[c]) >= Total(counter[c])
                  \/ /\ ranked'[c] = ranked[c] + t
                     /\ Total(counter'[c]) = Total(counter[c]) + t
    <3>1. ranked[c] \in Nat /\ counter[c] \in Amount /\ Total(counter[c]) \in Nat
      BY PartTyped
    <3>2. CASE c = d
      <4>1. Total(counter'[c]) = Total(counter[c]) + t
        BY <2>1, <2>3, <3>1, <3>2, Amounts DEF DayTypeInv, DayTypeOK
      <4>2. ranked'[c] = ranked[c] \/ ranked'[c] = ranked[c] + t
        BY <2>1, <3>2 DEF DayTypeInv, DayTypeOK
      <4> HIDE DEF t
      <4>3. t \in Nat
        BY <2>3 DEF t
      <4> QED  BY <3>1, <4>1, <4>2, <4>3
    <3>3. CASE c # d
      BY <2>1, <3>1, <3>3 DEF DayTypeInv, DayTypeOK
    <3> QED  BY <3>2, <3>3
  <2>5. ASSUME NEW c \in Counted
        PROVE  ranked'[c] + SumFunctionOnSet(Pending(c)', Server) <= Total(counter'[c])
    <3>1. SumFunctionOnSet(Pending(c), Server) \in Nat
      <4>1. \A m \in Server : Pending(c)[m] \in Nat
        BY PartTyped DEF Pending, DayTypeInv, DayTypeOK
      <4> QED  BY <4>1, DayAssumption, SumTaken
    <3>2. ranked[c] + SumFunctionOnSet(Pending(c), Server) <= Total(counter[c])
      BY DEF LineInv
    <3>3. /\ ranked[c] \in Nat /\ Total(counter[c]) \in Nat /\ t \in Nat
          /\ Pending(c)' = Pending(c)
      BY <2>2, <2>3, PartTyped, PendingStays
    <3>4. \/ ranked'[c] = ranked[c] /\ Total(counter'[c]) >= Total(counter[c])
          \/ ranked'[c] = ranked[c] + t /\ Total(counter'[c]) = Total(counter[c]) + t
      BY <2>4
    <3>5. Total(counter'[c]) \in Nat
      BY <1>9, DayTypeStep, Amounts DEF DayNext, DayTypeInv, DayTypeOK
    <3> HIDE DEF t
    <3> QED  BY <3>1, <3>2, <3>3, <3>4, <3>5
  <2>6. \A r \in toRead : r.total <= ranked'[r.who]
    <3> SUFFICES ASSUME NEW r \in toRead  PROVE r.total <= ranked'[r.who]
      OBVIOUS
    <3>1. r.who \in Counted /\ r.total \in Nat /\ ranked[r.who] \in Nat
      BY DEF DayTypeInv, DayTypeOK
    <3>2. ranked[r.who] <= ranked'[r.who] /\ ranked'[r.who] \in Nat
      BY <2>4, <3>1
    <3> QED  BY <3>1, <3>2 DEF LineInv
  <2> QED  BY <2>2, <2>5, <2>6 DEF LineInv, Total
<1>10. CASE FlushDay
  <2>1. ASSUME NEW c \in Counted
        PROVE  ranked'[c] + SumFunctionOnSet(Pending(c)', Server) <= Total(counter'[c])
    <3>1. \A n \in Server : Pending(c)'[n] = 0
      BY <1>10 DEF FlushDay, Pending, Part, Nobody
    <3>2. SumFunctionOnSet(Pending(c)', Server) = 0
      BY <3>1, DayAssumption, SumZero
    <3> QED  BY <1>10, <3>2 DEF FlushDay, Zero, Total
  <2> QED  BY <1>10, <2>1 DEF FlushDay, LineInv, Total
<1> QED  BY <1>2, <1>3, <1>4, <1>5, <1>6, <1>7, <1>8, <1>9, <1>10 DEF DayNext

(***************************************************************************)
(* What the figure for all shows.                                          *)
(***************************************************************************)
\* The figure for all is what is ranked for the users.
AllInv == "again" \in gaps \/ Total(allCount) = SumFunctionOnSet(ranked, Rider)

\* What a push, with usages us and a pipeline at v, has yet to add to it.
Still(v) == IF v.who \cap Rider = {} THEN Zero ELSE v.by
Owed(us, v) == Plus(Sum2(us), Still(v))
Ups   == [n \in Server |-> Owed(usages[n], toRank[n]).up]
Downs == [n \in Server |-> Owed(usages[n], toRank[n]).down]

\* What is counted, c, and owed, s, is what was reported, r; or is more, when a
\* pipeline was sent again.
Covers(c, s, r) == r <= c + s /\ ("again" \notin gaps => c + s = r)

\* Nothing that was reported is lost on the way.
ReportInv ==
    "broken" \in gaps \/ "downOnly" \in gaps
      \/ /\ Covers(allCount.up, SumFunctionOnSet(Ups, Server), reported.up)
         /\ Covers(allCount.down, SumFunctionOnSet(Downs, Server), reported.down)

LEMMA OwedTyped ==
    ASSUME NEW R \in SUBSET Usage, IsFiniteSet(R),
           NEW v \in [who: SUBSET Counted, by: Amount]
    PROVE  Owed(R, v) \in Amount /\ Owed(R, v).up \in Nat /\ Owed(R, v).down \in Nat
           /\ Still(v) \in Amount
<1>1. Still(v) \in Amount /\ Sum2(R) \in Amount
  BY Amounts, Sum2Facts DEF Still
<1>2. Owed(R, v) \in Amount
  BY <1>1, Amounts DEF Owed
<1> QED  BY <1>1, <1>2 DEF Amount

\* When one push changes.
LEMMA OwedMoves ==
    ASSUME DayTypeInv, DayTypeInv', NEW n \in Server,
           \A m \in Server : m # n => usages'[m] = usages[m] /\ toRank'[m] = toRank[m]
    PROVE  LET o == Owed(usages[n], toRank[n])
               p == Owed(usages'[n], toRank'[n])
           IN  /\ o \in Amount /\ p \in Amount
               /\ SumFunctionOnSet(Ups, Server) \in Nat /\ SumFunctionOnSet(Ups', Server) \in Nat
               /\ SumFunctionOnSet(Downs, Server) \in Nat
               /\ SumFunctionOnSet(Downs', Server) \in Nat
               /\ SumFunctionOnSet(Ups', Server) + o.up = SumFunctionOnSet(Ups, Server) + p.up
               /\ SumFunctionOnSet(Downs', Server) + o.down
                    = SumFunctionOnSet(Downs, Server) + p.down
<1> DEFINE O(m) == Owed(usages[m], toRank[m])
           P(m) == Owed(usages'[m], toRank'[m])
           f == Ups
           g == [m \in Server |-> P(m).up]
           h == Downs
           k == [m \in Server |-> P(m).down]
<1>1. Ups' = g /\ Downs' = k
  BY DEF Ups, Downs, Owed, Plus, Still, Sum2, Zero
<1>2. \A m \in Server : O(m) \in Amount /\ O(m).up \in Nat /\ O(m).down \in Nat
  BY OwedTyped DEF DayTypeInv, DayTypeOK
<1>3. \A m \in Server : P(m) \in Amount /\ P(m).up \in Nat /\ P(m).down \in Nat
  BY OwedTyped DEF DayTypeInv, DayTypeOK
<1>4. \A m \in Server : m # n => P(m) = O(m)
  OBVIOUS
<1>5. \A m \in Server : /\ f[m] = O(m).up /\ g[m] = P(m).up
                        /\ h[m] = O(m).down /\ k[m] = P(m).down
  BY DEF Ups, Downs
<1> HIDE DEF O, P, f, g, h, k
<1>6. /\ SumFunctionOnSet(f, Server) \in Nat /\ SumFunctionOnSet(g, Server) \in Nat
      /\ SumFunctionOnSet(g, Server) + f[n] = SumFunctionOnSet(f, Server) + g[n]
  <2>1. \A m \in Server : f[m] \in Nat /\ g[m] \in Nat /\ (m # n => g[m] = f[m])
    BY <1>2, <1>3, <1>4, <1>5
  <2> QED  BY <2>1, DayAssumption, SumChanged
<1>7. /\ SumFunctionOnSet(h, Server) \in Nat /\ SumFunctionOnSet(k, Server) \in Nat
      /\ SumFunctionOnSet(k, Server) + h[n] = SumFunctionOnSet(h, Server) + k[n]
  <2>1. \A m \in Server : h[m] \in Nat /\ k[m] \in Nat /\ (m # n => k[m] = h[m])
    BY <1>2, <1>3, <1>4, <1>5
  <2> QED  BY <2>1, DayAssumption, SumChanged
<1> QED  BY <1>1, <1>2, <1>3, <1>5, <1>6, <1>7 DEF O, P, f, h

LEMMA OwedStays ==
    ASSUME UNCHANGED <<usages, toRank>>
    PROVE  Ups' = Ups /\ Downs' = Downs
  BY DEF Ups, Downs, Owed, Plus, Still, Sum2, Zero

LEMMA FigureInit == DayInit => AllInv /\ ReportInv
<1> SUFFICES ASSUME DayInit  PROVE AllInv /\ ReportInv
  OBVIOUS
<1>1. SumFunctionOnSet(ranked, Rider) = 0
  <2>1. \A u \in Rider : ranked[u] = 0
    BY DEF DayInit, Counted
  <2> QED  BY <2>1, DayAssumption, SumZero
<1>2. \A n \in Server : Ups[n] = 0 /\ Downs[n] = 0
  BY Sum2Empty DEF DayInit, Ups, Downs, Owed, Still, Nobody, Plus, Zero
<1>3. SumFunctionOnSet(Ups, Server) = 0 /\ SumFunctionOnSet(Downs, Server) = 0
  BY <1>2, DayAssumption, SumZero
<1> QED  BY <1>1, <1>3 DEF DayInit, AllInv, ReportInv, Covers, Total, Zero

LEMMA AllStep == DayTypeInv /\ AllInv /\ [DayNext]_dayVars => AllInv'
<1> SUFFICES ASSUME DayTypeInv, AllInv, [DayNext]_dayVars  PROVE AllInv'
  OBVIOUS
<1>1. ASSUME UNCHANGED <<ranked, allCount>>, gaps \subseteq gaps'  PROVE AllInv'
  BY <1>1 DEF AllInv, Total
<1>2. ASSUME NEW n \in Server, RankAdd(n)  PROVE AllInv'
  <2>1. PICK c \in toRank[n].who :
           /\ ranked' = [ranked EXCEPT ![c] = @ + Total(toRank[n].by)]
           /\ allCount' = IF c \in Rider THEN Plus(allCount, toRank[n].by) ELSE allCount
    BY <1>2 DEF RankAdd, Ranked, CountForAll
  <2>6. gaps' = gaps
    BY <1>2 DEF RankAdd
  <2> DEFINE by == toRank[n].by
  <2>2. c \in Counted /\ by \in Amount /\ Total(by) \in Nat /\ allCount \in Amount
    BY <2>1, Amounts DEF DayTypeInv, DayTypeOK
  <2>3. \A u \in Rider : /\ ranked[u] \in Nat
                         /\ ranked'[u] = IF u = c THEN ranked[u] + Total(by) ELSE ranked[u]
    BY <2>1 DEF DayTypeInv, DayTypeOK, Counted
  <2> HIDE DEF by
  <2>4. CASE c \in Rider
    <3>1. \A u \in Rider : ranked[u] \in Nat /\ ranked'[u] \in Nat
                           /\ (u # c => ranked'[u] = ranked[u])
      BY <2>2, <2>3
    <3>2. /\ SumFunctionOnSet(ranked, Rider) \in Nat /\ SumFunctionOnSet(ranked', Rider) \in Nat
          /\ SumFunctionOnSet(ranked', Rider) + ranked[c]
               = SumFunctionOnSet(ranked, Rider) + ranked'[c]
      BY <2>4, <3>1, DayAssumption, SumChanged
    <3>3. Total(allCount') = Total(allCount) + Total(by)
      BY <2>1, <2>2, <2>4, Amounts DEF by
    <3>4. SumFunctionOnSet(ranked', Rider) = SumFunctionOnSet(ranked, Rider) + Total(by)
      BY <2>2, <2>3, <2>4, <3>2
    <3> QED  BY <2>6, <3>3, <3>4 DEF AllInv, Total
  <2>5. CASE c \notin Rider
    <3>1. SumFunctionOnSet(ranked', Rider) = SumFunctionOnSet(ranked, Rider)
      <4>1. \A u \in Rider : ranked'[u] = ranked[u]
        BY <2>3, <2>5
      <4> QED  BY <4>1, DayAssumption, SumCongruent
    <3> QED  BY <2>1, <2>5, <2>6, <3>1 DEF AllInv, Total
  <2> QED  BY <2>4, <2>5
<1>3. ASSUME \/ \E n \in Server : AddNodeTodayTraffic(n) \/ AddUserTodayTraffic(n)
                                    \/ PipelineBreaks(n)
             \/ ReadRank \/ ReadLine
      PROVE  AllInv'
  BY <1>1, <1>3 DEF AddNodeTodayTraffic, AddUserTodayTraffic, AddToday, PipelineBreaks,
     ReadRank, ReadLine, dayStore
<1>4. CASE UNCHANGED dayVars
  BY <1>1, <1>4 DEF dayVars, dayStore
<1>5. ASSUME NEW n \in Server, PipelineAgain(n)  PROVE AllInv'
  BY <1>5 DEF PipelineAgain, AllInv
<1>6. CASE FlushDay
  <2>1. SumFunctionOnSet(ranked', Rider) = 0
    <3>1. \A u \in Rider : ranked'[u] = 0
      BY <1>6 DEF FlushDay, Counted
    <3> QED  BY <3>1, DayAssumption, SumZero
  <2> QED  BY <1>6, <2>1 DEF FlushDay, AllInv, Total, Zero
<1> QED  BY <1>2, <1>3, <1>4, <1>5, <1>6 DEF DayNext

LEMMA Balance ==
    ASSUME NEW c \in Nat, NEW s \in Nat, NEW t \in Nat, NEW o \in Nat, NEW p \in Nat,
           NEW a \in Nat, NEW b \in Nat, t + o = s + p, p + a = o + b
    PROVE  c + a + t = c + s + b
<1> QED  BY SMT

LEMMA ReportStep == DayTypeInv /\ ReportInv /\ [DayNext]_dayVars => ReportInv'
<1> SUFFICES ASSUME DayTypeInv, ReportInv, [DayNext]_dayVars  PROVE ReportInv'
  OBVIOUS
<1>0. DayTypeInv'
  BY DayTypeStep
<1>1. ASSUME UNCHANGED <<allCount, reported, gaps, usages, toRank>>  PROVE ReportInv'
  BY <1>1, OwedStays DEF ReportInv, Covers
\* A push moves traffic between what is reported, owed and counted.
<1>2. ASSUME NEW n \in Server, NEW a \in Amount, NEW b \in Amount,
             \A m \in Server : m # n => usages'[m] = usages[m] /\ toRank'[m] = toRank[m],
             allCount' = Plus(allCount, a), reported' = Plus(reported, b), gaps' = gaps,
             Plus(Owed(usages'[n], toRank'[n]), a) = Plus(Owed(usages[n], toRank[n]), b)
      PROVE  ReportInv'
  <2> DEFINE o == Owed(usages[n], toRank[n])
             p == Owed(usages'[n], toRank'[n])
  <2>1. /\ o \in Amount /\ p \in Amount
        /\ SumFunctionOnSet(Ups, Server) \in Nat /\ SumFunctionOnSet(Ups', Server) \in Nat
        /\ SumFunctionOnSet(Downs, Server) \in Nat /\ SumFunctionOnSet(Downs', Server) \in Nat
        /\ SumFunctionOnSet(Ups', Server) + o.up = SumFunctionOnSet(Ups, Server) + p.up
        /\ SumFunctionOnSet(Downs', Server) + o.down = SumFunctionOnSet(Downs, Server) + p.down
    BY <1>0, <1>2, OwedMoves
  <2>2. Plus(p, a) = Plus(o, b)
    BY <1>2
  <2> HIDE DEF o, p
  <2>3. p.up + a.up = o.up + b.up /\ p.down + a.down = o.down + b.down
    BY <1>2, <2>1, <2>2, Amounts
  <2>4. /\ allCount'.up = allCount.up + a.up /\ allCount'.down = allCount.down + a.down
        /\ reported'.up = reported.up + b.up /\ reported'.down = reported.down + b.down
    BY <1>2, Amounts DEF DayTypeInv, DayTypeOK
  <2>5. /\ {allCount.up, allCount.down, reported.up, reported.down} \subseteq Nat
        /\ {a.up, a.down, b.up, b.down, o.up, o.down, p.up, p.down} \subseteq Nat
    BY <2>1 DEF DayTypeInv, DayTypeOK, Amount
  <2>6. Covers(allCount.up, SumFunctionOnSet(Ups, Server), reported.up)
          => Covers(allCount.up, SumFunctionOnSet(Ups, Server), reported.up)'
    <3>1. /\ allCount.up \in Nat /\ a.up \in Nat /\ b.up \in Nat
          /\ o.up \in Nat /\ p.up \in Nat
      BY <2>5
    <3>2. allCount.up + a.up + SumFunctionOnSet(Ups', Server)
            = allCount.up + SumFunctionOnSet(Ups, Server) + b.up
      BY <2>1, <2>3, <3>1, Balance
    <3> QED  BY <1>2, <2>1, <2>4, <2>5, <3>2 DEF Covers
  <2>7. Covers(allCount.down, SumFunctionOnSet(Downs, Server), reported.down)
          => Covers(allCount.down, SumFunctionOnSet(Downs, Server), reported.down)'
    <3>1. /\ allCount.down \in Nat /\ a.down \in Nat /\ b.down \in Nat
          /\ o.down \in Nat /\ p.down \in Nat
      BY <2>5
    <3>2. allCount.down + a.down + SumFunctionOnSet(Downs', Server)
            = allCount.down + SumFunctionOnSet(Downs, Server) + b.down
      BY <2>1, <2>3, <3>1, Balance
    <3> QED  BY <1>2, <2>1, <2>4, <2>5, <3>2 DEF Covers
  <2> QED  BY <1>2, <2>6, <2>7 DEF ReportInv
<1>3. /\ \A a \in Amount : Plus(a, Zero) = a
      /\ \A a, b, c \in Amount : /\ Plus(a, b) = Plus(b, a)
                                 /\ Plus(Plus(a, b), c) = Plus(a, Plus(b, c))
  BY DEF Plus, Zero, Amount
<1>4. /\ Zero \in Amount /\ allCount \in Amount /\ reported \in Amount
      /\ Plus(allCount, Zero) = allCount /\ Plus(reported, Zero) = reported
  BY <1>3, Amounts DEF DayTypeInv, DayTypeOK
<1>5. ASSUME NEW n \in Server, AddNodeTodayTraffic(n)  PROVE ReportInv'
  <2>1. PICK push \in SUBSET Usage :
           /\ \A a, b \in push : a.rider = b.rider => a = b
           /\ usages' = [usages EXCEPT ![n] = push]
           /\ AddToday(n, n, Sum2(push))
           /\ reported' = Plus(reported, Sum2(push))
    BY <1>5 DEF AddNodeTodayTraffic
  <2>2. Sum2(push) \in Amount
    BY <2>1, ReportFinite, Sum2Facts
  <2>3. usages[n] = {} /\ toRank[n] = Nobody /\ allCount' = allCount /\ gaps' = gaps
    BY <1>5 DEF AddNodeTodayTraffic, Idle
  <2>4. /\ usages'[n] = push /\ toRank'[n] = [who |-> {n}, by |-> Sum2(push)]
        /\ \A m \in Server : m # n => usages'[m] = usages[m] /\ toRank'[m] = toRank[m]
    BY <2>1 DEF AddToday, DayTypeInv, DayTypeOK
  <2>5. Owed(usages[n], toRank[n]) = Zero
    <3>1. Still(Nobody) = Zero
      BY DEF Still, Nobody
    <3> QED  BY <1>3, <1>4, <2>3, <3>1, Sum2Empty DEF Owed
  <2>6. Owed(usages'[n], toRank'[n]) = Sum2(push)
    <3>1. Still(toRank'[n]) = Zero
      BY <2>4, DayAssumption DEF Still
    <3> QED  BY <1>3, <2>2, <2>4, <3>1 DEF Owed
  <2>7. Plus(Sum2(push), Zero) = Plus(Zero, Sum2(push))
    BY <1>3, <1>4, <2>2
  <2> QED  BY <1>2, <1>4, <2>1, <2>2, <2>3, <2>4, <2>5, <2>6, <2>7
<1>6. ASSUME NEW n \in Server, AddUserTodayTraffic(n)  PROVE ReportInv'
  <2>1. PICK g \in usages[n] :
           /\ toRank[n] = Nobody
           /\ usages' = [usages EXCEPT ![n] = @ \ {g}]
           /\ \/ /\ AddToday(n, g.rider, [up |-> g.up, down |-> g.down])
                 /\ UNCHANGED gaps
              \/ /\ g.up = 0
                 /\ gaps' = IF g.down > 0 THEN gaps \cup {"downOnly"} ELSE gaps
                 /\ UNCHANGED <<counter, toRank>>
    BY <1>6 DEF AddUserTodayTraffic
  <2> DEFINE R == usages[n]
             by == [up |-> g.up, down |-> g.down]
  <2>2. allCount' = allCount /\ reported' = reported
    BY <1>6 DEF AddUserTodayTraffic
  <2>3. /\ R \in SUBSET Usage /\ IsFiniteSet(R) /\ g \in R /\ R \ {g} \in SUBSET Usage
        /\ IsFiniteSet(R \ {g}) /\ g.rider \in Rider /\ g.up \in Nat /\ g.down \in Nat
        /\ by \in Amount
    BY <2>1, FS_RemoveElement, DayAssumption DEF DayTypeInv, DayTypeOK, Usage, Amount
  <2>4. Sum2(R) = Plus(by, Sum2(R \ {g})) /\ Sum2(R \ {g}) \in Amount
    <3>1. /\ Sum2(R) \in Amount /\ Sum2(R \ {g}) \in Amount
          /\ Sum2(R).up = g.up + Sum2(R \ {g}).up
          /\ Sum2(R).down = g.down + Sum2(R \ {g}).down
      BY <2>3, Sum2Facts
    <3>2. Sum2(R) = [up |-> Sum2(R).up, down |-> Sum2(R).down]
      BY <3>1 DEF Amount
    <3> QED  BY <3>1, <3>2 DEF Plus
  <2>5. usages'[n] = R \ {g} /\ \A m \in Server : m # n => usages'[m] = usages[m]
    BY <2>1 DEF DayTypeInv, DayTypeOK
  <2>6. Still(Nobody) = Zero
    BY DEF Still, Nobody
  <2>7. Owed(usages[n], toRank[n]) = Sum2(R)
    BY <1>3, <2>1, <2>3, <2>6, Sum2Facts DEF Owed
  <2>8. CASE AddToday(n, g.rider, by) /\ UNCHANGED gaps
    <3>1. /\ toRank'[n] = [who |-> {g.rider}, by |-> by]
          /\ \A m \in Server : m # n => toRank'[m] = toRank[m]
      BY <2>8 DEF AddToday, DayTypeInv, DayTypeOK
    <3>2. Still(toRank'[n]) = by
      BY <2>3, <3>1 DEF Still
    <3> HIDE DEF R, by
    <3>3. Owed(usages'[n], toRank'[n]) = Sum2(R)
      BY <1>3, <2>3, <2>4, <2>5, <3>2 DEF Owed
    <3>4. allCount' = Plus(allCount, Zero) /\ reported' = Plus(reported, Zero) /\ gaps' = gaps
      BY <1>4, <2>2, <2>8
    <3>5. \A m \in Server : m # n => usages'[m] = usages[m] /\ toRank'[m] = toRank[m]
      BY <2>5, <3>1
    <3>6. Plus(Owed(usages'[n], toRank'[n]), Zero) = Plus(Owed(usages[n], toRank[n]), Zero)
      BY <2>7, <3>3
    <3> QED  BY <1>2, <1>4, <3>4, <3>5, <3>6
  <2>9. CASE g.up = 0 /\ g.down = 0 /\ UNCHANGED <<gaps, toRank>>
    <3>1. by = Zero
      BY <2>9 DEF Zero
    <3> HIDE DEF R, by
    <3>2. Sum2(R) = Sum2(R \ {g})
      BY <1>3, <1>4, <2>4, <3>1
    <3>3. Owed(usages'[n], toRank'[n]) = Sum2(R)
      BY <1>3, <2>1, <2>4, <2>5, <2>6, <2>9, <3>2 DEF Owed
    <3> QED  BY <1>2, <1>4, <2>2, <2>5, <2>7, <2>9, <3>3
  <2>10. CASE "downOnly" \in gaps'
    BY <2>10 DEF ReportInv
  <2> QED  BY <2>1, <2>3, <2>8, <2>9, <2>10
<1>7. ASSUME NEW n \in Server, RankAdd(n)  PROVE ReportInv'
  <2>1. PICK c \in toRank[n].who :
           allCount' = IF c \in Rider THEN Plus(allCount, toRank[n].by) ELSE allCount
    BY <1>7 DEF RankAdd, CountForAll
  <2>2. /\ toRank' = [toRank EXCEPT ![n] = Nobody] /\ UNCHANGED <<usages, reported, gaps>>
    BY <1>7 DEF RankAdd
  <2> DEFINE a == Still(toRank[n])
  <2>3. /\ toRank[n] \in [who: SUBSET Counted, by: Amount] /\ toRank[n].who = {c}
        /\ usages[n] \in SUBSET Usage /\ IsFiniteSet(usages[n])
    BY <2>1 DEF DayTypeInv, DayTypeOK, Pipeline, Nobody
  <2>4. a \in Amount /\ allCount' = Plus(allCount, a)
    <3>1. a \in Amount
      BY <2>3, OwedTyped
    <3>2. CASE c \in Rider
      BY <2>1, <2>3, <3>1, <3>2 DEF Still
    <3>3. CASE c \notin Rider
      BY <1>4, <2>1, <2>3, <3>1, <3>3 DEF Still
    <3> QED  BY <3>2, <3>3
  <2>5. /\ toRank'[n] = Nobody
        /\ \A m \in Server : m # n => usages'[m] = usages[m] /\ toRank'[m] = toRank[m]
    BY <2>2 DEF DayTypeInv, DayTypeOK
  <2>6. Still(Nobody) = Zero
    BY DEF Still, Nobody
  <2>7. Plus(Owed(usages'[n], toRank'[n]), a) = Plus(Owed(usages[n], toRank[n]), Zero)
    <3>1. Owed(usages[n], toRank[n]) = Plus(Sum2(usages[n]), a)
      BY DEF Owed
    <3>2. Sum2(usages[n]) \in Amount
      BY <2>3, Sum2Facts
    <3> HIDE DEF a
    <3>3. Owed(usages'[n], toRank'[n]) = Sum2(usages[n])
      BY <1>3, <2>2, <2>5, <2>6, <3>2 DEF Owed
    <3> QED  BY <1>3, <1>4, <2>4, <3>1, <3>2, <3>3, Amounts
  <2> HIDE DEF a
  <2> QED  BY <1>2, <1>4, <2>2, <2>4, <2>5, <2>7
<1>8. ASSUME NEW n \in Server, PipelineBreaks(n)  PROVE ReportInv'
  BY <1>8 DEF PipelineBreaks, ReportInv
<1>9. ASSUME ReadRank \/ ReadLine  PROVE ReportInv'
  BY <1>1, <1>9 DEF ReadRank, ReadLine, dayStore
<1>10. CASE UNCHANGED dayVars
  BY <1>1, <1>10 DEF dayVars, dayStore
<1>11. ASSUME NEW n \in Server, PipelineAgain(n)  PROVE ReportInv'
  <2>1. /\ UNCHANGED <<usages, toRank, reported>> /\ gaps' = gaps \cup {"again"}
        /\ allCount' = allCount \/ allCount' = Plus(allCount, toRank[n].by)
    BY <1>11 DEF PipelineAgain, CountForAll
  <2>2. /\ SumFunctionOnSet(Ups, Server) \in Nat /\ SumFunctionOnSet(Downs, Server) \in Nat
        /\ Ups' = Ups /\ Downs' = Downs
    BY <1>0, <2>1, OwedMoves, OwedStays
  <2>3. toRank[n].by \in Amount
    BY DEF DayTypeInv, DayTypeOK
  <2>4. /\ allCount.up <= allCount'.up /\ allCount.down <= allCount'.down
        /\ {allCount.up, allCount'.up, allCount.down, allCount'.down} \subseteq Nat
        /\ {reported.up, reported.down} \subseteq Nat
    BY <1>4, <2>1, <2>3 DEF Plus, Amount
  <2> QED  BY <2>1, <2>2, <2>4 DEF ReportInv, Covers
<1>12. CASE FlushDay
  <2>1. \A n \in Server : Ups'[n] = 0 /\ Downs'[n] = 0
    <3>1. \A n \in Server : Owed({}, Nobody).up = 0 /\ Owed({}, Nobody).down = 0
      BY Sum2Empty DEF Owed, Still, Nobody, Plus, Zero
    <3>2. \A n \in Server : usages'[n] = {} /\ toRank'[n] = Nobody
      BY <1>12 DEF FlushDay
    <3>3. /\ Ups' = [n \in Server |-> Owed(usages'[n], toRank'[n]).up]
          /\ Downs' = [n \in Server |-> Owed(usages'[n], toRank'[n]).down]
      BY DEF Ups, Downs, Owed, Plus, Still, Sum2, Zero
    <3> QED  BY <3>1, <3>2, <3>3
  <2>2. SumFunctionOnSet(Ups', Server) = 0 /\ SumFunctionOnSet(Downs', Server) = 0
    BY <2>1, DayAssumption, SumZero
  <2> QED  BY <1>12, <2>2 DEF FlushDay, ReportInv, Covers, Zero
<1> QED  BY <1>5, <1>6, <1>7, <1>8, <1>9, <1>10, <1>11, <1>12 DEF DayNext

\* A line of a ranking shows no more in all than up and down together, and once
\* every push is through, the figure for all has all that was reported since
\* the server started, unless a push broke off or a user was refused; and
\* nothing else, unless a pipeline was sent again.
THEOREM FiguresDoAgree == DaySpec => []FiguresAgree
<1>1. DayTypeInv /\ LineInv /\ AllInv /\ ReportInv => FiguresAgree
  <2> SUFFICES ASSUME DayTypeInv, LineInv, AllInv, ReportInv  PROVE FiguresAgree
    OBVIOUS
  <2>1. ASSUME \A n \in Server : Idle(n), "broken" \notin gaps, "downOnly" \notin gaps
        PROVE  /\ reported.up <= allCount.up /\ reported.down <= allCount.down
               /\ "again" \notin gaps => allCount = reported
    <3>1. \A n \in Server : Ups[n] = 0 /\ Downs[n] = 0
      BY <2>1, Sum2Empty DEF Idle, Ups, Downs, Owed, Still, Nobody, Plus, Zero
    <3>2. SumFunctionOnSet(Ups, Server) = 0 /\ SumFunctionOnSet(Downs, Server) = 0
      BY <3>1, DayAssumption, SumZero
    <3>3. allCount \in Amount /\ reported \in Amount
      BY DEF DayTypeInv, DayTypeOK
    <3>4. /\ {allCount.up, allCount.down, reported.up, reported.down} \subseteq Nat
          /\ Covers(allCount.up, 0, reported.up) /\ Covers(allCount.down, 0, reported.down)
      BY <2>1, <3>2, <3>3 DEF ReportInv, Amount
    <3> QED  BY <3>3, <3>4 DEF Amount, Covers
  <2> QED  BY <2>1 DEF FiguresAgree, LineInv, AllInv
<1> QED  BY <1>1, DayTypeInit, DayTypeStep, LineInit, LineStep, FigureInit, AllStep,
            ReportStep, PTL DEF DaySpec
=============================================================================
