----------------------------- MODULE SignInProofs ------------------------------
(***************************************************************************)
(* Proofs about signing in: who a login method leads to, the codes that    *)
(* are sent to an address, and how many are sent.                          *)
(***************************************************************************)
EXTENDS Identities, Codes, PeriodLimits, TLAPS

(***************************************************************************)
(* Proofs about Identities: an address stays whose it is, and a user who   *)
(* was deleted stays away.                                                 *)
(***************************************************************************)
(***************************************************************************)
(* The inductive invariant.                                                *)
(***************************************************************************)
\* Somebody may save user u with method h: a request that holds the user, or
\* one that will read the copy.
Held(u, h) ==
    \/ \E r \in Front : doing[r].who = u /\ h \in has[r]
    \/ \E methods \in byId[u] : h \in methods

\* Ids and addresses of rows and of methods held together are unique.
Unique(S) == \A m, n \in S : m.id = n.id \/ m.addr = n.addr => m = n

\* The tables and what is told of them: no id is used before it is given out.
StoreOK ==
    /\ users \subseteq User /\ created \in [user: 0..MaxUsers, row: 0..MaxRows]
    /\ rows \subseteq Row /\ Unique(rows)
    /\ byEmail \in [Email -> User \cup {NoUser}]
    /\ rightful \in [Address -> User \cup {NoUser}]
    /\ gone \subseteq User
    /\ \A m \in rows : m.id <= created.row
    /\ \A u \in users \cup gone : u <= created.user

\* Methods read together, of a user that was created.
Sound(methods) ==
    methods \subseteq Method /\ Unique(methods) /\ \A h \in methods : h.id <= created.row

\* The requests, and the copies by id.
Shape(r) ==
    /\ doing[r].op \in {"none", "registers", "buys"} => has[r] = {}
    /\ doing[r].op \in {"holds", "clears", "deletes", "binds"} =>
         doing[r].who \in User /\ doing[r].who <= created.user
    /\ Sound(has[r])
FlowOK ==
    /\ byId \in [User -> SUBSET SUBSET Method]
    /\ doing \in [Front -> [op: Ops, who: User \cup {NoUser}, addr: SUBSET Address]]
    /\ has \in [Front -> SUBSET Method]
    /\ \A u \in User : byId[u] # {} => u <= created.user
    /\ \A u \in User : \A methods \in byId[u] : Sound(methods)
    /\ \A r \in Front : Shape(r)

TypeInv == StoreOK /\ FlowOK

Gives(a, u) == \E m \in rows : m.addr = a /\ m.user = u

\* The row says what is held.
Backed(u, h) == [id |-> h.id, addr |-> h.addr, user |-> u] \in rows

\* What is held of an address nobody was robbed of is what the row says; and a
\* row that now has such an address is held by its user alone.
Honest(u, h) ==
    /\ h.addr \notin rewritten => Backed(u, h)
    /\ \A m \in rows : m.id = h.id /\ m.addr \notin rewritten => m.user = u

RightInv ==
    /\ \A a \in Address \ rewritten :
         IF Taken(a) THEN rightful[a] # NoUser /\ Gives(a, rightful[a])
                     ELSE rightful[a] = NoUser
    /\ \A u \in User : \A h \in Method : Held(u, h) => Honest(u, h)

\* A user whose deletion has committed, or is over, is away or was revived.
GoneInv ==
    /\ \A r \in Front : doing[r].op = "deletes" =>
         doing[r].who \notin users \/ doing[r].who \in revived
    /\ \A u \in gone \ revived : u \notin users /\ byId[u] = {}

LEMMA IdInitInv == IdInit => TypeInv /\ RightInv /\ GoneInv
<1> SUFFICES ASSUME IdInit  PROVE TypeInv /\ RightInv /\ GoneInv
  OBVIOUS
<1>1. StoreOK
  BY IdentityAssumption DEF IdInit, StoreOK, User, NoUser, Row, Unique
<1>2. FlowOK
  BY IdentityAssumption DEF IdInit, FlowOK, Shape, Sound, Unique, Free, Ops, User, NoUser, Method
<1>3. RightInv
  BY DEF IdInit, RightInv, Taken, Held
<1>4. GoneInv
  BY DEF IdInit, GoneInv, Free
<1> QED  BY <1>1, <1>2, <1>3, <1>4 DEF TypeInv

(***************************************************************************)
(* What a step may bring into a request or a copy.                         *)
(***************************************************************************)
\* The copies by id: kept, deleted, or made of what FindOne finds.
CopiesTraced == \A v \in User : byId'[v] \in {byId[v], {}, Found(v)}

\* The other requests stand still; this one keeps what it has, forgets it, or
\* has what FindOne finds of the user it is about.
RequestTraced(r) ==
    /\ \A q \in Front \ {r} : doing'[q] = doing[q] /\ has'[q] = has[q]
    /\ \/ has'[r] = {}
       \/ doing'[r].who = doing[r].who /\ has'[r] = has[r]
       \/ doing'[r].who \in User /\ has'[r] \in Found(doing'[r].who)

\* The steps of a request.
Requests(r) ==
    \/ \E a \in Address : BeginRegister(r, a) \/ BeginPurchase(r, a)
    \/ \E u \in User : ReadUser(r, u) \/ DeleteUser(r, u) \/ BatchDeleteUser(r, u)
    \/ \E e \in Email : BeginBind(r, e)
    \/ CreateUser(r) \/ ActivateGuest(r) \/ Bind(r)
    \/ Update(r) \/ ClearUpdated(r) \/ ClearDeleted(r)

LEMMA StepsTraced ==
    ASSUME FlowOK, NEW r \in Front, Requests(r)
    PROVE  CopiesTraced /\ RequestTraced(r)
<1> USE DEF FlowOK, Go, Ends, idCaches, idStore, idHistory
<1>1. CASE \E a \in Address : BeginRegister(r, a) \/ BeginPurchase(r, a)
  <2>1. has[r] = {}
    BY <1>1 DEF BeginRegister, BeginPurchase, Does, Shape
  <2> QED  BY <1>1, <2>1 DEF BeginRegister, BeginPurchase, CopiesTraced, RequestTraced
<1>2. ASSUME NEW u \in User, ReadUser(r, u) \/ DeleteUser(r, u)
      PROVE  CopiesTraced /\ RequestTraced(r)
  <2>1. /\ byId' = [byId EXCEPT ![u] = Found(u)]
        /\ \E methods \in Found(u) : has' = [has EXCEPT ![r] = methods]
        /\ \E op : doing' = [doing EXCEPT ![r] = [op |-> op, who |-> u, addr |-> {}]]
    BY <1>2 DEF ReadUser, DeleteUser
  <2>2. doing'[r].who = u
    BY <2>1
  <2> QED  BY <2>1, <2>2 DEF CopiesTraced, RequestTraced
<1>3. ASSUME NEW u \in User, BatchDeleteUser(r, u)
      PROVE  CopiesTraced /\ RequestTraced(r)
  <2>1. has[r] = {}
    BY <1>3 DEF BatchDeleteUser, Does, Shape
  <2> QED  BY <1>3, <2>1 DEF BatchDeleteUser, CopiesTraced, RequestTraced
<1>4. CASE \E e \in Email : BeginBind(r, e)
  BY <1>4 DEF BeginBind, CopiesTraced, RequestTraced
<1>5. CASE CreateUser(r) \/ ActivateGuest(r) \/ Bind(r)
  BY <1>5 DEF CreateUser, ActivateGuest, SaveNew, Bind, CopiesTraced, RequestTraced
<1>6. CASE Update(r)
  <2> DEFINE u == doing[r].who
  <2>1. u \in User
    BY <1>6 DEF Update, Does, Shape
  <2>2. byId' = [byId EXCEPT ![u] = Found(u)]
    BY <1>6 DEF Update
  <2>3. CASE \E methods \in Found(u) :
               has' = [has EXCEPT ![r] = methods] /\ Go(r, "clears", u, {})
    <3>1. doing'[r].who = u
      BY <2>3
    <3> QED  BY <2>1, <2>2, <2>3, <3>1 DEF CopiesTraced, RequestTraced
  <2>4. CASE Ends(r)
    BY <2>2, <2>4 DEF CopiesTraced, RequestTraced
  <2> QED  BY <1>6, <2>3, <2>4 DEF Update
<1>7. CASE ClearUpdated(r) \/ ClearDeleted(r)
  BY <1>7 DEF ClearUpdated, ClearDeleted, Forgets, CopiesTraced, RequestTraced
<1> QED  BY <1>1, <1>2, <1>3, <1>4, <1>5, <1>6, <1>7 DEF Requests

\* What FindOne finds: methods of a user that was created, from a copy or from
\* the rows.
LEMMA FoundSound ==
    ASSUME TypeInv, NEW u \in User, NEW methods \in Found(u)
    PROVE  /\ Sound(methods) /\ u <= created.user
           /\ \A h \in methods : Held(u, h) \/ Backed(u, h)
<1> USE DEF TypeInv
<1>1. CASE methods \in byId[u]
  BY <1>1 DEF FlowOK, Held
<1>2. CASE methods \notin byId[u]
  <2>1. u \in users /\ methods = MethodsOf(u)
    BY <1>2 DEF Found
  <2>2. ASSUME NEW h \in methods
        PROVE  \E m \in rows : m.user = u /\ m.id = h.id /\ m.addr = h.addr
                               /\ h = [id |-> m.id, addr |-> m.addr]
    BY <2>1 DEF MethodsOf
  <2>3. ASSUME NEW h \in methods
        PROVE  h \in Method /\ h.id <= created.row /\ Backed(u, h)
    <3>1. PICK m \in rows : m.user = u /\ m.id = h.id /\ m.addr = h.addr
                             /\ h = [id |-> m.id, addr |-> m.addr]
      BY <2>2
    <3>2. m = [id |-> h.id, addr |-> h.addr, user |-> u]
      BY <3>1 DEF StoreOK, Row
    <3> QED  BY <3>1, <3>2 DEF StoreOK, Row, Method, Backed
  <2>4. Unique(methods)
    <3> SUFFICES ASSUME NEW h \in methods, NEW k \in methods, h.id = k.id \/ h.addr = k.addr
                 PROVE  h = k
      BY DEF Unique
    <3>1. PICK m \in rows : m.user = u /\ m.id = h.id /\ m.addr = h.addr
                             /\ h = [id |-> m.id, addr |-> m.addr]
      BY <2>2
    <3>2. PICK n \in rows : n.user = u /\ n.id = k.id /\ n.addr = k.addr
                             /\ k = [id |-> n.id, addr |-> n.addr]
      BY <2>2
    <3> QED  BY <3>1, <3>2 DEF StoreOK, Unique
  <2> QED  BY <2>1, <2>3, <2>4 DEF StoreOK, Sound
<1> QED  BY <1>1, <1>2

\* What is held after a step was held before, or the rows said so.
LEMMA HeldSource ==
    ASSUME TypeInv, CopiesTraced,
           \/ \E r \in Front : RequestTraced(r)
           \/ UNCHANGED <<doing, has>>,
           NEW u \in User, NEW h \in Method, Held(u, h)'
    PROVE  Held(u, h) \/ Backed(u, h)
<1>1. ASSUME NEW methods \in byId'[u], h \in methods
      PROVE  Held(u, h) \/ Backed(u, h)
  <2>1. CASE methods \in byId[u]
    BY <1>1, <2>1 DEF Held
  <2>2. CASE methods \in Found(u)
    BY <1>1, <2>2, FoundSound
  <2> QED  BY <1>1, <2>1, <2>2 DEF CopiesTraced
<1>2. ASSUME NEW q \in Front, doing'[q].who = u, h \in has'[q]
      PROVE  Held(u, h) \/ Backed(u, h)
  <2>1. CASE doing'[q].who = doing[q].who /\ has'[q] = has[q]
    BY <1>2, <2>1 DEF Held
  <2>2. CASE has'[q] \in Found(u)
    BY <1>2, <2>2, FoundSound
  <2> QED  BY <1>2, <2>1, <2>2 DEF RequestTraced
<1> QED  BY <1>1, <1>2 DEF Held

(***************************************************************************)
(* Every step keeps the types.                                             *)
(***************************************************************************)
\* The steps that are nobody's request.
Others ==
    \/ \E e \in Email : UserLogin(e)
    \/ \E a \in Address : DeleteUserAuthMethod(a)
    \/ \E kind \in {Email, Mobile} : \E a, b \in kind : UpdateUserAuthMethod(a, b)

LEMMA NextSplit == IdNext <=> Others \/ \E r \in Front : Requests(r)
BY DEF IdNext, Others, Requests

LEMMA CreatedTyped ==
    ASSUME StoreOK
    PROVE  /\ created.user \in Nat /\ created.row \in Nat
           /\ created.user <= MaxUsers /\ created.row <= MaxRows
BY IdentityAssumption DEF StoreOK

\* Methods that were sound stay so when ids are given out.
LEMMA SoundStays ==
    ASSUME NEW S, Sound(S), created.row \in Nat, created'.row \in Nat, created.row <= created'.row
    PROVE  Sound(S)'
<1>1. ASSUME NEW h \in S  PROVE h.id \in Nat /\ h.id <= created.row
  BY <1>1, IdentityAssumption DEF Sound, Method
<1> QED  BY <1>1 DEF Sound

\* A request goes on with what it has.
LEMMA GoTyped ==
    ASSUME doing \in [Front -> [op: Ops, who: User \cup {NoUser}, addr: SUBSET Address]],
           NEW r \in Front, NEW op \in Ops, NEW u \in User \cup {NoUser},
           NEW A \in SUBSET Address, Go(r, op, u, A)
    PROVE  /\ doing' \in [Front -> [op: Ops, who: User \cup {NoUser}, addr: SUBSET Address]]
           /\ doing'[r].op = op /\ doing'[r].who = u /\ doing'[r].addr = A
<1>1. [op |-> op, who |-> u, addr |-> A] \in [op: Ops, who: User \cup {NoUser}, addr: SUBSET Address]
  OBVIOUS
<1> QED  BY <1>1 DEF Go

LEMMA EndsTyped ==
    ASSUME doing \in [Front -> [op: Ops, who: User \cup {NoUser}, addr: SUBSET Address]],
           NEW r \in Front, Ends(r), has \in [Front -> SUBSET Method]
    PROVE  /\ doing' \in [Front -> [op: Ops, who: User \cup {NoUser}, addr: SUBSET Address]]
           /\ has' \in [Front -> SUBSET Method]
           /\ doing'[r].op = "none" /\ has'[r] = {}
<1>1. Free \in [op: Ops, who: User \cup {NoUser}, addr: SUBSET Address] /\ Free.op = "none"
  BY DEF Free, Ops
<1> QED  BY <1>1 DEF Ends

\* What a request is at after its step.
RequestTyped(r) ==
    /\ doing' \in [Front -> [op: Ops, who: User \cup {NoUser}, addr: SUBSET Address]]
    /\ has' \in [Front -> SUBSET Method]
    /\ doing'[r].op \in {"none", "registers", "buys"} => has'[r] = {}
    /\ doing'[r].op \in {"holds", "clears", "deletes", "binds"} =>
         doing'[r].who \in User /\ doing'[r].who <= created.user

LEMMA RequestsTyped ==
    ASSUME TypeInv, NEW r \in Front, Requests(r)
    PROVE  RequestTyped(r)
<1> USE DEF RequestTyped
<1>1. /\ doing \in [Front -> [op: Ops, who: User \cup {NoUser}, addr: SUBSET Address]]
      /\ has \in [Front -> SUBSET Method] /\ Shape(r)
  BY DEF TypeInv, FlowOK
<1>2. /\ {"none", "holds", "clears", "deletes", "registers", "buys", "binds"} = Ops
      /\ {} \in SUBSET Address /\ Email \subseteq Address
  BY DEF Ops, Address
<1>3. ASSUME Ends(r)  PROVE RequestTyped(r)
  BY <1>1, <1>3, EndsTyped
<1>4. ASSUME NEW a \in Address, BeginRegister(r, a) \/ BeginPurchase(r, a)
      PROVE  RequestTyped(r)
  <2>1. PICK op \in {"registers", "buys"} :
              Go(r, op, NoUser, {a}) /\ has' = has /\ has[r] = {}
    BY <1>1, <1>4 DEF BeginRegister, BeginPurchase, Does, Shape
  <2>2. /\ doing' \in [Front -> [op: Ops, who: User \cup {NoUser}, addr: SUBSET Address]]
        /\ doing'[r].op = op
    <3>1. op \in Ops /\ NoUser \in User \cup {NoUser} /\ {a} \in SUBSET Address
      BY <1>2
    <3> QED  BY ONLY <1>1, <2>1, <3>1, GoTyped
  <2> QED  BY <1>1, <2>1, <2>2
<1>5. ASSUME NEW u \in User, ReadUser(r, u) \/ DeleteUser(r, u)  PROVE RequestTyped(r)
  <2>1. PICK methods \in Found(u) : has' = [has EXCEPT ![r] = methods]
    BY <1>5 DEF ReadUser, DeleteUser
  <2>2. PICK op \in {"holds", "deletes"} : Go(r, op, u, {})
    BY <1>5 DEF ReadUser, DeleteUser
  <2>3. /\ doing' \in [Front -> [op: Ops, who: User \cup {NoUser}, addr: SUBSET Address]]
        /\ doing'[r].op = op /\ doing'[r].who = u
    BY <1>1, <1>2, <2>2, GoTyped
  <2>4. methods \subseteq Method /\ u <= created.user
    BY <2>1, FoundSound DEF Sound
  <2> QED  BY <1>1, <2>1, <2>2, <2>3, <2>4
<1>6. ASSUME NEW u \in User, BatchDeleteUser(r, u)  PROVE RequestTyped(r)
  <2>1. Go(r, "deletes", u, {}) /\ has' = has /\ u \in users
    BY <1>6 DEF BatchDeleteUser
  <2>2. /\ doing' \in [Front -> [op: Ops, who: User \cup {NoUser}, addr: SUBSET Address]]
        /\ doing'[r].op = "deletes" /\ doing'[r].who = u
    BY <1>1, <1>2, <2>1, GoTyped
  <2>3. u <= created.user
    BY <2>1 DEF TypeInv, StoreOK
  <2> QED  BY <1>1, <2>1, <2>2, <2>3
<1>7. ASSUME NEW e \in Email, BeginBind(r, e)  PROVE RequestTyped(r)
  <2>1. /\ Go(r, "binds", doing[r].who, {e}) /\ has' = has
        /\ doing[r].who \in User /\ doing[r].who <= created.user
    BY <1>1, <1>7 DEF BeginBind, Does, Shape
  <2>2. /\ doing' \in [Front -> [op: Ops, who: User \cup {NoUser}, addr: SUBSET Address]]
        /\ doing'[r].op = "binds" /\ doing'[r].who = doing[r].who
    <3>1. "binds" \in Ops /\ {e} \in SUBSET Address /\ doing[r].who \in User \cup {NoUser}
      BY <1>2, <2>1
    <3> QED  BY ONLY <1>1, <2>1, <3>1, GoTyped
  <2> QED  BY <1>1, <2>1, <2>2
<1>8. ASSUME Update(r)  PROVE RequestTyped(r)
  <2> DEFINE u == doing[r].who
  <2>1. u \in User /\ u <= created.user
    BY <1>1, <1>8 DEF Update, Does, Shape
  <2>2. CASE \E methods \in Found(u) :
               has' = [has EXCEPT ![r] = methods] /\ Go(r, "clears", u, {})
    <3>1. PICK methods \in Found(u) : has' = [has EXCEPT ![r] = methods] /\ Go(r, "clears", u, {})
      BY <2>2
    <3> HIDE DEF u
    <3>2. /\ doing' \in [Front -> [op: Ops, who: User \cup {NoUser}, addr: SUBSET Address]]
          /\ doing'[r].op = "clears" /\ doing'[r].who = u
      BY <1>1, <1>2, <2>1, <3>1, GoTyped
    <3>3. methods \subseteq Method
      BY <2>1, <3>1, FoundSound DEF Sound
    <3> QED  BY <1>1, <2>1, <3>1, <3>2, <3>3
  <2> QED  BY <1>3, <1>8, <2>2 DEF Update
<1>9. ASSUME \/ CreateUser(r) \/ ActivateGuest(r) \/ Bind(r)
             \/ ClearUpdated(r) \/ ClearDeleted(r)
      PROVE  RequestTyped(r)
  BY <1>3, <1>9 DEF CreateUser, ActivateGuest, SaveNew, Bind, ClearUpdated, ClearDeleted, Forgets
<1> QED  BY <1>4, <1>5, <1>6, <1>7, <1>8, <1>9 DEF Requests

\* The requests and the copies, when ids are only given out.
LEMMA FlowStep ==
    ASSUME TypeInv, CopiesTraced, byId' \in [User -> SUBSET SUBSET Method],
           \/ \E r \in Front : RequestTraced(r) /\ RequestTyped(r)
           \/ UNCHANGED <<doing, has>>,
           created'.user \in Nat, created.user <= created'.user,
           created'.row \in Nat, created.row <= created'.row
    PROVE  FlowOK'
<1>1. created.user \in Nat /\ created.row \in Nat /\ FlowOK
  BY CreatedTyped DEF TypeInv
<1>2. ASSUME NEW u \in User, u <= created.user  PROVE u <= created'.user
  <2>1. u \in Nat
    BY IdentityAssumption DEF User
  <2> QED  BY <1>1, <1>2, <2>1
<1>3. ASSUME NEW S, Sound(S)  PROVE Sound(S)'
  BY <1>1, <1>3, SoundStays
<1>4. ASSUME NEW u \in User, byId'[u] # {}  PROVE u <= created'.user
  <2>1. byId'[u] = byId[u] \/ byId'[u] = Found(u)
    BY <1>4 DEF CopiesTraced
  <2>2. u <= created.user
    BY <1>1, <1>4, <2>1, FoundSound DEF FlowOK
  <2> QED  BY <1>2, <2>2
<1>5. ASSUME NEW u \in User, NEW methods \in byId'[u]  PROVE Sound(methods)'
  <2>1. methods \in byId[u] \/ methods \in Found(u)
    BY <1>5 DEF CopiesTraced
  <2>2. Sound(methods)
    BY <1>1, <2>1, FoundSound DEF FlowOK
  <2> QED  BY <1>3, <2>2
<1>6. ASSUME NEW q \in Front, doing'[q] = doing[q], has'[q] = has[q]  PROVE Shape(q)'
  <2>1. Shape(q)
    BY <1>1 DEF FlowOK
  <2> QED  BY <1>2, <1>3, <1>6, <2>1 DEF Shape
<1>7. CASE UNCHANGED <<doing, has>>
  <2>1. \A q \in Front : Shape(q)'
    BY <1>6, <1>7
  <2> QED  BY <1>1, <1>4, <1>5, <1>7, <2>1 DEF FlowOK
<1>8. ASSUME NEW r \in Front, RequestTraced(r), RequestTyped(r)  PROVE FlowOK'
  <2>1. Sound(has'[r])
    <3>1. CASE has'[r] = {}
      BY <3>1 DEF Sound, Unique
    <3>2. CASE has'[r] = has[r]
      BY <1>1, <3>2 DEF FlowOK, Shape
    <3>3. CASE doing'[r].who \in User /\ has'[r] \in Found(doing'[r].who)
      BY <3>3, FoundSound
    <3> QED  BY <1>8, <3>1, <3>2, <3>3 DEF RequestTraced
  <2>2. Shape(r)'
    <3>1. Sound(has[r])'
      BY <1>3, <2>1 DEF Sound
    <3> QED  BY <1>2, <1>8, <3>1 DEF RequestTyped, Shape
  <2>3. \A q \in Front : Shape(q)'
    BY <1>6, <1>8, <2>2 DEF RequestTraced
  <2> QED  BY <1>1, <1>4, <1>5, <1>8, <2>3 DEF FlowOK, RequestTyped
<1> QED  BY <1>7, <1>8

(***************************************************************************)
(* What the statements make of the rows.                                   *)
(***************************************************************************)
\* The rows of S are the user's now.
Moved(S, u) == {IF m \in S THEN [m EXCEPT !.user = u] ELSE m : m \in rows}

LEMMA MovedFacts ==
    ASSUME rows \subseteq Row, Unique(rows), NEW S \in SUBSET rows, NEW u \in User
    PROVE  /\ \A x \in Moved(S, u) : \E m \in rows :
                /\ x.id = m.id /\ x.addr = m.addr
                /\ x = m \/ (m \in S /\ x.user = u)
           /\ \A m \in rows : m \notin S => m \in Moved(S, u)
           /\ \A m \in S : [id |-> m.id, addr |-> m.addr, user |-> u] \in Moved(S, u)
           /\ Moved(S, u) \subseteq Row /\ Unique(Moved(S, u))
<1>1. ASSUME NEW m \in rows
      PROVE  /\ m \in Row /\ m = [id |-> m.id, addr |-> m.addr, user |-> m.user]
             /\ [m EXCEPT !.user = u] = [id |-> m.id, addr |-> m.addr, user |-> u]
             /\ [id |-> m.id, addr |-> m.addr, user |-> u] \in Row
  BY DEF Row
<1>2. ASSUME NEW x \in Moved(S, u)
      PROVE  \E m \in rows : \/ m \notin S /\ x = m
                             \/ m \in S /\ x = [id |-> m.id, addr |-> m.addr, user |-> u]
  <2>1. PICK m \in rows : x = IF m \in S THEN [m EXCEPT !.user = u] ELSE m
    BY DEF Moved
  <2> QED  BY <1>1, <2>1
<1>3. Unique(Moved(S, u))
  <2> SUFFICES ASSUME NEW x \in Moved(S, u), NEW y \in Moved(S, u), x.id = y.id \/ x.addr = y.addr
               PROVE  x = y
    BY DEF Unique
  <2>1. PICK m \in rows : \/ m \notin S /\ x = m
                          \/ m \in S /\ x = [id |-> m.id, addr |-> m.addr, user |-> u]
    BY <1>2
  <2>2. PICK n \in rows : \/ n \notin S /\ y = n
                          \/ n \in S /\ y = [id |-> n.id, addr |-> n.addr, user |-> u]
    BY <1>2
  <2>3. m.id = n.id \/ m.addr = n.addr
    BY <2>1, <2>2
  <2>4. m = n
    BY <2>3 DEF Unique
  <2> QED  BY <2>1, <2>2, <2>4
<1>4. \A m \in rows : m \notin S => m \in Moved(S, u)
  BY DEF Moved
<1>5. \A m \in S : [id |-> m.id, addr |-> m.addr, user |-> u] \in Moved(S, u)
  BY <1>1 DEF Moved
<1>6. ASSUME NEW x \in Moved(S, u)  PROVE x \in Row
  <2>1. PICK m \in rows : x = m \/ x = [id |-> m.id, addr |-> m.addr, user |-> u]
    BY <1>2
  <2> QED  BY <1>1, <2>1
<1>7. \A x \in Moved(S, u) : \E m \in rows :
                /\ x.id = m.id /\ x.addr = m.addr
                /\ x = m \/ (m \in S /\ x.user = u)
  BY <1>2
<1> QED  BY <1>3, <1>4, <1>5, <1>6, <1>7

\* A row is inserted under an id and an address that no row has.
LEMMA InsertFacts ==
    ASSUME NEW R, R \subseteq Row, Unique(R), NEW i \in 1..MaxRows, NEW a \in Address, NEW u \in User,
           \A m \in R : m.id # i /\ m.addr # a
    PROVE  /\ R \cup {[id |-> i, addr |-> a, user |-> u]} \subseteq Row
           /\ Unique(R \cup {[id |-> i, addr |-> a, user |-> u]})
BY DEF Row, Unique

\* The rows a save finds, and the methods it finds no row for.
MetBy(H)  == {m \in rows : \E h \in H : Meets(m, h)}
UnmetOf(H) == {k \in H : ~\E m \in rows : Meets(m, k)}
Again(H, u) == {[id |-> h.id, addr |-> h.addr, user |-> u] : h \in UnmetOf(H)}

LEMMA UpdateRows ==
    ASSUME NEW r \in Front, Update(r)
    PROVE  rows' = Moved(MetBy(has[r]), doing[r].who) \cup Again(has[r], doing[r].who)
<1> DEFINE u == doing[r].who
<1>1. rows' = {IF \E h \in has[r] : Meets(m, h) THEN [m EXCEPT !.user = u] ELSE m : m \in rows}
              \cup {[id |-> h.id, addr |-> h.addr, user |-> u] :
                      h \in {k \in has[r] : ~\E m \in rows : Meets(m, k)}}
  BY DEF Update
<1>2. {IF \E h \in has[r] : Meets(m, h) THEN [m EXCEPT !.user = u] ELSE m : m \in rows}
        = Moved(MetBy(has[r]), u)
  BY DEF Moved, MetBy
<1> QED  BY <1>1, <1>2 DEF Again, UnmetOf

\* No row has the id or the address of a method that meets none.
LEMMA UnmetFree ==
    ASSUME NEW H, NEW k \in UnmetOf(H)
    PROVE  k \in H /\ \A m \in rows : m.id # k.id /\ m.addr # k.addr
BY DEF UnmetOf, Meets

LEMMA UpdateUnique ==
    ASSUME TypeInv, NEW H, Sound(H), NEW u \in User
    PROVE  /\ Moved(MetBy(H), u) \cup Again(H, u) \subseteq Row
           /\ Unique(Moved(MetBy(H), u) \cup Again(H, u))
           /\ \A m \in Moved(MetBy(H), u) \cup Again(H, u) : m.id <= created.row
<1> DEFINE M == Moved(MetBy(H), u)
           A == Again(H, u)
<1>1. rows \subseteq Row /\ Unique(rows) /\ MetBy(H) \in SUBSET rows
  BY DEF TypeInv, StoreOK, MetBy
<1>2. /\ \A x \in M : \E m \in rows : x.id = m.id /\ x.addr = m.addr
      /\ M \subseteq Row /\ Unique(M)
  <2> DEFINE S == MetBy(H)
  <2> HIDE DEF S
  <2>1. S \in SUBSET rows
    BY <1>1 DEF S
  <2>2. /\ \A x \in Moved(S, u) : \E m \in rows :
             /\ x.id = m.id /\ x.addr = m.addr
             /\ x = m \/ (m \in S /\ x.user = u)
        /\ Moved(S, u) \subseteq Row /\ Unique(Moved(S, u))
    BY <1>1, <2>1, MovedFacts
  <2>3. \A x \in Moved(S, u) : \E m \in rows : x.id = m.id /\ x.addr = m.addr
    BY <2>2
  <2> QED  BY <2>2, <2>3 DEF S
<1>3. ASSUME NEW x \in A
      PROVE  \E k \in UnmetOf(H) : x = [id |-> k.id, addr |-> k.addr, user |-> u]
  BY DEF Again
<1> HIDE DEF M, A
<1>4. ASSUME NEW x \in A  PROVE x \in Row /\ x.id <= created.row
  <2>1. PICK k \in UnmetOf(H) : x = [id |-> k.id, addr |-> k.addr, user |-> u]
    BY <1>3
  <2>2. k \in Method /\ k.id <= created.row
    BY UnmetFree DEF Sound
  <2> QED  BY <2>1, <2>2 DEF Method, Row
<1>5. ASSUME NEW x \in A, NEW y \in A, x.id = y.id \/ x.addr = y.addr  PROVE x = y
  <2>1. PICK k \in UnmetOf(H) : x = [id |-> k.id, addr |-> k.addr, user |-> u]
    BY <1>3
  <2>2. PICK l \in UnmetOf(H) : y = [id |-> l.id, addr |-> l.addr, user |-> u]
    BY <1>3
  <2>3. k \in H /\ l \in H /\ (k.id = l.id \/ k.addr = l.addr)
    BY <1>5, <2>1, <2>2, UnmetFree
  <2>4. k = l
    BY <2>3 DEF Sound, Unique
  <2> QED  BY <2>1, <2>2, <2>4
<1>6. ASSUME NEW x \in A, NEW y \in M  PROVE x.id # y.id /\ x.addr # y.addr
  <2>1. PICK k \in UnmetOf(H) : x = [id |-> k.id, addr |-> k.addr, user |-> u]
    BY <1>3
  <2>2. PICK m \in rows : y.id = m.id /\ y.addr = m.addr
    BY <1>2
  <2> QED  BY <2>1, <2>2, UnmetFree
<1>7. Unique(M \cup A)
  BY <1>2, <1>5, <1>6 DEF Unique
<1>8. ASSUME NEW x \in M  PROVE x.id <= created.row
  <2>1. PICK m \in rows : x.id = m.id
    BY <1>2
  <2> QED  BY <2>1 DEF TypeInv, StoreOK
<1>9. M \cup A \subseteq Row /\ \A m \in M \cup A : m.id <= created.row
  BY <1>2, <1>4, <1>8
<1> QED  BY <1>7, <1>9 DEF M, A

\* A row for an address that has none, under the next id.
LEMMA InsertStore ==
    ASSUME StoreOK, NEW a \in Address, NEW u \in User, ~Taken(a), Inserted(a, u),
           created'.row = created.row + 1
    PROVE  /\ rows' \subseteq Row /\ Unique(rows') /\ \A m \in rows' : m.id <= created'.row
           /\ rightful' \in [Address -> User \cup {NoUser}]
<1> DEFINE i == created.row + 1
           x == [id |-> i, addr |-> a, user |-> u]
<1>1. created.row \in Nat /\ i \in 1..MaxRows
  BY CreatedTyped, IdentityAssumption DEF Inserted
<1>2. \A m \in rows : m.id \in Nat /\ m.id <= created.row /\ m.id # i /\ m.addr # a
  BY <1>1, IdentityAssumption DEF StoreOK, Row, Taken
<1>3. rows' = rows \cup {x}
  BY DEF Inserted
<1> HIDE DEF i
<1>4. rows' \subseteq Row /\ Unique(rows')
  <2>1. rows \subseteq Row /\ Unique(rows) /\ \A m \in rows : m.id # i /\ m.addr # a
    BY <1>2 DEF StoreOK
  <2> QED  BY ONLY <1>1, <1>3, <2>1, InsertFacts, a \in Address, u \in User
<1>5. \A m \in rows' : m.id <= created'.row
  BY <1>1, <1>2, <1>3 DEF i
<1>6. rightful' \in [Address -> User \cup {NoUser}]
  BY DEF Inserted, StoreOK
<1> QED  BY <1>4, <1>5, <1>6

\* The ids of users and rows that were given out stay below the last one.
LEMMA UsersStore ==
    ASSUME StoreOK, created' \in [user: 0..MaxUsers, row: 0..MaxRows],
           created.user <= created'.user
    PROVE  \A u \in users \cup gone : u <= created'.user
<1>1. \A u \in users \cup gone : u \in Nat /\ u <= created.user
  BY IdentityAssumption DEF StoreOK, User
<1> QED  BY <1>1, CreatedTyped, IdentityAssumption

LEMMA CreateStore ==
    ASSUME TypeInv, NEW r \in Front, CreateUser(r) \/ ActivateGuest(r)
    PROVE  /\ StoreOK' /\ created.user <= created'.user /\ created.row <= created'.row
<1> DEFINE u == created.user + 1
<1>1. /\ StoreOK /\ created.user \in Nat /\ created.row \in Nat /\ u \in User
      /\ u \in 0..MaxUsers /\ created.user \in 0..MaxUsers /\ created.row \in 0..MaxRows
  BY CreatedTyped, IdentityAssumption DEF TypeInv, CreateUser, ActivateGuest, SaveNew, User
<1>2. PICK a \in doing[r].addr :
         \/ /\ ~Taken(a) /\ Inserted(a, u)
            /\ users' = users \cup {u}
            /\ created' = [user |-> u, row |-> created.row + 1]
         \/ /\ users' = users \cup {u}
            /\ rows' = {IF m.addr = a THEN [m EXCEPT !.user = u] ELSE m : m \in rows}
            /\ created' = [created EXCEPT !.user = u] /\ rightful' = rightful
         \/ /\ created' = [created EXCEPT !.user = u]
            /\ UNCHANGED <<users, rows, rightful>>
  BY DEF CreateUser, ActivateGuest, SaveNew
<1>3. a \in Address
  BY <1>2 DEF TypeInv, FlowOK
<1>4. byEmail' = byEmail /\ gone' = gone
  BY DEF CreateUser, ActivateGuest, SaveNew, idCaches
<1> HIDE DEF u
<1>5. CASE ~Taken(a) /\ Inserted(a, u) /\ users' = users \cup {u}
           /\ created' = [user |-> u, row |-> created.row + 1]
  <2>1. created'.row = created.row + 1 /\ created'.user = u
    BY <1>5
  <2>2. created' \in [user: 0..MaxUsers, row: 0..MaxRows] /\ created.user <= created'.user
    BY <1>1, <1>5, IdentityAssumption DEF Inserted, u
  <2>3. /\ rows' \subseteq Row /\ Unique(rows') /\ \A m \in rows' : m.id <= created'.row
        /\ rightful' \in [Address -> User \cup {NoUser}]
    BY <1>1, <1>3, <1>5, <2>1, InsertStore
  <2>4. \A v \in users' \cup gone' : v <= created'.user
    BY <1>1, <1>4, <1>5, <2>1, <2>2, UsersStore DEF u
  <2> QED  BY <1>1, <1>4, <1>5, <2>1, <2>2, <2>3, <2>4 DEF StoreOK, u
<1>6. CASE /\ users' = users \cup {u}
           /\ rows' = {IF m.addr = a THEN [m EXCEPT !.user = u] ELSE m : m \in rows}
           /\ created' = [created EXCEPT !.user = u] /\ rightful' = rightful
  <2>1. created'.row = created.row /\ created'.user = u
        /\ created' \in [user: 0..MaxUsers, row: 0..MaxRows] /\ created.user <= created'.user
    BY <1>1, <1>6 DEF StoreOK, u
  <2> DEFINE S == {m \in rows : m.addr = a}
  <2>2. rows' = Moved(S, u)
    BY <1>6 DEF Moved
  <2>3. S \in SUBSET rows
    OBVIOUS
  <2> HIDE DEF S
  <2>4. /\ \A x \in rows' : \E m \in rows : x.id = m.id
        /\ rows' \subseteq Row /\ Unique(rows')
    <3>1. /\ \A x \in Moved(S, u) : \E m \in rows :
                /\ x.id = m.id /\ x.addr = m.addr
                /\ x = m \/ (m \in S /\ x.user = u)
          /\ Moved(S, u) \subseteq Row /\ Unique(Moved(S, u))
      BY <1>1, <2>3, MovedFacts DEF StoreOK
    <3> QED  BY <2>2, <3>1
  <2>5. \A m \in rows' : m.id <= created'.row
    BY <1>1, <2>1, <2>4 DEF StoreOK
  <2>6. \A v \in users' \cup gone' : v <= created'.user
    BY <1>1, <1>4, <1>6, <2>1, UsersStore DEF u
  <2> QED  BY <1>1, <1>4, <1>6, <2>1, <2>4, <2>5, <2>6 DEF StoreOK
<1>7. CASE created' = [created EXCEPT !.user = u] /\ UNCHANGED <<users, rows, rightful>>
  <2>1. created'.row = created.row /\ created'.user = u
        /\ created' \in [user: 0..MaxUsers, row: 0..MaxRows] /\ created.user <= created'.user
    BY <1>1, <1>7 DEF StoreOK, u
  <2>2. \A v \in users' \cup gone' : v <= created'.user
    BY <1>1, <1>4, <1>7, <2>1, UsersStore
  <2> QED  BY <1>1, <1>4, <1>7, <2>1, <2>2 DEF StoreOK
<1> QED  BY <1>2, <1>5, <1>6, <1>7

\* Rows are deleted, and addresses taken away.
LEMMA TakeAwayStore ==
    ASSUME StoreOK, NEW A, TakeAway(A), rows' \subseteq rows, users' \subseteq users,
           UNCHANGED <<created, byEmail, gone>>
    PROVE  StoreOK'
BY DEF StoreOK, TakeAway, Unique

LEMMA RequestStore ==
    ASSUME TypeInv, NEW r \in Front, Requests(r)
    PROVE  /\ StoreOK' /\ created.user <= created'.user /\ created.row <= created'.row
<1>1. StoreOK /\ created.user \in Nat /\ created.row \in Nat
  BY CreatedTyped DEF TypeInv
<1>2. CASE CreateUser(r) \/ ActivateGuest(r)
  BY <1>2, CreateStore
<1>3. CASE UNCHANGED <<users, created, rows, byEmail, rightful, gone>>
  BY <1>1, <1>3 DEF StoreOK
<1>4. CASE \/ \E a \in Address : BeginRegister(r, a) \/ BeginPurchase(r, a)
           \/ \E u \in User : ReadUser(r, u)
           \/ \E e \in Email : BeginBind(r, e)
  BY <1>3, <1>4 DEF BeginRegister, BeginPurchase, ReadUser, BeginBind, idStore, idCaches, idHistory
<1>5. ASSUME NEW u \in User, DeleteUser(r, u) \/ BatchDeleteUser(r, u)
      PROVE  StoreOK' /\ created' = created
  <2>1. /\ TakeAway({a \in Address : Owner(a) = u})
        /\ rows' \subseteq rows /\ users' \subseteq users /\ UNCHANGED <<created, byEmail, gone>>
    BY <1>5 DEF DeleteUser, BatchDeleteUser, idCaches
  <2> QED  BY <1>1, <2>1, TakeAwayStore
<1>6. CASE Bind(r)
  <2>1. UNCHANGED <<users, byEmail, gone>>
    BY <1>6 DEF Bind, idCaches
  <2>2. PICK e \in doing[r].addr :
            \/ /\ ~Taken(e) /\ Inserted(e, doing[r].who)
               /\ created' = [created EXCEPT !.row = @ + 1]
            \/ UNCHANGED <<created, rows, rightful>>
    BY <1>6 DEF Bind
  <2>3. e \in Address /\ doing[r].who \in User
    BY <1>6, <2>2 DEF TypeInv, FlowOK, Shape, Bind, Does
  <2>4. CASE ~Taken(e) /\ Inserted(e, doing[r].who) /\ created' = [created EXCEPT !.row = @ + 1]
    <3>1. created'.row = created.row + 1 /\ created'.user = created.user
          /\ created' \in [user: 0..MaxUsers, row: 0..MaxRows]
      BY <1>1, <2>4, IdentityAssumption DEF Inserted, StoreOK
    <3>2. /\ rows' \subseteq Row /\ Unique(rows') /\ \A m \in rows' : m.id <= created'.row
          /\ rightful' \in [Address -> User \cup {NoUser}]
      BY <1>1, <2>3, <2>4, <3>1, InsertStore
    <3> QED  BY <1>1, <2>1, <3>1, <3>2 DEF StoreOK
  <2>5. CASE UNCHANGED <<created, rows, rightful>>
    BY <1>3, <2>1, <2>5
  <2> QED  BY <2>2, <2>4, <2>5
<1>7. CASE Update(r)
  <2> DEFINE u == doing[r].who
  <2>1. u \in User /\ u <= created.user /\ Sound(has[r])
    BY <1>7 DEF TypeInv, FlowOK, Shape, Update, Does
  <2>2. rows' = Moved(MetBy(has[r]), u) \cup Again(has[r], u)
    BY <1>7, UpdateRows
  <2>3. rows' \subseteq Row /\ Unique(rows') /\ \A m \in rows' : m.id <= created.row
    BY <2>1, <2>2, UpdateUnique
  <2>4. users' = users \cup {u} /\ UNCHANGED <<created, byEmail, rightful, gone>>
    BY <1>7 DEF Update
  <2> QED  BY <1>1, <2>1, <2>3, <2>4 DEF StoreOK
<1>8. CASE ClearUpdated(r)
  <2>1. byEmail' \in [Email -> User \cup {NoUser}]
    BY <1>1, <1>8 DEF ClearUpdated, Forgets, StoreOK
  <2> QED  BY <1>1, <1>8, <2>1 DEF ClearUpdated, idStore, idHistory, StoreOK
<1>9. CASE ClearDeleted(r)
  <2>1. byEmail' \in [Email -> User \cup {NoUser}]
    BY <1>1, <1>9 DEF ClearDeleted, Forgets, StoreOK
  <2>2. doing[r].who \in User /\ doing[r].who <= created.user
    BY <1>9 DEF TypeInv, FlowOK, Shape, ClearDeleted, Does
  <2> QED  BY <1>1, <1>9, <2>1, <2>2 DEF ClearDeleted, idStore, StoreOK
<1> QED  BY <1>1, <1>2, <1>4, <1>5, <1>6, <1>7, <1>8, <1>9 DEF Requests

\* An address gets a new one for its row.
LEMMA ReaddressFacts ==
    ASSUME StoreOK, NEW a \in Address, NEW b \in Address, UpdateUserAuthMethod(a, b)
    PROVE  /\ rows' \subseteq Row /\ Unique(rows')
           /\ \A x \in rows' : \E m \in rows :
                /\ x.id = m.id /\ x.user = m.user
                /\ (m.addr = a /\ x.addr = b) \/ (m.addr # a /\ x = m)
           /\ \A m \in rows : m.addr # a => m \in rows'
           /\ \A m \in rows : m.addr = a => [id |-> m.id, addr |-> b, user |-> m.user] \in rows'
<1>1. /\ rows' = {IF m.addr = a THEN [m EXCEPT !.addr = b] ELSE m : m \in rows} /\ ~Taken(b)
  BY DEF UpdateUserAuthMethod
<1>2. ASSUME NEW m \in rows
      PROVE  /\ m \in Row /\ m.addr # b
             /\ [m EXCEPT !.addr = b] = [id |-> m.id, addr |-> b, user |-> m.user]
             /\ [id |-> m.id, addr |-> b, user |-> m.user] \in Row
  BY <1>1 DEF StoreOK, Row, Taken
<1>3. ASSUME NEW x \in rows'
      PROVE  \E m \in rows :
               \/ m.addr = a /\ x = [id |-> m.id, addr |-> b, user |-> m.user]
               \/ m.addr # a /\ x = m
  <2>1. PICK m \in rows : x = IF m.addr = a THEN [m EXCEPT !.addr = b] ELSE m
    BY <1>1
  <2> QED  BY <1>2, <2>1
<1>4. ASSUME NEW x \in rows'  PROVE x \in Row
  <2>1. PICK m \in rows : x = [id |-> m.id, addr |-> b, user |-> m.user] \/ x = m
    BY <1>3
  <2> QED  BY <1>2, <2>1
<1>5. Unique(rows')
  <2> SUFFICES ASSUME NEW x \in rows', NEW y \in rows', x.id = y.id \/ x.addr = y.addr
               PROVE  x = y
    BY DEF Unique
  <2>1. PICK m \in rows :
               \/ m.addr = a /\ x = [id |-> m.id, addr |-> b, user |-> m.user]
               \/ m.addr # a /\ x = m
    BY <1>3
  <2>2. PICK n \in rows :
               \/ n.addr = a /\ y = [id |-> n.id, addr |-> b, user |-> n.user]
               \/ n.addr # a /\ y = n
    BY <1>3
  <2>3. m.id = n.id \/ m.addr = n.addr
    <3>1. m.addr # b /\ n.addr # b
      BY <1>2
    <3>2. x.id = m.id /\ y.id = n.id
      BY <2>1, <2>2
    <3>3. x.addr = y.addr => m.addr = n.addr
      BY <2>1, <2>2, <3>1
    <3> QED  BY <3>2, <3>3
  <2>4. m = n
    BY <2>3 DEF StoreOK, Unique
  <2> QED  BY <2>1, <2>2, <2>4
<1>6. \A m \in rows : m.addr # a => m \in rows'
  BY <1>1
<1>7. ASSUME NEW m \in rows, m.addr = a  PROVE [id |-> m.id, addr |-> b, user |-> m.user] \in rows'
  <2>1. [m EXCEPT !.addr = b] \in rows'
    BY <1>1, <1>7
  <2> QED  BY <1>2, <2>1
<1>8. ASSUME NEW x \in rows'
      PROVE  \E m \in rows :
                /\ x.id = m.id /\ x.user = m.user
                /\ (m.addr = a /\ x.addr = b) \/ (m.addr # a /\ x = m)
  <2>1. PICK m \in rows :
               \/ m.addr = a /\ x = [id |-> m.id, addr |-> b, user |-> m.user]
               \/ m.addr # a /\ x = m
    BY <1>3
  <2> QED  BY <2>1
<1> QED  BY <1>4, <1>5, <1>6, <1>7, <1>8

\* The row that gives an address names its owner.
LEMMA OwnerOf ==
    ASSUME Unique(rows), NEW m \in rows
    PROVE  Owner(m.addr) = m.user
<1>1. Taken(m.addr)
  BY DEF Taken
<1>2. (CHOOSE n \in rows : n.addr = m.addr) \in rows
      /\ (CHOOSE n \in rows : n.addr = m.addr).addr = m.addr
  OBVIOUS
<1>3. (CHOOSE n \in rows : n.addr = m.addr) = m
  BY <1>2 DEF Unique
<1> QED  BY <1>1, <1>3 DEF Owner

LEMMA OwnerTyped == ASSUME StoreOK, NEW a  PROVE Owner(a) \in User \cup {NoUser}
<1>1. CASE Taken(a)
  <2>1. PICK m \in rows : m.addr = a
    BY <1>1 DEF Taken
  <2> QED  BY <2>1, OwnerOf DEF StoreOK, Row
<1> QED  BY <1>1 DEF Owner

LEMMA OthersTyped ==
    ASSUME TypeInv, Others
    PROVE  StoreOK' /\ created' = created /\ byId' = byId /\ UNCHANGED <<doing, has>>
<1>1. StoreOK
  BY DEF TypeInv
<1>2. ASSUME NEW e \in Email, UserLogin(e)
      PROVE  StoreOK' /\ created' = created /\ byId' = byId /\ UNCHANGED <<doing, has>>
  <2>1. EmailUser(e) \in User \cup {NoUser}
    BY <1>1, OwnerTyped DEF EmailUser, StoreOK
  <2>2. byEmail' \in [Email -> User \cup {NoUser}]
    BY <1>1, <1>2, <2>1 DEF UserLogin, StoreOK
  <2> QED  BY <1>1, <1>2, <2>2 DEF UserLogin, StoreOK, idStore, idHistory
<1>3. ASSUME NEW a \in Address, DeleteUserAuthMethod(a)
      PROVE  StoreOK' /\ created' = created /\ byId' = byId /\ UNCHANGED <<doing, has>>
  <2>1. /\ TakeAway({a}) /\ rows' \subseteq rows /\ users' \subseteq users
        /\ UNCHANGED <<created, byEmail, gone, byId, doing, has>>
    BY <1>3 DEF DeleteUserAuthMethod, idCaches
  <2> QED  BY <1>1, <2>1, TakeAwayStore
<1>4. ASSUME NEW a \in Address, NEW b \in Address, UpdateUserAuthMethod(a, b)
      PROVE  StoreOK' /\ created' = created /\ byId' = byId /\ UNCHANGED <<doing, has>>
  <2>1. rows' \subseteq Row /\ Unique(rows') /\ \A x \in rows' : \E m \in rows : x.id = m.id
    BY <1>1, <1>4, ReaddressFacts
  <2>2. rightful' \in [Address -> User \cup {NoUser}]
    <3>1. Owner(a) \in User \cup {NoUser}
      BY <1>1, OwnerTyped
    <3> QED  BY <1>1, <1>4, <3>1 DEF UpdateUserAuthMethod, StoreOK
  <2>3. UNCHANGED <<users, created, byEmail, gone, byId, doing, has>>
    BY <1>4 DEF UpdateUserAuthMethod, idCaches
  <2>4. \A m \in rows' : m.id <= created'.row
    BY <1>1, <2>1, <2>3 DEF StoreOK
  <2> QED  BY <1>1, <2>1, <2>2, <2>3, <2>4 DEF StoreOK
<1> QED  BY <1>2, <1>3, <1>4 DEF Others, Address

LEMMA TypeStep == TypeInv /\ [IdNext]_idVars => TypeInv'
<1> SUFFICES ASSUME TypeInv, [IdNext]_idVars  PROVE TypeInv'
  OBVIOUS
<1>1. StoreOK /\ FlowOK /\ created.user \in Nat /\ created.row \in Nat
  BY CreatedTyped DEF TypeInv
<1>2. CASE UNCHANGED idVars
  <2>1. UNCHANGED <<users, created, rows, byId, byEmail, doing, has, rightful, gone>>
    BY <1>2 DEF idVars, idStore, idCaches, idHistory
  <2>2. StoreOK'
    BY <1>1, <2>1 DEF StoreOK
  <2>3. CopiesTraced /\ byId' \in [User -> SUBSET SUBSET Method]
    BY <1>1, <2>1 DEF CopiesTraced, FlowOK
  <2>4. FlowOK'
    BY <1>1, <2>1, <2>3, FlowStep
  <2> QED  BY <2>2, <2>4 DEF TypeInv
<1>3. CASE Others
  <2>1. StoreOK' /\ created' = created /\ byId' = byId /\ UNCHANGED <<doing, has>>
    BY <1>3, OthersTyped
  <2>2. CopiesTraced /\ byId' \in [User -> SUBSET SUBSET Method]
    BY <1>1, <2>1 DEF CopiesTraced, FlowOK
  <2>3. FlowOK'
    BY <1>1, <2>1, <2>2, FlowStep
  <2> QED  BY <2>1, <2>3 DEF TypeInv
<1>4. ASSUME NEW r \in Front, Requests(r)  PROVE TypeInv'
  <2>1. StoreOK' /\ created.user <= created'.user /\ created.row <= created'.row
    BY <1>4, RequestStore
  <2>2. created'.user \in Nat /\ created'.row \in Nat
    BY <2>1, IdentityAssumption DEF StoreOK
  <2>3. CopiesTraced /\ RequestTraced(r) /\ RequestTyped(r)
    BY <1>1, <1>4, StepsTraced, RequestsTyped
  <2>4. byId' \in [User -> SUBSET SUBSET Method]
    <3>1. ASSUME NEW u \in User  PROVE Found(u) \in SUBSET SUBSET Method
      <4>1. \A methods \in Found(u) : methods \subseteq Method
        BY FoundSound DEF Sound
      <4> QED  BY <4>1
    <3>2. byId' = byId \/ \E u \in User : byId' = [byId EXCEPT ![u] = Found(u)]
                       \/ byId' = [byId EXCEPT ![u] = {}]
      <4>1. ASSUME NEW u \in User, ReadUser(r, u) \/ DeleteUser(r, u)
            PROVE  byId' = [byId EXCEPT ![u] = Found(u)]
        BY <4>1 DEF ReadUser, DeleteUser
      <4>2. CASE Update(r)
        <5>1. doing[r].who \in User
          BY <1>1, <4>2 DEF FlowOK, Shape, Update, Does
        <5> QED  BY <4>2, <5>1 DEF Update
      <4>3. CASE ClearUpdated(r) \/ ClearDeleted(r)
        <5>1. doing[r].who \in User
          BY <1>1, <4>3 DEF FlowOK, Shape, ClearUpdated, ClearDeleted, Does
        <5> QED  BY <4>3, <5>1 DEF ClearUpdated, ClearDeleted, Forgets
      <4>4. CASE \/ \E a \in Address : BeginRegister(r, a) \/ BeginPurchase(r, a)
                 \/ \E u \in User : BatchDeleteUser(r, u)
                 \/ \E e \in Email : BeginBind(r, e)
                 \/ CreateUser(r) \/ ActivateGuest(r) \/ Bind(r)
        BY <4>4 DEF BeginRegister, BeginPurchase, BatchDeleteUser, BeginBind, CreateUser,
           ActivateGuest, SaveNew, Bind, idCaches
      <4> QED  BY <1>4, <4>1, <4>2, <4>3, <4>4 DEF Requests
    <3> QED  BY <1>1, <3>1, <3>2 DEF FlowOK
  <2>5. FlowOK'
    BY <2>1, <2>2, <2>3, <2>4, FlowStep
  <2> QED  BY <2>1, <2>5 DEF TypeInv
<1> QED  BY <1>2, <1>3, <1>4, NextSplit

\* The tables have their types, ids and addresses of login methods are unique,
\* and what a request or a copy has of a user was read together.
THEOREM IdTypeCorrect == IdSpec => []IdTypeOK
<1>1. TypeInv => IdTypeOK
  BY DEF TypeInv, StoreOK, FlowOK, Unique, IdTypeOK
<1> QED  BY <1>1, IdInitInv, TypeStep, PTL DEF IdSpec

(***************************************************************************)
(* Addresses stay whose they are.                                          *)
(***************************************************************************)
\* The half of the invariant that is about the table alone.
RightRows ==
    \A a \in Address \ rewritten :
      IF Taken(a) THEN rightful[a] # NoUser /\ Gives(a, rightful[a])
                  ELSE rightful[a] = NoUser

LEMMA RightParts ==
    RightInv <=> RightRows /\ \A u \in User : \A h \in Method : Held(u, h) => Honest(u, h)
BY DEF RightInv, RightRows

\* What is held, or is in the rows, is honest; and its id was given out.
LEMMA SourceHonest ==
    ASSUME TypeInv, RightInv, NEW u \in User, NEW h \in Method, Held(u, h) \/ Backed(u, h)
    PROVE  Honest(u, h) /\ h.id <= created.row
<1>1. CASE Held(u, h)
  BY <1>1 DEF RightInv, Held, TypeInv, FlowOK, Shape, Sound
<1>2. CASE Backed(u, h)
  <2> DEFINE x == [id |-> h.id, addr |-> h.addr, user |-> u]
  <2>1. x \in rows /\ x.id = h.id /\ x.user = u
    BY <1>2 DEF Backed
  <2>2. \A m \in rows : m.id = h.id => m = x
    BY <2>1 DEF TypeInv, StoreOK, Unique
  <2> QED  BY <1>2, <2>1, <2>2 DEF Honest, TypeInv, StoreOK
<1> QED  BY <1>1, <1>2

\* A row with a new id and a new address.
LEMMA InsertRight ==
    ASSUME TypeInv, RightInv, NEW a \in Address, NEW v \in User, ~Taken(a), Inserted(a, v),
           rewritten' = rewritten
    PROVE  /\ RightRows'
           /\ \A u \in User : \A h \in Method : Held(u, h) \/ Backed(u, h) => Honest(u, h)'
<1>1. /\ rows' = rows \cup {[id |-> created.row + 1, addr |-> a, user |-> v]}
      /\ rightful' = [rightful EXCEPT ![a] = v] /\ created.row \in Nat
      /\ rightful \in [Address -> User \cup {NoUser}]
  BY CreatedTyped DEF Inserted, TypeInv, StoreOK
<1>2. ASSUME NEW b \in Address \ rewritten
      PROVE  IF Taken(b)' THEN rightful'[b] # NoUser /\ Gives(b, rightful[b])'
                          ELSE rightful'[b] = NoUser
  <2>1. CASE b = a
    <3>1. rightful'[b] = v /\ v # NoUser
      BY <1>1, <2>1, IdentityAssumption DEF User, NoUser
    <3> DEFINE x == [id |-> created.row + 1, addr |-> a, user |-> v]
    <3>2. x \in rows' /\ x.addr = b /\ x.user = v
      BY <1>1, <2>1
    <3>3. Taken(b)' /\ Gives(b, rightful[b])'
      BY <3>1, <3>2 DEF Taken, Gives
    <3> QED  BY <3>1, <3>3
  <2>2. CASE b # a
    <3>1. rightful'[b] = rightful[b] /\ (Taken(b)' <=> Taken(b))
      BY <1>1, <2>2 DEF Taken
    <3>2. Gives(b, rightful[b]) => Gives(b, rightful[b])'
      BY <1>1, <3>1 DEF Gives
    <3> QED  BY <3>1, <3>2 DEF RightInv
  <2> QED  BY <2>1, <2>2
<1>3. ASSUME NEW u \in User, NEW h \in Method, Held(u, h) \/ Backed(u, h)
      PROVE  Honest(u, h)'
  <2>1. Honest(u, h) /\ h.id <= created.row /\ h.id \in Nat
    BY <1>3, SourceHonest, IdentityAssumption DEF Method
  <2>2. ASSUME NEW m \in rows', m.id = h.id  PROVE m \in rows
    BY <1>1, <2>1, <2>2
  <2> QED  BY <1>1, <2>1, <2>2 DEF Honest, Backed
<1> QED  BY <1>2, <1>3 DEF RightRows

\* Rows become a user's, of addresses that count as taken, or were his.
LEMMA MovedRight ==
    ASSUME TypeInv, RightInv, NEW v \in User, NEW S \in SUBSET rows, NEW A,
           A \subseteq Row,
           rows' = Moved(S, v) \cup A, rightful' = rightful, rewritten \subseteq rewritten',
           \A m \in S : m.addr \in rewritten' \/ m.user = v,
           \A x \in A : /\ x.addr \in rewritten'
                        /\ \A m \in rows : m.id # x.id
    PROVE  /\ RightRows'
           /\ \A u \in User : \A h \in Method : Held(u, h) \/ Backed(u, h) => Honest(u, h)'
<1>1. rows \subseteq Row /\ Unique(rows)
  BY DEF TypeInv, StoreOK
<1>2. /\ \A x \in Moved(S, v) : \E m \in rows :
                /\ x.id = m.id /\ x.addr = m.addr
                /\ x = m \/ (m \in S /\ x.user = v)
      /\ \A m \in rows : m \notin S => m \in Moved(S, v)
      /\ \A m \in S : [id |-> m.id, addr |-> m.addr, user |-> v] \in Moved(S, v)
  BY <1>1, MovedFacts
\* Of the addresses that do not count as taken, the rows are the same.
<1>3. ASSUME NEW m \in rows, m.addr \notin rewritten'  PROVE m \in rows'
  <2>1. CASE m \notin S
    BY <1>2, <2>1
  <2>2. CASE m \in S
    <3>1. m = [id |-> m.id, addr |-> m.addr, user |-> v]
      BY <1>1, <1>3, <2>2 DEF Row
    <3> QED  BY <1>2, <2>2, <3>1
  <2> QED  BY <2>1, <2>2
<1>4. ASSUME NEW x \in rows', x.addr \notin rewritten'  PROVE x \in rows
  <2>1. x \in Moved(S, v)
    BY <1>4
  <2>2. PICK m \in rows : /\ x.id = m.id /\ x.addr = m.addr
                          /\ x = m \/ (m \in S /\ x.user = v)
    BY <1>2, <2>1
  <2>3. CASE m \in S /\ x.user = v
    <3>1. m.user = v
      BY <1>4, <2>2, <2>3
    <3>2. x \in Row
      BY <1>1, <2>1, MovedFacts
    <3> QED  BY <1>1, <2>2, <2>3, <3>1, <3>2 DEF Row
  <2> QED  BY <2>2, <2>3
<1>5. ASSUME NEW b \in Address \ rewritten'
      PROVE  IF Taken(b)' THEN rightful'[b] # NoUser /\ Gives(b, rightful[b])'
                          ELSE rightful'[b] = NoUser
  <2>1. (Taken(b)' <=> Taken(b)) /\ rightful'[b] = rightful[b] /\ b \notin rewritten
    BY <1>3, <1>4, <1>5 DEF Taken
  <2>2. Gives(b, rightful[b]) => Gives(b, rightful[b])'
    BY <1>3, <1>5, <2>1 DEF Gives
  <2> QED  BY <2>1, <2>2 DEF RightInv
<1>6. ASSUME NEW u \in User, NEW h \in Method, Held(u, h) \/ Backed(u, h)
      PROVE  Honest(u, h)'
  <2>1. Honest(u, h)
    BY <1>6, SourceHonest
  <2>2. h.addr \notin rewritten' => Backed(u, h)'
    BY <1>3, <2>1 DEF Honest, Backed
  <2>3. ASSUME NEW x \in rows', x.id = h.id, x.addr \notin rewritten'  PROVE x.user = u
    <3>1. x \in rows
      BY <1>4, <2>3
    <3> QED  BY <2>1, <2>3, <3>1 DEF Honest
  <2> QED  BY <2>2, <2>3 DEF Honest
<1> QED  BY <1>5, <1>6 DEF RightRows

\* Addresses are taken away, and what is deleted is theirs.
LEMMA TakenRight ==
    ASSUME TypeInv, RightInv, NEW A, TakeAway(A), rows' \subseteq rows,
           \A m \in rows : m.addr \notin A => m \in rows'
    PROVE  /\ RightRows'
           /\ \A u \in User : \A h \in Method : Held(u, h) \/ Backed(u, h) => Honest(u, h)'
<1>1. rewritten' = rewritten \cup A
      /\ rightful' = [a \in Address |-> IF a \in A THEN NoUser ELSE rightful[a]]
  BY DEF TakeAway
<1>2. ASSUME NEW b \in Address \ rewritten'
      PROVE  IF Taken(b)' THEN rightful'[b] # NoUser /\ Gives(b, rightful[b])'
                          ELSE rightful'[b] = NoUser
  <2>1. rightful'[b] = rightful[b] /\ (Taken(b)' <=> Taken(b)) /\ b \notin rewritten
    BY <1>1, <1>2 DEF Taken
  <2>2. Gives(b, rightful[b]) => Gives(b, rightful[b])'
    BY <1>1, <1>2, <2>1 DEF Gives
  <2> QED  BY <2>1, <2>2 DEF RightInv
<1>3. ASSUME NEW u \in User, NEW h \in Method, Held(u, h) \/ Backed(u, h)
      PROVE  Honest(u, h)'
  <2>1. Honest(u, h)
    BY <1>3, SourceHonest
  <2>2. h.addr \notin rewritten' => Backed(u, h)'
    BY <1>1, <2>1 DEF Honest, Backed
  <2> QED  BY <1>1, <2>1, <2>2 DEF Honest
<1> QED  BY <1>2, <1>3 DEF RightRows

\* The row of a gets address b.
LEMMA ReaddressRight ==
    ASSUME TypeInv, RightInv, NEW a \in Address, NEW b \in Address, UpdateUserAuthMethod(a, b)
    PROVE  /\ RightRows'
           /\ \A u \in User : \A h \in Method : Held(u, h) \/ Backed(u, h) => Honest(u, h)'
<1>1. /\ StoreOK /\ rows \subseteq Row /\ Unique(rows) /\ Taken(a) /\ ~Taken(b)
      /\ rightful \in [Address -> User \cup {NoUser}]
      /\ rightful' = [rightful EXCEPT ![a] = NoUser, ![b] = Owner(a)]
      /\ rewritten' = rewritten \cup (IF a \in rewritten THEN {a, b} ELSE {a})
  BY DEF UpdateUserAuthMethod, TypeInv, StoreOK
<1>2. /\ \A x \in rows' : \E m \in rows :
           /\ x.id = m.id /\ x.user = m.user
           /\ (m.addr = a /\ x.addr = b) \/ (m.addr # a /\ x = m)
      /\ \A m \in rows : m.addr # a => m \in rows'
      /\ \A m \in rows : m.addr = a => [id |-> m.id, addr |-> b, user |-> m.user] \in rows'
  BY <1>1, ReaddressFacts
<1>3. a # b /\ a \in rewritten'
  BY <1>1
<1>4. PICK k \in rows : k.addr = a
  BY <1>1 DEF Taken
<1>5. k.user = Owner(a) /\ Owner(a) # NoUser
  <2>1. Owner(k.addr) = k.user
    BY <1>1, OwnerOf
  <2>2. k.user \in User
    BY <1>1 DEF Row
  <2> QED  BY <1>4, <2>1, <2>2, IdentityAssumption DEF User, NoUser
<1>6. ASSUME NEW c \in Address \ rewritten'
      PROVE  IF Taken(c)' THEN rightful'[c] # NoUser /\ Gives(c, rightful[c])'
                          ELSE rightful'[c] = NoUser
  <2>1. CASE c = b
    <3>1. rightful'[c] = Owner(a)
      BY <1>1, <1>3, <2>1
    <3> DEFINE x == [id |-> k.id, addr |-> b, user |-> k.user]
    <3>2. x \in rows' /\ x.addr = c /\ x.user = Owner(a)
      BY <1>2, <1>4, <1>5, <2>1
    <3>3. Taken(c)' /\ Gives(c, rightful[c])'
      BY <3>1, <3>2 DEF Taken, Gives
    <3> QED  BY <1>5, <3>1, <3>3
  <2>2. CASE c # b
    <3>1. c # a /\ c \notin rewritten
      BY <1>1, <1>3, <1>6
    <3>2. rightful'[c] = rightful[c]
      BY <1>1, <2>2, <3>1
    <3>3. \A m \in rows : m.addr = c => m \in rows'
      BY <1>2, <3>1
    <3>4. ASSUME NEW x \in rows', x.addr = c  PROVE x \in rows
      BY <1>2, <2>2, <3>4
    <3>5. Taken(c)' <=> Taken(c)
      BY <3>3, <3>4 DEF Taken
    <3>6. Gives(c, rightful[c]) => Gives(c, rightful[c])'
      BY <3>2, <3>3 DEF Gives
    <3> QED  BY <3>1, <3>2, <3>5, <3>6 DEF RightInv
  <2> QED  BY <2>1, <2>2
<1>7. ASSUME NEW u \in User, NEW h \in Method, Held(u, h) \/ Backed(u, h)
      PROVE  Honest(u, h)'
  <2>1. Honest(u, h) /\ rewritten \subseteq rewritten'
    BY <1>1, <1>7, SourceHonest
  <2>2. h.addr \notin rewritten' => Backed(u, h)'
    BY <1>2, <1>3, <2>1 DEF Honest, Backed
  <2>3. ASSUME NEW x \in rows', x.id = h.id, x.addr \notin rewritten'  PROVE x.user = u
    <3>1. PICK m \in rows : /\ x.id = m.id /\ x.user = m.user
                            /\ (m.addr = a /\ x.addr = b) \/ (m.addr # a /\ x = m)
      BY <1>2
    <3>2. m.addr \notin rewritten
      <4>1. CASE m.addr = a /\ x.addr = b
        BY <1>1, <2>3, <4>1
      <4>2. CASE x = m
        BY <2>1, <2>3, <4>2
      <4> QED  BY <3>1, <4>1, <4>2
    <3> QED  BY <2>1, <2>3, <3>1, <3>2 DEF Honest
  <2> QED  BY <2>2, <2>3 DEF Honest
<1> QED  BY <1>6, <1>7 DEF RightRows

\* What a save makes of the rows: those it finds under an honest address are
\* the user's already.
LEMMA UpdateRight ==
    ASSUME TypeInv, RightInv, NEW r \in Front, Update(r)
    PROVE  /\ RightRows'
           /\ \A u \in User : \A h \in Method : Held(u, h) \/ Backed(u, h) => Honest(u, h)'
<1> DEFINE v == doing[r].who
           H == has[r]
<1>1. v \in User /\ Sound(H)
  BY DEF TypeInv, FlowOK, Shape, Update, Does
<1>2. rows' = Moved(MetBy(H), v) \cup Again(H, v)
  BY UpdateRows
<1>3. rightful' = rightful /\ rewritten' = rewritten
  BY DEF Update
<1>4. ASSUME NEW h \in H  PROVE h \in Method /\ Held(v, h) /\ Honest(v, h)
  <2>1. h \in Method /\ Held(v, h)
    BY <1>1 DEF Sound, Held
  <2> QED  BY <1>1, <2>1, SourceHonest
<1>5. ASSUME NEW m \in MetBy(H)  PROVE m.addr \in rewritten \/ m.user = v
  <2>1. m \in rows /\ \E h \in H : Meets(m, h)
    BY DEF MetBy
  <2>2. PICK h \in H : Meets(m, h)
    BY <2>1
  <2>3. CASE m.id = h.id
    BY <1>4, <2>1, <2>3 DEF Honest
  <2>4. CASE m.addr = h.addr /\ ~\E n \in rows : n.id = h.id
    <3>1. ~Backed(v, h)
      BY <2>4 DEF Backed
    <3> QED  BY <1>4, <2>4, <3>1 DEF Honest
  <2> QED  BY <2>2, <2>3, <2>4 DEF Meets
<1>6. ASSUME NEW x \in Again(H, v)
      PROVE  x.addr \in rewritten /\ \A m \in rows : m.id # x.id
  <2>1. PICK h \in UnmetOf(H) : x = [id |-> h.id, addr |-> h.addr, user |-> v]
    BY DEF Again
  <2>2. h \in H /\ \A m \in rows : m.id # h.id
    BY UnmetFree
  <2>3. ~Backed(v, h)
    BY <2>2 DEF Backed
  <2> QED  BY <1>4, <2>1, <2>2, <2>3 DEF Honest
<1>7. MetBy(H) \in SUBSET rows
  BY DEF MetBy
<1>8. Again(H, v) \subseteq Row
  BY <1>1, UpdateUnique
<1> DEFINE S == MetBy(H)
           A == Again(H, v)
<1> HIDE DEF v, H, S, A
<1>9. /\ S \in SUBSET rows /\ A \subseteq Row /\ rows' = Moved(S, v) \cup A
      /\ \A m \in S : m.addr \in rewritten' \/ m.user = v
      /\ \A x \in A : x.addr \in rewritten' /\ \A m \in rows : m.id # x.id
  BY <1>2, <1>3, <1>5, <1>6, <1>7, <1>8 DEF S, A
<1> QED  BY <1>1, <1>3, <1>9, MovedRight

\* The rows and what is held of them, after any step.
LEMMA RowsRight ==
    ASSUME TypeInv, RightInv, IdNext
    PROVE  /\ RightRows'
           /\ \A u \in User : \A h \in Method : Held(u, h) \/ Backed(u, h) => Honest(u, h)'
<1> DEFINE Goal == /\ RightRows'
                   /\ \A u \in User : \A h \in Method :
                         Held(u, h) \/ Backed(u, h) => Honest(u, h)'
<1>1. StoreOK
  BY DEF TypeInv
<1>2. ASSUME UNCHANGED <<rows, rightful, rewritten>>  PROVE Goal
  <2>1. RightRows'
    BY <1>2 DEF RightInv, RightRows, Taken, Gives
  <2>2. ASSUME NEW u \in User, NEW h \in Method, Held(u, h) \/ Backed(u, h)
        PROVE  Honest(u, h)'
    <3>1. Honest(u, h)
      BY <2>2, SourceHonest
    <3> QED  BY <1>2, <3>1 DEF Honest, Backed
  <2> QED  BY <2>1, <2>2
<1>3. ASSUME NEW r \in Front, CreateUser(r) \/ ActivateGuest(r)  PROVE Goal
  <2> DEFINE u == created.user + 1
  <2>1. u \in User
    BY <1>1, <1>3, CreatedTyped, IdentityAssumption DEF CreateUser, ActivateGuest, SaveNew, User
  <2>2. PICK a \in doing[r].addr :
         \/ ~Taken(a) /\ Inserted(a, u) /\ rewritten' = rewritten
         \/ /\ rows' = {IF m.addr = a THEN [m EXCEPT !.user = u] ELSE m : m \in rows}
            /\ rewritten' = rewritten \cup {a} /\ rightful' = rightful
         \/ UNCHANGED <<rows, rightful, rewritten>>
    BY <1>3 DEF CreateUser, ActivateGuest, SaveNew
  <2>3. a \in Address
    BY <2>2 DEF TypeInv, FlowOK
  <2> HIDE DEF u
  <2>4. CASE ~Taken(a) /\ Inserted(a, u) /\ rewritten' = rewritten
    BY <2>1, <2>3, <2>4, InsertRight
  <2>5. CASE /\ rows' = {IF m.addr = a THEN [m EXCEPT !.user = u] ELSE m : m \in rows}
             /\ rewritten' = rewritten \cup {a} /\ rightful' = rightful
    <3> DEFINE S == {m \in rows : m.addr = a}
               A == {}
    <3>1. rows' = Moved(S, u) \cup A
      BY <2>5 DEF Moved
    <3>2. S \in SUBSET rows /\ A \subseteq Row
      OBVIOUS
    <3>3. rightful' = rightful /\ rewritten \subseteq rewritten'
      BY <2>5
    <3>4. \A m \in S : m.addr \in rewritten' \/ m.user = u
      BY <2>5
    <3>5. \A x \in A : /\ x.addr \in rewritten'
                       /\ \A m \in rows : m.id # x.id
      OBVIOUS
    <3> HIDE DEF S, A
    <3> QED  BY <2>1, <3>1, <3>2, <3>3, <3>4, <3>5, MovedRight
  <2> QED  BY <1>2, <2>2, <2>4, <2>5
<1>4. ASSUME NEW r \in Front, Bind(r)  PROVE Goal
  <2>1. rewritten' = rewritten /\ doing[r].who \in User
    BY <1>4 DEF TypeInv, FlowOK, Shape, Bind, Does
  <2>2. PICK e \in doing[r].addr :
            \/ ~Taken(e) /\ Inserted(e, doing[r].who)
            \/ UNCHANGED <<rows, rightful>>
    BY <1>4 DEF Bind
  <2>3. e \in Address
    BY <2>2 DEF TypeInv, FlowOK
  <2>4. CASE ~Taken(e) /\ Inserted(e, doing[r].who)
    BY <2>1, <2>3, <2>4, InsertRight
  <2> QED  BY <1>2, <2>1, <2>2, <2>4
<1>5. ASSUME NEW r \in Front, NEW u \in User, DeleteUser(r, u)  PROVE Goal
  <2> DEFINE A == {a \in Address : Owner(a) = u}
  <2>1. TakeAway(A) /\ rows' \subseteq rows
    BY <1>5 DEF DeleteUser
  <2>2. ASSUME NEW m \in rows, m.addr \notin A  PROVE m \in rows'
    <3>1. Owner(m.addr) = m.user /\ m.addr \in Address
      BY <1>1, OwnerOf DEF StoreOK, Row
    <3> QED  BY <1>5, <2>2, <3>1 DEF DeleteUser
  <2> HIDE DEF A
  <2> QED  BY <2>1, <2>2, TakenRight
<1>6. ASSUME NEW r \in Front, NEW u \in User, BatchDeleteUser(r, u)  PROVE Goal
  <2>1. TakeAway({a \in Address : Owner(a) = u}) /\ rows' = rows
    BY <1>6 DEF BatchDeleteUser
  <2> QED  BY <2>1, TakenRight
<1>7. ASSUME NEW a \in Address, DeleteUserAuthMethod(a)  PROVE Goal
  <2>1. TakeAway({a}) /\ rows' = {m \in rows : m.addr # a}
    BY <1>7 DEF DeleteUserAuthMethod
  <2> QED  BY <2>1, TakenRight
<1>8. ASSUME NEW a \in Address, NEW b \in Address, UpdateUserAuthMethod(a, b)  PROVE Goal
  BY <1>8, ReaddressRight
<1>9. ASSUME NEW r \in Front, Update(r)  PROVE Goal
  BY <1>9, UpdateRight
<1>10. ASSUME \/ \E r \in Front : \/ \E a \in Address : BeginRegister(r, a) \/ BeginPurchase(r, a)
                                  \/ \E u \in User : ReadUser(r, u)
                                  \/ \E e \in Email : BeginBind(r, e)
                                  \/ ClearUpdated(r) \/ ClearDeleted(r)
              \/ \E e \in Email : UserLogin(e)
       PROVE  Goal
  <2>1. UNCHANGED <<rows, rightful, rewritten>>
    BY <1>10 DEF BeginRegister, BeginPurchase, ReadUser, BeginBind, ClearUpdated, ClearDeleted, UserLogin,
       idStore, idHistory
  <2> QED  BY <1>2, <2>1
<1> HIDE DEF Goal
<1>11. Goal
  BY <1>3, <1>4, <1>5, <1>6, <1>7, <1>8, <1>9, <1>10 DEF IdNext, Address
<1> QED  BY <1>11 DEF Goal

LEMMA AllTraced ==
    ASSUME TypeInv, IdNext
    PROVE  CopiesTraced /\ ((\E r \in Front : RequestTraced(r)) \/ UNCHANGED <<doing, has>>)
<1>1. CASE Others
  BY <1>1, OthersTyped DEF CopiesTraced
<1>2. ASSUME NEW r \in Front, Requests(r)
      PROVE  CopiesTraced /\ \E q \in Front : RequestTraced(q)
  BY <1>2, StepsTraced DEF TypeInv
<1> QED  BY <1>1, <1>2, NextSplit

LEMMA RightStep == TypeInv /\ RightInv /\ [IdNext]_idVars => RightInv'
<1> SUFFICES ASSUME TypeInv, RightInv, [IdNext]_idVars  PROVE RightInv'
  OBVIOUS
<1>1. CASE IdNext
  <2>1. /\ RightRows'
        /\ \A u \in User : \A h \in Method : Held(u, h) \/ Backed(u, h) => Honest(u, h)'
    BY <1>1, RowsRight
  <2>2. \A u \in User : \A h \in Method : Held(u, h)' => Held(u, h) \/ Backed(u, h)
    <3>1. CopiesTraced /\ ((\E r \in Front : RequestTraced(r)) \/ UNCHANGED <<doing, has>>)
      BY <1>1, AllTraced
    <3> QED  BY <3>1, HeldSource
  <2> QED  BY <2>1, <2>2 DEF RightInv, RightRows
<1>2. CASE UNCHANGED idVars
  <2>1. UNCHANGED <<rows, rightful, rewritten, byId, doing, has>>
    BY <1>2 DEF idVars, idStore, idCaches, idHistory
  <2> QED  BY <2>1 DEF RightInv, Taken, Gives, Held, Honest, Backed
<1> QED  BY <1>1, <1>2

\* An address that was given to a user, by registration, by binding or by the
\* administrator, stays his, whatever copies of users are saved meanwhile; one
\* that was taken from somebody, or follows such a row, is excepted.
THEOREM OwnersAreRightful == IdSpec => []OwnersRightful
<1>1. TypeInv /\ RightInv => OwnersRightful
  <2> SUFFICES ASSUME TypeInv, RightInv, NEW a \in Address \ rewritten
               PROVE  Owner(a) = rightful[a]
    BY DEF OwnersRightful
  <2>1. CASE Taken(a)
    <3>1. PICK m \in rows : m.addr = a /\ m.user = rightful[a]
      BY <2>1 DEF RightInv, Gives
    <3> QED  BY <3>1, OwnerOf DEF TypeInv, StoreOK
  <2>2. CASE ~Taken(a)
    BY <2>2 DEF RightInv, Owner
  <2> QED  BY <2>1, <2>2
<1> QED  BY <1>1, IdInitInv, TypeStep, RightStep, PTL DEF IdSpec

(***************************************************************************)
(* Who was deleted stays away.                                             *)
(***************************************************************************)
\* Users come by registration, under a new id, or are revived.
LEMMA UsersTraced ==
    ASSUME IdNext
    PROVE  /\ \A v \in users' : v \in users \/ v = created.user + 1 \/ v \in revived'
           /\ revived \subseteq revived'
<1>1. ASSUME NEW r \in Front, CreateUser(r) \/ ActivateGuest(r) \/ Update(r)
      PROVE  /\ \A v \in users' : v \in users \/ v = created.user + 1 \/ v \in revived'
             /\ revived \subseteq revived'
  BY <1>1 DEF CreateUser, ActivateGuest, SaveNew, Update
<1>2. ASSUME NEW r \in Front,
             \/ \E a \in Address : BeginRegister(r, a) \/ BeginPurchase(r, a)
             \/ \E u \in User : ReadUser(r, u) \/ DeleteUser(r, u) \/ BatchDeleteUser(r, u)
             \/ \E e \in Email : BeginBind(r, e)
             \/ Bind(r) \/ ClearUpdated(r) \/ ClearDeleted(r)
      PROVE  users' \subseteq users /\ revived' = revived
  BY <1>2 DEF BeginRegister, BeginPurchase, ReadUser, DeleteUser, BatchDeleteUser, BeginBind, Bind,
     ClearUpdated, ClearDeleted, idStore, idHistory
<1>3. ASSUME Others  PROVE users' \subseteq users /\ revived' = revived
  BY <1>3 DEF Others, UserLogin, DeleteUserAuthMethod, UpdateUserAuthMethod, idStore, idHistory
<1>4. CASE Others
  BY <1>3, <1>4
<1>5. CASE \E r \in Front : Requests(r)
  BY <1>1, <1>2, <1>5 DEF Requests
<1> QED  BY <1>4, <1>5, NextSplit

LEMMA GoneStep == TypeInv /\ GoneInv /\ [IdNext]_idVars => GoneInv'
<1> SUFFICES ASSUME TypeInv, GoneInv, [IdNext]_idVars  PROVE GoneInv'
  OBVIOUS
<1>1. created.user \in Nat /\ FlowOK /\ StoreOK
  BY CreatedTyped DEF TypeInv
<1>2. CASE UNCHANGED idVars
  <2>1. UNCHANGED <<users, byId, doing, gone, revived>>
    BY <1>2 DEF idVars, idStore, idCaches, idHistory
  <2> QED  BY <2>1 DEF GoneInv
<1>3. CASE IdNext
  <2>1. ASSUME NEW u, u \in Nat, u <= created.user, u \notin users \/ u \in revived
        PROVE  u \notin users' \/ u \in revived'
    BY <1>1, <1>3, <2>1, UsersTraced
  \* Who was gone.
  <2>2. ASSUME NEW u \in gone \ revived'
        PROVE  u \notin users' /\ byId'[u] = {}
    <3>1. u \notin users /\ byId[u] = {} /\ revived \subseteq revived'
      BY <1>3, <2>2, UsersTraced DEF GoneInv
    <3>2. u \in User /\ u \in Nat /\ u <= created.user
      BY <1>1, IdentityAssumption DEF StoreOK, User
    <3>3. u \notin users'
      BY <2>1, <2>2, <3>1, <3>2
    <3>4. Found(u) = {}
      BY <3>1 DEF Found
    <3>5. byId'[u] \in {byId[u], {}, Found(u)}
      BY <1>3, <3>2, AllTraced DEF CopiesTraced
    <3> QED  BY <3>1, <3>3, <3>4, <3>5
  <2>3. CASE Others
    <3>1. UNCHANGED <<gone, doing>>
      BY <2>3 DEF Others, UserLogin, DeleteUserAuthMethod, UpdateUserAuthMethod, idHistory
    <3>2. ASSUME NEW r \in Front, doing'[r].op = "deletes"
          PROVE  doing'[r].who \notin users' \/ doing'[r].who \in revived'
      <4>1. /\ doing[r].who \in Nat /\ doing[r].who <= created.user
            /\ doing[r].who \notin users \/ doing[r].who \in revived
        BY <1>1, <3>1, <3>2, IdentityAssumption DEF FlowOK, Shape, User, GoneInv
      <4> QED  BY <2>1, <3>1, <4>1
    <3> QED  BY <2>2, <3>1, <3>2 DEF GoneInv
  <2>4. ASSUME NEW r \in Front, Requests(r)  PROVE GoneInv'
    <3>1. \A q \in Front \ {r} : doing'[q] = doing[q]
      BY <1>1, <2>4, StepsTraced DEF RequestTraced
    <3>2. ASSUME NEW q \in Front, doing'[q] = doing[q], doing'[q].op = "deletes"
          PROVE  doing'[q].who \notin users' \/ doing'[q].who \in revived'
      <4>1. /\ doing[q].who \in Nat /\ doing[q].who <= created.user
            /\ doing[q].who \notin users \/ doing[q].who \in revived
        BY <1>1, <3>2, IdentityAssumption DEF FlowOK, Shape, User, GoneInv
      <4> QED  BY <2>1, <3>2, <4>1
    <3>3. ASSUME doing'[r].op = "deletes"
          PROVE  gone' = gone /\ doing'[r].who \notin users'
      <4>1. ASSUME NEW u \in User, DeleteUser(r, u) \/ BatchDeleteUser(r, u)
            PROVE  doing'[r].who \notin users' /\ gone' = gone
        BY <1>1, <4>1 DEF DeleteUser, BatchDeleteUser, Go, FlowOK
      <4>2. ASSUME NEW a \in Address, BeginRegister(r, a) \/ BeginPurchase(r, a)
            PROVE  FALSE
        BY <1>1, <3>3, <4>2 DEF BeginRegister, BeginPurchase, Go, FlowOK
      <4>3. ASSUME NEW u \in User, ReadUser(r, u)  PROVE FALSE
        BY <1>1, <3>3, <4>3 DEF ReadUser, Go, FlowOK
      <4>4. ASSUME NEW e \in Email, BeginBind(r, e)  PROVE FALSE
        BY <1>1, <3>3, <4>4 DEF BeginBind, Go, FlowOK
      <4>5. ASSUME Ends(r)  PROVE FALSE
        BY <1>1, <3>3, <4>5 DEF Ends, Free, FlowOK
      <4>6. ASSUME Go(r, "clears", doing[r].who, {})  PROVE FALSE
        BY <1>1, <3>3, <4>6 DEF Go, FlowOK
      <4>7. ASSUME Update(r)  PROVE FALSE
        BY <4>5, <4>6, <4>7 DEF Update
      <4>8. ASSUME \/ CreateUser(r) \/ ActivateGuest(r) \/ Bind(r)
                   \/ ClearUpdated(r) \/ ClearDeleted(r)
            PROVE  FALSE
        BY <4>5, <4>8 DEF CreateUser, ActivateGuest, SaveNew, Bind, ClearUpdated,
           ClearDeleted, Forgets
      <4> QED  BY <2>4, <4>1, <4>2, <4>3, <4>4, <4>7, <4>8 DEF Requests
    <3>4. \A q \in Front : doing'[q].op = "deletes" =>
              doing'[q].who \notin users' \/ doing'[q].who \in revived'
      BY <3>1, <3>2, <3>3
    <3>5. CASE ClearDeleted(r)
      <4> DEFINE u == doing[r].who
      <4>1. /\ u \in User /\ gone' = gone \cup {u} /\ byId' = [byId EXCEPT ![u] = {}]
            /\ UNCHANGED <<users, revived>> /\ (u \notin users \/ u \in revived)
        BY <1>1, <3>5 DEF ClearDeleted, Forgets, Does, FlowOK, Shape, GoneInv, idStore
      <4>2. byId'[u] = {}
        BY <1>1, <4>1 DEF FlowOK
      <4> HIDE DEF u
      <4>3. \A v \in gone' \ revived' : v \notin users' /\ byId'[v] = {}
        BY <2>2, <4>1, <4>2
      <4> QED  BY <3>4, <4>3 DEF GoneInv
    <3>6. CASE ~ClearDeleted(r)
      <4>1. gone' = gone
        BY <2>4, <3>6 DEF Requests, BeginRegister, BeginPurchase, ReadUser, DeleteUser, BatchDeleteUser,
           BeginBind, CreateUser, ActivateGuest, SaveNew, Bind, Update, ClearUpdated, idHistory
      <4> QED  BY <2>2, <3>4, <4>1 DEF GoneInv
    <3> QED  BY <3>5, <3>6
  <2> QED  BY <1>3, <2>3, <2>4, NextSplit
<1> QED  BY <1>2, <1>3

\* Once a deletion is through, the user has no row and no copy by his id,
\* unless a request that had read him before saves him again.
THEOREM DeletedAreGone == IdSpec => []DeletedStayGone
<1>1. GoneInv => DeletedStayGone
  BY DEF GoneInv, DeletedStayGone
<1> QED  BY <1>1, IdInitInv, TypeStep, GoneStep, PTL DEF IdSpec

(***************************************************************************)
(* Proofs about Codes: a code is accepted twice only after an event that   *)
(* the property names, for any number of requests and codes.               *)
(***************************************************************************)
Causes == {"kept", "overlap", "notDeleted"}
Pardoned(c) == \E why \in Causes : <<why, c>> \in pardons

\* A code that was accepted and is still stored is about to be deleted.
Spent(c) ==
    /\ accepted[c] <= 1
    /\ accepted[c] = 1 /\ current = c =>
         \E r \in Asker : errand[r] = "delete" /\ carries[r] = c

\* Codes are issued in order, so none is stored again.
Issued ==
    /\ issued \in Nat /\ current \in Code \cup {NoCode} /\ current <= issued
    /\ errand \in [Asker -> {"idle", "enqueue", "delete"}]
    /\ carries \in [Asker -> Code \cup {NoCode}]
    /\ accepted \in [Code -> Nat]
    /\ \A c \in Code : accepted[c] > 0 => c <= issued

CodeInv == Issued /\ \A c \in Code : Pardoned(c) \/ Spent(c)

LEMMA InitCode == CodeInit => CodeInv
BY CodeAssumption DEF CodeInit, CodeInv, Issued, Spent, Code, NoCode

\* A step that accepts nothing and takes no deletion back.
LEMMA QuietCode ==
    ASSUME CodeInv, Issued', UNCHANGED accepted, pardons \subseteq pardons',
           current' \in {current, NoCode, issued + 1},
           \A c \in Code : current' = c /\ c <= issued =>
              Pardoned(c)' \/ \A r \in Asker : errand[r] = "delete" /\ carries[r] = c
                                => errand'[r] = "delete" /\ carries'[r] = c
    PROVE  CodeInv'
<1> SUFFICES ASSUME NEW c \in Code PROVE Pardoned(c)' \/ Spent(c)'
  BY DEF CodeInv
<1>1. CASE Pardoned(c)
  BY <1>1 DEF Pardoned
<1>2. CASE Spent(c) /\ current' = c /\ c <= issued
  <2>1. current = c
    BY <1>2 DEF CodeInv, Issued, Code, NoCode
  <2> QED  BY <1>2, <2>1 DEF Spent
<1>3. CASE Spent(c) /\ current' = c /\ ~(c <= issued)
  <2>1. accepted[c] = 0
    BY <1>3 DEF CodeInv, Issued
  <2> QED  BY <1>3, <2>1 DEF Spent
<1>4. CASE Spent(c) /\ current' # c
  BY <1>4 DEF Spent
<1> QED  BY <1>1, <1>2, <1>3, <1>4 DEF CodeInv

\* What is known of the codes, after one is accepted.
LEMMA AcceptKeeps ==
    ASSUME Issued, NEW r \in Asker, NEW c \in Code, current = c,
           accepted' = [accepted EXCEPT ![c] = @ + 1], UNCHANGED <<current, issued>>,
           \/ /\ errand' = [errand EXCEPT ![r] = "delete"]
              /\ carries' = [carries EXCEPT ![r] = c]
           \/ UNCHANGED <<errand, carries>>
    PROVE  Issued'
<1>1. errand' \in [Asker -> {"idle", "enqueue", "delete"}]
      /\ carries' \in [Asker -> Code \cup {NoCode}]
  BY DEF Issued
<1>2. accepted' \in [Code -> Nat]
  BY DEF Issued
<1>3. \A d \in Code : accepted'[d] > 0 => d <= issued
  BY DEF Issued
<1> QED  BY <1>1, <1>2, <1>3 DEF Issued

\* A code is accepted for a request that deletes it: the first time, or while
\* another request is about to delete it.
LEMMA LoginStep ==
    ASSUME CodeInv, NEW r \in Asker, NEW c \in Code, Login(r, c)
    PROVE  CodeInv'
<1>0. Issued /\ (Pardoned(c) \/ Spent(c))
  BY DEF CodeInv
<1>1. /\ errand[r] = "idle" /\ current = c
      /\ errand' = [errand EXCEPT ![r] = "delete"] /\ carries' = [carries EXCEPT ![r] = c]
      /\ accepted' = [accepted EXCEPT ![c] = @ + 1]
      /\ pardons \subseteq pardons' /\ UNCHANGED <<current, issued>>
  BY DEF Login, Turns, AtErrand, Accepts
<1>2. Issued'
  BY <1>0, AcceptKeeps, <1>1
<1>3. ASSUME NEW d \in Code PROVE Pardoned(d)' \/ Spent(d)'
  <2>1. CASE Pardoned(d)
    BY <2>1, <1>1 DEF Pardoned
  <2>2. CASE d # c /\ Spent(d)
    BY <2>2, <1>1 DEF Spent, CodeInv, Issued
  <2>3. CASE d = c /\ Spent(c) /\ accepted[c] = 0
    BY <2>3, <1>1 DEF Spent, CodeInv, Issued
  <2>4. CASE d = c /\ Spent(c) /\ accepted[c] # 0
    <3>0. accepted[c] = 1
      BY <2>4, <1>0 DEF Spent, Issued
    <3>1. \E q \in Asker : errand[q] = "delete" /\ carries[q] = c
      BY <3>0, <2>4, <1>1 DEF Spent
    <3>2. <<"overlap", c>> \in pardons'
      BY <3>1 DEF Login, AtErrand
    <3> QED  BY <3>2, <2>4 DEF Pardoned, Causes
  <2> QED  BY <2>1, <2>2, <2>3, <2>4 DEF CodeInv
<1> QED  BY <1>2, <1>3 DEF CodeInv

\* A code is accepted and stays: that is why it may be accepted again.
LEMMA ResetStep ==
    ASSUME CodeInv, NEW r \in Asker, NEW c \in Code, ResetPassword(r, c)
    PROVE  CodeInv'
<1>1. /\ current = c /\ accepted' = [accepted EXCEPT ![c] = @ + 1]
      /\ pardons' = pardons \cup {<<"kept", c>>}
      /\ UNCHANGED <<current, errand, carries, issued>>
  BY DEF ResetPassword, Accepts
<1>2. Issued'
  BY <1>1, AcceptKeeps DEF CodeInv, Issued
<1>3. ASSUME NEW d \in Code PROVE Pardoned(d)' \/ Spent(d)'
  BY <1>1 DEF CodeInv, Issued, Pardoned, Causes, Spent
<1> QED  BY <1>2, <1>3 DEF CodeInv

LEMMA NextCode == CodeInv /\ [CodeNext]_codeVars => CodeInv'
<1> SUFFICES ASSUME CodeInv, [CodeNext]_codeVars PROVE CodeInv'
  OBVIOUS
<1> USE CodeAssumption DEF Issued, Code, NoCode, AtErrand, Turns
<1>0. Issued
  BY DEF CodeInv
<1>1. CASE Expires
  BY <1>0, <1>1, QuietCode DEF Expires
<1>2. CASE Restarts
  BY <1>0, <1>2, QuietCode DEF Restarts
<1>3. ASSUME NEW r \in Asker, SetCode(r) PROVE CodeInv'
  BY <1>0, <1>3, QuietCode DEF SetCode
<1>4. ASSUME NEW r \in Asker, EnqueueCode(r) PROVE CodeInv'
  BY <1>0, <1>4, QuietCode DEF EnqueueCode
<1>5. ASSUME NEW r \in Asker, DeleteCode(r) PROVE CodeInv'
  <2>1. CASE current' = NoCode
    BY <1>0, <1>5, <2>1, QuietCode DEF DeleteCode
  <2>2. CASE pardons' = pardons \cup {<<"notDeleted", carries[r]>>} /\ current' = current
    <3>1. \A c \in Code : c = carries[r] => Pardoned(c)'
      <4>1. \A c \in Code : c = carries[r] => <<"notDeleted", c>> \in pardons'
        BY <2>2
      <4> QED  BY <4>1 DEF Pardoned, Causes
    <3>2. /\ errand' = [errand EXCEPT ![r] = "idle"]
          /\ carries' = [carries EXCEPT ![r] = NoCode]
          /\ UNCHANGED <<accepted, issued>>
      BY <1>5 DEF DeleteCode
    <3>3. \A q \in Asker \ {r} : errand'[q] = errand[q] /\ carries'[q] = carries[q]
      BY <1>0, <3>2
    <3>4. \A c \in Code : Pardoned(c)' \/ \A q \in Asker :
             errand[q] = "delete" /\ carries[q] = c => errand'[q] = "delete" /\ carries'[q] = c
      BY <3>1, <3>3
    <3>5. Issued' /\ pardons \subseteq pardons'
      BY <1>0, <2>2, <3>2
    <3> QED  BY <2>2, <3>2, <3>4, <3>5, QuietCode
  <2> QED  BY <1>5, <2>1, <2>2 DEF DeleteCode
<1>6. ASSUME NEW r \in Asker, NEW c \in Code, Login(r, c) \/ ResetPassword(r, c)
      PROVE  CodeInv'
  BY <1>6, LoginStep, ResetStep
<1>7. ASSUME NEW c \in Code, Deliver(c) PROVE CodeInv'
  BY <1>0, <1>7, QuietCode DEF Deliver
<1>8. CASE UNCHANGED codeVars
  BY <1>0, <1>8, QuietCode DEF codeVars
<1> QED  BY <1>1, <1>2, <1>3, <1>4, <1>5, <1>6, <1>7, <1>8 DEF CodeNext

\* The invariant of the codes holds in every behaviour.
THEOREM CodeCorrect == CodeSpec => []CodeInv
BY InitCode, NextCode, PTL DEF CodeSpec

\* A request that is about to enqueue carries a code it has issued.
CodeTypeInv ==
    CodeTypeOK /\ \A r \in Asker : AtErrand(r, "enqueue") => carries[r] \in Code

\* The variables of the codes keep their types.
THEOREM CodeTypeCorrect == CodeSpec => []CodeTypeOK
<1>1. CodeInit => CodeTypeInv
  BY CodeAssumption DEF CodeInit, CodeTypeInv, CodeTypeOK, AtErrand, Code, NoCode
<1>2. CodeTypeInv /\ [CodeNext]_codeVars => CodeTypeInv'
  <2> SUFFICES ASSUME CodeTypeInv, [CodeNext]_codeVars  PROVE CodeTypeInv'
    OBVIOUS
  <2> USE CodeAssumption DEF CodeTypeInv, CodeTypeOK, AtErrand, Turns, Flaw
  <2>1. CASE Expires \/ Restarts
    BY <2>1 DEF Expires, Restarts
  <2>2. ASSUME NEW r \in Asker, SetCode(r)  PROVE CodeTypeInv'
    <3>1. issued + 1 \in Code /\ issued + 1 \in 0..MaxCodes
      BY <2>2 DEF SetCode, Code
    <3> QED  BY <2>2, <3>1 DEF SetCode
  <2>3. ASSUME NEW r \in Asker, EnqueueCode(r)  PROVE CodeTypeInv'
    BY <2>3 DEF EnqueueCode
  <2>4. ASSUME NEW r \in Asker, DeleteCode(r)  PROVE CodeTypeInv'
    BY <2>4 DEF DeleteCode
  <2>5. ASSUME NEW r \in Asker, NEW c \in Code, Login(r, c) \/ ResetPassword(r, c)
        PROVE  CodeTypeInv'
    BY <2>5 DEF Login, ResetPassword, Accepts
  <2>6. ASSUME NEW c \in Code, Deliver(c)  PROVE CodeTypeInv'
    BY <2>6 DEF Deliver
  <2>7. CASE UNCHANGED codeVars
    BY <2>7 DEF codeVars
  <2> QED  BY <2>1, <2>2, <2>3, <2>4, <2>5, <2>6, <2>7 DEF CodeNext
<1>3. CodeTypeInv => CodeTypeOK
  BY DEF CodeTypeInv
<1> QED  BY <1>1, <1>2, <1>3, PTL DEF CodeSpec

\* A code is good for one request, but for requests that leave it stored, two
\* that compare it at once, and a deletion that fails
\* (telephoneLoginLogic.go:110).
THEOREM CodeIsUsedOnce == CodeSpec => []CodeUsedOnce
<1>1. CodeInv => CodeUsedOnce
  BY DEF CodeInv, Spent, Pardoned, Causes, CodeUsedOnce
<1> QED  BY <1>1, CodeCorrect, PTL

(***************************************************************************)
(* The limits of the codes of one address, proved of days of any length    *)
(* and of any number of codes.  While a day is not excepted, the counter   *)
(* of the day counts every sending the day allowed, and is there until the *)
(* day ends: it ends with the day, or the day is one a late counter is in. *)
(***************************************************************************)
(***************************************************************************)
(* Days.                                                                   *)
(***************************************************************************)
LEMMA LimitConstants ==
    /\ Interval \in Nat /\ Interval > 0 /\ DayLength \in Nat /\ DayLength > 0
    /\ DayQuota \in Nat /\ DayQuota > 0 /\ MaxTime \in Nat
  BY LimitAssumption

\* A quotient and a remainder.
LEMMA DivMod ==
    ASSUME NEW t \in Nat
    PROVE  /\ DayOf(t) \in Nat /\ t % DayLength \in 0..(DayLength - 1)
           /\ t = DayOf(t) * DayLength + (t % DayLength)
<1>1. DayOf(t) \in Nat
  BY LimitConstants DEF DayOf
<1>2. t % DayLength \in 0..(DayLength - 1)
  BY LimitConstants
<1>3. t = DayOf(t) * DayLength + (t % DayLength)
  BY LimitConstants DEF DayOf
<1> QED  BY <1>1, <1>2, <1>3

LEMMA Times ==
    ASSUME NEW a \in Nat, NEW b \in Nat, a < b
    PROVE  /\ a * DayLength \in Nat /\ b * DayLength \in Nat
           /\ (a + 1) * DayLength = a * DayLength + DayLength
           /\ a * DayLength + DayLength <= b * DayLength
<1>1. PICK k \in Nat : b = a + 1 + k
  BY SMT
<1>2. k * DayLength \in Nat /\ a * DayLength \in Nat
  BY LimitConstants
<1>3. b * DayLength = a * DayLength + DayLength + k * DayLength
  BY <1>1, LimitConstants
<1>4. (a + 1) * DayLength = a * DayLength + DayLength
  BY LimitConstants
<1> QED  BY <1>2, <1>3, <1>4, LimitConstants

\* The beginning of a day, and a day is where it began.
Begins(d) == d * DayLength

LEMMA InDay ==
    ASSUME NEW t \in Nat
    PROVE  /\ DayOf(t) \in Nat /\ Begins(DayOf(t)) \in Nat
           /\ Begins(DayOf(t) + 1) = Begins(DayOf(t)) + DayLength
           /\ Begins(DayOf(t)) <= t /\ t < Begins(DayOf(t) + 1)
           /\ Window = Begins(DayOf(clock) + 1) - clock \/ clock \notin Nat
<1>1. /\ DayOf(t) \in Nat /\ t % DayLength \in 0..(DayLength - 1)
      /\ t = DayOf(t) * DayLength + (t % DayLength)
  BY DivMod
<1>2. /\ DayOf(t) * DayLength \in Nat
      /\ (DayOf(t) + 1) * DayLength = DayOf(t) * DayLength + DayLength
  BY <1>1, Times
<1>3. ASSUME clock \in Nat  PROVE Window = Begins(DayOf(clock) + 1) - clock
  <2>1. /\ DayOf(clock) \in Nat /\ clock % DayLength \in 0..(DayLength - 1)
        /\ clock = DayOf(clock) * DayLength + (clock % DayLength)
    BY <1>3, DivMod
  <2>2. /\ DayOf(clock) * DayLength \in Nat
        /\ (DayOf(clock) + 1) * DayLength = DayOf(clock) * DayLength + DayLength
    BY <2>1, Times
  <2> QED  BY <2>1, <2>2, LimitConstants DEF Window, Begins
<1> QED  BY <1>1, <1>2, <1>3, LimitConstants DEF Begins

\* Days come one after the other.
LEMMA DayOrder ==
    ASSUME NEW s \in Nat, NEW t \in Nat
    PROVE  /\ s <= t => DayOf(s) <= DayOf(t)
           /\ t <= s + DayLength => DayOf(t) <= DayOf(s) + 1
           /\ t < Begins(DayOf(s) + 1) /\ s <= t => DayOf(t) = DayOf(s)
<1>1. /\ DayOf(s) \in Nat /\ Begins(DayOf(s)) \in Nat
      /\ Begins(DayOf(s) + 1) = Begins(DayOf(s)) + DayLength
      /\ Begins(DayOf(s)) <= s /\ s < Begins(DayOf(s) + 1)
  BY InDay
<1>2. /\ DayOf(t) \in Nat /\ Begins(DayOf(t)) \in Nat
      /\ Begins(DayOf(t) + 1) = Begins(DayOf(t)) + DayLength
      /\ Begins(DayOf(t)) <= t /\ t < Begins(DayOf(t) + 1)
  BY InDay
<1>3. ASSUME DayOf(t) < DayOf(s)
      PROVE  Begins(DayOf(t) + 1) <= Begins(DayOf(s))
  BY <1>1, <1>2, <1>3, Times DEF Begins
<1>4. ASSUME DayOf(s) + 1 < DayOf(t)
      PROVE  Begins(DayOf(s) + 1) + DayLength <= Begins(DayOf(t))
  <2>1. DayOf(s) + 1 \in Nat
    BY <1>1
  <2> QED  BY <1>2, <1>4, <2>1, Times DEF Begins
<1>5. ASSUME DayOf(s) < DayOf(t)
      PROVE  Begins(DayOf(s) + 1) <= Begins(DayOf(t))
  BY <1>1, <1>2, <1>5, Times DEF Begins
<1> HIDE DEF Begins
<1> QED  BY <1>1, <1>2, <1>3, <1>4, <1>5, LimitConstants

(***************************************************************************)
(* Types.                                                                  *)
(***************************************************************************)
LimitTypeInv ==
    /\ LimitTypeOK
    /\ \A r \in Sender : stage[r] = "day" => rest[r] > 0
    /\ \A d \in Dates : d > DayOf(clock) => permits[d] = 0

LEMMA NowTyped ==
    ASSUME LimitTypeOK
    PROVE  /\ clock \in Nat /\ DayOf(clock) \in Dates /\ DayOf(clock) \in Nat
           /\ Window \in 1..DayLength /\ clock + Window = Begins(DayOf(clock) + 1)
<1>1. clock \in Nat /\ clock <= MaxTime
  BY LimitConstants DEF LimitTypeOK
<1>2. DayOf(clock) <= DayOf(MaxTime) /\ DayOf(MaxTime) \in Nat
  BY <1>1, DayOrder, InDay, LimitConstants
<1>3. /\ DayOf(clock) \in Nat /\ Begins(DayOf(clock)) \in Nat
      /\ Begins(DayOf(clock) + 1) = Begins(DayOf(clock)) + DayLength
      /\ Begins(DayOf(clock)) <= clock /\ clock < Begins(DayOf(clock) + 1)
      /\ Window = Begins(DayOf(clock) + 1) - clock
  BY <1>1, InDay
<1> HIDE DEF Begins, Window
<1> QED  BY <1>1, <1>2, <1>3, LimitConstants DEF Dates

LEMMA BumpedTyped ==
    ASSUME clock \in Nat, NEW k \in Counter, NEW w \in Nat
    PROVE  /\ Bumped(k, w) \in Counter /\ Bumped(k, w).n = k.n + 1
           /\ k.n > 0 => Bumped(k, w).ends = k.ends
           /\ k.n = 0 => Bumped(k, w).ends = clock + w
  BY DEF Bumped, Counter

LEMMA LimitTypeInit == LimitInit => LimitTypeInv
<1> SUFFICES ASSUME LimitInit  PROVE LimitTypeInv
  OBVIOUS
<1>1. Blank \in Counter
  BY DEF Blank, Counter
<1> QED  BY <1>1, LimitConstants DEF LimitInit, LimitTypeInv, LimitTypeOK

LEMMA LimitTypeStep == LimitTypeInv /\ [LimitNext]_limitVars => LimitTypeInv'
<1> SUFFICES ASSUME LimitTypeInv, [LimitNext]_limitVars  PROVE LimitTypeInv'
  OBVIOUS
<1>1. /\ clock \in Nat /\ DayOf(clock) \in Dates /\ DayOf(clock) \in Nat
      /\ Window \in 1..DayLength
  BY NowTyped DEF LimitTypeInv
<1>2. Blank \in Counter
  BY DEF Blank, Counter
<1> USE DEF LimitTypeInv, LimitTypeOK
<1>3. CASE Passes
  <2>1. clock' \in 0..MaxTime /\ clock' \in Nat /\ clock <= clock'
    BY <1>3, LimitConstants DEF Passes
  <2>2. DayOf(clock) <= DayOf(clock') /\ DayOf(clock') \in Nat
    BY <1>1, <2>1, DayOrder, InDay
  <2>3. \A d \in Dates : d \in Nat
    BY DEF Dates
  <2> HIDE DEF DayOf, Dates
  <2>4. \A d \in Dates : d > DayOf(clock') => d > DayOf(clock)
    BY <1>1, <2>2, <2>3
  <2> QED  BY <1>2, <1>3, <2>1, <2>4 DEF Passes
<1>0. Dates' = Dates
  BY DEF Dates, DayOf
<1>9. clock' = clock => DayOf(clock)' = DayOf(clock)
  OBVIOUS
<1> HIDE DEF DayOf, Dates, Window
<1>4. CASE Flush
  <2>1. /\ stage' \in [Sender -> {"idle", "day"}] /\ rest' \in [Sender -> 0..DayLength]
        /\ \A q \in Sender : stage'[q] # "day"
    BY <1>4, LimitConstants DEF Flush
  <2>2. flushes' \subseteq Dates
    BY <1>1, <1>4 DEF Flush
  <2> QED  BY <1>0, <1>1, <1>2, <1>4, <1>9, <2>1, <2>2 DEF Flush
<1>5. ASSUME NEW r \in Sender, TakeInterval(r)  PROVE LimitTypeInv'
  <2>1. perInterval' \in Counter
    BY <1>1, <1>5, BumpedTyped, LimitConstants DEF TakeInterval
  <2> QED  BY <1>0, <1>1, <1>5, <1>9, <2>1 DEF TakeInterval
<1>6. ASSUME NEW r \in Sender, TakeDay(r)  PROVE LimitTypeInv'
  <2>1. perDay' \in Counter
    BY <1>1, <1>6, BumpedTyped DEF TakeDay
  <2>2. lates' \subseteq Nat
    <3>1. DayOf(perDay'.ends) \in Nat
      BY <2>1, InDay DEF Counter
    <3> QED  BY <1>1, <1>6, <3>1 DEF TakeDay
  <2>3. permits' \in [Dates -> Nat] /\ \A d \in Dates : d > DayOf(clock) => permits'[d] = 0
    BY <1>1, <1>6 DEF TakeDay, Dates
  <2>4. /\ stage' \in [Sender -> {"idle", "day"}] /\ rest' \in [Sender -> 0..DayLength]
        /\ \A q \in Sender : stage'[q] = "day" => rest'[q] > 0
    BY <1>6, LimitConstants DEF TakeDay, Leaves
  <2> QED  BY <1>0, <1>6, <1>9, <2>1, <2>2, <2>3, <2>4 DEF TakeDay
<1>7. ASSUME NEW r \in Sender, TakeFails(r)  PROVE LimitTypeInv'
  <2>1. /\ stage' \in [Sender -> {"idle", "day"}] /\ rest' \in [Sender -> 0..DayLength]
        /\ \A q \in Sender : stage'[q] = "day" => rest'[q] > 0
    BY <1>7, LimitConstants DEF TakeFails, Leaves
  <2> QED  BY <1>0, <1>7, <1>9, <2>1 DEF TakeFails
<1>8. CASE UNCHANGED limitVars
  BY <1>0, <1>8, <1>9 DEF limitVars
<1> QED  BY <1>3, <1>4, <1>5, <1>6, <1>7, <1>8 DEF LimitNext

\* Every variable of the limiter has its type.
THEOREM LimitTypeCorrect == LimitSpec => []LimitTypeOK
<1>1. LimitTypeInv => LimitTypeOK
  BY DEF LimitTypeInv
<1> QED  BY <1>1, LimitTypeInit, LimitTypeStep, PTL DEF LimitSpec

(***************************************************************************)
(* The day.                                                                *)
(***************************************************************************)
Today == DayOf(clock)
Excused(d) == d \in flushes \cup lates

\* The counter of the day is there, and ends when the day does, or is one of
\* those that were late.
Ending ==
    perDay.n > 0 =>
      /\ perDay.ends > clock
      /\ \/ perDay.ends = Begins(Today + 1)
         \/ {Today, DayOf(perDay.ends)} \subseteq lates /\ DayOf(perDay.ends) <= Today + 1

\* It counts what the day allowed.
DayInv ==
    /\ Ending
    /\ Excused(Today) \/ permits[Today] <= perDay.n
    /\ \A d \in Dates : permits[d] <= DayQuota \/ Excused(d)

LEMMA DayPassed ==
    ASSUME LimitTypeInv, DayInv, Passes
    PROVE  DayInv'
<1> DEFINE t == Today
           u == DayOf(clock')
<1>1. /\ clock \in Nat /\ clock' = clock + 1 /\ clock' \in Nat /\ t \in Nat /\ u \in Nat
      /\ perDay.n \in Nat /\ perDay.ends \in Nat /\ perDay \in Counter
  BY InDay DEF LimitTypeInv, LimitTypeOK, Counter, Passes, Today
<1>2. permits' = permits /\ flushes' = flushes /\ lates' = lates /\ Today' = u
  BY DEF Passes, Today
<1>3. /\ clock' < Begins(t + 1) => u = t
      /\ clock' < Begins(u + 1)
  BY <1>1, DayOrder, InDay DEF Today
<1>4. u = t \/ u = t + 1
  <2>1. t <= u /\ u <= t + 1
    BY <1>1, DayOrder, LimitConstants DEF Today
  <2> QED  BY <1>1, <2>1
<1>5. u \in Dates /\ t \in Dates
  <2>1. LimitTypeInv'
    BY LimitTypeStep DEF LimitNext
  <2>2. clock' \in 0..MaxTime /\ clock \in 0..MaxTime
    BY <2>1 DEF LimitTypeInv, LimitTypeOK
  <2>3. DayOf(MaxTime) \in Nat /\ clock' <= MaxTime /\ clock <= MaxTime
    BY <2>2, InDay, LimitConstants
  <2>4. u <= DayOf(MaxTime) /\ t <= DayOf(MaxTime)
    BY <1>1, <2>3, DayOrder, LimitConstants DEF Today
  <2> QED  BY <1>1, <2>3, <2>4 DEF Dates
<1>6. /\ u = t + 1 => permits[u] = 0
      /\ permits[u] \in Nat /\ permits[t] \in Nat
  BY <1>1, <1>5 DEF LimitTypeInv, LimitTypeOK, Today
<1>7. /\ perDay' \in {perDay, Blank} /\ perDay'.n \in Nat
      /\ perDay.ends > clock' => perDay' = perDay
      /\ perDay.ends <= clock' => perDay'.n = 0
      /\ perDay'.n > 0 => perDay' = perDay /\ perDay.ends > clock'
  BY <1>1 DEF Passes, Blank
<1>8. perDay.ends > clock' => u <= DayOf(perDay.ends) /\ DayOf(perDay.ends) \in Nat
  BY <1>1, DayOrder, InDay
<1>9. Dates' = Dates
  BY DEF Dates, DayOf
<1>10. /\ perDay.n > 0 =>
             \/ perDay.ends = Begins(t + 1)
             \/ {t, DayOf(perDay.ends)} \subseteq lates /\ DayOf(perDay.ends) <= t + 1
       /\ t \in flushes \cup lates \/ permits[t] <= perDay.n
       /\ \A d \in Dates : permits[d] <= DayQuota \/ d \in flushes \cup lates
  BY DEF DayInv, Ending, Excused
<1>11. Begins(u + 1) \in Nat /\ Begins(t + 1) \in Nat
  BY <1>1, LimitConstants DEF Begins
<1> HIDE DEF t, u, Begins, Dates
\* What is left of the last day's counter is a late one, which ends today.
<1>12. perDay'.n > 0 =>
          \/ perDay.ends = Begins(u + 1)
          \/ {u, DayOf(perDay.ends)} \subseteq lates /\ DayOf(perDay.ends) <= u + 1
  <2> SUFFICES ASSUME perDay'.n > 0
               PROVE  \/ perDay.ends = Begins(u + 1)
                      \/ /\ {u, DayOf(perDay.ends)} \subseteq lates
                         /\ DayOf(perDay.ends) <= u + 1
    OBVIOUS
  <2>1. perDay.n > 0 /\ perDay.ends > clock'
    BY <1>1, <1>7
  <2>2. CASE perDay.ends = Begins(t + 1)
    BY <1>1, <1>3, <1>11, <2>1, <2>2
  <2>3. CASE {t, DayOf(perDay.ends)} \subseteq lates /\ DayOf(perDay.ends) <= t + 1
    <3>1. u <= DayOf(perDay.ends) /\ DayOf(perDay.ends) \in Nat
      BY <1>8, <2>1
    <3>2. CASE u = t
      BY <2>3, <3>2
    <3>3. CASE u = t + 1
      <4>1. DayOf(perDay.ends) = u
        BY <1>1, <2>3, <3>1, <3>3
      <4> QED  BY <1>1, <2>3, <4>1
    <3> QED  BY <1>4, <3>2, <3>3
  <2> QED  BY <1>10, <2>1, <2>2, <2>3
<1>13. u \in flushes \cup lates \/ permits[u] <= perDay'.n
  <2>1. CASE u = t + 1
    BY <1>6, <1>7, <2>1
  <2>2. CASE u = t /\ perDay.ends > clock'
    BY <1>7, <1>10, <2>2
  <2>3. CASE u = t /\ perDay.ends <= clock' /\ perDay.n = 0
    BY <1>7, <1>10, <2>3
  \* It is gone before the day is over.
  <2>4. CASE u = t /\ perDay.ends <= clock' /\ perDay.n > 0
    <3>1. perDay.ends # Begins(t + 1)
      BY <1>1, <1>3, <1>11, <2>4
    <3> QED  BY <1>10, <2>4, <3>1
  <2> QED  BY <1>1, <1>4, <2>1, <2>2, <2>3, <2>4
<1>14. Ending'
  BY <1>2, <1>7, <1>12 DEF Ending
<1>15. \A d \in Dates : permits'[d] <= DayQuota \/ Excused(d)'
  BY <1>2, <1>10 DEF Excused
<1>16. Excused(Today)' \/ (permits[Today] <= perDay.n)'
  BY <1>2, <1>13 DEF Excused
<1> QED  BY <1>9, <1>14, <1>15, <1>16 DEF DayInv

LEMMA DayTaken ==
    ASSUME LimitTypeInv, DayInv, NEW r \in Sender, TakeDay(r)
    PROVE  DayInv'
<1>1. /\ clock \in Nat /\ Today \in Dates /\ Today \in Nat
      /\ Window \in 1..DayLength /\ clock + Window = Begins(Today + 1)
  BY NowTyped DEF LimitTypeInv, Today
<1>2. rest[r] \in Nat /\ rest[r] > 0 /\ rest[r] <= DayLength /\ perDay \in Counter
  BY LimitConstants DEF LimitTypeInv, LimitTypeOK, TakeDay
<1>3. /\ perDay' \in Counter /\ perDay'.n = perDay.n + 1 /\ perDay.n \in Nat
      /\ perDay.n > 0 => perDay'.ends = perDay.ends
      /\ perDay.n = 0 => perDay'.ends = clock + rest[r]
  BY <1>1, <1>2, BumpedTyped DEF TakeDay, Counter
<1>4. clock' = clock /\ flushes' = flushes /\ lates \subseteq lates' /\ Today' = Today
  BY DEF TakeDay, Today
<1>5. permits' = IF perDay'.n <= DayQuota THEN [permits EXCEPT ![Today] = @ + 1]
                 ELSE permits
  BY DEF TakeDay, Today
<1>6. permits \in [Dates -> Nat]
  BY DEF LimitTypeInv, LimitTypeOK
<1>7. perDay.n = 0 /\ rest[r] # Window => {Today, DayOf(perDay'.ends)} \subseteq lates'
  BY DEF TakeDay, Today
<1> HIDE DEF Today, Begins, Window, TakeDay
<1>8. Ending'
  <2>1. CASE perDay.n > 0
    BY <1>3, <1>4, <2>1 DEF DayInv, Ending
  <2>2. CASE perDay.n = 0 /\ rest[r] = Window
    BY <1>1, <1>2, <1>3, <1>4, <2>2 DEF Ending
  <2>3. CASE perDay.n = 0 /\ rest[r] # Window
    <3>1. perDay'.ends \in Nat /\ perDay'.ends = clock + rest[r]
      BY <1>1, <1>2, <1>3, <2>3
    <3>2. DayOf(perDay'.ends) <= Today + 1
      BY <1>1, <1>2, <3>1, DayOrder, LimitConstants DEF Today
    <3> QED  BY <1>1, <1>2, <1>4, <1>7, <2>3, <3>1, <3>2 DEF Ending
  <2> QED  BY <1>3, <2>1, <2>2, <2>3
<1>9. Excused(Today)' \/ permits'[Today] <= perDay'.n
  BY <1>1, <1>3, <1>4, <1>5, <1>6 DEF DayInv, Excused
<1>10. ASSUME NEW d \in Dates  PROVE permits'[d] <= DayQuota \/ Excused(d)'
  <2>1. CASE d = Today /\ perDay'.n <= DayQuota
    BY <1>1, <1>3, <1>4, <1>9, <1>5, <1>6, <2>1, LimitConstants DEF Excused
  <2>2. CASE ~(d = Today /\ perDay'.n <= DayQuota)
    BY <1>4, <1>5, <1>6, <2>2 DEF DayInv, Excused
  <2> QED  BY <2>1, <2>2
<1> QED  BY <1>4, <1>8, <1>9, <1>10 DEF DayInv, Excused

LEMMA DayStep == LimitTypeInv /\ DayInv /\ [LimitNext]_limitVars => DayInv'
<1> SUFFICES ASSUME LimitTypeInv, DayInv, [LimitNext]_limitVars  PROVE DayInv'
  OBVIOUS
<1>1. ASSUME UNCHANGED <<clock, perDay, permits, flushes, lates>>  PROVE DayInv'
  BY <1>1 DEF DayInv, Ending, Excused, Today
<1>2. CASE Flush
  <2>1. /\ perDay'.n = 0 /\ UNCHANGED <<clock, permits, lates>>
        /\ Today' = Today /\ flushes' = flushes \cup {Today}
    BY <1>2 DEF Flush, Blank, Today
  <2> QED  BY <2>1 DEF DayInv, Ending, Excused
<1>3. ASSUME NEW r \in Sender, TakeInterval(r) \/ TakeFails(r)  PROVE DayInv'
  BY <1>1, <1>3 DEF TakeInterval, TakeFails
<1>4. CASE UNCHANGED limitVars
  BY <1>1, <1>4 DEF limitVars
<1> QED  BY <1>2, <1>3, <1>4, DayPassed, DayTaken DEF LimitNext

\* A day allows at most DayQuota sendings, unless the counters were flushed in
\* it or a late counter began or ended in it.
THEOREM SendsAreLimited == LimitSpec => []SendsLimited
<1>1. LimitInit => DayInv
  <2> SUFFICES ASSUME LimitInit  PROVE DayInv
    OBVIOUS
  <2>1. DayOf(0) \in Nat /\ DayOf(0) <= DayOf(MaxTime) /\ DayOf(MaxTime) \in Nat
    BY DayOrder, InDay, LimitConstants
  <2>2. Today \in Dates
    BY <2>1 DEF Today, Dates, LimitInit
  <2> QED  BY <2>2, LimitConstants DEF LimitInit, DayInv, Ending, Blank
<1>2. DayInv => SendsLimited
  BY DEF DayInv, SendsLimited, Excused
<1> QED  BY <1>1, <1>2, LimitTypeInit, LimitTypeStep, DayStep, PTL DEF LimitSpec
=============================================================================
