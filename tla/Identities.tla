------------------------------ MODULE Identities ------------------------------
(***************************************************************************)
(* Who may log in as whom: the users, the rows of user_auth_methods that   *)
(* give an address (an e-mail address, a telephone number) to a user, and  *)
(* the two cached copies of a user, by id and by e-mail address.           *)
(*                                                                         *)
(* Login methods are written without touching the caches, but a user is    *)
(* read with his methods and saved with them: gorm inserts each again, and *)
(* where its id or its address is taken (auth_identifier is unique) sets   *)
(* the user_id of that row.  A user whose row is gone is inserted again,   *)
(* too.  Registration checks that the address is free before it begins its *)
(* transaction; a guest's purchase does long before the payment is known   *)
(* and the order's activation creates the user.                            *)
(***************************************************************************)
EXTENDS Naturals, FiniteSets

CONSTANTS
    Email, Mobile, \* addresses
    Front,         \* requests and guests' orders that are under way at once
    MaxUsers,      \* bound: users ever created
    MaxRows,       \* bound: login methods ever created
    MaxRequests    \* bound: requests

ASSUME IdentityAssumption ==
    /\ Email \cap Mobile = {}
    /\ {MaxUsers, MaxRows, MaxRequests} \subseteq Nat

Address == Email \cup Mobile
NoUser  == 0
User    == 1..MaxUsers
Method  == [id: 1..MaxRows, addr: Address]
Row     == [id: 1..MaxRows, addr: Address, user: User]

VARIABLES
    users,    \* ids of the rows of user
    created,  \* the last id of a user, and of a login method
    rows,     \* user_auth_methods
    byId,     \* cache:user:id: {}, or {the methods of the copy}
    byEmail,  \* cache:user:email: the user in the copy, or NoUser
    doing,    \* what each request is at: for whom, for what address
    has,      \* the methods of the user it holds, or is about to forget
    requests, \* history: counted for the bound
    rightful, \* history: to whom an address was given, and not taken from
    rewritten, \* history: addresses that were taken from somebody
    gone,     \* history: users deleted, and out of the cache
    revived   \* history: deleted users a save has inserted again

idStore   == <<users, created, rows>>
idCaches  == <<byId, byEmail>>
idHistory == <<rightful, rewritten, gone, revived>>
idVars    == <<idStore, idCaches, doing, has, requests, idHistory>>

Ops  == {"none", "holds", "clears", "deletes", "registers", "buys",
         "binds"}
Free == [op |-> "none", who |-> NoUser, addr |-> {}]

IdInit ==
    /\ users = {} /\ created = [user |-> 0, row |-> 0] /\ rows = {}
    /\ byId = [u \in User |-> {}] /\ byEmail = [e \in Email |-> NoUser]
    /\ doing = [r \in Front |-> Free] /\ has = [r \in Front |-> {}]
    /\ requests = 0
    /\ rightful = [a \in Address |-> NoUser] /\ rewritten = {}
    /\ gone = {} /\ revived = {}

Taken(a) == \E m \in rows : m.addr = a
Owner(a) == IF Taken(a) THEN (CHOOSE m \in rows : m.addr = a).user ELSE NoUser
MethodsOf(u) == {[id |-> m.id, addr |-> m.addr] : m \in {n \in rows : n.user = u}}
Addresses(methods) == {m.addr : m \in methods}

Does(r, op) == doing[r].op = op
Go(r, op, u, addr) ==
    doing' = [doing EXCEPT ![r] = [op |-> op, who |-> u, addr |-> addr]]
Ends(r) == doing' = [doing EXCEPT ![r] = Free] /\ has' = [has EXCEPT ![r] = {}]
Counts == requests < MaxRequests /\ requests' = requests + 1

\* A row is inserted for a, and a is the user's from now on.
Inserted(a, u) ==
    /\ created.row < MaxRows
    /\ rows' = rows \cup {[id |-> created.row + 1, addr |-> a, user |-> u]}
    /\ rightful' = [rightful EXCEPT ![a] = u]

\* FindOne: from the cache, or from the database into the cache.  (What may
\* happen between the two is what CachedRow is about.)
Found(u) == IF byId[u] # {} THEN byId[u]
            ELSE IF u \in users THEN {MethodsOf(u)} ELSE {}

(***************************************************************************)
(* Registration and login.                                                 *)
(***************************************************************************)
\* FindOneByEmail: from the cache, or by the method and then the user it names.
EmailUser(e) == IF byEmail[e] # NoUser THEN byEmail[e]
                ELSE IF Owner(e) \in users THEN Owner(e) ELSE NoUser

\* UserRegister asks for the user, TelephoneUserRegister for the method.
BeginRegister(r, a) ==
    /\ Does(r, "none") /\ Counts
    /\ IF a \in Email THEN EmailUser(a) = NoUser ELSE ~Taken(a)
    /\ Go(r, "registers", NoUser, {a})
    /\ UNCHANGED <<idStore, idCaches, has, idHistory>>

\* A guest's Purchase asks for the method, whatever its type.
BeginPurchase(r, a) ==
    /\ Does(r, "none") /\ Counts /\ ~Taken(a)
    /\ Go(r, "buys", NoUser, {a})
    /\ UNCHANGED <<idStore, idCaches, has, idHistory>>

\* Save of a new user with his method: the row of an address that is taken by
\* now is not inserted again, but gets his user_id.
SaveNew(a, u) ==
    /\ users' = users \cup {u}
    /\ \/ /\ ~Taken(a) /\ Inserted(a, u)
          /\ created' = [user |-> u, row |-> created.row + 1]
          /\ UNCHANGED rewritten
       \/ /\ Taken(a)
          /\ rows' = {IF m.addr = a THEN [m EXCEPT !.user = u] ELSE m : m \in rows}
          /\ rewritten' = rewritten \cup {a}
          /\ created' = [created EXCEPT !.user = u]
          /\ UNCHANGED rightful

\* Mutant: an e-mail address that is taken moves to the new user.
CreateUserMoves(r) ==
    /\ Does(r, "registers") /\ created.user < MaxUsers
    /\ \E a \in doing[r].addr : LET u == created.user + 1 IN
         /\ users' = users \cup {u}
         /\ \/ ~Taken(a) /\ Inserted(a, u)
                /\ created' = [user |-> u, row |-> created.row + 1]
                /\ UNCHANGED rewritten
            \/ /\ Taken(a)
               /\ rows' = {IF m.addr = a THEN [m EXCEPT !.user = u] ELSE m : m \in rows}
               /\ rewritten' = IF a \in Mobile THEN rewritten \cup {a} ELSE rewritten
               /\ created' = [created EXCEPT !.user = u]
               /\ UNCHANGED rightful
    /\ Ends(r)
    /\ UNCHANGED <<idCaches, requests, gone, revived>>

\* The transaction.  An e-mail address has an INSERT of its own and rolls all
\* back if it is taken by now; a number is saved with its user.
CreateUser(r) ==
    /\ Does(r, "registers") /\ created.user < MaxUsers
    /\ \E a \in doing[r].addr : LET u == created.user + 1 IN
         \/ (Taken(a) => a \in Mobile) /\ SaveNew(a, u)
         \/ /\ Taken(a) /\ a \in Email
            /\ created' = [created EXCEPT !.user = u]
            /\ UNCHANGED <<users, rows, rightful, rewritten>>
    /\ Ends(r)
    /\ UNCHANGED <<idCaches, requests, gone, revived>>

\* NewPurchase for a guest: Save, with the method of any type.  (If he has a
\* referer, Update follows at once, as that of a request that reads him now.)
ActivateGuest(r) ==
    /\ Does(r, "buys") /\ created.user < MaxUsers
    /\ \E a \in doing[r].addr : SaveNew(a, created.user + 1)
    /\ Ends(r)
    /\ UNCHANGED <<idCaches, requests, gone, revived>>

\* UserLogin by e-mail address: the copy is made.
UserLogin(e) ==
    /\ byEmail[e] = NoUser /\ EmailUser(e) # NoUser
    /\ byEmail' = [byEmail EXCEPT ![e] = EmailUser(e)]
    /\ UNCHANGED <<idStore, byId, doing, has, requests, idHistory>>

(***************************************************************************)
(* Requests of a user who is logged in.                                    *)
(***************************************************************************)
\* AuthMiddleware reads the user.
ReadUser(r, u) ==
    /\ Does(r, "none") /\ Counts
    /\ \E methods \in Found(u) : has' = [has EXCEPT ![r] = methods]
    /\ byId' = [byId EXCEPT ![u] = Found(u)]
    /\ Go(r, "holds", u, {})
    /\ UNCHANGED <<idStore, byEmail, idHistory>>

\* Mutant: addresses are not unique.
MeetsById(m, h) == m.id = h.id

\* What an INSERT of method h with ON DUPLICATE KEY UPDATE user_id meets.
Meets(m, h) == \/ m.id = h.id
               \/ m.addr = h.addr /\ ~\E n \in rows : n.id = h.id

\* UserModel.Update, as a notification setting or a payment makes it: FindOne
\* for the keys to delete, then Save of the user that is held.
Update(r) ==
    /\ Does(r, "holds")
    /\ LET u == doing[r].who IN
         /\ users' = users \cup {u}
         /\ revived' = IF u \in users THEN revived ELSE revived \cup {u}
         /\ rows' = {IF \E h \in has[r] : Meets(m, h) THEN [m EXCEPT !.user = u]
                     ELSE m : m \in rows}
              \cup {[id |-> h.id, addr |-> h.addr, user |-> u] :
                      h \in {k \in has[r] : ~\E m \in rows : Meets(m, k)}}
         /\ byId' = [byId EXCEPT ![u] = Found(u)]
         /\ \/ \E methods \in Found(u) :
                 has' = [has EXCEPT ![r] = methods] /\ Go(r, "clears", u, {})
            \/ Found(u) = {} /\ Ends(r) \* the keys are those of no user
    /\ UNCHANGED <<created, byEmail, requests, rightful, rewritten, gone>>

\* DEL of the key of the id, and of the first e-mail address.
Forgets(r) ==
    /\ byId' = [byId EXCEPT ![doing[r].who] = {}]
    /\ LET emails == Email \cap Addresses(has[r])
       IN  \/ emails = {} /\ UNCHANGED byEmail
           \/ \E e \in emails : byEmail' = [byEmail EXCEPT ![e] = NoUser]
    /\ Ends(r)

ClearUpdated(r) ==
    /\ Does(r, "clears") /\ Forgets(r)
    /\ UNCHANGED <<idStore, requests, idHistory>>

\* UpdateBindEmail: the address has no row; one is inserted, or fails to be
\* because there is one by now.  The binding of an OAuth account is alike.  (A
\* number is never bound: UpdateBindMobile takes no row for an error.)
BeginBind(r, e) ==
    /\ Does(r, "holds") /\ ~Taken(e)
    /\ Go(r, "binds", doing[r].who, {e})
    /\ UNCHANGED <<idStore, idCaches, has, requests, idHistory>>
Bind(r) ==
    /\ Does(r, "binds")
    /\ \E e \in doing[r].addr :
         \/ /\ ~Taken(e) /\ Inserted(e, doing[r].who)
            /\ created' = [created EXCEPT !.row = @ + 1]
         \/ Taken(e) /\ UNCHANGED <<created, rows, rightful>>
    /\ Ends(r)
    /\ UNCHANGED <<users, idCaches, requests, rewritten, gone, revived>>

(***************************************************************************)
(* The administrator.                                                      *)
(***************************************************************************)
TakeAway(addresses) ==
    /\ rightful' = [a \in Address |-> IF a \in addresses THEN NoUser ELSE rightful[a]]
    /\ rewritten' = rewritten \cup addresses

\* DeleteUserAuthMethod; UnbindOAuth and UnbindTelegram are alike.
DeleteUserAuthMethod(a) ==
    /\ Taken(a) /\ Counts
    /\ rows' = {m \in rows : m.addr # a}
    /\ TakeAway({a})
    /\ UNCHANGED <<users, created, idCaches, doing, has, gone, revived>>

\* UpdateUserAuthMethod: the row gets another address of its kind; a row that
\* was taken from somebody stays one under its new address.
UpdateUserAuthMethod(a, b) ==
    /\ Taken(a) /\ ~Taken(b) /\ Counts
    /\ rows' = {IF m.addr = a THEN [m EXCEPT !.addr = b] ELSE m : m \in rows}
    /\ rightful' = [rightful EXCEPT ![a] = NoUser, ![b] = Owner(a)]
    /\ rewritten' = rewritten \cup (IF a \in rewritten THEN {a, b} ELSE {a})
    /\ UNCHANGED <<users, created, idCaches, doing, has, gone, revived>>

\* DeleteUser: FindOne, then a transaction deletes the row and the methods.
DeleteUser(r, u) ==
    /\ Does(r, "none") /\ Counts
    /\ \E methods \in Found(u) : has' = [has EXCEPT ![r] = methods]
    /\ byId' = [byId EXCEPT ![u] = Found(u)]
    /\ users' = users \ {u}
    /\ rows' = {m \in rows : m.user # u}
    /\ TakeAway({a \in Address : Owner(a) = u})
    /\ Go(r, "deletes", u, {})
    /\ UNCHANGED <<created, byEmail, gone, revived>>

\* BatchDeleteUser: the row alone; the methods are neither read nor deleted.
BatchDeleteUser(r, u) ==
    /\ Does(r, "none") /\ Counts /\ u \in users
    /\ users' = users \ {u}
    /\ TakeAway({a \in Address : Owner(a) = u})
    /\ Go(r, "deletes", u, {})
    /\ UNCHANGED <<created, rows, idCaches, has, gone, revived>>

\* Mutant: the key of the id is not deleted.
ClearDeletedNot(r) ==
    /\ Does(r, "deletes") /\ Ends(r)
    /\ gone' = gone \cup {doing[r].who}
    /\ UNCHANGED <<idStore, idCaches, requests, rightful, rewritten, revived>>

ClearDeleted(r) ==
    /\ Does(r, "deletes") /\ Forgets(r)
    /\ gone' = gone \cup {doing[r].who}
    /\ UNCHANGED <<idStore, requests, rightful, rewritten, revived>>

IdNext ==
    \/ \E r \in Front :
         \/ \E a \in Address : BeginRegister(r, a) \/ BeginPurchase(r, a)
         \/ \E u \in User : ReadUser(r, u) \/ DeleteUser(r, u) \/ BatchDeleteUser(r, u)
         \/ \E e \in Email : BeginBind(r, e)
         \/ CreateUser(r) \/ ActivateGuest(r) \/ Bind(r)
         \/ Update(r) \/ ClearUpdated(r) \/ ClearDeleted(r)
    \/ \E e \in Email : UserLogin(e)
    \/ \E a \in Address : DeleteUserAuthMethod(a)
    \/ \E kind \in {Email, Mobile} : \E a, b \in kind : UpdateUserAuthMethod(a, b)

IdSpec == IdInit /\ [][IdNext]_idVars

(***************************************************************************)
(* Properties.                                                             *)
(***************************************************************************)
IdTypeOK ==
    /\ users \subseteq User /\ created \in [user: 0..MaxUsers, row: 0..MaxRows]
    /\ rows \subseteq Row
    /\ \A m, n \in rows : m.id = n.id \/ m.addr = n.addr => m = n
    /\ byId \in [User -> SUBSET SUBSET Method] /\ byEmail \in [Email -> User \cup {NoUser}]
    /\ doing \in [Front -> [op: Ops, who: User \cup {NoUser}, addr: SUBSET Address]]
    /\ has \in [Front -> SUBSET Method]

\* An address that was given to a user, by registration, by binding or by the
\* administrator, stays his; unless it was taken from somebody before, when a
\* user saved with his former methods may get it back (authMethod.go:34,
\* default.go:117), two registrations of a number overlapped
\* (telephoneUserRegisterLogic.go:83), or somebody registered the address
\* while a guest's order for it was not activated (activateOrderLogic.go:158).
OwnersRightful ==
    \A a \in Address \ rewritten : Owner(a) = rightful[a]

\* A deleted user has no row and no copy by his id, unless a request that had
\* read him before has saved him again (default.go:117).
DeletedStayGone ==
    \A u \in gone \ revived : u \notin users /\ byId[u] = {}
=============================================================================
