------------------------- MODULE SubscriptionsProofs -------------------------
(***************************************************************************)
(* Proofs about Subscriptions: types, the traffic, the stored list, and    *)
(* what the scan and the saves may do to the row.                          *)
(***************************************************************************)
EXTENDS Subscriptions, FiniteSetTheorems, TLAPS

(***************************************************************************)
(* Types, and what a worker holds where.                                   *)
(***************************************************************************)
\* Steps at which a worker holds a row, whatever its job.
Holding == {"fill", "listSet", "close", "clear", "commit"}

\* What a worker holds at a step of a job: a row it is to save, list, store
\* or close; a row whose period is shortened has a period left.
Shape(w) ==
    /\ step[w] \in Holding \/ (step[w] = "save" /\ job[w] \in Savers)
         => held[w] \in SubRow
    /\ step[w] = "save" /\ job[w] = "period" => held[w].exp >= 1
    /\ job[w] = "scan" <=> step[w] \in {"idle", "select", "close", "clear", "commit"}
    /\ job[w] = "count" => step[w] \in {"save", "drop"}
    /\ step[w] \in {"close", "clear", "commit"} => Due(phase[w], held[w])

TypeInv == SubTypeOK /\ spent \in Nat /\ \A w \in Worker : Shape(w)

\* What a worker may do.
Acts(w) ==
    \/ BeginRequest(w) \/ BeginCount(w) \/ BeginScan(w) \/ JobStep(w)
    \/ JobFails(w) \/ CountCrashes(w)
    \/ ScanFails(w) \/ NotifyFails(w) \/ ScanCrashes(w)

\* The others stay where they are.
Alone(w) ==
    \A v \in Worker \ {w} :
      /\ step'[v] = step[v] /\ job'[v] = job[v]
      /\ held'[v] = held[v] /\ phase'[v] = phase[v]

LEMMA ActsAlone ==
    ASSUME SubTypeOK, NEW w \in Worker, Acts(w)
    PROVE  Alone(w)
<1> USE DEF Alone, SubTypeOK, Move, Leave, Take, EndPhase, subFlow, subStore
<1>1. CASE BeginRequest(w)
  BY <1>1 DEF BeginRequest, BeginJob
<1>2. CASE BeginCount(w)
  BY <1>2 DEF BeginCount, BeginJob
<1>3. CASE BeginScan(w)
  BY <1>3 DEF BeginScan
<1>4. CASE CheckRefund(w) \/ ReadRow(w) \/ GetCopy(w) \/ QueryCopy(w) \/ FillCopy(w)
  BY <1>4 DEF CheckRefund, ReadRow, GetCopy, QueryCopy, FillCopy
<1>5. CASE SaveRow(w) \/ CountTraffic(w) \/ RemoveRow(w) \/ DropCopies(w)
  BY <1>5 DEF SaveRow, CountTraffic, RemoveRow, DropCopies
<1>6. CASE GetList(w) \/ QueryList(w) \/ SetList(w)
  BY <1>6 DEF GetList, QueryList, SetList
<1>10. CASE EraseLock(w) \/ EraseWipe(w) \/ EraseCommit(w)
  BY <1>10 DEF EraseLock, EraseWipe, EraseCommit
<1>7. CASE ScanSelect(w) \/ ScanClose(w) \/ ScanClear(w) \/ ScanCommit(w)
  BY <1>7 DEF ScanSelect, ScanClose, ScanClear, ScanCommit
<1>8. CASE JobFails(w) \/ CountCrashes(w)
  BY <1>8 DEF JobFails, CountCrashes
<1>9. CASE ScanFails(w) \/ NotifyFails(w) \/ ScanCrashes(w)
  BY <1>9 DEF ScanFails, NotifyFails, ScanCrashes
<1> QED
  BY <1>1, <1>2, <1>3, <1>4, <1>5, <1>6, <1>7, <1>8, <1>9, <1>10 DEF Acts, JobStep

LEMMA InitType == SubInit => TypeInv
BY SubAssumption DEF SubInit, TypeInv, SubTypeOK, Shape, Holding, Month, SubRow, Active,
   Gone, Steps, Jobs, Direct, Cached

\* A row with one column changed is a row.
LEMMA OneColumn ==
    ASSUME NEW r \in SubRow
    PROVE  /\ \A x \in Active..Gone : [r EXCEPT !.status = x] \in SubRow
           /\ \A x \in Nat : [r EXCEPT !.used = x] \in SubRow
           /\ \A x \in Nat : [r EXCEPT !.exp = x] \in SubRow
           /\ \A x \in BOOLEAN : [r EXCEPT !.finished = x] \in SubRow
BY DEF SubRow

\* What saving, counting, closing and removing make of a row is a row.
LEMMA RowsAreRows ==
    ASSUME SubTypeOK, NEW r \in SubRow
    PROVE  /\ \A j \in Savers : (j = "period" => r.exp >= 1) => SavedRows(j, r) \subseteq SubRow
           /\ \A ph : Closing(ph, r) \in SubRow
           /\ [r EXCEPT !.used = @ + 1] \in SubRow
           /\ [r EXCEPT !.status = Gone] \in SubRow
<1>1. now \in Nat /\ now >= 2
  BY SubAssumption DEF SubTypeOK, Month
<1>2. r.exp \in Nat /\ r.used \in Nat /\ r.status \in Active..Gone
  BY DEF SubRow
<1>3. {Active, Finished, Expired, Deducted, Gone} \subseteq Active..Gone
  BY DEF Active, Finished, Expired, Deducted, Gone
<1>4. ResetUsed(r) \in SubRow
  <2> DEFINE r1 == [r EXCEPT !.status = Active]
  <2>1. r1 \in SubRow
    BY <1>3, OneColumn
  <2>2. [r1 EXCEPT !.used = 0] \in SubRow
    BY <2>1, OneColumn
  <2> QED  BY <2>2 DEF ResetUsed
<1>5. Renewed(r) \in SubRow
  <2> DEFINE e == Larger(r.exp, now) + 1
             u == IF RenewalReset THEN r.used ELSE 0
             r1 == [r EXCEPT !.status = Active]
             r2 == [r1 EXCEPT !.exp = e]
             r3 == [r2 EXCEPT !.finished = FALSE]
  <2>1. e \in Nat
    BY <1>1, <1>2 DEF Larger
  <2>2. u \in Nat
    BY <1>2
  <2>3. Renewed(r) = [r3 EXCEPT !.used = u]
    BY DEF Renewed
  <2> HIDE DEF e, u
  <2>4. r1 \in SubRow
    BY <1>3, OneColumn
  <2> HIDE DEF r1
  <2>5. r2 \in SubRow
    BY <2>1, <2>4, OneColumn
  <2> HIDE DEF r2
  <2>6. r3 \in SubRow
    BY <2>5, OneColumn
  <2> HIDE DEF r3
  <2> QED  BY <2>2, <2>3, <2>6, OneColumn
<1>6. Edited(r) \subseteq SubRow
  <2>1. Quota \in Nat
    BY SubAssumption
  <2> SUFFICES ASSUME NEW x \in Edited(r)
               PROVE  x \in SubRow
    OBVIOUS
  <2>2. PICK u \in {0, Quota}, e \in {Forever, now} :
            x = [status |-> r.status, used |-> u, exp |-> e, finished |-> FALSE]
    BY SMT DEF Edited
  <2>3. u \in Nat /\ e \in Nat
    BY <1>1, <2>1 DEF Forever
  <2> QED  BY <1>2, <2>2, <2>3 DEF SubRow
<1>7. [r EXCEPT !.status = Deducted] \in SubRow
  BY <1>3, OneColumn
<1>8. r.exp >= 1 => [r EXCEPT !.exp = @ - 1] \in SubRow
  <2>1. r.exp >= 1 => r.exp - 1 \in Nat
    BY <1>2
  <2> QED  BY <2>1, OneColumn
<1>9. \A ph : Closing(ph, r) \in SubRow
  <2> TAKE ph
  <2> DEFINE x == IF ph = "quota" THEN Finished ELSE Expired
             r1 == [r EXCEPT !.status = x]
  <2>1. r1 \in SubRow
    BY <1>3, OneColumn
  <2>2. [r1 EXCEPT !.finished = TRUE] \in SubRow
    BY <2>1, OneColumn
  <2> QED  BY <2>2 DEF Closing
<1>10. [r EXCEPT !.used = @ + 1] \in SubRow /\ [r EXCEPT !.status = Gone] \in SubRow
  <2>1. r.used + 1 \in Nat
    BY <1>2
  <2> QED  BY <1>3, <2>1, OneColumn
<1>11. ASSUME NEW j \in Savers, j = "period" => r.exp >= 1
       PROVE  SavedRows(j, r) \subseteq SubRow
  <2>1. j \in {"renew", "reset", "unsubscribe", "edit", "period", "token"}
    BY DEF Savers, Direct, Cached
  <2>2. \/ SavedRows(j, r) = {Renewed(r)} \/ SavedRows(j, r) = {ResetUsed(r)}
        \/ SavedRows(j, r) = {[r EXCEPT !.status = Deducted]}
        \/ SavedRows(j, r) = Edited(r) \/ SavedRows(j, r) = {r}
        \/ j = "period" /\ SavedRows(j, r) = {[r EXCEPT !.exp = @ - 1]}
    BY <2>1 DEF SavedRows
  <2> QED  BY <1>4, <1>5, <1>6, <1>7, <1>8, <1>11, <2>2
<1> QED  BY <1>9, <1>10, <1>11

(***************************************************************************)
(* Every step keeps the types and the shapes.                              *)
(***************************************************************************)
StoreOK == /\ now \in Month /\ sub \in SubRow /\ serves \in BOOLEAN
           /\ subLock \in Worker \cup {Nothing}
           /\ copies \in [Keys -> SubRow \cup {Nothing}]
           /\ list \in BOOLEAN \cup {Nothing} /\ reports \in Nat
           /\ spent \in Nat
FlowOK  == /\ step \in [Worker -> Steps] /\ job \in [Worker -> Jobs]
           /\ held \in [Worker -> SubRow \cup {Nothing}]
           /\ phase \in [Worker -> {"quota", "expiry"}]

LEMMA TypeParts == TypeInv <=> StoreOK /\ FlowOK /\ \A w \in Worker : Shape(w)
BY DEF TypeInv, SubTypeOK, StoreOK, FlowOK

\* What is due stays due as time passes.
LEMMA DueStays ==
    ASSUME now \in Nat, now' \in Nat, now <= now', NEW r \in SubRow, NEW ph, Due(ph, r)
    PROVE  IF ph = "quota" THEN UsedUp(r)
                           ELSE r.status = Active /\ r.exp # Forever /\ r.exp < now' /\ ~r.finished
<1>1. r.exp \in Nat
  BY DEF SubRow
<1> QED  BY <1>1 DEF Due, UsedUp, Overdue

\* The shape of a worker that stays where it is.
LEMMA ShapeStays ==
    ASSUME TypeInv, now' \in Nat, now <= now', NEW v \in Worker,
           step'[v] = step[v], job'[v] = job[v], held'[v] = held[v], phase'[v] = phase[v]
    PROVE  Shape(v)'
<1>1. Shape(v) /\ now \in Nat
  BY SubAssumption DEF TypeInv, SubTypeOK, Month
<1>2. ASSUME step[v] \in {"close", "clear", "commit"}
      PROVE  Due(phase[v], held[v])'
  <2>1. held[v] \in SubRow /\ Due(phase[v], held[v])
    BY <1>1, <1>2 DEF Shape, Holding
  <2>2. IF phase[v] = "quota" THEN UsedUp(held[v])
        ELSE held[v].status = Active /\ held[v].exp # Forever /\ held[v].exp < now' /\ ~held[v].finished
    BY <1>1, <2>1, DueStays
  <2> QED  BY <2>2 DEF Due, UsedUp, Overdue
<1> QED  BY <1>1, <1>2 DEF Shape

\* Where a worker goes, the types of the flow are kept.
LEMMA LeaveTyped ==
    ASSUME FlowOK, NEW w \in Worker, Leave(w)
    PROVE  FlowOK' /\ Shape(w)' /\ step'[w] = "idle"
<1>1. FlowOK' /\ step'[w] = "idle" /\ job'[w] = "scan"
  BY DEF FlowOK, Leave, Move, Steps, Jobs, Direct, Cached
<1> QED  BY <1>1 DEF Shape, Holding

LEMMA EndPhaseTyped ==
    ASSUME FlowOK, NEW w \in Worker, EndPhase(w), job[w] = "scan"
    PROVE  FlowOK' /\ Shape(w)' /\ step'[w] \in {"idle", "select"}
<1>1. CASE Leave(w)
  BY <1>1, LeaveTyped
<1>2. CASE ~Leave(w)
  <2>1. /\ phase' = [phase EXCEPT ![w] = "expiry"] /\ held' = [held EXCEPT ![w] = Nothing]
        /\ Move(w, "select") /\ job' = job
    BY <1>2 DEF EndPhase
  <2>2. FlowOK' /\ step'[w] = "select"
    BY <2>1 DEF FlowOK, Move, Steps
  <2> QED  BY <1>2, <2>1, <2>2 DEF Shape, Holding
<1> QED  BY <1>1, <1>2

LEMMA TakeTyped ==
    ASSUME TypeInv, NEW w \in Worker, NEW r \in SubRow, Take(w, r),
           job[w] \notin {"scan", "count"}
    PROVE  FlowOK' /\ Shape(w)'
<1>1. FlowOK /\ now \in Nat /\ now >= 2
  BY TypeParts, SubAssumption DEF StoreOK, Month
<1>2. CASE Leave(w)
  BY <1>1, <1>2, LeaveTyped
<1>3. CASE ~Leave(w)
  <2>1. /\ job[w] \in Savers /\ Admits(job[w], r) /\ job' = job /\ phase' = phase
        /\ held' = [held EXCEPT ![w] = r] /\ Move(w, "save")
    BY <1>3 DEF Take
  <2>2. FlowOK' /\ step'[w] = "save" /\ held'[w] = r
    BY <1>1, <2>1 DEF FlowOK, Move, Steps
  <2>3. job[w] = "period" => r.exp >= 1
    BY <1>1, <2>1 DEF Admits, SubRow
  <2> QED  BY <2>1, <2>2, <2>3 DEF Shape, Holding
<1> QED  BY <1>2, <1>3

\* A worker moves on with what it holds.
LEMMA MoveTyped ==
    ASSUME FlowOK, NEW w \in Worker, NEW s \in Steps, Move(w, s),
           job' = job, held' = held, phase' = phase
    PROVE  /\ FlowOK' /\ step'[w] = s
           /\ job'[w] = job[w] /\ held'[w] = held[w] /\ phase'[w] = phase[w]
BY DEF FlowOK, Move

\* A worker moves on with a row it has read.
LEMMA HoldTyped ==
    ASSUME FlowOK, NEW w \in Worker, NEW s \in Steps, Move(w, s), NEW r \in SubRow,
           job' = job, held' = [held EXCEPT ![w] = r], phase' = phase
    PROVE  /\ FlowOK' /\ step'[w] = s
           /\ job'[w] = job[w] /\ held'[w] = r /\ phase'[w] = phase[w]
BY DEF FlowOK, Move

LEMMA SomeSteps == {"idle", "check", "read", "get", "query", "fill", "save", "drop", "listGet",
                    "listQuery", "listSet", "select", "close", "clear", "commit", "lock", "wipe",
                    "erased"} = Steps
BY DEF Steps

\* Every step of a worker keeps the types and its own shape.
LEMMA BeginTyped ==
    ASSUME TypeInv, NEW w \in Worker, BeginRequest(w) \/ BeginCount(w) \/ BeginScan(w)
    PROVE  StoreOK' /\ FlowOK' /\ Shape(w)' /\ now' = now
<1>1. StoreOK /\ FlowOK /\ Shape(w)
  BY TypeParts
<1>2. ASSUME NEW j \in Jobs \ {"scan"}, BeginJob(w, j)
      PROVE  FlowOK' /\ Shape(w)'
  <2>1. FirstStep(j) \in Steps \ {"idle", "select", "close", "clear", "commit", "fill", "listSet"}
    BY <1>2 DEF FirstStep, Jobs, Direct, Cached, Steps
  <2>2. FirstStep(j) = "save" => j \in {"remove", "count"}
    BY <1>2 DEF FirstStep, Jobs, Direct, Cached
  <2>3. j = "count" => FirstStep(j) = "save"
    BY DEF FirstStep, Direct, Cached
  <2>4. FlowOK' /\ step'[w] = FirstStep(j) /\ job'[w] = j
    BY <1>1, <1>2, <2>1 DEF FlowOK, BeginJob, Move
  <2> HIDE DEF FirstStep
  <2> QED  BY <2>1, <2>2, <2>3, <2>4 DEF Shape, Holding, Savers, Direct, Cached
<1>3. CASE BeginRequest(w)
  <2>1. PICK j \in Jobs \ {"count", "scan"} : BeginJob(w, j)
    BY <1>3 DEF BeginRequest
  <2>2. StoreOK' /\ now' = now
    BY <1>1, <1>3, <2>1 DEF StoreOK, BeginRequest, BeginJob, subStore
  <2> QED  BY <1>2, <2>1, <2>2
<1>4. CASE BeginCount(w)
  <2>1. StoreOK' /\ now' = now
    BY <1>1, <1>4 DEF StoreOK, BeginCount, BeginJob, subStore
  <2>2. "count" \in Jobs \ {"scan"}
    BY DEF Jobs
  <2> QED  BY <1>2, <1>4, <2>1, <2>2 DEF BeginCount
<1>5. CASE BeginScan(w)
  <2>1. StoreOK' /\ now' = now /\ step[w] = "idle"
    BY <1>1, <1>5 DEF StoreOK, BeginScan, subStore, AtStep
  <2>2. FlowOK' /\ step'[w] = "select" /\ job'[w] = job[w]
    BY <1>1, <1>5, MoveTyped, SomeSteps DEF BeginScan
  <2> QED  BY <1>1, <2>1, <2>2 DEF Shape, Holding
<1> QED  BY <1>3, <1>4, <1>5

LEMMA ReadTyped ==
    ASSUME TypeInv, NEW w \in Worker,
           CheckRefund(w) \/ ReadRow(w) \/ GetCopy(w) \/ QueryCopy(w) \/ FillCopy(w)
    PROVE  StoreOK' /\ FlowOK' /\ Shape(w)' /\ now' = now
<1>1. StoreOK /\ FlowOK /\ Shape(w) /\ sub \in SubRow
  BY TypeParts DEF StoreOK
<1>2. CASE CheckRefund(w)
  <2>1. StoreOK' /\ now' = now /\ step[w] = "check"
    BY <1>1, <1>2 DEF StoreOK, CheckRefund, subStore, AtStep
  <2>2. CASE Leave(w)
    BY <1>1, <2>1, <2>2, LeaveTyped
  <2>3. CASE ~Leave(w)
    <3>1. FlowOK' /\ step'[w] = "read" /\ job'[w] = job[w]
      BY <1>1, <1>2, <2>3, MoveTyped, SomeSteps DEF CheckRefund
    <3> QED  BY <1>1, <2>1, <3>1 DEF Shape, Holding
  <2> QED  BY <2>2, <2>3
<1>3. CASE ReadRow(w)
  <2>1. StoreOK' /\ now' = now /\ step[w] = "read" /\ Take(w, sub)
    BY <1>1, <1>3 DEF StoreOK, ReadRow, subStore, AtStep
  <2>2. job[w] \notin {"scan", "count"}
    BY <1>1, <2>1 DEF Shape
  <2> QED  BY <1>1, <2>1, <2>2, TakeTyped
<1>4. CASE GetCopy(w)
  <2>1. StoreOK' /\ now' = now /\ step[w] = "get"
    BY <1>1, <1>4 DEF StoreOK, GetCopy, subStore, AtStep
  <2>2. job[w] \notin {"scan", "count"}
    BY <1>1, <2>1 DEF Shape
  <2> DEFINE c == copies[KeyOf(job[w])]
  <2>3. c \in SubRow \cup {Nothing}
    BY <1>1 DEF StoreOK, KeyOf, Keys
  <2>4. CASE c # Nothing /\ Take(w, c)
    BY <2>1, <2>2, <2>3, <2>4, TakeTyped
  <2>5. CASE Move(w, "query") /\ UNCHANGED <<job, held, phase>>
    <3>1. FlowOK' /\ step'[w] = "query" /\ job'[w] = job[w]
      BY <1>1, <2>5, MoveTyped, SomeSteps
    <3> QED  BY <1>1, <2>1, <2>2, <3>1 DEF Shape, Holding
  <2> QED  BY <1>4, <2>4, <2>5 DEF GetCopy
<1>5. CASE QueryCopy(w)
  <2>1. StoreOK' /\ now' = now /\ step[w] = "query"
    BY <1>1, <1>5 DEF StoreOK, QueryCopy, subStore, AtStep
  <2>2. job[w] \notin {"scan", "count"}
    BY <1>1, <2>1 DEF Shape
  <2>3. CASE Leave(w)
    BY <1>1, <2>1, <2>3, LeaveTyped
  <2>4. CASE ~Leave(w)
    <3>1. FlowOK' /\ step'[w] = "fill" /\ job'[w] = job[w] /\ held'[w] = sub
      BY <1>1, <1>5, <2>4, HoldTyped, SomeSteps DEF QueryCopy
    <3> QED  BY <1>1, <2>1, <2>2, <3>1 DEF Shape, Holding
  <2> QED  BY <2>3, <2>4
<1>6. CASE FillCopy(w)
  <2>1. now' = now /\ step[w] = "fill" /\ Take(w, held[w])
    BY <1>6 DEF FillCopy, AtStep
  <2>2. job[w] \notin {"scan", "count"} /\ held[w] \in SubRow
    BY <1>1, <2>1 DEF Shape, Holding
  <2>3. StoreOK'
    BY <1>1, <1>6, <2>2 DEF StoreOK, FillCopy
  <2> QED  BY <1>1, <2>1, <2>2, <2>3, TakeTyped
<1> QED  BY <1>2, <1>3, <1>4, <1>5, <1>6

LEMMA CountingFinite == IsFiniteSet(CountingNow) /\ Cardinality(CountingNow) \in Nat
<1>1. CountingNow \subseteq Worker
  BY DEF CountingNow
<1> QED  BY <1>1, FS_Subset, FS_CardinalityType, SubAssumption

LEMMA WriteTyped ==
    ASSUME TypeInv, NEW w \in Worker,
           SaveRow(w) \/ CountTraffic(w) \/ RemoveRow(w) \/ DropCopies(w)
    PROVE  StoreOK' /\ FlowOK' /\ Shape(w)' /\ now' = now
<1>1. StoreOK /\ FlowOK /\ Shape(w) /\ sub \in SubRow /\ SubTypeOK
  BY TypeParts DEF StoreOK, TypeInv
<1>2. ASSUME AtStep(w, "save"), Leave(w) \/ (Move(w, "drop") /\ UNCHANGED <<job, held, phase>>)
      PROVE  FlowOK' /\ Shape(w)'
  <2>1. CASE Leave(w)
    BY <1>1, <2>1, LeaveTyped
  <2>2. CASE Move(w, "drop") /\ UNCHANGED <<job, held, phase>>
    <3>1. FlowOK' /\ step'[w] = "drop" /\ job'[w] = job[w]
      BY <1>1, <2>2, MoveTyped, SomeSteps
    <3> QED  BY <1>1, <1>2, <3>1 DEF Shape, Holding, AtStep
  <2> QED  BY <1>2, <2>1, <2>2
<1>3. CASE SaveRow(w)
  <2>1. AtStep(w, "save") /\ job[w] \in Savers /\ now' = now
    BY <1>3 DEF SaveRow
  <2>2. FlowOK' /\ Shape(w)'
    BY <1>2, <1>3, <2>1 DEF SaveRow
  <2>3. held[w] \in SubRow /\ (job[w] = "period" => held[w].exp >= 1)
    BY <1>1, <2>1 DEF Shape, AtStep
  <2>4. SavedRows(job[w], held[w]) \subseteq SubRow
    BY <1>1, <2>1, <2>3, RowsAreRows
  <2>5. sub' \in SubRow
    BY <1>1, <1>3, <2>4 DEF SaveRow
  <2>6. spent' \in Nat
    <3>1. Underway \in Nat /\ spent \in Nat
      BY <1>1, CountingFinite DEF Underway, StoreOK
    <3>2. sub'.used + Underway \in Nat
      BY <2>5, <3>1 DEF SubRow
    <3>3. spent' = sub'.used + Underway \/ spent' = spent
      BY <1>3 DEF SaveRow
    <3> QED  BY <3>1, <3>2, <3>3
  <2>7. StoreOK'
    BY <1>1, <1>3, <2>5, <2>6 DEF SaveRow, StoreOK
  <2> QED  BY <2>1, <2>2, <2>7
<1>4. CASE CountTraffic(w)
  <2>1. AtStep(w, "save") /\ now' = now
    BY <1>4 DEF CountTraffic
  <2>2. FlowOK' /\ Shape(w)'
    BY <1>2, <1>4, <2>1 DEF CountTraffic
  <2>3. sub' \in SubRow
    BY <1>1, <1>4, RowsAreRows DEF CountTraffic
  <2>4. StoreOK'
    BY <1>1, <1>4, <2>3 DEF CountTraffic, StoreOK
  <2> QED  BY <2>1, <2>2, <2>4
<1>5. CASE RemoveRow(w)
  <2>1. AtStep(w, "save") /\ now' = now
    BY <1>5 DEF RemoveRow
  <2>2. FlowOK' /\ Shape(w)'
    BY <1>2, <1>5, <2>1 DEF RemoveRow
  <2>3. sub' \in SubRow
    BY <1>1, <1>5, RowsAreRows DEF RemoveRow
  <2>4. StoreOK'
    BY <1>1, <1>5, <2>3 DEF RemoveRow, StoreOK
  <2> QED  BY <2>1, <2>2, <2>4
<1>6. CASE DropCopies(w)
  <2>1. Leave(w) /\ now' = now
    BY <1>6 DEF DropCopies
  <2>2. StoreOK'
    BY <1>1, <1>6 DEF DropCopies, DropKeys, StoreOK
  <2> QED  BY <1>1, <2>1, <2>2, LeaveTyped
<1> QED  BY <1>3, <1>4, <1>5, <1>6

LEMMA EraseTyped ==
    ASSUME TypeInv, NEW w \in Worker, EraseLock(w) \/ EraseWipe(w) \/ EraseCommit(w)
    PROVE  StoreOK' /\ FlowOK' /\ Shape(w)' /\ now' = now
<1>1. StoreOK /\ FlowOK /\ Shape(w) /\ sub \in SubRow /\ SubTypeOK
  BY TypeParts DEF StoreOK, TypeInv
<1>2. CASE EraseLock(w)
  <2>1. now' = now /\ step[w] = "lock"
    BY <1>2 DEF EraseLock, AtStep
  <2>2. StoreOK'
    BY <1>1, <1>2 DEF EraseLock, StoreOK
  <2>3. CASE Leave(w)
    BY <1>1, <2>1, <2>2, <2>3, LeaveTyped
  <2>4. CASE ~Leave(w)
    <3>1. FlowOK' /\ step'[w] = "wipe" /\ job'[w] = job[w]
      BY <1>1, <1>2, <2>4, MoveTyped, SomeSteps DEF EraseLock
    <3> QED  BY <1>1, <2>1, <2>2, <3>1 DEF Shape, Holding
  <2> QED  BY <2>3, <2>4
<1>3. CASE EraseWipe(w)
  <2>1. now' = now /\ step[w] = "wipe"
    BY <1>3 DEF EraseWipe, AtStep
  <2>2. StoreOK'
    BY <1>1, <1>3 DEF EraseWipe, DropKeys, StoreOK
  <2>3. FlowOK' /\ step'[w] = "erased" /\ job'[w] = job[w]
    BY <1>1, <1>3, MoveTyped, SomeSteps DEF EraseWipe
  <2> QED  BY <1>1, <2>1, <2>2, <2>3 DEF Shape, Holding
<1>4. CASE EraseCommit(w)
  <2>1. Leave(w) /\ now' = now
    BY <1>4 DEF EraseCommit
  <2>2. sub' \in SubRow
    BY <1>1, <1>4, RowsAreRows DEF EraseCommit
  <2>3. StoreOK'
    BY <1>1, <1>4, <2>2 DEF EraseCommit, StoreOK
  <2> QED  BY <1>1, <2>1, <2>3, LeaveTyped
<1> QED  BY <1>2, <1>3, <1>4

LEMMA ListTyped ==
    ASSUME TypeInv, NEW w \in Worker, GetList(w) \/ QueryList(w) \/ SetList(w)
    PROVE  StoreOK' /\ FlowOK' /\ Shape(w)' /\ now' = now
<1>1. StoreOK /\ FlowOK /\ Shape(w) /\ sub \in SubRow
  BY TypeParts DEF StoreOK
<1>2. CASE GetList(w)
  <2>1. StoreOK' /\ now' = now /\ step[w] = "listGet"
    BY <1>1, <1>2 DEF StoreOK, GetList, subStore, AtStep
  <2>2. CASE Leave(w)
    BY <1>1, <2>1, <2>2, LeaveTyped
  <2>3. CASE ~Leave(w)
    <3>1. FlowOK' /\ step'[w] = "listQuery" /\ job'[w] = job[w]
      BY <1>1, <1>2, <2>3, MoveTyped, SomeSteps DEF GetList
    <3> QED  BY <1>1, <2>1, <3>1 DEF Shape, Holding
  <2> QED  BY <2>2, <2>3
<1>3. CASE QueryList(w)
  <2>1. StoreOK' /\ now' = now /\ step[w] = "listQuery"
    BY <1>1, <1>3 DEF StoreOK, QueryList, subStore, AtStep
  <2>2. CASE Leave(w)
    BY <1>1, <2>1, <2>2, LeaveTyped
  <2>3. CASE ~Leave(w)
    <3>1. FlowOK' /\ step'[w] = "listSet" /\ job'[w] = job[w] /\ held'[w] = sub
      BY <1>1, <1>3, <2>3, HoldTyped, SomeSteps DEF QueryList
    <3> QED  BY <1>1, <2>1, <3>1 DEF Shape, Holding
  <2> QED  BY <2>2, <2>3
<1>4. CASE SetList(w)
  <2>1. StoreOK' /\ now' = now /\ Leave(w)
    BY <1>1, <1>4 DEF StoreOK, SetList, Listed
  <2> QED  BY <1>1, <2>1, LeaveTyped
<1> QED  BY <1>2, <1>3, <1>4

LEMMA ScanTyped ==
    ASSUME TypeInv, NEW w \in Worker,
           ScanSelect(w) \/ ScanClose(w) \/ ScanClear(w) \/ ScanCommit(w)
    PROVE  StoreOK' /\ FlowOK' /\ Shape(w)' /\ now' = now
<1>1. StoreOK /\ FlowOK /\ Shape(w) /\ sub \in SubRow /\ SubTypeOK
  BY TypeParts DEF StoreOK, TypeInv
<1>2. ASSUME step[w] \in {"select", "close", "clear", "commit"}  PROVE job[w] = "scan"
  BY <1>1, <1>2 DEF Shape
<1>3. ASSUME now' = now, NEW r, Due(phase[w], r), phase'[w] = phase[w], held'[w] = r
      PROVE  Due(phase[w], held[w])'
  BY <1>3 DEF Due, UsedUp, Overdue
<1>4. CASE ScanSelect(w)
  <2>1. StoreOK' /\ now' = now /\ step[w] = "select"
    BY <1>1, <1>4 DEF StoreOK, ScanSelect, subStore, AtStep
  <2>2. CASE EndPhase(w)
    BY <1>1, <1>2, <2>1, <2>2, EndPhaseTyped
  <2>3. CASE ~EndPhase(w)
    <3>1. /\ FlowOK' /\ step'[w] = "close" /\ job'[w] = job[w] /\ held'[w] = sub
          /\ phase'[w] = phase[w]
      BY <1>1, <1>4, <2>3, HoldTyped, SomeSteps DEF ScanSelect
    <3>2. Due(phase[w], sub)
      BY <1>4, <2>3 DEF ScanSelect
    <3>3. Due(phase[w], held[w])'
      BY <1>3, <2>1, <3>1, <3>2
    <3> QED  BY <1>1, <1>2, <2>1, <3>1, <3>3 DEF Shape, Holding
  <2> QED  BY <2>2, <2>3
<1>5. CASE ScanClose(w)
  <2>1. now' = now /\ step[w] = "close"
    BY <1>5 DEF ScanClose, AtStep
  <2>2. StoreOK'
    BY <1>1, <1>5 DEF StoreOK, ScanClose
  <2>3. /\ FlowOK' /\ step'[w] = "clear" /\ job'[w] = job[w] /\ held'[w] = held[w]
        /\ phase'[w] = phase[w]
    BY <1>1, <1>5, MoveTyped, SomeSteps DEF ScanClose
  <2>4. held[w] \in SubRow /\ Due(phase[w], held[w])
    BY <1>1, <2>1 DEF Shape, Holding
  <2>5. Due(phase[w], held[w])'
    BY <1>3, <2>1, <2>3, <2>4
  <2> QED  BY <1>1, <1>2, <2>1, <2>2, <2>3, <2>4, <2>5 DEF Shape, Holding
<1>6. CASE ScanClear(w)
  <2>1. now' = now /\ step[w] = "clear"
    BY <1>6 DEF ScanClear, AtStep
  <2>2. StoreOK'
    BY <1>1, <1>6 DEF StoreOK, ScanClear, DropKeys
  <2>3. /\ FlowOK' /\ step'[w] = "commit" /\ job'[w] = job[w] /\ held'[w] = held[w]
        /\ phase'[w] = phase[w]
    BY <1>1, <1>6, MoveTyped, SomeSteps DEF ScanClear
  <2>4. held[w] \in SubRow /\ Due(phase[w], held[w])
    BY <1>1, <2>1 DEF Shape, Holding
  <2>5. Due(phase[w], held[w])'
    BY <1>3, <2>1, <2>3, <2>4
  <2> QED  BY <1>1, <1>2, <2>1, <2>2, <2>3, <2>4, <2>5 DEF Shape, Holding
<1>7. CASE ScanCommit(w)
  <2>1. now' = now /\ step[w] = "commit" /\ EndPhase(w)
    BY <1>7 DEF ScanCommit, AtStep
  <2>2. sub' \in SubRow
    BY <1>1, <1>7, RowsAreRows DEF ScanCommit
  <2>3. StoreOK'
    BY <1>1, <1>7, <2>2 DEF ScanCommit, StoreOK
  <2> QED  BY <1>1, <1>2, <2>1, <2>3, EndPhaseTyped
<1> QED  BY <1>4, <1>5, <1>6, <1>7

LEMMA FailTyped ==
    ASSUME TypeInv, NEW w \in Worker,
           \/ JobFails(w) \/ CountCrashes(w)
           \/ ScanFails(w) \/ NotifyFails(w) \/ ScanCrashes(w)
    PROVE  StoreOK' /\ FlowOK' /\ Shape(w)' /\ now' = now
<1>1. StoreOK /\ FlowOK /\ Shape(w)
  BY TypeParts
<1>2. CASE JobFails(w) \/ CountCrashes(w) \/ ScanCrashes(w)
  <2>1. Leave(w) /\ now' = now
    BY <1>2 DEF JobFails, CountCrashes, ScanCrashes, subStore
  <2>2. StoreOK'
    BY <1>1, <1>2 DEF JobFails, CountCrashes, ScanCrashes, subStore, StoreOK
  <2> QED  BY <1>1, <2>1, <2>2, LeaveTyped
<1>3. CASE ScanFails(w)
  <2>1. EndPhase(w) /\ now' = now /\ job[w] = "scan"
    BY <1>3 DEF ScanFails
  <2>2. StoreOK'
    BY <1>1, <1>3 DEF ScanFails, StoreOK
  <2> QED  BY <1>1, <2>1, <2>2, EndPhaseTyped
<1>4. CASE NotifyFails(w)
  <2>1. StoreOK' /\ now' = now /\ step[w] = "clear"
    BY <1>1, <1>4 DEF NotifyFails, subStore, StoreOK, AtStep
  <2>2. /\ FlowOK' /\ step'[w] = "commit" /\ job'[w] = job[w] /\ held'[w] = held[w]
        /\ phase'[w] = phase[w]
    BY <1>1, <1>4, MoveTyped, SomeSteps DEF NotifyFails
  <2>3. held[w] \in SubRow /\ Due(phase[w], held[w]) /\ job[w] = "scan"
    BY <1>1, <2>1 DEF Shape, Holding
  <2>4. Due(phase[w], held[w])'
    BY <2>1, <2>2, <2>3 DEF Due, UsedUp, Overdue
  <2> QED  BY <2>1, <2>2, <2>3, <2>4 DEF Shape, Holding
<1> QED  BY <1>2, <1>3, <1>4

LEMMA TypeStep == TypeInv /\ [SubNext]_subVars => TypeInv'
<1> SUFFICES ASSUME TypeInv, [SubNext]_subVars  PROVE TypeInv'
  OBVIOUS
<1>1. StoreOK /\ FlowOK /\ SubTypeOK /\ now \in Nat
  BY TypeParts, SubAssumption DEF TypeInv, StoreOK, Month
<1>2. ASSUME UNCHANGED subFlow, now' \in Month, now <= now', StoreOK'
      PROVE  TypeInv'
  <2>1. FlowOK'
    BY <1>1, <1>2 DEF FlowOK, subFlow
  <2>2. now' \in Nat
    BY <1>2, SubAssumption DEF Month
  <2>3. ASSUME NEW v \in Worker  PROVE Shape(v)'
    BY <1>2, <2>2, ShapeStays DEF subFlow
  <2> QED  BY <1>2, <2>1, <2>3 DEF TypeInv, SubTypeOK, StoreOK, FlowOK
<1>3. CASE PushTraffic
  BY <1>1, <1>2, <1>3 DEF PushTraffic, subStore, StoreOK
<1>4. CASE Tick
  <2>1. now' \in Month /\ now <= now'
    BY <1>1, <1>4, SubAssumption DEF Tick, Month, StoreOK
  <2> QED  BY <1>1, <1>2, <1>4, <2>1 DEF Tick, subStore, StoreOK
<1>5. CASE EditPlan \/ EditNode
  <2>1. /\ UNCHANGED <<now, sub, subLock, copies, list, reports, subFlow, spent>>
        /\ serves' = ~serves
    BY <1>5 DEF EditPlan, EditNode, Reassign
  <2>2. serves' \in BOOLEAN
    BY <2>1
  <2>3. StoreOK'
    BY <1>1, <2>1, <2>2 DEF StoreOK
  <2>4. now' \in Month /\ now <= now'
    BY <1>1, <2>1 DEF StoreOK
  <2> QED  BY <1>2, <2>1, <2>3, <2>4
<1>6. CASE UNCHANGED subVars
  <2>1. UNCHANGED <<now, subStore, reports, subFlow, spent>>
    BY <1>6 DEF subVars
  <2> QED  BY <1>1, <1>2, <2>1 DEF StoreOK, subStore
<1>7. ASSUME NEW w \in Worker, Acts(w)
      PROVE  TypeInv'
  <2>1. StoreOK' /\ FlowOK' /\ Shape(w)' /\ now' = now
    BY <1>7, BeginTyped, ReadTyped, WriteTyped, EraseTyped, ListTyped, ScanTyped, FailTyped
       DEF Acts, JobStep
  <2>2. Alone(w)
    BY <1>1, <1>7, ActsAlone
  <2>3. ASSUME NEW v \in Worker \ {w}  PROVE Shape(v)'
    BY <1>1, <2>1, <2>2, ShapeStays DEF Alone
  <2>4. \A v \in Worker : Shape(v)'
    BY <2>1, <2>3
  <2> QED  BY <2>1, <2>4 DEF TypeInv, SubTypeOK, StoreOK, FlowOK
<1> QED  BY <1>3, <1>4, <1>5, <1>6, <1>7 DEF SubNext, Acts

\* The row and its copies are rows, every worker is at a step of its job, and
\* what it holds there is a row it read; the subscription's columns never
\* leave their range, a period is never shortened below the first month.
THEOREM SubTypeCorrect == SubSpec => [](SubTypeOK /\ TypeInv)
<1>1. TypeInv => SubTypeOK
  BY DEF TypeInv
<1> QED  BY <1>1, InitType, TypeStep, PTL DEF SubSpec

(***************************************************************************)
(* What a scan closes, and how an active row comes to count as finished.   *)
(***************************************************************************)
\* The scan that commits.
LEMMA CommitCloses ==
    ASSUME TypeInv, NEW w \in Worker, NEW v \in Worker, Acts(v),
           AtStep(w, "commit"), step'[w] # "commit", sub' # sub
    PROVE  Due(phase[w], sub) \/ "lateScan" \in causes'
<1>1. SubTypeOK /\ Shape(w) /\ FlowOK
  BY TypeParts DEF TypeInv
<1>2. v = w
  BY <1>1, ActsAlone DEF Alone, AtStep
<1>3. step[w] = "commit" /\ job[w] = "scan" /\ Due(phase[w], held[w])
  BY <1>1 DEF Shape, AtStep
<1>4. CASE ScanCommit(w)
  BY <1>3, <1>4 DEF ScanCommit, BlameIf, Blame
<1>5. CASE ScanCrashes(w)
  BY <1>5 DEF ScanCrashes
<1> QED  BY <1>2, <1>3, <1>4, <1>5 DEF Acts, BeginRequest, BeginCount, BeginScan, BeginJob, JobStep,
   CheckRefund, ReadRow, GetCopy, QueryCopy, FillCopy, SaveRow, CountTraffic, RemoveRow,
   DropCopies, EraseLock, EraseWipe, EraseCommit, GetList, QueryList, SetList, ScanSelect,
   ScanClose, ScanClear, JobFails, CountCrashes, ScanFails, NotifyFails, AtStep

\* The scan closes a row only when it is due, used up or over and not yet
\* finished, or when the row changed between its query and its commit.
THEOREM ScanClosesOnlyDue == SubSpec => ClosesOnlyDue
<1> DEFINE Closes(w) == AtStep(w, "commit") /\ step'[w] # "commit" /\ sub' # sub =>
                           Due(phase[w], sub) \/ "lateScan" \in causes'
<1>1. TypeInv /\ [SubNext]_subVars => [\A w \in Worker : Closes(w)]_subVars
  <2> SUFFICES ASSUME TypeInv, SubNext, NEW w \in Worker, AtStep(w, "commit"),
                      step'[w] # "commit", sub' # sub
               PROVE  Due(phase[w], sub) \/ "lateScan" \in causes'
    OBVIOUS
  <2>1. ~PushTraffic /\ ~Tick /\ ~EditPlan /\ ~EditNode
    BY DEF PushTraffic, Tick, EditPlan, EditNode, Reassign, subStore, subFlow, AtStep
  <2>2. \E v \in Worker : Acts(v)
    BY <2>1 DEF SubNext, Acts
  <2> QED  BY <2>2, CommitCloses
<1> QED  BY <1>1, SubTypeCorrect, PTL DEF SubSpec, ClosesOnlyDue

\* A save makes an active finished row only of a reset, or of such a row.
LEMMA SaveFinishes ==
    ASSUME SubTypeOK, NEW r \in SubRow, NEW j \in Savers, NEW x \in SavedRows(j, r),
           ActiveFinished(x)
    PROVE  j = "reset" \/ ActiveFinished(r)
<1>1. j \in {"renew", "reset", "unsubscribe", "edit", "period", "token"}
  BY DEF Savers, Direct, Cached
<1>2. CASE j = "renew"
  <2>1. x = Renewed(r)
    BY <1>2 DEF SavedRows
  <2>2. ~x.finished
    <3> DEFINE e == Larger(r.exp, now) + 1
               u == IF RenewalReset THEN r.used ELSE 0
    <3>1. x = [r EXCEPT !.status = Active, !.exp = e, !.finished = FALSE, !.used = u]
      BY <2>1 DEF Renewed
    <3> HIDE DEF e, u
    <3> QED  BY <3>1 DEF SubRow
  <2> QED  BY <2>2 DEF ActiveFinished
<1>3. CASE j = "unsubscribe"
  <2>1. x = [r EXCEPT !.status = Deducted]
    BY <1>3 DEF SavedRows
  <2> QED  BY <2>1 DEF ActiveFinished, SubRow, Deducted, Active
<1>4. CASE j = "edit"
  <2>1. PICK u \in {0, Quota}, e \in {Forever, now} :
            x = [status |-> r.status, used |-> u, exp |-> e, finished |-> FALSE]
    BY <1>4, SMT DEF SavedRows, Edited
  <2> QED  BY <2>1 DEF ActiveFinished
<1>5. CASE j = "period"
  <2>1. x = [r EXCEPT !.exp = @ - 1]
    BY <1>5 DEF SavedRows
  <2> QED  BY <2>1 DEF ActiveFinished, SubRow
<1>6. CASE j = "token"
  BY <1>6 DEF SavedRows
<1> QED  BY <1>1, <1>2, <1>3, <1>4, <1>5, <1>6

\* An active row counts as finished only because a traffic reset reopened it
\* and kept finished_at, or because such a row was saved again.
THEOREM OnlyResetFinishes == SubSpec => FinishedOnlyByReset
<1> DEFINE Finishes == ActiveFinished(sub') /\ ~ActiveFinished(sub) =>
                          \E w \in Worker :
                            /\ AtStep(w, "save") /\ job[w] \in Savers
                            /\ job[w] = "reset" \/ ActiveFinished(held[w])
<1>1. TypeInv /\ [SubNext]_subVars => [Finishes]_subVars
  <2> SUFFICES ASSUME TypeInv, SubNext, ActiveFinished(sub'), ~ActiveFinished(sub)
               PROVE  \E w \in Worker :
                        /\ AtStep(w, "save") /\ job[w] \in Savers
                        /\ job[w] = "reset" \/ ActiveFinished(held[w])
    OBVIOUS
  <2>1. SubTypeOK /\ sub \in SubRow
    BY DEF TypeInv, SubTypeOK
  <2>2. ASSUME NEW w \in Worker, SaveRow(w)
        PROVE  /\ AtStep(w, "save") /\ job[w] \in Savers
               /\ job[w] = "reset" \/ ActiveFinished(held[w])
    <3>1. AtStep(w, "save") /\ job[w] \in Savers
      BY <2>2 DEF SaveRow
    <3>2. held[w] \in SubRow
      BY <3>1 DEF TypeInv, Shape, AtStep
    <3>3. sub' \in SavedRows(job[w], held[w])
      BY <2>2 DEF SaveRow
    <3> QED  BY <2>1, <3>1, <3>2, <3>3, SaveFinishes
  <2>3. ASSUME NEW w \in Worker, CountTraffic(w)  PROVE FALSE
    <3>1. sub' = [sub EXCEPT !.used = @ + 1]
      BY <2>3 DEF CountTraffic
    <3> QED  BY <2>1, <3>1 DEF ActiveFinished, SubRow
  <2>4. ASSUME NEW w \in Worker, RemoveRow(w)  PROVE FALSE
    <3>1. sub' = [sub EXCEPT !.status = Gone]
      BY <2>4 DEF RemoveRow
    <3> QED  BY <2>1, <3>1 DEF ActiveFinished, SubRow, Gone, Active
  <2>11. ASSUME NEW w \in Worker, EraseCommit(w)  PROVE FALSE
    <3>1. sub' = [sub EXCEPT !.status = Gone]
      BY <2>11 DEF EraseCommit
    <3> QED  BY <2>1, <3>1 DEF ActiveFinished, SubRow, Gone, Active
  <2>5. ASSUME NEW w \in Worker, ScanCommit(w)  PROVE FALSE
    <3>1. sub' = Closing(phase[w], sub)
      BY <2>5 DEF ScanCommit
    <3>2. Closing(phase[w], sub).status \in {Finished, Expired}
      <4> DEFINE x == IF phase[w] = "quota" THEN Finished ELSE Expired
      <4>1. Closing(phase[w], sub).status = x
        <5>1. Closing(phase[w], sub) = [sub EXCEPT !.status = x, !.finished = TRUE]
          BY DEF Closing
        <5> HIDE DEF x
        <5> QED  BY <2>1, <5>1 DEF SubRow
      <4> QED  BY <4>1
    <3> QED  BY <3>1, <3>2 DEF ActiveFinished, Finished, Expired, Active
  <2>6. ASSUME sub' = sub  PROVE FALSE
    BY <2>6
  <2>7. SubNext <=> \/ PushTraffic \/ Tick \/ EditPlan \/ EditNode \/ \E w \in Worker : Acts(w)
    BY DEF SubNext, Acts
  <2>8. ~PushTraffic /\ ~Tick /\ ~EditPlan /\ ~EditNode
    BY <2>6 DEF PushTraffic, Tick, EditPlan, EditNode, Reassign, subStore
  <2>9. PICK w \in Worker : Acts(w)
    BY <2>7, <2>8
  <2>10. SaveRow(w) \/ CountTraffic(w) \/ RemoveRow(w) \/ EraseCommit(w) \/ ScanCommit(w)
    BY <2>6, <2>9 DEF Acts, BeginRequest, BeginCount, BeginScan, BeginJob, JobStep,
       CheckRefund, ReadRow, GetCopy, QueryCopy, FillCopy, DropCopies, EraseLock, EraseWipe,
       GetList, QueryList, SetList, ScanSelect, ScanClose, ScanClear, JobFails, CountCrashes,
       ScanFails, NotifyFails, ScanCrashes, subStore
  <2> QED  BY <2>2, <2>3, <2>4, <2>5, <2>10, <2>11
<1> QED  BY <1>1, SubTypeCorrect, PTL DEF SubSpec, FinishedOnlyByReset

(***************************************************************************)
(* The traffic: what the row shows and what is on its way.                 *)
(***************************************************************************)
\* A worker has a traffic task it has not added yet.
Counting(w) == AtStep(w, "save") /\ job[w] = "count"

LEMMA CountingSame ==
    ASSUME NEW w \in Worker, Alone(w), Counting(w)' <=> Counting(w)
    PROVE  CountingNow' = CountingNow
BY DEF Alone, Counting, CountingNow, AtStep

LEMMA CountingAdded ==
    ASSUME NEW w \in Worker, Alone(w), ~Counting(w), Counting(w)'
    PROVE  Cardinality(CountingNow') = Cardinality(CountingNow) + 1
<1>1. CountingNow' = CountingNow \cup {w} /\ w \notin CountingNow
  BY DEF Alone, Counting, CountingNow, AtStep
<1> QED  BY <1>1, CountingFinite, FS_AddElement

LEMMA CountingDone ==
    ASSUME NEW w \in Worker, Alone(w), Counting(w), ~Counting(w)'
    PROVE  Cardinality(CountingNow') = Cardinality(CountingNow) - 1
<1>1. CountingNow' = CountingNow \ {w} /\ w \in CountingNow
  BY DEF Alone, Counting, CountingNow, AtStep
<1> QED  BY <1>1, CountingFinite, FS_RemoveElement

\* Where the flow operators lead.
LEMMA LeaveEnds ==
    ASSUME FlowOK, NEW w \in Worker, Leave(w) \/ EndPhase(w)
    PROVE  step'[w] \in {"idle", "select"}
BY DEF FlowOK, Leave, EndPhase, Move

LEMMA TakeEnds ==
    ASSUME FlowOK, NEW w \in Worker, NEW r, Take(w, r)
    PROVE  step'[w] = "idle" \/ (step'[w] = "save" /\ job' = job)
BY DEF FlowOK, Take, Leave, Move

TrafficCauses == {"reportLost", "countedTwice", "staleSave"}
TrafficInv ==
    causes \cap TrafficCauses = {} => sub.status = Gone \/ sub.used + Underway = spent

\* The steps that touch neither the row nor the traffic.
LEMMA QuietTraffic ==
    ASSUME TypeInv, NEW w \in Worker,
           \/ BeginRequest(w) \/ BeginScan(w)
           \/ CheckRefund(w) \/ ReadRow(w) \/ GetCopy(w) \/ QueryCopy(w) \/ FillCopy(w)
           \/ DropCopies(w) \/ EraseLock(w) \/ EraseWipe(w)
           \/ GetList(w) \/ QueryList(w) \/ SetList(w)
           \/ ScanSelect(w) \/ ScanClose(w) \/ ScanClear(w)
           \/ ScanFails(w) \/ NotifyFails(w) \/ ScanCrashes(w)
    PROVE  ~Counting(w) /\ ~Counting(w)' /\ UNCHANGED <<sub, reports, spent>>
<1>1. FlowOK /\ Shape(w)
  BY TypeParts
<1> USE DEF Counting, AtStep, subStore
<1>2. CASE BeginRequest(w)
  <2>1. UNCHANGED <<sub, reports, spent>> /\ step[w] = "idle"
    BY <1>2 DEF BeginRequest, BeginJob
  <2>2. job'[w] # "count"
    BY <1>1, <1>2 DEF BeginRequest, BeginJob, FlowOK
  <2> QED  BY <2>1, <2>2
<1>3. CASE BeginScan(w)
  <2>1. UNCHANGED <<sub, reports, spent>> /\ step[w] = "idle"
    BY <1>3 DEF BeginScan
  <2>2. step'[w] = "select"
    BY <1>1, <1>3 DEF BeginScan, Move, FlowOK
  <2> QED  BY <2>1, <2>2
<1>4. CASE CheckRefund(w) \/ QueryCopy(w)
  <2>1. UNCHANGED <<sub, reports, spent>> /\ step[w] \in {"check", "query"}
    BY <1>4 DEF CheckRefund, QueryCopy
  <2>2. step'[w] # "save"
    BY <1>1, <1>4, LeaveEnds DEF CheckRefund, QueryCopy, Move, FlowOK
  <2> QED  BY <2>1, <2>2
<1>5. CASE ReadRow(w) \/ GetCopy(w) \/ FillCopy(w)
  <2>1. UNCHANGED <<sub, reports, spent>> /\ step[w] \in {"read", "get", "fill"}
    BY <1>5 DEF ReadRow, GetCopy, FillCopy
  <2>2. job[w] # "count"
    BY <1>1, <2>1 DEF Shape
  <2>3. step'[w] # "save" \/ job'[w] = job[w]
    <3>1. ASSUME NEW r, Take(w, r)  PROVE step'[w] # "save" \/ job'[w] = job[w]
      BY <1>1, <3>1, TakeEnds
    <3>2. CASE Move(w, "query") /\ UNCHANGED <<job, held, phase>>
      BY <3>2
    <3> QED  BY <1>5, <3>1, <3>2 DEF ReadRow, GetCopy, FillCopy
  <2> QED  BY <2>1, <2>2, <2>3
<1>6. CASE DropCopies(w)
  <2>1. UNCHANGED <<sub, reports, spent>> /\ step[w] = "drop"
    BY <1>6 DEF DropCopies
  <2>2. step'[w] # "save"
    BY <1>1, <1>6, LeaveEnds DEF DropCopies
  <2> QED  BY <2>1, <2>2
<1>11. CASE EraseLock(w) \/ EraseWipe(w)
  <2>1. UNCHANGED <<sub, reports, spent>> /\ step[w] \in {"lock", "wipe"}
    BY <1>11 DEF EraseLock, EraseWipe
  <2>2. step'[w] # "save"
    BY <1>1, <1>11, LeaveEnds DEF EraseLock, EraseWipe, Move, FlowOK
  <2> QED  BY <2>1, <2>2
<1>7. CASE GetList(w) \/ QueryList(w) \/ SetList(w)
  <2>1. UNCHANGED <<sub, reports, spent>> /\ step[w] \in {"listGet", "listQuery", "listSet"}
    BY <1>7 DEF GetList, QueryList, SetList
  <2>2. step'[w] # "save"
    BY <1>1, <1>7, LeaveEnds DEF GetList, QueryList, SetList, Move, FlowOK
  <2> QED  BY <2>1, <2>2
<1>8. CASE ScanSelect(w) \/ ScanClose(w) \/ ScanClear(w)
  <2>1. UNCHANGED <<sub, reports, spent>> /\ step[w] \in {"select", "close", "clear"}
    BY <1>8 DEF ScanSelect, ScanClose, ScanClear
  <2>2. step'[w] # "save"
    BY <1>1, <1>8, LeaveEnds DEF ScanSelect, ScanClose, ScanClear, Move, FlowOK
  <2> QED  BY <2>1, <2>2
<1>9. CASE ScanFails(w) \/ ScanCrashes(w)
  <2>1. UNCHANGED <<sub, reports, spent>> /\ job[w] = "scan"
    BY <1>9 DEF ScanFails, ScanCrashes
  <2>2. step'[w] # "save"
    BY <1>1, <1>9, LeaveEnds DEF ScanFails, ScanCrashes
  <2> QED  BY <2>1, <2>2
<1>10. CASE NotifyFails(w)
  <2>1. UNCHANGED <<sub, reports, spent>> /\ step[w] = "clear"
    BY <1>10 DEF NotifyFails
  <2>2. step'[w] # "save"
    BY <1>1, <1>10 DEF NotifyFails, Move, FlowOK
  <2> QED  BY <2>1, <2>2
<1> QED  BY <1>2, <1>3, <1>4, <1>5, <1>6, <1>7, <1>8, <1>9, <1>10, <1>11

\* The causes only grow.
LEMMA CausesGrow == [SubNext]_subVars => causes \subseteq causes'
<1> SUFFICES ASSUME [SubNext]_subVars  PROVE causes \subseteq causes'
  OBVIOUS
<1>1. CASE UNCHANGED subVars
  BY <1>1 DEF subVars
<1>2. CASE PushTraffic \/ Tick \/ EditPlan \/ EditNode
  BY <1>2 DEF PushTraffic, Tick, EditPlan, EditNode, Reassign, Blame
<1>3. ASSUME NEW w \in Worker, Acts(w)  PROVE causes \subseteq causes'
  BY <1>3 DEF Acts, BeginRequest, BeginCount, BeginScan, BeginJob, JobStep, SaveRow,
       CheckRefund, ReadRow, GetCopy, QueryCopy, FillCopy, DropCopies, EraseLock, EraseWipe,
       EraseCommit, GetList, QueryList, SetList, ScanSelect, ScanClose, ScanClear, ScanCommit, CountTraffic, RemoveRow,
       JobFails, CountCrashes, ScanFails, NotifyFails, ScanCrashes, Blame, BlameIf
<1> QED  BY <1>1, <1>2, <1>3 DEF SubNext, Acts

LEMMA InitTraffic == SubInit => TrafficInv
<1> SUFFICES ASSUME SubInit  PROVE TrafficInv
  OBVIOUS
<1>1. CountingNow = {}
  BY DEF SubInit, CountingNow, AtStep
<1>2. Cardinality(CountingNow) = 0
  BY <1>1, FS_EmptySet
<1> QED  BY <1>2 DEF SubInit, TrafficInv, Underway

LEMMA TrafficStep == TypeInv /\ TrafficInv /\ [SubNext]_subVars => TrafficInv'
<1> SUFFICES ASSUME TypeInv, TrafficInv, [SubNext]_subVars,
                    causes' \cap TrafficCauses = {}, sub'.status # Gone
             PROVE  sub'.used + Underway' = spent'
  BY DEF TrafficInv
<1>1. SubTypeOK /\ FlowOK /\ sub \in SubRow /\ reports \in Nat /\ spent \in Nat
  BY TypeParts DEF TypeInv, StoreOK
<1>2. causes \cap TrafficCauses = {}
  BY CausesGrow
<1>3. sub.status = Gone \/ sub.used + Underway = spent
  BY <1>2 DEF TrafficInv
<1>4. sub.used \in Nat /\ Cardinality(CountingNow) \in Nat
  BY <1>1, CountingFinite DEF SubRow
<1>5. ASSUME UNCHANGED <<sub, reports, spent>>, CountingNow' = CountingNow
      PROVE  sub'.used + Underway' = spent'
  BY <1>3, <1>5 DEF Underway
<1>6. CASE UNCHANGED subVars \/ Tick \/ EditPlan \/ EditNode
  <2>1. UNCHANGED <<sub, reports, spent, step, job>>
    BY <1>6 DEF subVars, Tick, EditPlan, EditNode, Reassign, subStore, subFlow
  <2>2. CountingNow' = CountingNow
    BY <2>1 DEF CountingNow, AtStep
  <2> QED  BY <1>5, <2>1, <2>2
<1>7. CASE PushTraffic
  <2>1. UNCHANGED <<sub, step, job>> /\ spent' = spent + 1 /\ reports' = reports + 1
    BY <1>7 DEF PushTraffic, subStore, subFlow, Blame, TrafficCauses
  <2>2. CountingNow' = CountingNow
    BY <2>1 DEF CountingNow, AtStep
  <2> QED  BY <1>1, <1>3, <1>4, <2>1, <2>2 DEF Underway
<1>8. ASSUME NEW w \in Worker, Acts(w)
      PROVE  sub'.used + Underway' = spent'
  <2>1. Alone(w) /\ Shape(w)
    BY <1>1, <1>8, ActsAlone, TypeParts
  <2>2. CASE BeginCount(w)
    <3>1. reports' = reports - 1 /\ reports > 0 /\ UNCHANGED <<sub, spent>>
      BY <2>2 DEF BeginCount, BeginJob, subStore
    <3>2. ~Counting(w) /\ step[w] = "idle"
      BY <2>2 DEF BeginCount, BeginJob, Counting, AtStep
    <3>3. Counting(w)'
      <4>1. FirstStep("count") = "save"
        BY DEF FirstStep, Direct, Cached
      <4> QED  BY <1>1, <2>2, <4>1 DEF BeginCount, BeginJob, Counting, AtStep, FlowOK, Move
    <3>4. Cardinality(CountingNow') = Cardinality(CountingNow) + 1
      BY <2>1, <3>2, <3>3, CountingAdded
    <3> QED  BY <1>1, <1>3, <1>4, <3>1, <3>4 DEF Underway
  <2>3. CASE CountTraffic(w)
    <3>1. /\ Counting(w) /\ sub.status # Gone /\ sub' = [sub EXCEPT !.used = @ + 1]
          /\ Move(w, "drop") /\ UNCHANGED <<reports, spent>>
      BY <2>3 DEF CountTraffic, Counting
    <3>2. ~Counting(w)'
      BY <1>1, <3>1 DEF Counting, AtStep, FlowOK, Move
    <3>3. Cardinality(CountingNow') = Cardinality(CountingNow) - 1
      BY <2>1, <3>1, <3>2, CountingDone
    <3>4. sub'.used = sub.used + 1
      BY <1>1, <3>1 DEF SubRow
    <3> QED  BY <1>1, <1>3, <1>4, <3>1, <3>3, <3>4 DEF Underway
  <2>4. CASE SaveRow(w)
    <3>1. /\ job[w] \in Savers /\ sub.status # Gone /\ held[w] = sub /\ reports' = reports
          /\ Move(w, "drop") /\ job' = job
      BY <2>4 DEF SaveRow, BlameIf, Blame, TrafficCauses
    <3>2. ~Counting(w) /\ ~Counting(w)'
      BY <1>1, <3>1 DEF Counting, AtStep, FlowOK, Move, Savers, Direct, Cached
    <3>3. CountingNow' = CountingNow
      BY <2>1, <3>2, CountingSame
    <3>4. CASE sub'.used # sub.used
      <4>1. spent' = sub'.used + Underway
        BY <2>4, <3>1, <3>4 DEF SaveRow
      <4> QED  BY <3>1, <3>3, <4>1 DEF Underway
    <3>5. CASE sub'.used = sub.used
      <4>1. spent' = spent
        BY <2>4, <3>1, <3>5 DEF SaveRow
      <4> QED  BY <1>3, <3>1, <3>3, <3>5, <4>1 DEF Underway
    <3> QED  BY <3>4, <3>5
  <2>5. CASE RemoveRow(w) \/ EraseCommit(w)
    <3>1. sub' = [sub EXCEPT !.status = Gone] \/ (sub.status = Gone /\ sub' = sub)
      BY <2>5 DEF RemoveRow, EraseCommit
    <3> QED  BY <1>1, <3>1 DEF SubRow
  <2>6. CASE ScanCommit(w)
    <3>1. UNCHANGED <<reports, spent>> /\ sub.status # Gone /\ step[w] = "commit" /\ EndPhase(w)
          /\ sub' = Closing(phase[w], sub)
      BY <2>6 DEF ScanCommit, AtStep
    <3>2. sub'.used = sub.used
      <4> DEFINE x == IF phase[w] = "quota" THEN Finished ELSE Expired
      <4>1. sub' = [sub EXCEPT !.status = x, !.finished = TRUE]
        BY <3>1 DEF Closing
      <4> HIDE DEF x
      <4> QED  BY <1>1, <4>1 DEF SubRow
    <3>3. step'[w] # "save"
      BY <1>1, <3>1, LeaveEnds
    <3>4. CountingNow' = CountingNow
      BY <2>1, <3>1, <3>3, CountingSame DEF Counting, AtStep
    <3> QED  BY <1>3, <3>1, <3>2, <3>4 DEF Underway
  <2>7. CASE JobFails(w)
    <3>1. ~Counting(w) /\ Leave(w) /\ UNCHANGED <<sub, reports, spent>>
      BY <2>7 DEF JobFails, Counting, Blame, TrafficCauses, subStore, AtStep
    <3>2. step'[w] # "save"
      BY <1>1, <3>1, LeaveEnds
    <3>3. CountingNow' = CountingNow
      BY <2>1, <3>1, <3>2, CountingSame DEF Counting, AtStep
    <3> QED  BY <1>5, <3>1, <3>3
  <2>8. CASE CountCrashes(w)
    <3>1. ~AtStep(w, "drop") /\ Leave(w) /\ UNCHANGED <<sub, spent>> /\ reports' = reports + 1
          /\ job[w] = "count"
      BY <2>8 DEF CountCrashes, BlameIf, Blame, TrafficCauses, subStore
    <3>2. Counting(w)
      BY <2>1, <3>1 DEF Shape, Counting, AtStep
    <3>3. step'[w] # "save"
      BY <1>1, <3>1, LeaveEnds
    <3>4. Cardinality(CountingNow') = Cardinality(CountingNow) - 1
      BY <2>1, <3>2, <3>3, CountingDone DEF Counting, AtStep
    <3> QED  BY <1>1, <1>3, <1>4, <3>1, <3>4 DEF Underway
  <2>9. CASE ~(\/ BeginCount(w) \/ CountTraffic(w) \/ SaveRow(w) \/ RemoveRow(w)
               \/ EraseCommit(w) \/ ScanCommit(w) \/ JobFails(w) \/ CountCrashes(w))
    <3>1. ~Counting(w) /\ ~Counting(w)' /\ UNCHANGED <<sub, reports, spent>>
      BY <1>8, <2>9, QuietTraffic DEF Acts, JobStep
    <3> QED  BY <1>5, <2>1, <3>1, CountingSame
  <2> QED  BY <2>2, <2>3, <2>4, <2>5, <2>6, <2>7, <2>8, <2>9
<1> QED  BY <1>6, <1>7, <1>8 DEF SubNext, Acts

\* The traffic the nodes reported is what the row shows and what the queue and
\* the workers still have to add, unless a report was lost, counted twice or
\* saved over; whatever scans, renewals, resets and edits do meanwhile.
THEOREM TrafficIsAccounted == SubSpec => []TrafficAccounted
<1>1. TrafficInv => TrafficAccounted
  BY DEF TrafficInv, TrafficAccounted, TrafficCauses
<1> QED  BY <1>1, InitTraffic, TrafficStep, SubTypeCorrect, PTL DEF SubSpec

(***************************************************************************)
(* The stored list of the node.                                            *)
(***************************************************************************)
ListCauses == {"lateList", "notCleared", "notFound", "reassigned"}

\* A worker has changed the row and has not dropped the copies yet.
Changing(w) == step[w] = "drop" /\ job[w] \in Savers \cup {"remove"}

\* While nothing is to blame, the plan names the node, no list is stored while
\* a scan or a user's deletion is about to commit, and a list that is not the row's belongs to a
\* worker that will still drop it.
ListInv ==
    causes \cap ListCauses = {} =>
      /\ serves = TRUE
      /\ list # Nothing => \A w \in Worker : step[w] \notin Committing
      /\ list = Nothing \/ list = Listed(sub) \/ \E w \in Worker : Changing(w)

LEMMA InitList == SubInit => ListInv
BY DEF SubInit, ListInv, Committing

\* The steps that leave the list to those who already answer for it.
LEMMA QuietList ==
    ASSUME TypeInv, NEW w \in Worker, causes' \cap ListCauses = {},
           \/ BeginRequest(w) \/ BeginCount(w) \/ BeginScan(w)
           \/ CheckRefund(w) \/ ReadRow(w) \/ GetCopy(w) \/ QueryCopy(w) \/ FillCopy(w)
           \/ EraseLock(w) \/ GetList(w) \/ QueryList(w) \/ ScanSelect(w) \/ ScanClose(w)
           \/ JobFails(w) \/ CountCrashes(w) \/ ScanFails(w) \/ ScanCrashes(w)
    PROVE  UNCHANGED <<sub, list, serves>> /\ ~Changing(w) /\ step'[w] \notin Committing
<1>1. FlowOK /\ Shape(w)
  BY TypeParts
<1>2. "count" \notin Savers \cup {"remove"} /\ "scan" \notin Savers \cup {"remove"}
  BY DEF Savers, Direct, Cached
<1> USE DEF Changing, AtStep, subStore, Committing
<1>3. CASE BeginRequest(w) \/ BeginCount(w)
  <2>1. PICK j \in Jobs \ {"scan"} : BeginJob(w, j)
    BY <1>3 DEF BeginRequest, BeginCount, Jobs
  <2>2. FirstStep(j) \notin Committing
    BY DEF FirstStep, Jobs, Direct, Cached
  <2>3. step'[w] = FirstStep(j)
    BY <1>1, <2>1 DEF BeginJob, Move, FlowOK
  <2> HIDE DEF FirstStep
  <2> QED  BY <2>1, <2>2, <2>3 DEF BeginJob
<1>4. CASE BeginScan(w)
  BY <1>1, <1>4 DEF BeginScan, Move, FlowOK
<1>5. CASE CheckRefund(w) \/ QueryCopy(w) \/ EraseLock(w) \/ GetList(w) \/ QueryList(w)
  BY <1>1, <1>5, LeaveEnds DEF CheckRefund, QueryCopy, EraseLock, GetList, QueryList, Move, FlowOK
<1>6. CASE ReadRow(w) \/ GetCopy(w) \/ FillCopy(w)
  <2>1. UNCHANGED <<sub, list, serves>> /\ step[w] \in {"read", "get", "fill"}
    BY <1>6 DEF ReadRow, GetCopy, FillCopy
  <2>2. step'[w] \notin Committing
    <3>1. ASSUME NEW r, Take(w, r)  PROVE step'[w] \notin Committing
      BY <1>1, <3>1, TakeEnds
    <3>2. CASE Move(w, "query")
      BY <1>1, <3>2 DEF Move, FlowOK
    <3> QED  BY <1>6, <3>1, <3>2 DEF ReadRow, GetCopy, FillCopy
  <2> QED  BY <2>1, <2>2
<1>7. CASE ScanSelect(w) \/ ScanClose(w)
  BY <1>1, <1>7, LeaveEnds DEF ScanSelect, ScanClose, Move, FlowOK
<1>8. CASE JobFails(w)
  <2>1. ~AtStep(w, "drop") /\ Leave(w) /\ UNCHANGED <<sub, list, serves>>
    BY <1>8 DEF JobFails, Blame, ListCauses
  <2> QED  BY <1>1, <2>1, LeaveEnds
<1>9. CASE CountCrashes(w) \/ ScanCrashes(w) \/ ScanFails(w)
  <2>1. job[w] \in {"count", "scan"} /\ UNCHANGED <<sub, list, serves>>
    BY <1>9 DEF CountCrashes, ScanCrashes, ScanFails
  <2>2. step'[w] \notin Committing
    BY <1>1, <1>9, LeaveEnds DEF CountCrashes, ScanCrashes, ScanFails
  <2> QED  BY <1>2, <2>1, <2>2
<1> QED  BY <1>3, <1>4, <1>5, <1>6, <1>7, <1>8, <1>9

LEMMA ListStep == TypeInv /\ ListInv /\ [SubNext]_subVars => ListInv'
<1> SUFFICES ASSUME TypeInv, ListInv, [SubNext]_subVars, causes' \cap ListCauses = {}
             PROVE  /\ serves' = TRUE
                    /\ list' # Nothing => \A w \in Worker : step'[w] \notin Committing
                    /\ list' = Nothing \/ list' = Listed(sub') \/ \E w \in Worker : Changing(w)'
  BY DEF ListInv, Listed, Committing
<1>1. SubTypeOK /\ FlowOK /\ sub \in SubRow
  BY TypeParts DEF TypeInv, StoreOK
<1>2. /\ serves = TRUE
      /\ list # Nothing => \A w \in Worker : step[w] \notin Committing
      /\ list = Nothing \/ list = Listed(sub) \/ \E w \in Worker : Changing(w)
  BY CausesGrow DEF ListInv
<1>3. CASE UNCHANGED <<sub, list, serves, step, job>>
  BY <1>2, <1>3 DEF Changing
<1>4. CASE UNCHANGED subVars \/ PushTraffic \/ Tick
  BY <1>3, <1>4 DEF subVars, PushTraffic, Tick, subStore, subFlow
<1>5. ~EditPlan /\ ~EditNode
  BY DEF EditPlan, EditNode, Reassign, Blame, ListCauses
<1>6. ASSUME NEW w \in Worker, Acts(w)
      PROVE  /\ serves' = TRUE
             /\ list' # Nothing => \A v \in Worker : step'[v] \notin Committing
             /\ list' = Nothing \/ list' = Listed(sub') \/ \E v \in Worker : Changing(v)'
  <2>1. Alone(w) /\ Shape(w)
    BY <1>1, <1>6, ActsAlone, TypeParts
  <2>2. \A v \in Worker \ {w} : (Changing(v) <=> Changing(v)') /\ step'[v] = step[v]
    BY <2>1 DEF Alone, Changing
  <2>3. CASE list' = Nothing /\ serves' = serves
    BY <1>2, <2>3
  \* The list is as it was, for a row that is listed as it was.
  <2>4. ASSUME list' = list, serves' = serves, ~Changing(w), step'[w] \notin Committing,
               sub'.status = sub.status
        PROVE  /\ serves' = TRUE
               /\ list' # Nothing => \A v \in Worker : step'[v] \notin Committing
               /\ list' = Nothing \/ list' = Listed(sub') \/ \E v \in Worker : Changing(v)'
    <3>1. list' # Nothing => \A v \in Worker : step'[v] \notin Committing
      BY <1>2, <2>2, <2>4
    <3>2. ASSUME NEW v \in Worker, Changing(v)  PROVE Changing(v)'
      BY <2>2, <2>4, <3>2
    <3>3. list = Listed(sub) => list' = Listed(sub')
      BY <2>4 DEF Listed
    <3> QED  BY <1>2, <2>4, <3>1, <3>2, <3>3
  \* The row is saved or removed, and the worker will drop the copies.
  <2>5. ASSUME list' = list, serves' = serves, Changing(w)'
        PROVE  /\ serves' = TRUE
               /\ list' # Nothing => \A v \in Worker : step'[v] \notin Committing
               /\ list' = Nothing \/ list' = Listed(sub') \/ \E v \in Worker : Changing(v)'
    <3>1. step'[w] \notin Committing
      BY <2>5 DEF Changing, Committing
    <3>2. list' # Nothing => \A v \in Worker : step'[v] \notin Committing
      BY <1>2, <2>2, <2>5, <3>1
    <3> QED  BY <1>2, <2>5, <3>2
  <2>6. CASE SaveRow(w) \/ RemoveRow(w)
    <3>1. AtStep(w, "save") /\ list' = list /\ serves' = serves
      BY <2>6 DEF SaveRow, RemoveRow
    <3>2. CASE Leave(w) /\ sub' = sub
      BY <1>1, <2>4, <3>1, <3>2, LeaveEnds DEF Changing, AtStep, Committing
    <3>3. CASE Move(w, "drop") /\ job' = job
      <4>1. Changing(w)'
        BY <1>1, <2>6, <3>3 DEF Changing, SaveRow, RemoveRow, Move, FlowOK
      <4> QED  BY <2>5, <3>1, <4>1
    <3> QED  BY <2>6, <3>2, <3>3 DEF SaveRow, RemoveRow
  <2>7. CASE CountTraffic(w)
    <3>1. AtStep(w, "save") /\ list' = list /\ serves' = serves
      BY <2>7 DEF CountTraffic
    <3>2. step'[w] \notin Committing
      BY <1>1, <2>7, LeaveEnds DEF CountTraffic, Move, FlowOK, Committing
    <3>3. sub'.status = sub.status
      <4>1. sub' = sub \/ sub' = [sub EXCEPT !.used = @ + 1]
        BY <2>7 DEF CountTraffic
      <4> QED  BY <1>1, <4>1 DEF SubRow
    <3> QED  BY <2>4, <3>1, <3>2, <3>3 DEF Changing, AtStep
  <2>8. CASE DropCopies(w) \/ ScanClear(w) \/ EraseWipe(w)
    BY <1>2, <2>3, <2>8 DEF DropCopies, ScanClear, EraseWipe, DropKeys, Blame, ListCauses
  <2>9. CASE SetList(w)
    <3>1. /\ list' = Listed(held[w]) /\ UNCHANGED <<sub, serves>>
          /\ Listed(held[w]) <=> Listed(sub)
          /\ \A v \in Worker : step[v] \notin Committing
      BY <2>9 DEF SetList, BlameIf, Blame, ListCauses, AtStep
    <3>2. list' = Listed(sub')
      BY <3>1 DEF Listed
    <3>3. step'[w] \notin Committing
      BY <1>1, <2>9, LeaveEnds DEF SetList, Committing
    <3> QED  BY <1>2, <2>2, <3>1, <3>2, <3>3
  <2>10. CASE ScanCommit(w) \/ EraseCommit(w)
    <3>1. list = Nothing
      BY <1>2, <2>10 DEF ScanCommit, EraseCommit, AtStep, Committing
    <3> QED  BY <2>3, <2>10, <3>1 DEF ScanCommit, EraseCommit
  <2>11. ~NotifyFails(w)
    BY DEF NotifyFails, Blame, ListCauses
  <2>12. CASE ~(\/ SaveRow(w) \/ RemoveRow(w) \/ CountTraffic(w) \/ DropCopies(w)
                \/ ScanClear(w) \/ EraseWipe(w) \/ SetList(w) \/ ScanCommit(w)
                \/ EraseCommit(w))
    <3>1. UNCHANGED <<sub, list, serves>> /\ ~Changing(w) /\ step'[w] \notin Committing
      BY <1>6, <2>11, <2>12, QuietList DEF Acts, JobStep
    <3> QED  BY <2>4, <3>1
  <2> QED  BY <2>6, <2>7, <2>8, <2>9, <2>10, <2>12
<1> QED  BY <1>4, <1>5, <1>6 DEF SubNext, Acts

\* When no write is under way, the list a node is served has the row exactly
\* when it is active, unless a pull stored what a change had made stale, a
\* deletion did not happen, a deleted user's row was not found, or the plan or
\* the node was edited.
THEOREM ListIsHonest == SubSpec => []ListHonest
<1>1. ListInv /\ SubTypeOK => ListHonest
  <2> SUFFICES ASSUME ListInv, SubTypeOK, SubSettled, list # Nothing,
                      causes \cap ListCauses = {}
               PROVE  list = (serves /\ Listed(sub))
    BY DEF ListHonest, ListCauses
  <2>1. serves = TRUE /\ list = Listed(sub)
    BY DEF ListInv, SubSettled, Changing
  <2> QED  BY <2>1 DEF Listed
<1> QED  BY <1>1, InitList, ListStep, SubTypeCorrect, PTL DEF SubSpec
=============================================================================
