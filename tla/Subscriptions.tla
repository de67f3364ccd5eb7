---------------------------- MODULE Subscriptions ----------------------------
(***************************************************************************)
(* The life of one row of user_subscribe: what is bought with an order,    *)
(* used up by the traffic the nodes report, closed by the scan of the      *)
(* scheduler, reopened by a renewal or a traffic reset, given back by its  *)
(* owner, edited by an administrator, deleted with its owner; and the list *)
(* of users one node pulls, stored in Redis for ever.                      *)
(*                                                                         *)
(* Most operations read the row, change the copy and save the whole copy;  *)
(* traffic is added by an atomic UPDATE; the scan closes rows by id inside *)
(* a transaction, and clears the copies before it commits.  Each call is a *)
(* step.  The lookup UpdateSubscribe makes only to learn which keys to     *)
(* delete is part of its statement: the keys are fixed here (CachedRow is  *)
(* about copies under a key that changes).                                 *)
(***************************************************************************)
EXTENDS Naturals, FiniteSets

CONSTANTS
    Worker,       \* goroutines: request handlers, queue workers
    Quota,        \* the traffic of the row, a row with a limit
    RenewalReset, \* the column of the plan
    MaxNow,       \* bound: the last month
    MaxJobs,      \* bound: jobs begun, the scans not counted
    MaxReports,   \* bound: traffic reports
    MaxFaults,    \* bound: calls that fail, workers that crash
    Nothing       \* no copy, no worker

\* The status of a row; Gone stands for a deleted one.  No code writes 0.
Active == 1  Finished == 2  Expired == 3  Deducted == 4  Gone == 5

\* An expiry of 0 is no expiry; months are numbered from 2.
Forever == 0
Month   == 2..MaxNow
SubRow  == [status: Active..Gone, used: Nat, exp: Nat, finished: BOOLEAN]

ASSUME SubAssumption ==
    /\ Quota \in Nat \ {0} /\ RenewalReset \in BOOLEAN
    /\ MaxNow \in Nat /\ MaxNow >= 2
    /\ {MaxJobs, MaxReports, MaxFaults} \subseteq Nat
    /\ IsFiniteSet(Worker)
    /\ Nothing \notin Worker /\ Nothing \notin SubRow /\ Nothing \notin BOOLEAN

Direct == {"renew", "token", "edit", "unsubscribe"} \* read from MySQL
Cached == {"reset", "period", "link"}               \* read through a copy
Savers == (Direct \cup Cached) \ {"link"}
Jobs   == Direct \cup Cached \cup {"remove", "erase", "count", "pull", "scan"}
Steps  == {"idle", "check", "read", "get", "query", "fill", "save", "drop",
           "listGet", "listQuery", "listSet", "select", "close", "clear",
           "commit", "lock", "wipe", "erased"}

\* Steps whose transaction has cleared the copies and commits next.
Committing == {"commit", "erased"}
Keys   == {"id", "token"}

VARIABLES
    now,     \* the month
    sub,     \* the committed row
    serves,  \* the plan of the row names the node
    subLock, \* the worker whose open transaction holds the row
    copies,  \* the copies of the row in Redis, by key
    list,    \* the stored list of the node: is the row in it?
    reports, \* traffic tasks in the queue
    step, job, \* where a worker is, in which job
    held,    \* the row a worker read
    phase,   \* the half of the scan a worker is in
    jobs, pushed, faults, \* history: counted for the bounds
    spent,   \* history: traffic reported since it was last set
    causes   \* history: the events that explain a wrong row or list

subStore == <<sub, subLock, copies, list, serves>>
subFlow  == <<step, job, held, phase>>
subVars  == <<now, subStore, reports, subFlow, jobs, pushed, faults, spent,
              causes>>

SubInit ==
    /\ now = 2
    /\ sub = [status |-> Active, used |-> 0, exp |-> 2, finished |-> FALSE]
    /\ serves = TRUE /\ subLock = Nothing
    /\ copies = [k \in Keys |-> Nothing] /\ list = Nothing
    /\ reports = 0
    /\ step = [w \in Worker |-> "idle"] /\ job = [w \in Worker |-> "scan"]
    /\ held = [w \in Worker |-> Nothing]
    /\ phase = [w \in Worker |-> "quota"]
    /\ jobs = 0 /\ pushed = 0 /\ faults = 0
    /\ spent = 0 /\ causes = {}

AtStep(w, s) == step[w] = s
Move(w, s)   == step' = [step EXCEPT ![w] = s]

\* The job ends; what the worker read is forgotten.
Leave(w) ==
    /\ Move(w, "idle")
    /\ job'   = [job EXCEPT ![w] = "scan"]
    /\ held'  = [held EXCEPT ![w] = Nothing]
    /\ phase' = [phase EXCEPT ![w] = "quota"]

Blame(c) == causes' = causes \cup {c}
BlameIf(b, c) == IF b THEN Blame(c) ELSE UNCHANGED causes

(***************************************************************************)
(* A request arrives, or a worker takes up a task.                         *)
(***************************************************************************)
FirstStep(j) ==
    CASE j = "unsubscribe"       -> "check"
      [] j \in {"renew", "token", "edit"} -> "read"
      [] j \in Cached            -> "get"
      [] j \in {"remove", "count"} -> "save"
      [] j = "erase"             -> "lock"
      [] j = "pull"              -> "listGet"

BeginJob(w, j) ==
    /\ AtStep(w, "idle") /\ jobs < MaxJobs /\ jobs' = jobs + 1
    /\ job' = [job EXCEPT ![w] = j]
    /\ Move(w, FirstStep(j))
    /\ UNCHANGED <<now, subStore, held, phase, pushed, faults, spent, causes>>

BeginRequest(w) ==
    /\ \E j \in Jobs \ {"count", "scan"} : BeginJob(w, j)
    /\ UNCHANGED reports

\* TrafficStatisticsLogic.ProcessTask.
BeginCount(w) ==
    /\ reports > 0 /\ reports' = reports - 1
    /\ BeginJob(w, "count")

\* ServerPushUserTraffic: a task that cannot be queued is only logged.
PushTraffic ==
    /\ pushed < MaxReports /\ pushed' = pushed + 1
    /\ spent' = spent + 1
    /\ \/ reports' = reports + 1 /\ UNCHANGED <<faults, causes>>
       \/ /\ faults < MaxFaults /\ faults' = faults + 1
          /\ Blame("reportLost")
          /\ UNCHANGED reports
    /\ UNCHANGED <<now, subStore, subFlow, jobs>>

\* A month passes.
Tick ==
    /\ now < MaxNow /\ now' = now + 1
    /\ UNCHANGED <<subStore, reports, subFlow, jobs, pushed, faults, spent,
                   causes>>

\* The plan comes to name the node, or names it no more; the lists are left.
Reassign ==
    /\ jobs < MaxJobs /\ jobs' = jobs + 1
    /\ serves' = ~serves
    /\ Blame("reassigned")
    /\ UNCHANGED <<now, sub, subLock, copies, list, reports, subFlow, pushed,
                   faults, spent>>

\* UpdateSubscribe of the plan: its nodes and groups change; only the copy of
\* the plan is deleted.
EditPlan == Reassign

\* UpdateNode: the node's group changes; only the copies of the node are
\* deleted.
EditNode == Reassign

(***************************************************************************)
(* Reading the row.                                                        *)
(***************************************************************************)
\* The part of a job between its read and its save: what it refuses.
Admits(j, r) ==
    /\ r.status # Gone
    /\ j = "period" => r.exp >= now /\ r.used >= Quota

\* What the worker found leads to the save, or ends the job.
Take(w, r) ==
    \/ /\ job[w] \in Savers /\ Admits(job[w], r)
       /\ held' = [held EXCEPT ![w] = r] /\ Move(w, "save")
       /\ UNCHANGED <<job, phase>>
    \/ /\ job[w] = "link" \/ ~Admits(job[w], r)
       /\ Leave(w)

\* CalculateRemainingAmount reads the row before the transaction begins.
CheckRefund(w) ==
    /\ AtStep(w, "check")
    /\ \/ sub.status = Active /\ Move(w, "read") /\ UNCHANGED <<job, held, phase>>
       \/ sub.status # Active /\ Leave(w)
    /\ UNCHANGED <<now, subStore, reports, jobs, pushed, faults, spent, causes>>

ReadRow(w) ==
    /\ AtStep(w, "read")
    /\ Take(w, sub)
    /\ UNCHANGED <<now, subStore, reports, jobs, pushed, faults, spent, causes>>

KeyOf(j) == IF j = "period" THEN "id" ELSE "token"

\* QueryCtx: GET; on a miss SELECT, then SET.
GetCopy(w) ==
    /\ AtStep(w, "get")
    /\ LET c == copies[KeyOf(job[w])]
       IN  \/ c # Nothing /\ Take(w, c)
           \/ c = Nothing /\ Move(w, "query") /\ UNCHANGED <<job, held, phase>>
    /\ UNCHANGED <<now, subStore, reports, jobs, pushed, faults, spent, causes>>

QueryCopy(w) ==
    /\ AtStep(w, "query")
    /\ \/ /\ sub.status # Gone
          /\ held' = [held EXCEPT ![w] = sub] /\ Move(w, "fill")
          /\ UNCHANGED <<job, phase>>
       \/ sub.status = Gone /\ Leave(w)
    /\ UNCHANGED <<now, subStore, reports, jobs, pushed, faults, spent, causes>>

FillCopy(w) ==
    /\ AtStep(w, "fill")
    /\ copies' = [copies EXCEPT ![KeyOf(job[w])] = held[w]]
    /\ Take(w, held[w])
    /\ UNCHANGED <<now, sub, serves, subLock, list, reports, jobs, pushed,
                   faults, spent, causes>>

(***************************************************************************)
(* Writing the row.                                                        *)
(***************************************************************************)
Larger(a, b) == IF a < b THEN b ELSE a

\* Mutant: the renewal keeps finished_at.
RenewedFinished(r) ==
    [r EXCEPT !.status = Active, !.exp = Larger(r.exp, now) + 1,
              !.used = IF RenewalReset THEN r.used ELSE 0]

\* activateOrderLogic.Renewal: the time left is kept, RenewalReset keeps the
\* traffic used.
Renewed(r) ==
    [r EXCEPT !.status = Active, !.exp = Larger(r.exp, now) + 1,
              !.finished = FALSE,
              !.used = IF RenewalReset THEN r.used ELSE 0]

\* activateOrderLogic.ResetTraffic: finished_at stays as it was.
ResetUsed(r) == [r EXCEPT !.status = Active, !.used = 0]

\* UpdateUserSubscribe builds a new row: no finished_at, the status it read.
Edited(r) ==
    {[status |-> r.status, used |-> u, exp |-> e, finished |-> FALSE] :
        u \in {0, Quota}, e \in {Forever, now}}

\* The row as a job saves it.
SavedRows(j, r) ==
    CASE j = "renew"       -> {Renewed(r)}
      [] j = "reset"       -> {ResetUsed(r)}
      [] j = "unsubscribe" -> {[r EXCEPT !.status = Deducted]}
      [] j = "edit"        -> Edited(r)
      [] j = "period"      -> {[r EXCEPT !.exp = @ - 1]}
      [] j = "token"       -> {r}

\* Traffic reported but not yet added to the row.
CountingNow == {w \in Worker : AtStep(w, "save") /\ job[w] = "count"}
Underway == reports + Cardinality(CountingNow)

\* UpdateSubscribe: the whole row is saved, over whatever happened since the
\* job read it.
SaveRow(w) ==
    /\ AtStep(w, "save") /\ job[w] \in Savers
    /\ subLock = Nothing
    /\ \/ /\ sub.status # Gone
          /\ sub' \in SavedRows(job[w], held[w])
          /\ spent' = IF sub'.used # held[w].used THEN sub'.used + Underway
                                                  ELSE spent
          /\ BlameIf(held[w] # sub, "staleSave")
          /\ Move(w, "drop") /\ UNCHANGED <<job, held, phase>>
       \/ /\ sub.status = Gone /\ Leave(w)
          /\ UNCHANGED <<sub, spent, causes>>
    /\ UNCHANGED <<now, subLock, copies, list, serves, reports, jobs, pushed,
                   faults>>

\* UpdateUserSubscribeWithTraffic: an atomic addition.
CountTraffic(w) ==
    /\ AtStep(w, "save") /\ job[w] = "count"
    /\ subLock = Nothing
    /\ \/ /\ sub.status # Gone
          /\ sub' = [sub EXCEPT !.used = @ + 1]
          /\ Move(w, "drop") /\ UNCHANGED <<job, held, phase>>
       \/ sub.status = Gone /\ Leave(w) /\ UNCHANGED sub
    /\ UNCHANGED <<now, subLock, copies, list, serves, reports, jobs, pushed,
                   faults, spent, causes>>

\* DeleteSubscribeById.
RemoveRow(w) ==
    /\ AtStep(w, "save") /\ job[w] = "remove"
    /\ subLock = Nothing
    /\ \/ /\ sub.status # Gone /\ sub' = [sub EXCEPT !.status = Gone]
          /\ Move(w, "drop") /\ UNCHANGED <<job, held, phase>>
       \/ sub.status = Gone /\ Leave(w) /\ UNCHANGED sub
    /\ UNCHANGED <<now, subLock, copies, list, serves, reports, jobs, pushed,
                   faults, spent, causes>>

\* getSubscribeCacheKey: the keys of the row, and the lists of the nodes the
\* plan names now.
DropKeys ==
    /\ copies' = [k \in Keys |-> Nothing]
    /\ list' = IF serves THEN Nothing ELSE list

DropCopies(w) ==
    /\ AtStep(w, "drop")
    /\ DropKeys
    /\ Leave(w)
    /\ UNCHANGED <<now, sub, serves, subLock, reports, jobs, pushed, faults,
                   spent, causes>>

(***************************************************************************)
(* Delete, of a user: one transaction deletes his rows, then looks them up *)
(* outside of it and drops their copies, then commits.  The lookup goes    *)
(* through a copy and wants a row in force, or finished a week ago at most *)
(* (subscribe.go:82): it may miss the row, whose copies are then left.     *)
(***************************************************************************)
EraseLock(w) ==
    /\ AtStep(w, "lock")
    /\ subLock = Nothing
    /\ \/ /\ sub.status # Gone /\ subLock' = w
          /\ Move(w, "wipe") /\ UNCHANGED <<job, held, phase>>
       \/ sub.status = Gone /\ Leave(w) /\ UNCHANGED subLock
    /\ UNCHANGED <<now, sub, copies, list, serves, reports, jobs, pushed,
                   faults, spent, causes>>

EraseWipe(w) ==
    /\ AtStep(w, "wipe") /\ Move(w, "erased")
    /\ \/ DropKeys /\ UNCHANGED causes
       \/ Blame("notFound") /\ UNCHANGED <<copies, list>>
    /\ UNCHANGED <<now, sub, serves, subLock, reports, job, held, phase, jobs,
                   pushed, faults, spent>>

EraseCommit(w) ==
    /\ AtStep(w, "erased") /\ Leave(w)
    /\ subLock' = Nothing
    /\ sub' = [sub EXCEPT !.status = Gone]
    /\ UNCHANGED <<now, copies, list, serves, reports, jobs, pushed, faults,
                   spent, causes>>

(***************************************************************************)
(* CheckSubscriptionLogic.ProcessTask: two transactions, first for rows    *)
(* whose traffic is used up, then for rows whose time is over.             *)
(***************************************************************************)
UsedUp(r)  == r.status = Active /\ r.used >= Quota
Overdue(r) == r.status = Active /\ r.exp # Forever /\ r.exp < now
              /\ ~r.finished
Due(ph, r) == IF ph = "quota" THEN UsedUp(r) ELSE Overdue(r)

\* Mutant: the handler returns after the first scan.
EndPhaseEarly(w) == Leave(w)

\* The second scan follows the first, whatever became of it.
EndPhase(w) ==
    \/ /\ phase[w] = "quota"
       /\ phase' = [phase EXCEPT ![w] = "expiry"]
       /\ held' = [held EXCEPT ![w] = Nothing]
       /\ Move(w, "select") /\ UNCHANGED job
    \/ phase[w] = "expiry" /\ Leave(w)

BeginScan(w) ==
    /\ AtStep(w, "idle") /\ Move(w, "select")
    /\ UNCHANGED <<now, subStore, reports, job, held, phase, jobs, pushed,
                   faults, spent, causes>>

\* Mutant: rows are taken whatever their status.
ScanSelectAny(w) ==
    /\ AtStep(w, "select")
    /\ LET r == [sub EXCEPT !.status = Active]
       IN  \/ /\ Due(phase[w], r) /\ Move(w, "close")
              /\ held' = [held EXCEPT ![w] = sub] /\ UNCHANGED <<job, phase>>
           \/ ~Due(phase[w], r) /\ EndPhase(w)
    /\ UNCHANGED <<now, subStore, reports, jobs, pushed, faults, spent, causes>>

ScanSelect(w) ==
    /\ AtStep(w, "select")
    /\ \/ /\ Due(phase[w], sub) /\ Move(w, "close")
          /\ held' = [held EXCEPT ![w] = sub] /\ UNCHANGED <<job, phase>>
       \/ ~Due(phase[w], sub) /\ EndPhase(w)
    /\ UNCHANGED <<now, subStore, reports, jobs, pushed, faults, spent, causes>>

\* UPDATE ... WHERE id IN ids: the status is not tested again.
ScanClose(w) ==
    /\ AtStep(w, "close")
    /\ subLock = Nothing /\ subLock' = w
    /\ Move(w, "clear")
    /\ UNCHANGED <<now, sub, copies, list, serves, reports, job, held, phase,
                   jobs, pushed, faults, spent, causes>>

\* Mutant: the stored lists are left.
ScanClearKeys(w) ==
    /\ AtStep(w, "clear")
    /\ copies' = [k \in Keys |-> Nothing]
    /\ Move(w, "commit")
    /\ UNCHANGED <<now, sub, serves, list, subLock, reports, job, held, phase,
                   jobs, pushed, faults, spent, causes>>

\* ClearSubscribeCache, before the transaction commits.
ScanClear(w) ==
    /\ AtStep(w, "clear")
    /\ DropKeys
    /\ Move(w, "commit")
    /\ UNCHANGED <<now, sub, serves, subLock, reports, job, held, phase, jobs,
                   pushed, faults, spent, causes>>

Closing(ph, r) ==
    [r EXCEPT !.status = IF ph = "quota" THEN Finished ELSE Expired,
              !.finished = TRUE]

ScanCommit(w) ==
    /\ AtStep(w, "commit")
    /\ subLock' = Nothing
    /\ sub' = IF sub.status = Gone THEN sub ELSE Closing(phase[w], sub)
    /\ BlameIf(held[w] # sub, "lateScan")
    /\ EndPhase(w)
    /\ UNCHANGED <<now, copies, list, serves, reports, jobs, pushed, faults,
                   spent>>

(***************************************************************************)
(* GetServerUserList: the stored list answers; on a miss the plans of the  *)
(* node, then their rows with status 0 or 1, and the list is stored with   *)
(* no expiry.  A node no plan names gets a list that is not stored.        *)
(***************************************************************************)
Listed(r) == r.status = Active

GetList(w) ==
    /\ AtStep(w, "listGet")
    /\ \/ list # Nothing /\ Leave(w)
       \/ list = Nothing /\ Move(w, "listQuery") /\ UNCHANGED <<job, held, phase>>
    /\ UNCHANGED <<now, subStore, reports, jobs, pushed, faults, spent, causes>>

QueryList(w) ==
    /\ AtStep(w, "listQuery")
    /\ \/ /\ serves /\ Move(w, "listSet")
          /\ held' = [held EXCEPT ![w] = sub]
          /\ UNCHANGED <<job, phase>>
       \/ ~serves /\ Leave(w)
    /\ UNCHANGED <<now, subStore, reports, jobs, pushed, faults, spent, causes>>

SetList(w) ==
    /\ AtStep(w, "listSet")
    /\ list' = Listed(held[w])
    /\ BlameIf(\/ Listed(held[w]) # Listed(sub)
               \/ \E v \in Worker : step[v] \in Committing, "lateList")
    /\ Leave(w)
    /\ UNCHANGED <<now, sub, serves, subLock, copies, reports, jobs, pushed,
                   faults, spent>>

(***************************************************************************)
(* Calls fail and workers crash.                                           *)
(***************************************************************************)
Spend == faults < MaxFaults /\ faults' = faults + 1

\* Mutant: a traffic task that fails after its statement is tried again.
JobFailsRetried(w) ==
    /\ job[w] # "scan" /\ ~AtStep(w, "idle") /\ Spend
    /\ \/ AtStep(w, "drop") /\ Blame("notCleared")
       \/ /\ AtStep(w, "save") /\ job[w] = "count" /\ Blame("reportLost")
       \/ /\ ~AtStep(w, "drop") /\ ~(AtStep(w, "save") /\ job[w] = "count")
          /\ UNCHANGED causes
    /\ reports' = IF job[w] = "count" /\ AtStep(w, "drop") THEN reports + 1
                                                         ELSE reports
    /\ subLock' = IF subLock = w THEN Nothing ELSE subLock
    /\ Leave(w)
    /\ UNCHANGED <<now, sub, copies, list, serves, jobs, pushed, spent>>

\* The call fails and the job ends with the error: before its statement
\* nothing has changed, after it the copies are left; the deletion of a user is
\* rolled back.  A traffic report whose statement fails is skipped, its task
\* counts as done.
JobFails(w) ==
    /\ job[w] # "scan" /\ ~AtStep(w, "idle") /\ Spend
    /\ \/ AtStep(w, "drop") /\ Blame("notCleared")
       \/ /\ AtStep(w, "save") /\ job[w] = "count" /\ Blame("reportLost")
       \/ /\ ~AtStep(w, "drop") /\ ~(AtStep(w, "save") /\ job[w] = "count")
          /\ UNCHANGED causes
    /\ subLock' = IF subLock = w THEN Nothing ELSE subLock
    /\ Leave(w)
    /\ UNCHANGED <<now, sub, copies, list, serves, reports, jobs, pushed, spent>>

\* The worker crashes in a traffic task: asynq delivers it again.
CountCrashes(w) ==
    /\ job[w] = "count" /\ ~AtStep(w, "idle") /\ Spend
    /\ reports' = reports + 1
    /\ BlameIf(AtStep(w, "drop"), "countedTwice")
    /\ Leave(w)
    /\ UNCHANGED <<now, subStore, jobs, pushed, spent>>

\* A query or a statement of the scan, or ClearSubscribeCache, fails: the
\* transaction is rolled back, or commits without a change.
ScanFails(w) ==
    /\ job[w] = "scan" /\ step[w] \in {"select", "close", "clear"} /\ Spend
    /\ subLock' = IF subLock = w THEN Nothing ELSE subLock
    /\ EndPhase(w)
    /\ UNCHANGED <<now, sub, copies, list, serves, reports, jobs, pushed,
                   spent, causes>>

\* The notification fails: the copies are not cleared, the change commits.
NotifyFails(w) ==
    /\ AtStep(w, "clear") /\ Spend
    /\ Move(w, "commit")
    /\ Blame("notCleared")
    /\ UNCHANGED <<now, subStore, reports, job, held, phase, jobs, pushed,
                   spent>>

ScanCrashes(w) ==
    /\ job[w] = "scan" /\ ~AtStep(w, "idle") /\ Spend
    /\ subLock' = IF subLock = w THEN Nothing ELSE subLock
    /\ Leave(w)
    /\ UNCHANGED <<now, sub, copies, list, serves, reports, jobs, pushed,
                   spent, causes>>

----------------------------------------------------------------------------
\* The next call of the job a worker is in.
JobStep(w) ==
    \/ CheckRefund(w) \/ ReadRow(w) \/ GetCopy(w) \/ QueryCopy(w) \/ FillCopy(w)
    \/ SaveRow(w) \/ CountTraffic(w) \/ RemoveRow(w) \/ DropCopies(w)
    \/ EraseLock(w) \/ EraseWipe(w) \/ EraseCommit(w)
    \/ GetList(w) \/ QueryList(w) \/ SetList(w)
    \/ ScanSelect(w) \/ ScanClose(w) \/ ScanClear(w) \/ ScanCommit(w)

SubNext ==
    \/ PushTraffic \/ Tick \/ EditPlan \/ EditNode
    \/ \E w \in Worker :
         \/ BeginRequest(w) \/ BeginCount(w) \/ BeginScan(w) \/ JobStep(w)
         \/ JobFails(w) \/ CountCrashes(w)
         \/ ScanFails(w) \/ NotifyFails(w) \/ ScanCrashes(w)

\* Goroutines go on; the scheduler starts a scan every minute.
SubFair == \A w \in Worker : WF_subVars(JobStep(w)) /\ WF_subVars(BeginScan(w))

SubSpec == SubInit /\ [][SubNext]_subVars /\ SubFair

(***************************************************************************)
(* Properties.                                                             *)
(***************************************************************************)
SubTypeOK ==
    /\ now \in Month /\ sub \in SubRow /\ serves \in BOOLEAN
    /\ subLock \in Worker \cup {Nothing}
    /\ copies \in [Keys -> SubRow \cup {Nothing}]
    /\ list \in BOOLEAN \cup {Nothing} /\ reports \in Nat
    /\ step \in [Worker -> Steps] /\ job \in [Worker -> Jobs]
    /\ held \in [Worker -> SubRow \cup {Nothing}]
    /\ phase \in [Worker -> {"quota", "expiry"}]

\* The traffic nodes report is what the row shows, once the tasks are done,
\* unless a task was not queued (serverPushUserTrafficLogic.go:63), its
\* statement failed (trafficStatisticsLogic.go:60 goes on), it was delivered
\* again after a crash, or a whole row read before was saved over it
\* (subscribe.go:120).
TrafficAccounted ==
    \/ sub.status = Gone
    \/ sub.used + Underway = spent
    \/ causes \cap {"reportLost", "countedTwice", "staleSave"} # {}

\* The scan closes a row only when it is due: used up, or over and not yet
\* finished; unless the row changed between the query and the statement, whose
\* WHERE has the ids alone (checkSubscriptionLogic.go:45,79).
ClosesOnlyDue ==
    [][ \A w \in Worker :
          AtStep(w, "commit") /\ step'[w] # "commit" /\ sub' # sub =>
              Due(phase[w], sub) \/ "lateScan" \in causes' ]_subVars

\* When no write is under way, the stored list of a node has the row exactly
\* when the row may be used there; unless a pull stored what it had read
\* before a change, or before a transaction that had already cleared the list
\* had committed (checkSubscriptionLogic.go:60, model/user/default.go:166), a
\* DEL did not happen, a deleted user's row was not found, or the plan or the
\* node was edited, which leaves the lists (model/subscribe/default.go:96,
\* model/server/default.go:65).
SubSettled == \A w \in Worker :
    step[w] \notin {"drop", "clear", "wipe"} \cup Committing
ListHonest ==
    SubSettled /\ list # Nothing /\ list # (serves /\ Listed(sub)) =>
        causes \cap {"lateList", "notCleared", "notFound", "reassigned"} # {}

\* An active row counts as finished only because ResetTraffic reopened it
\* (activateOrderLogic.go:491 keeps finished_at) or such a row was saved
\* again; the scan for expired rows will not see it.
ActiveFinished(r) == r.status = Active /\ r.finished
FinishedOnlyByReset ==
    [][ ActiveFinished(sub') /\ ~ActiveFinished(sub) =>
            \E w \in Worker :
              /\ AtStep(w, "save") /\ job[w] \in Savers
              /\ job[w] = "reset" \/ ActiveFinished(held[w])
      ]_subVars

\* A row that is used up, or over, is closed in the end, or is so no more: the
\* scan comes back every minute.  Rows a reset left finished are not Due.
DueClosed == /\ UsedUp(sub) ~> ~UsedUp(sub)
             /\ Overdue(sub) ~> ~Overdue(sub)
=============================================================================
