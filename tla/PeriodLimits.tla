----------------------------- MODULE PeriodLimits -----------------------------
(***************************************************************************)
(* What limits the verification codes of one address: one in an interval,  *)
(* and DayQuota a day.  A limit is a counter in Redis with an expiry, and  *)
(* a script takes a permit: INCRBY, and EXPIRE if the key is new.  The     *)
(* day's counter lasts for the rest of the day, which the process computes *)
(* before it calls the script.                                             *)
(***************************************************************************)
EXTENDS Naturals, FiniteSets

CONSTANTS
    Sender,    \* requests that are served at the same time
    Interval,  \* time between two codes: 60 seconds
    DayLength, \* length of a day, in the same unit
    DayQuota,  \* codes a day: 15
    MaxTime,   \* bound: the last moment
    MaxFlush   \* bound: restarts, at most one a day

ASSUME LimitAssumption ==
    /\ {Interval, DayLength, DayQuota} \subseteq Nat \ {0}
    /\ {MaxTime, MaxFlush} \subseteq Nat

VARIABLES
    clock,
    perInterval, perDay, \* the counters: how many, and until when
    stage,   \* what each request is at
    rest,    \* how long it found the day to last
    permits, \* history: how many sendings each day allowed
    flushes, \* history: the days of the restarts
    lates    \* history: days a late counter began or ended in

limitVars == <<clock, perInterval, perDay, stage, rest, permits, flushes, lates>>

DayOf(t) == t \div DayLength
Dates     == 0..DayOf(MaxTime)
Blank    == [n |-> 0, ends |-> 0]
Counter  == [n: Nat, ends: Nat]

LimitInit ==
    /\ clock = 0 /\ perInterval = Blank /\ perDay = Blank
    /\ stage = [r \in Sender |-> "idle"] /\ rest = [r \in Sender |-> 0]
    /\ permits = [d \in Dates |-> 0] /\ flushes = {} /\ lates = {}

Leaves(r) ==
    /\ stage' = [stage EXCEPT ![r] = "idle"] /\ rest' = [rest EXCEPT ![r] = 0]

\* Keys that have expired are gone.
Passes ==
    /\ clock < MaxTime /\ clock' = clock + 1
    /\ perInterval' = IF perInterval.ends > clock' THEN perInterval ELSE Blank
    /\ perDay' = IF perDay.ends > clock' THEN perDay ELSE Blank
    /\ UNCHANGED <<stage, rest, permits, flushes, lates>>

\* The script.
Bumped(k, window) == IF k.n > 0 THEN [k EXCEPT !.n = @ + 1]
                     ELSE [n |-> 1, ends |-> clock + window]

\* Mutant: the day's counter lasts a day from its first use.
WindowWhole == DayLength

\* calcExpireSeconds of a limit that is aligned to the day.
Window == DayLength - (clock % DayLength)

\* SendEmailCode, SendSmsCode: first the limit of the interval.  A counter
\* that is over its limit may as well stay what it is.
TakeInterval(r) ==
    /\ stage[r] = "idle" /\ perInterval.n = 0
    /\ perInterval' = Bumped(perInterval, Interval)
    /\ stage' = [stage EXCEPT ![r] = "day"] /\ rest' = [rest EXCEPT ![r] = Window]
    /\ UNCHANGED <<clock, perDay, permits, flushes, lates>>

\* Then the limit of the day, with what was left of it when it was asked.
TakeDay(r) ==
    /\ stage[r] = "day"
    /\ perDay' = Bumped(perDay, rest[r])
    /\ permits' = IF perDay'.n <= DayQuota THEN [permits EXCEPT ![DayOf(clock)] = @ + 1]
                  ELSE permits
    /\ lates' = IF perDay.n = 0 /\ rest[r] # Window
                  THEN lates \cup {DayOf(clock), DayOf(perDay'.ends)} ELSE lates
    /\ Leaves(r) /\ UNCHANGED <<clock, perInterval, flushes>>

\* The request is given up between the two.
TakeFails(r) ==
    /\ stage[r] = "day" /\ Leaves(r)
    /\ UNCHANGED <<clock, perInterval, perDay, permits, flushes, lates>>

\* The process starts again and flushes Redis.
Flush ==
    /\ DayOf(clock) \notin flushes /\ Cardinality(flushes) < MaxFlush
    /\ flushes' = flushes \cup {DayOf(clock)}
    /\ perInterval' = Blank /\ perDay' = Blank
    /\ stage' = [r \in Sender |-> "idle"] /\ rest' = [r \in Sender |-> 0]
    /\ UNCHANGED <<clock, permits, lates>>

LimitNext ==
    \/ Passes \/ Flush
    \/ \E r \in Sender : TakeInterval(r) \/ TakeDay(r) \/ TakeFails(r)

LimitSpec == LimitInit /\ [][LimitNext]_limitVars

(***************************************************************************)
(* Properties.                                                             *)
(***************************************************************************)
LimitTypeOK ==
    /\ clock \in 0..MaxTime /\ perInterval \in Counter /\ perDay \in Counter
    /\ stage \in [Sender -> {"idle", "day"}] /\ rest \in [Sender -> 0..DayLength]
    /\ permits \in [Dates -> Nat] /\ flushes \subseteq Dates /\ lates \subseteq Nat

\* A day allows at most DayQuota sendings; unless the process was restarted,
\* which flushes the counters (serviceContext.go:82), or a sending created the
\* counter later than it computed how long the day still is, so that the
\* counter ends in the middle of the next (periodlimit.go:77).
SendsLimited ==
    \A d \in Dates : permits[d] <= DayQuota \/ d \in flushes \cup lates
=============================================================================
