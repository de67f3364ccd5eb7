------------------------------ MODULE Deductions ------------------------------
(***************************************************************************)
(* What a subscription is worth when its owner gives it back: the amount   *)
(* CalculateRemainingAmount computes on each day between the purchase and  *)
(* the end, from the calendar, the traffic used and the settings of the    *)
(* plan.  Days pass, traffic is used and the terms are revised; the amount *)
(* is a function of that.                                                  *)
(*                                                                         *)
(* Times are counted in quarters of a day: a purchase is made at noon, and *)
(* looked at in the morning or in the evening.  A quotient of floats, cut  *)
(* to an integer, is the exact quotient cut to an integer; a quotient by   *)
(* zero is unspecified here, as int64 of a float that is no number is in   *)
(* Go.  Where the code divides integers by zero it panics.                 *)
(***************************************************************************)
EXTENDS Integers, Sequences

CONSTANTS
    Offers,   \* plans and orders considered
    Revisions, \* terms they may be given later
    MaxDays   \* bound: days a subscription is looked at

\* A plan: cycle is reset_cycle, share the deduction_ratio in percent; "Other" is
\* a unit_time without a case of its own.  Nothing validates the numbers.
Units == {"Year", "Month", "Day", "NoLimit", "Other"}

Date == [y: Nat, m: 1..12, d: 1..31]

\* An order of quantity units of a plan.
Offer == [unit: Units, cycle: 0..3, share: Int, traffic: Int, amount: Int,
          quantity: Int, y: Nat, m: 1..12, d: 1..31]

\* What the plan, the orders and the row say after a revision.
Terms == [unit: Units, cycle: 0..3, share: Int, traffic: Int, amount: Int,
          quantity: Int, end: Date, used: Nat]

VARIABLES
    offer,  \* the plan, the order and the day of the purchase
    expiry, \* the end
    today,  \* the date
    evening, \* it is later in the day than the purchase was
    spentOn, \* the traffic used
    revised \* history: the terms are no longer those of the purchase

dedVars == <<offer, expiry, today, evening, spentOn, revised>>

(***************************************************************************)
(* The calendar.                                                           *)
(***************************************************************************)

On28(y) == IF y % 4 = 0 /\ (y % 100 # 0 \/ y % 400 = 0) THEN 29 ELSE 28
Length(y, m) ==
    CASE m = 2 -> On28(y)
      [] m \in {4, 6, 9, 11} -> 30
      [] OTHER -> 31

\* Purchases are made on days that exist.
ASSUME OfferAssumption ==
    /\ Offers \subseteq Offer /\ Revisions \subseteq Terms /\ MaxDays \in Nat
    /\ \A o \in Offers : o.d <= Length(o.y, o.m)

Before == <<0, 31, 59, 90, 120, 151, 181, 212, 243, 273, 304, 334>>
Leaps(y) == (y - 1) \div 4 - (y - 1) \div 100 + (y - 1) \div 400

\* time.Date takes any day: day 31 of a month of 30 is the 1st of the next.
DayNo(y, m, d) ==
    365 * y + Leaps(y) + Before[m] + (IF m > 2 THEN On28(y) - 28 ELSE 0) + d

\* Quarters of a day since the beginning of the calendar.
At(t, q) == 4 * DayNo(t.y, t.m, t.d) + q

Normal(y, m, d) ==
    IF d <= Length(y, m) THEN [y |-> y, m |-> m, d |-> d]
    ELSE IF m = 12 THEN [y |-> y + 1, m |-> 1, d |-> d - Length(y, m)]
    ELSE [y |-> y, m |-> m + 1, d |-> d - Length(y, m)]

Next1(t) == Normal(t.y, t.m, t.d + 1)

Trunc(a, b) ==
    IF b < 0 THEN IF a <= 0 THEN (-a) \div (-b) ELSE -(a \div (-b))
    ELSE IF a >= 0 THEN a \div b ELSE -((-a) \div b)
Days(quarters) == Trunc(quarters, 4)

\* time.UnixMilli(0).
Epoch == [y |-> 1970, m |-> 1, d |-> 1]

\* AddTime.  Days are added by Normal while they stay in the next month.
AddTime(unit, n, t) ==
    CASE unit = "Year"    -> Normal(t.y + n, t.m, t.d)
      [] unit = "Month"   -> LET k == t.m - 1 + n
                             IN  Normal(t.y + k \div 12, (k % 12) + 1, t.d)
      [] unit = "Day"     -> Normal(t.y, t.m, t.d + n)
      [] unit = "NoLimit" -> Epoch
      [] unit = "Other"   -> t

Expiry(o) == AddTime(o.unit, o.quantity, [y |-> o.y, m |-> o.m, d |-> o.d])

\* Mutant: a month that has just begun counts as a whole one.
MonthDiffEven(s, e) ==
    (e.y - s.y) * 12 + (e.m - s.m) - (IF e.d < s.d THEN 1 ELSE 0)

MonthDiff(s, e) ==
    (e.y - s.y) * 12 + (e.m - s.m) - (IF e.d <= s.d THEN 1 ELSE 0)

YearDiff(s, e) ==
    (e.y - s.y)
      - (IF e.m < s.m \/ (e.m = s.m /\ e.d < s.d) THEN 1 ELSE 0)

\* Mutant: the days are counted the other way.
DayDiffBack(from, to) == Days(from - to)

DayDiff(from, to) == Days(to - from)

\* The target day of this month, or of the last one, as far as it has days.
ValidDate(y, m, d) == [y |-> y, m |-> m, d |-> IF d > Length(y, m) THEN Length(y, m) ELSE d]
LastTarget(t, d) ==
    IF t.d > d THEN ValidDate(t.y, t.m, d)
    ELSE IF t.m = 1 THEN ValidDate(t.y - 1, 12, d)
    ELSE ValidDate(t.y, t.m - 1, d)

\* The days since, despite its name.
DaysToMonthDay(t, q, d) == Days(At(t, q) - At(LastTarget(t, d), 0))

DaysToNextMonth(t, q) ==
    Days(4 * (DayNo(t.y, t.m, 1) + Length(t.y, t.m)) - At(t, q))

GetLastDayOfMonth(t) == Length(t.y, t.m)

\* The day of the year the purchase was made on, in the year of t.
SameDay(y) == 4 * DayNo(y, offer.m, offer.d)

DaysToYearDay(t, q) ==
    LET target == IF SameDay(t.y) < At(t, q) THEN SameDay(t.y + 1)
                                                ELSE SameDay(t.y)
    IN  Days(At(t, q) - target)

GetYearDays(t, q) ==
    IF SameDay(t.y) > At(t, q) THEN Days(SameDay(t.y) - SameDay(t.y - 1))
                                  ELSE Days(SameDay(t.y + 1) - SameDay(t.y))

(***************************************************************************)
(* The amount.                                                             *)
(***************************************************************************)
Quarter == IF evening THEN 3 ELSE 1

Bought  == At([y |-> offer.y, m |-> offer.m, d |-> offer.d], 2)
UnitPrice == Trunc(offer.amount, offer.quantity)
TrafficLeft == offer.traffic - spentOn

\* getRemainingAndTotalDays.
DaysLeft ==
    CASE offer.cycle = 0 -> Days(At(expiry, 2) - At(today, Quarter))
      [] offer.cycle = 1 -> DaysToNextMonth(today, Quarter)
      [] offer.cycle = 2 -> DaysToMonthDay(today, Quarter, offer.d) - 1
      [] offer.cycle = 3 -> DaysToYearDay(today, Quarter)
DaysInAll ==
    CASE offer.cycle = 0 -> Days(At(expiry, 2) - Bought)
      [] offer.cycle = 1 -> GetLastDayOfMonth(today)
      [] offer.cycle = 2 -> DaysToMonthDay(today, Quarter, offer.d)
      [] offer.cycle = 3 -> GetYearDays(today, Quarter)

Proportion(left, all) == Trunc(UnitPrice * left, all)

Weighted ==
    Trunc(UnitPrice * ((100 - offer.share) * DaysLeft * offer.traffic
                         + offer.share * TrafficLeft * DaysInAll),
          100 * DaysInAll * offer.traffic)

Smaller(a, b) == IF a < b THEN a ELSE b

\* calculateRemainingUnitTimeAmount: the unit that is running.
UnitTimeAmount ==
    IF offer.traffic = 0 THEN Proportion(DaysLeft, DaysInAll)
    ELSE IF offer.share # 0 THEN Weighted
    ELSE Smaller(Proportion(DaysLeft, DaysInAll),
                 Proportion(TrafficLeft, offer.traffic))

\* CalculateRemainingAmount.
Remaining ==
    CASE offer.unit = "NoLimit" ->
           IF offer.cycle # 0 THEN 0
           ELSE Trunc(TrafficLeft * offer.amount, offer.traffic)
      [] offer.unit = "Year" ->
           YearDiff(today, expiry) * UnitPrice + UnitTimeAmount
      [] offer.unit = "Month" ->
           MonthDiff(today, expiry) * UnitPrice + UnitTimeAmount
      [] offer.unit = "Day" ->
           DayDiff(At(today, Quarter), At(expiry, 2)) * UnitPrice + UnitTimeAmount
      [] offer.unit = "Other" -> 0

----------------------------------------------------------------------------
DedInit ==
    /\ offer \in Offers /\ expiry = Expiry(offer) /\ revised = FALSE
    /\ today = [y |-> offer.y, m |-> offer.m, d |-> offer.d]
    /\ evening = TRUE /\ spentOn = 0

\* The subscription is looked at once a day, until it is over.
DayPasses ==
    /\ At(Next1(today), 0) - Bought <= 4 * MaxDays
    /\ today' = Next1(today)
    /\ evening' \in BOOLEAN
    /\ offer.unit # "NoLimit" =>
          At(today', IF evening' THEN 3 ELSE 1) <= At(expiry, 2)
    /\ UNCHANGED <<offer, expiry, spentOn, revised>>

\* Nodes report traffic, over the limit until the scan has closed the row.
TrafficUsed ==
    /\ spentOn <= offer.traffic
    /\ spentOn' = spentOn + 1
    /\ UNCHANGED <<offer, expiry, today, evening, revised>>

\* The administrator saves the plan with other settings, or the row with
\* another end, traffic or use, or a renewal adds its order to those paid: the
\* refund is computed from what the plan, the orders and the row say then.
Revise ==
    /\ \E r \in Revisions :
         /\ offer' = [unit |-> r.unit, cycle |-> r.cycle, share |-> r.share,
                      traffic |-> r.traffic, amount |-> r.amount,
                      quantity |-> r.quantity,
                      y |-> offer.y, m |-> offer.m, d |-> offer.d]
         /\ expiry' = r.end /\ spentOn' = r.used
    /\ revised' = TRUE /\ UNCHANGED <<today, evening>>

DedNext == DayPasses \/ TrafficUsed \/ Revise
DedSpec == DedInit /\ [][DedNext]_dedVars

(***************************************************************************)
(* Properties.                                                             *)
(***************************************************************************)
DedTypeOK ==
    /\ offer \in Offer /\ today \in Date /\ today.d <= Length(today.y, today.m)
    /\ evening \in BOOLEAN /\ revised \in BOOLEAN /\ spentOn \in Nat

\* The numbers of the offer are what the computation takes them for, which
\* nothing checks when a plan is made (types.go:457) or an order is entered
\* (types.go:413): a quantity of 0 makes it panic (deduction.go:45), and the
\* traffic 0 of a plan without an end multiplies 0 by infinity
\* (deduction.go:50).
Sensible ==
    /\ offer.quantity > 0 /\ offer.amount >= 0 /\ offer.share \in 0..100
    /\ offer.traffic >= (IF offer.unit = "NoLimit" THEN 1 ELSE 0)

\* A month or a year was added to a day its month lacks, and overshot it.
Overshot == offer.unit \in {"Month", "Year"} /\ expiry.d # offer.d

\* Today's month and day are those of the end.
EndsOnDate == <<today.m, today.d>> = <<expiry.m, expiry.d>>

\* Of a subscription on the terms it was bought on: nobody gets back more than
\* he paid; except that a year that ends on today's date counts as a whole one
\* and as the running one (tool/time.go:136 has < where MonthDiff has <=), and
\* so does a unit that overshot its end (tool/time.go:18).  Nobody pays for
\* giving back; except with traffic over the limit, with the yearly cycle, whose
\* days left are negative (tool/time.go:128), and on the last day, when
\* MonthDiff is -1.
RefundInRange ==
    revised \/ ~Sensible \/
      /\ \/ Remaining <= offer.amount
         \/ Overshot
         \/ offer.unit = "Year" /\ EndsOnDate
      /\ \/ Remaining >= 0
         \/ spentOn > offer.traffic /\ offer.traffic > 0
         \/ offer.cycle = 3 \/ EndsOnDate

\* On those terms, what is given back falls as days pass and traffic is used;
\* except for plans with a reset cycle: the days left of cycle 2 are those gone
\* by (deduction.go:110), and a calendar month ends on another day than the paid
\* one (deduction.go:106).
RefundFalls ==
    [][ \/ revised' \/ ~Sensible \/ offer.cycle # 0
        \/ Remaining' <= Remaining ]_dedVars
=============================================================================
