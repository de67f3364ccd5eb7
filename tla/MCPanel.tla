------------------------------- MODULE MCPanel -------------------------------
(***************************************************************************)
(* The parts that share nothing but the process, checked side by side: a   *)
(* behaviour is one of the part it begins with, while the others rest in   *)
(* one of their initial states.  What a property says of a part that rests *)
(* is true from the beginning or not at all, so nothing is hidden.         *)
(***************************************************************************)
EXTENDS Subscriptions, Accounts, Coupons, Deductions, ConfigViews, OnlineUsers,
        DayTraffic, Identities, PeriodLimits, Codes, DeviceRows, TLC

VARIABLE part

MCOf(u, c, s, t, a, q, y, m, d) ==
    [unit |-> u, cycle |-> c, share |-> s, traffic |-> t, amount |-> a,
     quantity |-> q, y |-> y, m |-> m, d |-> d]

\* What nothing keeps an administrator from entering.
MCOddOffers ==
    {MCOf("NoLimit", 0, 0, 0, 10, 1, 2003, 1, 5), MCOf("Month", 0, 0, 3, 20, 0, 2003, 1, 5),
     MCOf("Month", 0, 150, 3, 20, 2, 2003, 1, 5), MCOf("Other", 0, 0, 3, 20, 2, 2003, 1, 5)}

\* Every unit and every cycle; ends of months, leap days, a new year, and a
\* hundredth year, which has no leap day.
MCOffers ==
    {MCOf("Month", c, 0, 3, 20, 2, 2003, 12, 15) : c \in 0..3} \cup
    {MCOf("Month", 0, 0, 0, 10, 1, 2003, 1, 31), MCOf("Month", 1, 50, 3, 20, 2, 2004, 2, 29),
     MCOf("Month", 0, 30, 3, 30, 3, 2003, 3, 31), MCOf("Day", 0, 0, 2, 60, 20, 2003, 2, 15),
     MCOf("NoLimit", 0, 0, 3, 10, 1, 2003, 1, 5), MCOf("NoLimit", 2, 0, 3, 10, 1, 2003, 1, 5),
     MCOf("Year", 0, 50, 2, 730, 1, 2003, 3, 1), MCOf("Year", 0, 0, 1, 730, 1, 2004, 2, 29),
     MCOf("Year", 3, 0, 1, 730, 1, 2003, 5, 5), MCOf("Month", 0, 0, 0, 10, 1, 2100, 1, 31)}
    \cup MCOddOffers
MCRestOffer == MCOf("NoLimit", 2, 0, 3, 10, 1, 2003, 1, 5)

\* A plan made monthly by the administrator, and a renewal.
MCRevisions ==
    {[unit |-> "Month", cycle |-> 0, share |-> 0, traffic |-> 3, amount |-> n * 10,
      quantity |-> n, end |-> [y |-> 2004, m |-> 3, d |-> 1], used |-> 0] : n \in 1..2}

MCCategories == {"site", "register", "invite", "verify", "node", "subscribe",
                 "verify_code", "tos", "privacy", "currency"}

MCInit ==
    /\ part \in {"subscriptions", "accounts", "coupons", "deductions", "config",
                 "online", "traffic", "identities", "limits", "codes", "devices"}
    /\ SubInit /\ AcctInit /\ CouponInit /\ DedInit /\ ConfInit /\ OnlineInit
    /\ DayInit /\ IdInit /\ LimitInit /\ CodeInit /\ RowInit
    /\ part # "accounts" => user.gift = PlanPrice
    /\ part # "deductions" => offer = MCRestOffer
    /\ part # "config" => category = "site"
    /\ part # "devices" => members = DeviceUser

\* The parts that keep still while one of them moves.
MCOthers(p) ==
    /\ part = p /\ UNCHANGED part
    /\ p # "subscriptions" => UNCHANGED subVars
    /\ p # "accounts" => UNCHANGED acctVars
    /\ p # "coupons" => UNCHANGED couponVars
    /\ p # "deductions" => UNCHANGED dedVars
    /\ p # "config" => UNCHANGED confVars
    /\ p # "online" => UNCHANGED onlineVars
    /\ p # "traffic" => UNCHANGED dayVars
    /\ p # "identities" => UNCHANGED idVars
    /\ p # "limits" => UNCHANGED limitVars
    /\ p # "codes" => UNCHANGED codeVars
    /\ p # "devices" => UNCHANGED rowVars

\* Three of the jobs, reports and faults of a subscription.
MCFewJobs == jobs' + pushed' + faults' <= 3

\* A pipeline takes less than a minute: the client gives up before that.
MCTimely == \A n \in Station : toAdd'[n] # {} => minute' <= asOf'[n] + 1

\* Two of the pushes of a day's traffic and of what goes wrong with them.
MCFewPushes == pushCount' + lost' <= 2

\* Three of the operations on a user's money and of the calls that fail.
MCFewTasks == tasks' + breaks' <= 3

\* Three jobs on the rows of a device, or two and what MaxBlows counts.
MCFewEvents == begun' + blows' <= MaxRoutines

MCNext ==
    \/ MCOthers("subscriptions") /\ SubNext /\ MCFewJobs
    \/ MCOthers("accounts") /\ AcctNext /\ MCFewTasks
    \/ MCOthers("coupons") /\ CouponNext
    \/ MCOthers("deductions") /\ DedNext
    \/ MCOthers("config") /\ ConfNext
    \/ MCOthers("online") /\ OnlineNext /\ MCTimely
    \/ MCOthers("traffic") /\ DayNext /\ MCFewPushes
    \/ MCOthers("identities") /\ IdNext
    \/ MCOthers("limits") /\ LimitNext
    \/ MCOthers("codes") /\ CodeNext
    \/ MCOthers("devices") /\ RowNext /\ MCFewEvents

MCSpec ==
    MCInit /\ [][MCNext]_<<part, subVars, acctVars, couponVars, dedVars, confVars,
                           onlineVars, dayVars, idVars, limitVars, codeVars,
                           rowVars>>

\* Nothing tells goroutines apart, and only one part moves: one set of them
\* does for all the parts.  Nor does anything tell the users of a device apart.
MCSymmetry == Permutations(Worker) \cup Permutations(DeviceUser)

\* Every variable of the part that moves has its type.
PanelTypeOK ==
    CASE part = "subscriptions" -> SubTypeOK
      [] part = "accounts"      -> AcctTypeOK
      [] part = "coupons"       -> CouponTypeOK
      [] part = "deductions"    -> DedTypeOK
      [] part = "config"        -> ConfTypeOK
      [] part = "online"        -> OnlineTypeOK
      [] part = "traffic"       -> DayTypeOK
      [] part = "identities"    -> IdTypeOK
      [] part = "limits"        -> LimitTypeOK
      [] part = "codes"         -> CodeTypeOK
      [] part = "devices"       -> RowTypeOK
=============================================================================
