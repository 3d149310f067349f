------------------------------ MODULE Dashboard -----------------------------
(***************************************************************************)
(* getStats (payments.service.ts:709-775): five queries at once, then the  *)
(* monthly report of the year, then two queries about this month and the   *)
(* last, while payments are created and settled and the clock moves.  No   *)
(* transaction holds the queries together.                                 *)
(***************************************************************************)
EXTENDS RevenueReport

CONSTANTS
    Years,          \* the years asked for: years, or None for the current one
    MaxChanges      \* bound: changes of the table while one dashboard is made

ASSUME DashboardAssumption == Years \subseteq Nat \cup {None} /\ MaxChanges \in Nat

VARIABLES
    dash,           \* the dashboard: its phase, its year and what its queries gave
    changes         \* creations and settlements since it was asked for

dashVars == <<payment, now, dash, changes>>

Counts == {"total", "pending", "success", "failed", "revenue"}
Halves == {"thisMonth", "lastMonth"}
Phase == {"idle", "counting", "reporting", "comparing", "done", "failed"}

Idle == [phase |-> "idle", year |-> MinYear, pending |-> {}, at |-> 0,
         got |-> [q \in Counts \cup Halves |-> 0], monthly |-> [m \in Month |-> 0]]

DashInit == TableInit /\ dash = Idle /\ changes = 0

-----------------------------------------------------------------------------
(* The queries *)

OfUnsettled(status) ==
    {p \in Payment : IF status = "PENDING" THEN payment[p].status \in {"PENDING", "FAILED"}
                     ELSE payment[p].status = status}
Of(status) == {p \in Payment : payment[p].status = status}

\* lastMonth: new Date(y, m, 1) with m = -1 is December of the year before.
StartOfLastMonthSameYear(t) == Start(YearOf(t), (MonthOf(t) - 1) % MonthsInYear)
StartOfLastMonth(t) == Start(YearOf(t), MonthOf(t) - 1)

\* endOfLastMonth: new Date(y, m, 0) is the first instant of the last day.
EndOfLastMonthNextDay(t) == Start(YearOf(t), MonthOf(t))
EndOfLastMonth(t) == Start(YearOf(t), MonthOf(t)) - InstantsInDay

\* What one query finds in the table as it is now.
Found(q) ==
    CASE q = "total"     -> Cardinality({p \in Payment : payment[p] # Absent})
      [] q = "pending"   -> Cardinality(Of("PENDING"))
      [] q = "success"   -> Cardinality(Of("SUCCESS"))
      [] q = "failed"    -> Cardinality(Of("FAILED"))
      [] q = "revenue"   -> Sum(Successful)
      [] q = "thisMonth" -> Sum({p \in Successful :
                                    payment[p].createdAt >= Start(YearOf(dash.at), MonthOf(dash.at))})
      [] q = "lastMonth" -> Sum(FindCompletedPayments(StartOfLastMonth(dash.at),
                                                      EndOfLastMonth(dash.at), None))

\* getMonthlyRevenue({ year }).
ReportOf(year) == [year |-> year, startDate |-> None, endDate |-> None, method |-> None]

-----------------------------------------------------------------------------
(* The steps of getStats *)

\* The year asked for is a text, so a given 0 does not stand for the current year.
Ask(year) ==
    /\ dash.phase = "idle"
    /\ dash' = [Idle EXCEPT !.phase = "counting", !.pending = Counts,
                            !.year = IF year = None THEN YearOf(now) ELSE year]
    /\ changes' = 0
    /\ UNCHANGED <<payment, now>>

\* One of the queries of a Promise.all reads the table; the last one ends it.
Query(q) ==
    /\ q \in dash.pending
    /\ dash' = [dash EXCEPT
                  !.got[q] = Found(q),
                  !.pending = @ \ {q},
                  !.phase = IF dash.pending # {q} THEN @
                            ELSE IF @ = "counting" THEN "reporting" ELSE "done"]
    /\ UNCHANGED <<payment, now, changes>>

\* The monthly report of the year, or its error, which is the dashboard's; then
\* the clock is read.
Report ==
    /\ dash.phase = "reporting"
    /\ dash' = IF Rejected(ReportOf(dash.year))
               THEN [dash EXCEPT !.phase = "failed"]
               ELSE [dash EXCEPT !.phase = "comparing", !.pending = Halves, !.at = now,
                                 !.monthly = [m \in Month |-> Monthly(ReportOf(dash.year), m)]]
    /\ UNCHANGED <<payment, now, changes>>

\* A change of the table while the dashboard is made is counted, one before it
\* is asked for is not.
Meanwhile ==
    /\ changes < MaxChanges
    /\ changes' = changes + 1
    /\ UNCHANGED dash
Before == dash.phase = "idle" /\ UNCHANGED <<dash, changes>>

\* createPayment and the update of a callback, by other requests.
CreatePayment(p) == Create(p) /\ (Meanwhile \/ Before)
UpdateStatus(p) == Settle(p) /\ (Meanwhile \/ Before)

DashNext ==
    \/ \E year \in Years : Ask(year)
    \/ \E q \in Counts \cup Halves : Query(q)
    \/ Report
    \/ \E p \in Payment : CreatePayment(p) \/ UpdateStatus(p)
    \/ Tick /\ UNCHANGED <<dash, changes>>

DashSpec == DashInit /\ [][DashNext]_dashVars

-----------------------------------------------------------------------------
(* Properties *)

\* The report is a function of the table and the clock, so it is looked at between
\* two dashboards.
BetweenDashboards == dash.phase = "idle"

\* The report of a full year is complete to its last instant and adds up, with a
\* method or without (lines 543-549, 584-606, 636-648).
FullYearAdds == BetweenDashboards => FullYearSums

\* The report of a range inside its year shows every month the range touches, and
\* its total is all revenue of the range (lines 608-636).
RangeInYearAdds == BetweenDashboards => RangeInYearSums

Counted == dash.phase \in {"reporting", "comparing", "done", "failed"}

Abs(n) == IF n < 0 THEN -n ELSE n

\* Five queries are not one snapshot (lines 712-722): a payment may be counted
\* under two statuses, or under none.  The three counts miss the total by no more
\* than the payments created and settled meanwhile.
DriftIsBounded ==
    Counted => Abs(dash.got["total"]
                   - (dash.got["pending"] + dash.got["success"] + dash.got["failed"])) <= changes

\* When nothing changed meanwhile, the month the growth starts from is the report's
\* entry of that month, though it is found with a bound of its own (line 733), and
\* the months of one year are no more than all revenue (lines 724-747).
QuietDashboardAgrees ==
    dash.phase = "done" /\ changes = 0 =>
        /\ dash.year = YearOf(dash.at) => dash.got["thisMonth"] = dash.monthly[MonthOf(dash.at)]
        /\ MapThenSumSet(LAMBDA m : dash.monthly[m], Month) <= dash.got["revenue"]
        /\ dash.got["thisMonth"] + dash.got["lastMonth"] <= dash.got["revenue"]

LastMonth(t) == IF MonthOf(t) = 0 THEN In(YearOf(t) - 1, MonthsInYear - 1)
                ELSE In(YearOf(t), MonthOf(t) - 1)

\* The first instant is the only one of its day that counts.
OnLastDay(p, t) ==
    /\ payment[p].createdAt > Start(YearOf(t), MonthOf(t)) - InstantsInDay
    /\ payment[p].createdAt < Start(YearOf(t), MonthOf(t))

\* The month before, over a turn of the year too, is complete but for the
\* payments of its last day after midnight, which neither amount has (line 735).
LastDayIsInNoMonth ==
    dash.phase = "done" /\ changes = 0 =>
        dash.got["lastMonth"] = Sum({p \in LastMonth(dash.at) : ~OnLastDay(p, dash.at)})
=============================================================================
