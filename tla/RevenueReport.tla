---------------------------- MODULE RevenueReport ---------------------------
(***************************************************************************)
(* getMonthlyRevenue (payments.service.ts:523-651) as a function of the    *)
(* payments table and the clock, over a small calendar.  The table and the *)
(* clock move under it; the report itself is one query and changes nothing.*)
(***************************************************************************)
EXTENDS Integers, FiniteSets, FiniteSetsExt

CONSTANTS
    Payment,                    \* the payments that may be created
    Amount,                     \* Amount[p]: what p is about
    MethodOf,                   \* MethodOf[p]: the method of p
    Method,
    MonthsInYear, DaysInMonth,  \* the calendar
    InstantsInDay,              \* instant 0 of a day is midnight, the last is 23:59:59.999
    MinYear, MaxYear,           \* the years a report may be about (2000 and 2100)
    None                        \* a parameter that is not given

Month == 0..MonthsInYear - 1

ASSUME CalendarAssumption ==
    /\ IsFiniteSet(Payment) /\ Amount \in [Payment -> Nat \ {0}]
    /\ MethodOf \in [Payment -> Method]
    /\ MonthsInYear \in Nat \ {0} /\ DaysInMonth \in Nat \ {0} /\ InstantsInDay \in Nat \ {0}
    /\ MinYear \in Nat \ {0} /\ MaxYear \in Nat /\ MinYear <= MaxYear
    /\ None \notin Int /\ None \notin Method

VARIABLES
    payment,    \* payment[p]: status and time of creation of the row, or none yet
    now         \* the clock

-----------------------------------------------------------------------------
(* The calendar *)

\* new Date(y, m, 1): midnight of the first day; m may be one past the year.
Start(y, m) == (y * MonthsInYear + m) * DaysInMonth * InstantsInDay

\* new Date(y, m + 1, 0, 23, 59, 59, 999): the last instant of the month.
EndOfMonth(y, m) == Start(y, m + 1) - 1

\* getFullYear() and getMonth().
YearOf(t) == t \div (MonthsInYear * DaysInMonth * InstantsInDay)
MonthOf(t) == (t \div (DaysInMonth * InstantsInDay)) % MonthsInYear

Instant == Start(MinYear, 0)..EndOfMonth(MaxYear, MonthsInYear - 1)

-----------------------------------------------------------------------------
(* The table and the clock *)

Absent == [status |-> "absent", createdAt |-> 0]

Status == {"PENDING", "SUCCESS", "FAILED"}

TableInit ==
    /\ payment = [p \in Payment |-> Absent]
    /\ now = Start(MinYear, 0)

\* createPayment: createdAt is the time of the insert.
Create(p) ==
    /\ payment[p] = Absent
    /\ payment' = [payment EXCEPT ![p] = [status |-> "PENDING", createdAt |-> now]]
    /\ UNCHANGED now

\* A callback settles the payment, or settles it the other way.
Settle(p) ==
    /\ payment[p] # Absent
    /\ \E status \in {"SUCCESS", "FAILED"} \ {payment[p].status} :
          payment' = [payment EXCEPT ![p].status = status]
    /\ UNCHANGED now

Tick ==
    /\ now + 1 \in Instant
    /\ now' = now + 1
    /\ UNCHANGED payment

-----------------------------------------------------------------------------
(* The report *)

Sum(ps) == MapThenSumSet(LAMBDA p : Amount[p], ps)

Successful == {p \in Payment : payment[p].status = "SUCCESS"}

\* findCompletedPayments: bounds included.
FindCompletedPayments(start, end, method) ==
    {p \in Successful :
        /\ start <= payment[p].createdAt /\ payment[p].createdAt <= end
        /\ method \in {None, MethodOf[p]}}

\* The year comes as a text of the query: a given 0 is truthy, and no year a report
\* may be about.
CurrentYear(f) == IF f.year = None THEN YearOf(now) ELSE f.year

RangeStart(f) ==
    IF f.startDate = None THEN Start(CurrentYear(f), 0) ELSE f.startDate

RangeEndAtMidnight(f) ==
    IF f.endDate = None
    THEN EndOfMonth(CurrentYear(f), MonthsInYear - 1) - (InstantsInDay - 1) ELSE f.endDate
RangeEnd(f) ==
    IF f.endDate = None
    THEN EndOfMonth(CurrentYear(f), MonthsInYear - 1) ELSE f.endDate

\* Invalid year, or startDate after endDate.
Rejected(f) ==
    \/ CurrentYear(f) \notin MinYear..MaxYear
    \/ RangeStart(f) > RangeEnd(f)

Completed(f) == FindCompletedPayments(RangeStart(f), RangeEnd(f), f.method)

\* Payments are grouped by the name of their month, whatever its year.
Monthly(f, m) == Sum({p \in Completed(f) : MonthOf(payment[p].createdAt) = m})

IsFullYear(f) == f.startDate = None /\ f.endDate = None

\* The three cases in which a month from first to last lies in the range.
Overlaps(first, last, start, end) ==
    \/ first >= start /\ first <= end
    \/ last >= start /\ last <= end
    \/ first <= start /\ last >= end

\* All months of a full year; of a range, the months of the current year that
\* overlap it.
ShownIfStarted(f) ==
    {m \in Month : IsFullYear(f) \/
        LET first == Start(CurrentYear(f), m)
        IN  first >= RangeStart(f) /\ first <= RangeEnd(f)}
Shown(f) ==
    {m \in Month : IsFullYear(f) \/
        Overlaps(Start(CurrentYear(f), m), EndOfMonth(CurrentYear(f), m),
                 RangeStart(f), RangeEnd(f))}

TotalRevenue(f) == MapThenSumSet(LAMBDA m : Monthly(f, m), Shown(f))

TotalPayments(f) == Cardinality(Completed(f))

-----------------------------------------------------------------------------
(* What the report should be *)

\* The parameters of a report: a year or none, dates or none, a method or none.
CONSTANT Filters

\* Dates are instants: one that is no date is an error before the table is read.
ASSUME FiltersAssumption ==
    Filters \subseteq [year: Int \cup {None}, startDate: Int \cup {None},
                       endDate: Int \cup {None}, method: Method \cup {None}]

Answered == {f \in Filters : ~Rejected(f)}

\* Reference: the successful payments created in month m of year y.
In(y, m) ==
    {p \in Successful : YearOf(payment[p].createdAt) = y /\ MonthOf(payment[p].createdAt) = m}

OfMethod(ps, f) == {p \in ps : f.method \in {None, MethodOf[p]}}

\* Every month of a full year has what was created in it, to the last instant, the
\* total is theirs, and every payment counted is in it.
FullYearSums ==
    \A f \in Answered : IsFullYear(f) =>
        /\ \A m \in Month : Monthly(f, m) = Sum(OfMethod(In(CurrentYear(f), m), f))
        /\ TotalRevenue(f) = Sum(Completed(f))
        /\ TotalPayments(f) =
              Cardinality(OfMethod(UNION {In(CurrentYear(f), m) : m \in Month}, f))

\* Inside one year, the months shown for a range have all its revenue: those it only
\* touches are among them, and no other adds to the total.
RangeInYearSums ==
    \A f \in Answered :
        /\ YearOf(RangeStart(f)) = CurrentYear(f)
        /\ YearOf(RangeEnd(f)) = CurrentYear(f)
        => /\ TotalRevenue(f) = Sum(Completed(f))
           /\ \A p \in Completed(f) : MonthOf(payment[p].createdAt) \in Shown(f)
           /\ \A m \in Month \ Shown(f) : Monthly(f, m) = 0

-----------------------------------------------------------------------------
\* What the comments say, and the code does not do.

\* The comments at lines 595 and 608: with a range, only months with data are
\* shown.
OnlyMonthsWithData ==
    \A f \in Answered : ~IsFullYear(f) => \A m \in Shown(f) : Monthly(f, m) > 0

\* The comment at line 616: the months that lie in the range from start to end are
\* kept, so a month with revenue of the range is shown.
MonthsInRangeAreShown ==
    \A f \in Answered : \A p \in Completed(f) : MonthOf(payment[p].createdAt) \in Shown(f)
=============================================================================
