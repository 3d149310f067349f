----------------------------- MODULE MCDashboard ----------------------------
(***************************************************************************)
(* A small instance of Dashboard and RevenueReport: two years of two       *)
(* months of two days, of two instants each.                               *)
(***************************************************************************)
EXTENDS Dashboard, TLC

CONSTANTS p1, p2, vnpay, momo

MCPayment == {p1, p2}
MCAmount == [p \in Payment |-> 1]
MCMethodOf == [p \in Payment |-> vnpay]
MCMethod == {vnpay, momo}

\* Year 0 is out of range.
MCYears == {None, 0, 1}

\* Dates at and around the boundaries of months and years.
Dates == {Start(1, 0), EndOfMonth(1, 0), Start(1, 1) + 1, EndOfMonth(1, 1), Start(2, 0),
          EndOfMonth(2, 0) - 1, EndOfMonth(2, 1)}

MCFilters ==
    [year: {None, 1, 2, 3}, startDate: Dates \cup {None}, endDate: Dates \cup {None},
     method: {None}]
    \cup [year: {None, 1, 2}, startDate: {None}, endDate: {None}, method: MCMethod]

\* All amounts and methods are the same.
AnyPayment == Permutations(Payment)
=============================================================================
