SPECIFICATION DashSpec
CONSTANTS
    p1 = p1
    p2 = p2
    vnpay = vnpay
    momo = momo
    None = None
    Payment <- MCPayment
    Amount <- MCAmount
    MethodOf <- MCMethodOf
    Method <- MCMethod
    MonthsInYear = 2
    DaysInMonth = 2
    InstantsInDay = 2
    MinYear = 1
    MaxYear = 2
    Filters <- MCFilters
    Years <- MCYears
    MaxChanges = 1
SYMMETRY AnyPayment
INVARIANTS
    FullYearAdds
    RangeInYearAdds
    QuietDashboardAgrees
    LastDayIsInNoMonth
    DriftIsBounded
CHECK_DEADLOCK FALSE
