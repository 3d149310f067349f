SPECIFICATION Spec
CONSTANTS
    c1 = c1
    c2 = c2
    b1 = b1
    b2 = b2
    Call <- MCCall
    Booking <- MCBooking
    Clock <- MCClock
    ClockLow = 2000
    Window = 2
    FourDigits <- MCFourDigits
    TwoDigits <- MCTwoDigits
SYMMETRY AnyCall
INVARIANTS
    SettledForAnotherIsACoincidence
    ReferenceTellsMethod
CHECK_DEADLOCK FALSE
