SPECIFICATION Spec
CONSTANTS
    b1 = b1
    r1 = r1
    r2 = r2
    r3 = r3
    h1 = h1
    h2 = h2
    Booking <- MCBooking
    NoBooking = NoBooking
    Ref <- MCRef
    Handler <- MCHandler
    Request <- CreatedTwice
    MaxFaults = 0
INVARIANTS
    OnePaymentPerBooking
CHECK_DEADLOCK FALSE
