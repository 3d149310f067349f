SPECIFICATION Spec
CONSTANTS
    b1 = b1
    r1 = r1
    r2 = r2
    r3 = r3
    h1 = h1
    h2 = h2
    Booking <- MCBooking
    NoBooking = NoBooking
    Ref <- MCRef
    Handler <- MCHandler
    Request <- Traffic
    MaxFaults = 1
SYMMETRY ModelSymmetry
INVARIANTS
    TypeOK
    CreationInv
    LinksHaveRows
    NothingIsDropped
CHECK_DEADLOCK FALSE
