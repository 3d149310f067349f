SPECIFICATION Spec
CONSTANTS
    p1 = p1
    p2 = p2
    p3 = p3
    None = None
    Payment <- MCPayment
    Limits <- MCLimits
    MaxTime = 3
    MaxSettled = 2
SYMMETRY AnyPayment
INVARIANTS
    WalkMissesNothing
    NothingIsShownTwice
    MetaAgrees
CHECK_DEADLOCK FALSE
