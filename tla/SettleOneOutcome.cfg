SPECIFICATION Spec
CONSTANTS
    p1 = p1
    u1 = u1
    h1 = h1
    h2 = h2
    t1 = t1
    NoTxn = NoTxn
    Blank = Blank
    Zero = Zero
    Reference = Reference
    Payment <- MCPayment
    Ref <- MCRef
    Handler <- MCHandler
    Txn <- MCTxn
    Outcomes <- AllOutcomes
    MaxReports = 1
    MaxDuplicates = 1
    MaxFaults = 1
SYMMETRY HandlerSymmetry
INVARIANTS
    TypeOK
    SuccessIsBacked
    AcknowledgedIsSettled
    OkMeansAnnounced
    SettledIsAnnounced
    EventsAgreeWithRow
    VNPaySuccessPageIsTrue
PROPERTIES
    SettledIsFinal
CHECK_DEADLOCK FALSE
