SPECIFICATION FairSpec
CONSTANTS
    p1 = p1
    u1 = u1
    h1 = h1
    h2 = h2
    t1 = t1
    NoTxn = NoTxn
    Blank = Blank
    Zero = Zero
    Reference = Reference
    Payment <- MCPayment
    Ref <- MCPayment
    Handler <- MCHandler
    Txn <- MCTxn
    Outcomes <- PaidOrDeclined
    MaxReports = 1
    MaxDuplicates = 0
    MaxFaults = 1
PROPERTIES
    SuccessIsAnnounced
CHECK_DEADLOCK FALSE
