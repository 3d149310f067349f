SPECIFICATION FairSpec
CONSTANTS
    e1 = e1
    e2 = e2
    b1 = b1
    PaymentEmission <- MCPaymentEmission
    BookingEmission <- MCBookingEmission
    MaxFaults = 3
INVARIANTS
    TypeOK
    ProducerInv
PROPERTIES
    ImplementsAwaitedPublish
    EmissionsEnd
CHECK_DEADLOCK FALSE
