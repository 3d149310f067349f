------------------------- MODULE MCBookingPayments -------------------------
(***************************************************************************)
(* Small instances of BookingPayments.                                     *)
(***************************************************************************)
EXTENDS BookingPayments, TLC

CONSTANTS b1, r1, r2, r3, h1, h2

MCBooking == {b1}
MCRef == {r1, r2, r3}
MCHandler == {h1, h2}

Req(source, booking, method, serial) ==
    [source |-> source, booking |-> booking, method |-> method, serial |-> serial]

Created(n) == Req("booking.created", b1, "supported", n)
Cancel     == Req("booking.canceled", b1, "missing", 0)
CancelAny  == Req("booking.canceled", NoBooking, "missing", 0)
Posted     == Req("POST", b1, "supported", 0)

\* The booking service's message twice, the customer's POST, a message without
\* a method, and a cancellation without an id, which may do what one with an id
\* does and more.
Traffic == {Created(1), Created(2), Posted,
            Req("booking.created", b1, "missing", 3), CancelAny}

CreatedAndCanceled == {Created(1), Cancel}
CreatedTwice == {Created(1), Posted}

ModelSymmetry == Permutations(MCHandler) \cup Permutations(MCRef)
=============================================================================
