----------------------------- MODULE References -----------------------------
(***************************************************************************)
(* The references under which payments are known to their gateways, made   *)
(* by each createPayment from the clock and a random draw                  *)
(* (payments.service.ts:67-130, vietqr.provider.ts:29-31), and what they   *)
(* are for: a callback brings one back, and the payment with it is settled.*)
(***************************************************************************)
EXTENDS Integers

CONSTANTS
    Call,           \* calls of createPayment
    Booking,        \* bookings they are for
    Clock,          \* Date.now(): milliseconds
    ClockLow,       \* the clock has as many digits as this power of ten (10^12)
    Window,         \* the last six digits of the clock repeat (10^6)
    FourDigits,     \* draws of Math.floor(Math.random() * 10000)
    TwoDigits       \* draws of Math.floor(Math.random() * 100)

Method == {"VIETQR", "VNPAY", "MOMO", "PAYOS"}

Draw(method) ==
    CASE method \in {"VIETQR", "VNPAY"} -> FourDigits
      [] method = "PAYOS" -> TwoDigits
      [] method = "MOMO" -> {0}

\* What Math.floor(Math.random() * 10000) may be.
FourDigitDraw == 0..9999

ASSUME ReferenceAssumption ==
    /\ ClockLow \in Nat \ {0} /\ Window \in Nat \ {0}
    /\ Clock \subseteq ClockLow..10 * ClockLow - 1
    /\ FourDigits \subseteq FourDigitDraw
    /\ TwoDigits \subseteq 0..99
    /\ Window * 1000 <= ClockLow

VARIABLES
    now,        \* the clock
    call,       \* call[c]: how far c is, and what its reference is made of
    inserted,   \* the calls whose payment has a row
    paid        \* <<c, d>>: a callback for the link of c settled the row of d

vars == <<now, call, inserted, paid>>

Idle == [pc |-> "idle"]

\* asked: the link is out; refused: the gateway made none; failed: no row.
Made ==
    [pc: {"asked", "refused", "inserted", "failed"}, method: Method, booking: Booking,
     time: Clock, draw: FourDigitDraw]

TypeOK ==
    /\ now \in Clock
    /\ call \in [Call -> {Idle} \cup Made]
    /\ inserted \subseteq Call
    /\ paid \subseteq Call \X Call

Init ==
    /\ now \in Clock
    /\ call = [c \in Call |-> Idle]
    /\ inserted = {}
    /\ paid = {}

-----------------------------------------------------------------------------
(* References *)

\* String(Date.now()).slice(-6).
LastDigits(time) == time % Window

\* The last digits of the clock and four of the draw, read as a number.
VietqrCodeUnpadded(time, draw) ==
    LastDigits(time) * (IF draw < 10 THEN 10 ELSE IF draw < 100 THEN 100
                       ELSE IF draw < 1000 THEN 1000 ELSE 10000) + draw
VietqrCode(time, draw) == LastDigits(time) * 10000 + draw

\* The clock and a draw without leading zeros, read as a number.
PayosCodeOfWindow(time, draw) ==
    IF draw < 10 THEN LastDigits(time) * 10 + draw ELSE LastDigits(time) * 100 + draw
PayosCode(time, draw) == IF draw < 10 THEN time * 10 + draw ELSE time * 100 + draw

\* A number, BK<booking>_<time>_<draw> or BK_<booking>_<time>: the last part tells
\* the two texts apart, and neither is a number.
ReferenceOf(made) ==
    CASE made.method = "VIETQR" -> [number |-> VietqrCode(made.time, made.draw)]
      [] made.method = "PAYOS"  -> [number |-> PayosCode(made.time, made.draw)]
      [] made.method = "VNPAY"  ->
            [booking |-> made.booking, time |-> made.time, draw |-> made.draw]
      [] made.method = "MOMO"   -> [booking |-> made.booking, time |-> made.time]

Reference(c) == ReferenceOf(call[c])

IsMade(c) == call[c] # Idle
HasLink(c) == call[c].pc \in {"asked", "inserted", "failed"}

Same(c, d) == call[c].method = call[d].method /\ Reference(c) = Reference(d)

-----------------------------------------------------------------------------
\* createPayment reads the clock, draws, and asks the gateway for a link.
Ask(c) ==
    /\ call[c] = Idle
    /\ \E method \in Method, booking \in Booking : \E draw \in Draw(method) :
          call' = [call EXCEPT ![c] = [pc |-> "asked", method |-> method, booking |-> booking,
                                       time |-> now, draw |-> draw]]
    /\ UNCHANGED <<now, inserted, paid>>

\* The gateway refuses, for a reference it knows or any other reason; VNPay is
\* not asked, its link is signed here.
Refuse(c) ==
    /\ call[c].pc = "asked"
    /\ call[c].method # "VNPAY"
    /\ call' = [call EXCEPT ![c].pc = "refused"]
    /\ UNCHANGED <<now, inserted, paid>>

\* The row is inserted, or the insert throws: because the database fails, or for a
\* method and reference that a row has already, where the index of schema.prisma:46
\* is there, which no migration creates.
Insert(c) ==
    /\ call[c].pc = "asked"
    /\ \/ /\ call' = [call EXCEPT ![c].pc = "inserted"]
          /\ inserted' = inserted \cup {c}
       \/ /\ call' = [call EXCEPT ![c].pc = "failed"]
          /\ UNCHANGED inserted
    /\ UNCHANGED <<now, paid>>

\* A callback about the link of c settles the first row with its method and
\* reference, if there is one.
Callback(c) ==
    /\ HasLink(c)
    /\ \E d \in inserted :
          /\ Same(c, d)
          /\ paid' = paid \cup {<<c, d>>}
    /\ UNCHANGED <<now, call, inserted>>

Tick ==
    /\ now + 1 \in Clock
    /\ now' = now + 1
    /\ UNCHANGED <<call, inserted, paid>>

Next ==
    \/ \E c \in Call : Ask(c) \/ Refuse(c) \/ Insert(c) \/ Callback(c)
    \/ Tick

Spec == Init /\ [][Next]_vars

-----------------------------------------------------------------------------
(* Properties *)

\* What it takes for two calls to make one reference: the same booking in the
\* same millisecond for MoMo, with the same draw for VNPay; the same time and draw
\* for PayOS; the same draw at a time Window apart, or the same time, for VietQR.
Coincide(c, d) ==
    /\ call[c].draw = call[d].draw
    /\ call[c].method = "VIETQR" => LastDigits(call[c].time) = LastDigits(call[d].time)
    /\ call[c].method # "VIETQR" => call[c].time = call[d].time
    /\ call[c].method \in {"VNPAY", "MOMO"} => call[c].booking = call[d].booking

\* A payment is settled for a link that is not its own only after such a
\* coincidence: the digits that are put together, with or without leading zeros,
\* make no other two references the same (lines 67-118, vietqr.provider.ts:31).
SettledForAnotherIsACoincidence ==
    \A c, d \in Call : <<c, d>> \in paid =>
        /\ d \in inserted
        /\ call[c].method = call[d].method
        /\ Coincide(c, d)

\* findPaymentByReference takes no method (line 492): a reference is never that of
\* two methods, though VIETQR and PAYOS both number their orders at one merchant.
ReferenceTellsMethod ==
    \A c, d \in Call :
        IsMade(c) /\ IsMade(d) /\ Reference(c) = Reference(d) => call[c].method = call[d].method

\* vietqr.provider.ts:30: timestamp and draw are put together "to ensure
\* uniqueness": two orders of different times have different codes.
VietqrCodesAreUnique ==
    \A c, d \in Call :
        /\ IsMade(c) /\ IsMade(d)
        /\ call[c].method = "VIETQR" /\ call[d].method = "VIETQR"
        /\ call[c].time # call[d].time
        => Reference(c) # Reference(d)

\* payments.service.ts:107: "Simple unique orderId".
MomoOrderIdsAreUnique ==
    \A c, d \in Call :
        /\ c # d /\ IsMade(c) /\ IsMade(d)
        /\ call[c].method = "MOMO" /\ call[d].method = "MOMO"
        => Reference(c) # Reference(d)
=============================================================================
