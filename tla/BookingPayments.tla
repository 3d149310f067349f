-------------------------- MODULE BookingPayments --------------------------
(***************************************************************************)
(* How payments come to exist, and what a canceled booking does to them:   *)
(* the RabbitMQ consumer of booking.created and booking.canceled, POST     *)
(* /payments, and PaymentsService.createPayment, which both share.  The    *)
(* queue is consumed with noAck, so a message leaves it when it is         *)
(* delivered; up to the next `await' a handler runs without interruption,  *)
(* so its synchronous checks belong to the step that starts it.            *)
(***************************************************************************)
EXTENDS Naturals, Sequences, FiniteSets

CONSTANTS
    Booking,    \* ids the booking service gives its bookings
    NoBooking,  \* no id: a message or a body without the field
    Ref,        \* references the gateways know payments by
    Handler,    \* handlers the service runs at the same time
    Request,    \* messages published by the booking service, POST requests
    MaxFaults   \* bound: failed calls and process crashes

Source == {"booking.created", "booking.canceled", "POST"}

\* The payment method as the request spells it: one of the four the service
\* knows (in any case), one it does not know (ZALOPAY), or none at all.
Method == {"supported", "unsupported", "missing"}

\* serial tells apart two copies of one request.
RequestType ==
    [source: Source, booking: Booking \cup {NoBooking}, method: Method, serial: Nat]
Canceled(q) == q.source = "booking.canceled"

\* A reference is BK<booking>_<time>_<random>, BK_<booking>_<time> or a number
\* made of the time and a random part: never the id of a booking.
ASSUME BookingAssumption ==
    /\ Request \subseteq RequestType
    /\ Booking \cap Ref = {}
    /\ NoBooking \notin Booking \cup Ref
    /\ MaxFaults \in Nat

VARIABLES
    queue,      \* payment_worker_queue: booking messages not yet delivered
    arrived,    \* requests made so far
    call,       \* call[h]: the handler that h is running
    link,       \* link[r]: the request a gateway issued a payment link for
    row,        \* row[r]: status of the payment with reference r
    published,  \* payment.success / payment.failed events: {<<r, status>>}
    faults      \* failed calls and crashes so far

vars == <<queue, arrived, call, link, row, published, faults>>

Absent  == "absent"
NoLink  == [source |-> "nobody"]
Gateway == [source |-> "gateway"]
Idle    == [pc |-> "idle", request |-> NoLink]

\* Who a handler runs for: a request or a gateway.
Handling ==
    [pc: {"link", "lookup", "ack", "nack"}, request: Request]
    \cup [pc: {"insert"}, request: Request, ref: Ref]
    \cup [pc: {"update", "publish"}, request: Request \cup {Gateway},
          ref: Ref, status: {"SUCCESS", "FAILED"}]

Init ==
    /\ queue = << >>
    /\ arrived = {}
    /\ call = [h \in Handler |-> Idle]
    /\ link = [r \in Ref |-> NoLink]
    /\ row = [r \in Ref |-> Absent]
    /\ published = {}
    /\ faults = 0

Exists(r) == row[r] # Absent
PaymentsOf(q) == {r \in Ref : link[r] = q /\ Exists(r)}

-----------------------------------------------------------------------------
\* The booking service publishes a message; the queue is durable.
BookingPublishes(q) ==
    /\ q.source # "POST"
    /\ q \notin arrived
    /\ arrived' = arrived \cup {q}
    /\ queue' = Append(queue, q)
    /\ UNCHANGED <<call, link, row, published, faults>>

\* Both entries to createPayment check that the required fields are there,
\* createPayment that it knows the method (normalizeMethod).
Accepted(q) == q.booking # NoBooking /\ q.method = "supported"

\* The first, synchronous part of a handler.
Started(q) ==
    [pc |-> IF Canceled(q) THEN "lookup"
            ELSE IF Accepted(q) THEN "link" ELSE "nack",
     request |-> q]

\* Delivery takes the message off the queue: with noAck the broker does not
\* wait for the handler, and prefetchCount does not hold messages back.
Deliver(h) ==
    /\ call[h] = Idle
    /\ queue # << >>
    /\ call' = [call EXCEPT ![h] = Started(Head(queue))]
    /\ queue' = Tail(queue)
    /\ UNCHANGED <<arrived, link, row, published, faults>>

\* POST /payments, by the customer's browser.
Post(h, q) ==
    /\ call[h] = Idle
    /\ q.source = "POST"
    /\ q \notin arrived
    /\ arrived' = arrived \cup {q}
    /\ call' = [call EXCEPT ![h] = Started(q)]
    /\ UNCHANGED <<queue, link, row, published, faults>>

-----------------------------------------------------------------------------
\* createPayment asks the gateway for a payment link under a new reference
\* (for VNPay the signed URL itself is the link).
CreateLink(h, r) ==
    /\ call[h].pc = "link"
    /\ link[r] = NoLink
    /\ link' = [link EXCEPT ![r] = call[h].request]
    /\ call' = [call EXCEPT ![h] = [pc |-> "insert", request |-> call[h].request,
                                    ref |-> r]]
    /\ UNCHANGED <<queue, arrived, row, published, faults>>

\* The status of a new row, and the one the caller's dto may carry.
StatusFromDto(q) == "undefined"
InitialStatus(q) == "PENDING"

\* prisma.payment.create.  No row of the booking is looked for: neither
\* before the link is made, nor by a constraint of the table.
InsertedOnce(r, q) ==
    IF \E s \in Ref : Exists(s) /\ link[s].booking = q.booking
    THEN row ELSE [row EXCEPT ![r] = InitialStatus(q)]
Inserted(r, q) == [row EXCEPT ![r] = InitialStatus(q)]

InsertRow(h) ==
    /\ call[h].pc = "insert"
    /\ row' = Inserted(call[h].ref, call[h].request)
    /\ call' = [call EXCEPT ![h] = [pc |-> "ack", request |-> call[h].request]]
    /\ UNCHANGED <<queue, arrived, link, published, faults>>

\* findPaymentByReference(data.bookingId): the column compared is reference, and
\* without an id nothing is compared.
Lookup(booking) == {r \in Ref : Exists(r) /\ booking \in {r, NoBooking}}

\* handleBookingCanceled looks for no missing field.  findFirst gives one of the
\* payments, any of them; found PENDING, it is to become FAILED.
FindCanceled(h) ==
    /\ call[h].pc = "lookup"
    /\ LET q == call[h].request
       IN  \/ /\ \/ Lookup(q.booking) = {}
                 \/ \E r \in Lookup(q.booking) : row[r] # "PENDING"
              /\ call' = [call EXCEPT ![h] = [pc |-> "ack", request |-> q]]
           \/ \E r \in Lookup(q.booking) :
                 /\ row[r] = "PENDING"
                 /\ call' = [call EXCEPT ![h] = [pc |-> "update", request |-> q,
                                                ref |-> r, status |-> "FAILED"]]
    /\ UNCHANGED <<queue, arrived, link, row, published, faults>>

\* A gateway's callback about an existing payment, at the point where it has
\* decided to settle it; some do so whatever its status is (the callbacks are
\* in module PaymentSettlement).
GatewayCallback(h, r, status) ==
    /\ call[h] = Idle
    /\ Exists(r)
    /\ call' = [call EXCEPT ![h] = [pc |-> "update", request |-> Gateway,
                                    ref |-> r, status |-> status]]
    /\ UNCHANGED <<queue, arrived, link, row, published, faults>>

\* updateStatusByPaymentId, and the event it publishes.
UpdateStatusByPaymentId(h) ==
    /\ call[h].pc = "update"
    /\ row' = [row EXCEPT ![call[h].ref] = call[h].status]
    /\ call' = [call EXCEPT ![h].pc = "publish"]
    /\ UNCHANGED <<queue, arrived, link, published, faults>>

PublishPaymentStatusEvent(h) ==
    /\ call[h].pc = "publish"
    /\ published' = published \cup {<<call[h].ref, call[h].status>>}
    /\ call' = [call EXCEPT ![h] =
                   IF call[h].request = Gateway THEN Idle
                   ELSE [pc |-> "ack", request |-> call[h].request]]
    /\ UNCHANGED <<queue, arrived, link, row, faults>>

-----------------------------------------------------------------------------
\* channel.ack, or the HTTP answer: the message left the queue long ago.
Ack(h) ==
    /\ call[h].pc = "ack"
    /\ call' = [call EXCEPT ![h] = Idle]
    /\ UNCHANGED <<queue, arrived, link, row, published, faults>>

\* channel.nack(message, false, true), or the HTTP error.  `requeue' asks for
\* the message to be put back; for a message delivered with noAck the broker
\* holds nothing that it could put back.
Requeued(q) == IF q.source = "POST" THEN queue ELSE Append(queue, q)
AfterNack(q) == queue

Nack(h) ==
    /\ call[h].pc = "nack"
    /\ queue' = AfterNack(call[h].request)
    /\ call' = [call EXCEPT ![h] = Idle]
    /\ UNCHANGED <<arrived, link, row, published, faults>>

\* A call to the gateway, the database or the broker throws, before or after
\* it took effect: the consumer's catch nacks, a POST is answered with an
\* error, a callback ends (its retries are PaymentSettlement's).
Throw(h) ==
    /\ call[h].pc \in {"link", "insert", "lookup", "update", "publish", "ack"}
    /\ faults < MaxFaults
    /\ faults' = faults + 1
    /\ call' = [call EXCEPT ![h] =
                   IF call[h].request = Gateway THEN Idle
                   ELSE [pc |-> "nack", request |-> call[h].request]]
    /\ UNCHANGED <<queue, arrived, link, row, published>>

\* The process dies and restarts; queue and database survive.
Crash ==
    /\ \E h \in Handler : call[h] # Idle
    /\ faults < MaxFaults
    /\ faults' = faults + 1
    /\ call' = [h \in Handler |-> Idle]
    /\ UNCHANGED <<queue, arrived, link, row, published>>

-----------------------------------------------------------------------------
Step(h) ==
    \/ \E r \in Ref : CreateLink(h, r)
    \/ InsertRow(h)
    \/ FindCanceled(h)
    \/ UpdateStatusByPaymentId(h)
    \/ PublishPaymentStatusEvent(h)
    \/ Ack(h)
    \/ Nack(h)

Next ==
    \/ \E q \in Request : BookingPublishes(q)
    \/ \E h \in Handler :
          \/ Deliver(h)
          \/ \E q \in Request : Post(h, q)
          \/ \E r \in Ref, status \in {"SUCCESS", "FAILED"} :
                GatewayCallback(h, r, status)
          \/ Step(h)
          \/ Throw(h)
    \/ Crash

Spec == Init /\ [][Next]_vars

\* The broker delivers what is queued, and the runtime finishes a handler it
\* started.  Nothing makes customers pay or gateways call.
Fairness ==
    /\ WF_vars(\E h \in Handler : Deliver(h))
    /\ \A h \in Handler : WF_vars(Step(h))

FairSpec == Spec /\ Fairness

-----------------------------------------------------------------------------
\* The variables hold what their declarations say; above all a row is created
\* with one of the statuses of the enum, whatever the caller's dto says.
TypeOK ==
    /\ queue \in Seq(Request)
    /\ arrived \subseteq Request
    /\ call \in [Handler -> Handling \cup {Idle}]
    /\ link \in [Ref -> Request \cup {NoLink}]
    /\ row \in [Ref -> {Absent, "PENDING", "SUCCESS", "FAILED"}]
    /\ published \subseteq Ref \X {"SUCCESS", "FAILED"}
    /\ faults \in Nat

Waiting(q) == \E i \in 1 .. Len(queue) : queue[i] = q
Running(q) == \E h \in Handler : call[h].request = q

\* One message or POST makes at most one payment, although the consumer asks
\* for a failed message to be put back (line 40): one that failed after the
\* row was inserted must not run again.
RequestCreatesAtMostOne ==
    \A q \in Request : \A r, s \in PaymentsOf(q) : r = s

\* Why it holds, in four parts.  A request is in one place at most.
RequestInOnePlace ==
    \A q \in Request :
        /\ Waiting(q) \/ Running(q) => q \in arrived
        /\ Waiting(q) => ~Running(q)
        /\ \A g, h \in Handler :
              call[g].request = q /\ call[h].request = q => g = h
        /\ \A i, j \in 1 .. Len(queue) : queue[i] = q /\ queue[j] = q => i = j

\* Before its handler gets to the insert, a request has no payment.
NotYetCreated ==
    \A q \in Request :
        \/ q \notin arrived
        \/ Waiting(q)
        \/ \E h \in Handler : call[h].pc \in {"link", "insert"} /\ call[h].request = q
        => PaymentsOf(q) = {}

\* The insert is about a link made for this very request, the update about a
\* payment that exists.
HandlersKnowTheirRow ==
    \A h \in Handler :
        /\ call[h].pc = "insert" => link[call[h].ref] = call[h].request
        /\ call[h].pc = "update" => Exists(call[h].ref)

\* No payment without a link.
PaymentsHaveLinks == \A r \in Ref : Exists(r) => link[r] \in Request

\* The inductive invariant of creation: RequestCreatesAtMostOne and the four
\* reasons for it.
CreationInv ==
    /\ RequestInOnePlace
    /\ NotYetCreated
    /\ HandlersKnowTheirRow
    /\ PaymentsHaveLinks
    /\ RequestCreatesAtMostOne

\* As long as no call failed, every link a customer can pay through has its
\* row, or a handler that is about to insert it: a payment made through it
\* can be recorded.  The link is made first (lines 79-130), the row after it
\* (line 133), so a failed insert leaves a link without a row.
LinksHaveRows ==
    faults = 0 => \A r \in Ref : link[r] # NoLink =>
        \/ Exists(r)
        \/ \E h \in Handler : call[h].pc = "insert" /\ call[h].ref = r

\* As long as no call failed, a request to create a payment that is neither
\* waiting nor running was refused for its fields or has its payment: no
\* interleaving of messages and POSTs of one booking drops one.
NothingIsDropped ==
    faults = 0 => \A q \in arrived :
        ~Canceled(q) /\ Accepted(q) /\ ~Waiting(q) /\ ~Running(q)
            => PaymentsOf(q) # {}

-----------------------------------------------------------------------------
\* What the documents say, and the code does not do.

\* KAFKA_EVENT_HANDLING.md, scenario 2, and consumer line 54: a payment that
\* is PENDING when its booking is canceled does not stay PENDING.
CanceledIsNotPending ==
    \A q \in Request, r \in Ref :
        Canceled(q) /\ Waiting(q) /\ row[r] = "PENDING" /\ link[r].booking = q.booking
            ~> row[r] # "PENDING"

\* KAFKA_EVENT_HANDLING.md, lines 25 and 82: booking.created is skipped when
\* the booking has a payment already.
OnePaymentPerBooking ==
    \A r, s \in Ref :
        Exists(r) /\ Exists(s) /\ link[r].booking = link[s].booking => r = s

\* RABBITMQ_MIGRATION.md, lines 56 and 60: messages are acknowledged, so one
\* whose handler failed or died is delivered again and has its effect.
CreatedIsNotLost ==
    \A q \in Request :
        q.source = "booking.created" /\ Accepted(q) /\ q \in arrived
            ~> PaymentsOf(q) # {}

\* KAFKA_EVENT_HANDLING.md, lines 12-27: booking.created carries no method, and
\* VIETQR is taken by default.
DefaultMethodIsTaken ==
    \A q \in Request :
        q.source = "booking.created" /\ q.method = "missing" /\ q \in arrived
            ~> PaymentsOf(q) # {}
=============================================================================
