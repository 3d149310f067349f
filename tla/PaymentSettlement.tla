------------------------- MODULE PaymentSettlement -------------------------
(***************************************************************************)
(* How a payment leaves PENDING: the six callbacks of the four gateways    *)
(* (src/payments/payments.service.ts), each an asynchronous call that      *)
(* reads the payment's row, checks the notification, updates the row,      *)
(* publishes an event on RabbitMQ and answers.  Every `await' of the code  *)
(* is a point where other calls interleave, so each of those is a step.    *)
(***************************************************************************)
EXTENDS Naturals, Sequences, FiniteSets

CONSTANTS
    Payment,        \* rows of the payments table
    Ref,            \* references a notification may carry (Payment and others)
    Handler,        \* callback requests the service runs at the same time
    Txn,            \* transaction numbers the gateways assign
    NoTxn,          \* none: undefined in a notification, no argument in a call
    Blank,          \* one that is there but falsy: MoMo's number 0, else empty text
    Zero,           \* the text "0", which toString makes of MoMo's 0
    Reference,      \* transactionId of a new row: its own reference
    Outcomes,       \* the outcomes a gateway may report
    MaxReports,     \* bound: outcomes the gateways report
    MaxDuplicates,  \* bound: deliveries of already answered notifications
    MaxFaults       \* bound: failed calls and process crashes

Method  == {"MOMO", "VNPAY", "VIETQR", "PAYOS"}
Status  == {"PENDING", "SUCCESS", "FAILED"}
Row     == [method: Method, status: Status, txn: Txn \cup {Reference, Blank}]

\* What a gateway says of a payment: does its signature verify against the
\* configured key, is the result code the one for success, is the amount the
\* one of the row, and the gateway's own transaction number.
Outcome == [valid: BOOLEAN, ok: BOOLEAN, exact: BOOLEAN,
            txn: Txn \cup {NoTxn, Blank}]

Channel == {"momo/return", "momo/ipn", "vnpay/return", "vnpay/ipn",
            "webhook", "payos/webhook"}
ReturnChannel == {"momo/return", "vnpay/return"}

Message == [channel: Channel, ref: Ref, outcome: Outcome]
Answer  == {"ok", "already", "refused"}
Event   == [status: {"SUCCESS", "FAILED"}, txn: Txn \cup {Reference, Blank, Zero}]

\* A callback in progress, by the step it takes next.
Finding  == [pc: {"find"}, msg: Message]
Working  == [pc: {"update", "publish"},
             msg: [channel: Channel, ref: Payment, outcome: Outcome],
             seen: Row, status: {"SUCCESS", "FAILED"}]
Replying == [pc: {"respond"}, msg: Message, answer: Answer]
NoCall   == [pc |-> "idle"]
Call     == Finding \cup Working \cup Replying \cup {NoCall}

ASSUME ConstantsAssumption ==
    /\ Payment \subseteq Ref
    /\ Outcomes \subseteq Outcome
    /\ NoTxn # Blank
    /\ {NoTxn, Blank} \cap (Txn \cup {Reference, Zero}) = {}
    /\ MaxReports \in Nat /\ MaxDuplicates \in Nat /\ MaxFaults \in Nat

VARIABLES
    row,        \* row[p]: method, status and transactionId of payment p
    sent,       \* notifications the gateways have sent (any may be lost)
    call,       \* call[h]: the callback that h is running
    events,     \* events[p]: messages payment.success / payment.failed about p
                \* that reached the exchange, copies by a resend included
    answers,    \* notifications with the answer the service gave
    duplicates, \* deliveries of already answered notifications so far
    faults      \* failed calls and crashes so far

vars == <<row, sent, call, events, answers, duplicates, faults>>

-----------------------------------------------------------------------------
ChannelsOf(method) ==
    CASE method = "MOMO"   -> {"momo/return", "momo/ipn"}
      [] method = "VNPAY"  -> {"vnpay/return", "vnpay/ipn"}
      [] method = "VIETQR" -> {"webhook"}
      [] method = "PAYOS"  -> {"payos/webhook"}

\* prisma.payment.findFirst({ where: { reference, method } }).  A return page
\* opened without an orderId is a notification about the row that findFirst,
\* which then has no reference to filter by, happens to give.
Found(m) == m.ref \in Payment /\ m.channel \in ChannelsOf(row[m.ref].method)

\* Number(payment.amount) !== amount, the same test in five of the callbacks.
AmountUnchecked(m) == TRUE
AmountMatches(m) == m.outcome.exact

\* The status a callback settles with, when the amount is not part of it.
Verdict(m) == IF m.outcome.ok THEN "SUCCESS" ELSE "FAILED"

\* The conversions of JavaScript: a || b, a ?? b, and n?.toString() of MoMo's
\* number.  An empty text is falsy, the text "0" is not.
Or(a, b) == IF a \in {NoTxn, Blank} THEN b ELSE a
OrNullAlways(a, b) == a
OrNull(a, b) == IF a = NoTxn THEN b ELSE a
TextOf(n) == IF n = Blank THEN Zero ELSE n

\* The transactionId a callback passes on to the event, and to the update by id.
TxnArg(m) ==
    CASE m.channel = "momo/return" -> NoTxn
      [] m.channel = "momo/ipn" -> TextOf(m.outcome.txn)
      [] m.channel \in {"vnpay/return", "vnpay/ipn"} ->
            IF m.outcome.ok THEN m.outcome.txn ELSE Or(m.outcome.txn, NoTxn)
      [] m.channel \in {"webhook", "payos/webhook"} ->
            IF m.outcome.ok THEN Or(m.outcome.txn, NoTxn) ELSE NoTxn

\* The one the row is updated with: MoMo's IPN (line 313) makes nothing of a 0
\* that it passes on to the event as a text (line 319).
StoredTxn(m) ==
    IF m.channel = "momo/ipn" THEN Or(m.outcome.txn, NoTxn) ELSE TxnArg(m)

\* What a callback that ran to its end answers.
FinalAnswerOk(m) == "ok"
FinalAnswer(m) ==
    IF m.channel \in ReturnChannel /\ ~m.outcome.ok THEN "refused" ELSE "ok"

-----------------------------------------------------------------------------
Init ==
    /\ row \in [Payment -> [method: Method, status: {"PENDING"}, txn: {Reference}]]
    /\ sent = {}
    /\ call = [h \in Handler |-> NoCall]
    /\ events = [p \in Payment |-> << >>]
    /\ answers = {}
    /\ duplicates = 0
    /\ faults = 0

\* The gateway reports an outcome on all its channels; any copy may be lost,
\* delayed, duplicated or overtaken, for a message of sent is delivered at
\* any later time, or never.
Reports == {<<m.ref, m.outcome>> : m \in sent}

GatewayReports(r, method, o) ==
    /\ Cardinality(Reports \cup {<<r, o>>}) <= MaxReports
    /\ r \in Payment => method = row[r].method
    /\ sent' = sent \cup {[channel |-> ch, ref |-> r, outcome |-> o] :
                             ch \in ChannelsOf(method)}
    /\ UNCHANGED <<row, call, events, answers, duplicates, faults>>

Answered(m) == \E a \in answers : a.msg = m

StartCall(h, m) ==
    /\ call[h] = NoCall
    /\ m \in sent
    /\ call' = [call EXCEPT ![h] = [pc |-> "find", msg |-> m]]
    /\ UNCHANGED <<row, sent, events, answers, faults>>

\* A first delivery, or a retry of a notification no answer came back for.
Deliver(h, m) == ~Answered(m) /\ StartCall(h, m) /\ UNCHANGED duplicates

\* A copy of an answered notification: a late copy, a reloaded return page.
Redeliver(h, m) ==
    /\ Answered(m)
    /\ duplicates < MaxDuplicates
    /\ StartCall(h, m)
    /\ duplicates' = duplicates + 1

-----------------------------------------------------------------------------
\* The first step of each callback: verify, find the row, check, decide.
Reply(h, answer) ==
    /\ call' = [call EXCEPT ![h] = [pc |-> "respond", msg |-> call[h].msg,
                                    answer |-> answer]]
    /\ UNCHANGED <<row, sent, events, answers, duplicates, faults>>

Settle(h, status) ==
    /\ call' = [call EXCEPT ![h] = [pc |-> "update", msg |-> call[h].msg,
                                    seen |-> row[call[h].msg.ref],
                                    status |-> status]]
    /\ UNCHANGED <<row, sent, events, answers, duplicates, faults>>

At(h, pc, channels) == call[h].pc = pc /\ call[h].msg.channel \in channels

\* handleMomoReturn: neither signature nor amount is checked.
MomoReturn(h) ==
    /\ At(h, "find", {"momo/return"})
    /\ LET m == call[h].msg
       IN  IF Found(m) THEN Settle(h, Verdict(m)) ELSE Reply(h, "refused")

\* handleMomoIpn: a wrong amount settles the payment as FAILED.
MomoIpn(h) ==
    /\ At(h, "find", {"momo/ipn"})
    /\ LET m == call[h].msg
       IN  IF m.outcome.valid /\ Found(m)
           THEN Settle(h, IF AmountMatches(m) THEN Verdict(m) ELSE "FAILED")
           ELSE Reply(h, "refused")

\* handleVNPayReturn: only a row already SUCCESS stops it, before the amount.
VNPayReturn(h) ==
    /\ At(h, "find", {"vnpay/return"})
    /\ LET m == call[h].msg
       IN  IF ~m.outcome.valid \/ ~Found(m) THEN Reply(h, "refused")
           ELSE IF row[m.ref].status = "SUCCESS" THEN Reply(h, "already")
           ELSE IF ~AmountMatches(m) THEN Reply(h, "refused")
           ELSE Settle(h, Verdict(m))

\* The other three differ only in the statuses of the row that stop them.
CheckThenSettle(h, done) ==
    LET m == call[h].msg
    IN  IF ~m.outcome.valid \/ ~Found(m) \/ ~AmountMatches(m)
        THEN Reply(h, "refused")
        ELSE IF row[m.ref].status \in done THEN Reply(h, "already")
        ELSE Settle(h, Verdict(m))

\* handleVNPayIpn: a settled row stops it, after the amount.
VNPayIpn(h) ==
    At(h, "find", {"vnpay/ipn"}) /\ CheckThenSettle(h, {"SUCCESS", "FAILED"})

\* handleVietqrWebhook: only a row already SUCCESS stops it.
VietqrWebhookUnchecked(h) == At(h, "find", {"webhook"}) /\ CheckThenSettle(h, {})
VietqrWebhook(h) == At(h, "find", {"webhook"}) /\ CheckThenSettle(h, {"SUCCESS"})

\* handlePayosWebhook: the row's status is not looked at.
PayosWebhookOnce(h) ==
    At(h, "find", {"payos/webhook"}) /\ CheckThenSettle(h, {"SUCCESS", "FAILED"})
PayosWebhook(h) == At(h, "find", {"payos/webhook"}) /\ CheckThenSettle(h, {})

-----------------------------------------------------------------------------
\* `transactionId ?? undefined': without an argument the column is kept.
UpdatedTxnOnly(r, m, status) == [r EXCEPT !.txn = OrNull(StoredTxn(m), @)]
UpdatedRow(r, m, status) ==
    [r EXCEPT !.status = status, !.txn = OrNull(StoredTxn(m), @)]

\* The condition of MoMo's updateMany, and the same update without it.
AnyStatus(r) == TRUE
StillPending(r) == r.status = "PENDING"

\* updateMany where status is PENDING: the one update that a race cannot win
\* twice.  The event is published from the row read before it.
MomoUpdate(h) ==
    /\ At(h, "update", {"momo/return", "momo/ipn"})
    /\ LET c == call[h]
           p == c.msg.ref
       IN  \/ /\ StillPending(row[p])
              /\ row' = [row EXCEPT ![p] = UpdatedRow(@, c.msg, c.status)]
              /\ call' = [call EXCEPT ![h].pc = "publish"]
           \/ /\ ~StillPending(row[p])
              /\ call' = [call EXCEPT ![h] = [pc |-> "respond", msg |-> c.msg,
                                              answer |-> FinalAnswer(c.msg)]]
              /\ UNCHANGED row
    /\ UNCHANGED <<sent, events, answers, duplicates, faults>>

\* updateStatusByPaymentId: an update by id, whatever the status has become.
\* The event is published from the row the update returned.
UpdateStatusByPaymentId(h) ==
    /\ At(h, "update", Channel \ {"momo/return", "momo/ipn"})
    /\ LET c == call[h]
           p == c.msg.ref
           r == UpdatedRow(row[p], c.msg, c.status)
       IN  /\ row' = [row EXCEPT ![p] = r]
           /\ call' = [call EXCEPT ![h].pc = "publish", ![h].seen = r]
    /\ UNCHANGED <<sent, events, answers, duplicates, faults>>

\* Every status but PENDING has its event.
OnlySuccess(log, e) == IF e.status = "SUCCESS" THEN Append(log, e) ELSE log
Published(log, e) == IF e.status = "PENDING" THEN log ELSE Append(log, e)

\* `transactionId || payment.transactionId', where payment is the row as seen.
EventOf(c) == [status |-> c.status, txn |-> Or(TxnArg(c.msg), c.seen.txn)]

\* publishPaymentStatusEvent, confirmed by the broker.
PublishPaymentStatusEvent(h) ==
    /\ call[h].pc = "publish"
    /\ LET c == call[h]
       IN  /\ events' = [events EXCEPT ![c.msg.ref] = Published(@, EventOf(c))]
           /\ call' = [call EXCEPT ![h] = [pc |-> "respond", msg |-> c.msg,
                                           answer |-> FinalAnswer(c.msg)]]
    /\ UNCHANGED <<row, sent, answers, duplicates, faults>>

\* The message reaches the exchange and its confirm is lost with the connection:
\* the await goes on, and the connection manager will send the message again
\* (module EventProducer).
LoseConfirm(h) ==
    /\ call[h].pc = "publish"
    /\ faults < MaxFaults
    /\ faults' = faults + 1
    /\ LET c == call[h]
       IN  events' = [events EXCEPT ![c.msg.ref] = Published(@, EventOf(c))]
    /\ UNCHANGED <<row, sent, call, answers, duplicates>>

Respond(h) ==
    /\ call[h].pc = "respond"
    /\ answers' = answers \cup {[msg |-> call[h].msg, answer |-> call[h].answer]}
    /\ call' = [call EXCEPT ![h] = NoCall]
    /\ UNCHANGED <<row, sent, events, duplicates, faults>>

\* A database call or the publish throws, or the answer does not get back:
\* the gateway sees an error (HTTP 500, RspCode 99) or nothing.  A call that
\* took effect before it threw is the same as one that threw one step later.
Throw(h) ==
    /\ call[h] # NoCall
    /\ faults < MaxFaults
    /\ faults' = faults + 1
    /\ call' = [call EXCEPT ![h] = NoCall]
    /\ UNCHANGED <<row, sent, events, answers, duplicates>>

\* The process dies and restarts: every callback in progress is gone.
Crash ==
    /\ \E h \in Handler : call[h] # NoCall
    /\ faults < MaxFaults
    /\ faults' = faults + 1
    /\ call' = [h \in Handler |-> NoCall]
    /\ UNCHANGED <<row, sent, events, answers, duplicates>>

-----------------------------------------------------------------------------
Find(h) == \/ MomoReturn(h)  \/ MomoIpn(h)       \/ VNPayReturn(h)
           \/ VNPayIpn(h)    \/ VietqrWebhook(h) \/ PayosWebhook(h)

Step(h) == \/ Find(h)
           \/ MomoUpdate(h)
           \/ UpdateStatusByPaymentId(h)
           \/ PublishPaymentStatusEvent(h)
           \/ Respond(h)

Next ==
    \/ \E r \in Ref, method \in Method, o \in Outcomes : GatewayReports(r, method, o)
    \/ \E h \in Handler :
          \/ \E m \in sent : Deliver(h, m) \/ Redeliver(h, m)
          \/ Step(h)
          \/ LoseConfirm(h)
          \/ Throw(h)
    \/ Crash

Spec == Init /\ [][Next]_vars

\* The runtime finishes a callback it started, and a gateway repeats a
\* server-to-server notification until it is answered.  Nothing makes a
\* customer's browser follow (or reload) the return URL.
Retried == [channel: Channel \ ReturnChannel, ref: Ref, outcome: Outcomes]

Fairness ==
    /\ \A h \in Handler : WF_vars(Step(h))
    /\ \A m \in Retried : WF_vars(\E h \in Handler : Deliver(h, m))

FairSpec == Spec /\ Fairness

-----------------------------------------------------------------------------
\* The variables hold what their declarations say: no row or event without a
\* transaction number, no callback between two of its steps.
TypeOK ==
    /\ row \in [Payment -> Row]
    /\ sent \subseteq Message
    /\ call \in [Handler -> Call]
    /\ events \in [Payment -> Seq(Event)]
    /\ answers \subseteq [msg: Message, answer: Answer]
    /\ duplicates \in Nat
    /\ faults \in Nat

EventSet(p) == {events[p][i] : i \in 1 .. Len(events[p])}
IsMomo(p) == row[p].method = "MOMO"
ResultOf(p) == [status |-> row[p].status, txn |-> row[p].txn]
WorkingOn(h, pc, p) == call[h].pc = pc /\ call[h].msg.ref = p

\* An event tells a result: status and transaction number of the row, but for
\* MoMo's 0, of which the row keeps its reference and the event says "0".
Tells(e, r) ==
    /\ e.status = r.status
    /\ e.txn = r.txn \/ (e.txn = Zero /\ r.txn = Reference)

\* Of the callbacks of a MoMo payment at most one publishes, whatever the race
\* between return and IPN: all messages are copies of one event, one message
\* and one more for each confirm that was lost.  And the event tells what the
\* row keeps, although it is built from the row as it was read before the
\* update, and from a conversion of the number that is not the update's
\* (lines 221-254, 282-319).
MomoEventMatchesRow ==
    \A p \in Payment : IsMomo(p) =>
        /\ \A e \in EventSet(p) : Tells(e, ResultOf(p))
        /\ \A e, f \in EventSet(p) : e = f
        /\ Len(events[p]) <= 1 + faults

\* Why it holds, in three parts.  The callbacks past their first step work on
\* a row of their own gateway.
CallsMatchRows ==
    \A h \in Handler : call[h].pc \in {"update", "publish"} =>
        call[h].msg.channel \in ChannelsOf(row[call[h].msg.ref].method)

\* A pending row is untouched, so what a callback read of it is still true.
MomoPendingIsUntouched ==
    \A p \in Payment : IsMomo(p) /\ row[p].status = "PENDING" =>
        /\ row[p].txn = Reference
        /\ events[p] = << >>
        /\ \A h \in Handler : /\ ~WorkingOn(h, "publish", p)
                              /\ WorkingOn(h, "update", p)
                                    => call[h].seen.txn = Reference

\* The callback that won the conditional update is alone and publishes what
\* it wrote; until it has its confirm, every message cost one.
MomoWinnerPublishes ==
    \A p \in Payment, h \in Handler : IsMomo(p) /\ WorkingOn(h, "publish", p) =>
        /\ \A e \in EventSet(p) : e = EventOf(call[h])
        /\ Len(events[p]) <= faults
        /\ Tells(EventOf(call[h]), ResultOf(p))
        /\ \A g \in Handler : WorkingOn(g, "publish", p) => g = h

\* The inductive invariant of MoMo payments: MomoEventMatchesRow and the
\* three reasons for it.
MomoInv ==
    /\ CallsMatchRows
    /\ MomoPendingIsUntouched
    /\ MomoWinnerPublishes
    /\ MomoEventMatchesRow

BacksSuccess(m, p) ==
    /\ m.ref = p
    /\ m.outcome.ok
    /\ m.channel = "momo/return" \/ (m.outcome.valid /\ m.outcome.exact)

\* A payment is SUCCESS, or announced as such, only if its gateway reported
\* success with a signature that verifies and for the row's amount.  The MoMo
\* return page, which checks neither (lines 214-241), is the one exception.
SuccessIsBacked ==
    \A p \in Payment :
        (row[p].status = "SUCCESS" \/ \E e \in EventSet(p) : e.status = "SUCCESS")
            => \E m \in sent : BacksSuccess(m, p)

\* Once a gateway has been told that its notification is processed (HTTP 2xx
\* with success, RspCode 00 or 02) it will not repeat it, so the payment must
\* have left PENDING and must never come back to it.
AcknowledgedIsSettled ==
    \A a \in answers :
        a.answer \in {"ok", "already"} => row[a.msg.ref].status # "PENDING"

\* The gateways that go through updateStatusByPaymentId are told `ok' only
\* after the event of this very outcome was published (line 372 is awaited).
\* It is what makes a retry after an error safe for PayOS.
OkMeansAnnounced ==
    \A a \in answers :
        a.answer = "ok" /\ a.msg.channel \in {"vnpay/ipn", "webhook", "payos/webhook"}
            => \E e \in EventSet(a.msg.ref) : e.status = Verdict(a.msg)

\* As long as no call failed, every settled status is announced or about to
\* be: losing the race, finding the row settled or settling twice never drops
\* the event of the status that stays.
SettledIsAnnounced ==
    faults = 0 =>
        \A p \in Payment : row[p].status # "PENDING" =>
            \/ \E e \in EventSet(p) : e.status = row[p].status
            \/ \E h \in Handler : /\ WorkingOn(h, "publish", p)
                                  /\ call[h].status = row[p].status

\* When the gateway reports one outcome, every event of the payment carries
\* the status of the row, in whatever order copies of the notification on
\* both channels are processed: other services never see two results.
EventsAgreeWithRow ==
    \A p \in Payment : \A e \in EventSet(p) : e.status = row[p].status

\* When the gateway reports one outcome, a settled payment keeps its status.
SettledIsFinal ==
    [][\A p \in Payment :
          row[p].status # "PENDING" => row'[p].status = row[p].status]_vars

\* When the gateway reports one outcome, a customer sent to the success page
\* by handleVNPayReturn has a payment that is SUCCESS.
VNPaySuccessPageIsTrue ==
    \A a \in answers :
        a.msg.channel = "vnpay/return" /\ a.answer \in {"ok", "already"}
            => row[a.msg.ref].status = "SUCCESS"

\* With conflicting outcomes VNPay and VietQR can take a SUCCESS back, but
\* only by a callback that had read the row before it became SUCCESS: the
\* check at lines 686, 814 and 899 fails only across an await.
RegressionNeedsOverlap ==
    [][\A p \in Payment :
          /\ row[p].method \in {"VNPAY", "VIETQR"}
          /\ row[p].status = "SUCCESS"
          /\ row'[p].status # "SUCCESS"
          => \E h \in Handler :
                /\ WorkingOn(h, "update", p)
                /\ call[h].seen.status # "SUCCESS"]_vars

\* What other services may rely on for MoMo payments; the others are left out
\* of the picture.  A pending row of MoMo is always Unsettled.
Unsettled == [status |-> "PENDING", txn |-> Reference]
MomoResult == [status: {"SUCCESS", "FAILED"}, txn: Txn \cup {Reference, Blank}]

Settlement == INSTANCE OneShotSettlement WITH
    Result <- MomoResult,
    Wording <- [r \in MomoResult |-> {e \in Event : Tells(e, r)}],
    result <- [p \in Payment |-> IF IsMomo(p) THEN ResultOf(p) ELSE Unsettled],
    announced <- [p \in Payment |-> IF IsMomo(p) THEN events[p] ELSE << >>]

\* A MoMo payment is settled at most once, for good, and whatever is announced
\* of it is one event that tells what it was settled with.
MomoIsOneShot == Settlement!Spec

Reported(p, channels) ==
    \E m \in sent :
        /\ m.ref = p /\ m.channel \in channels
        /\ m.outcome.ok /\ m.outcome.valid /\ m.outcome.exact

\* A success PayOS reports is announced in the end, crashes and failed
\* publishes included: its webhook does not look at the row's status, so the
\* gateway's retry publishes again.
PayosSuccessIsAnnounced ==
    \A p \in Payment :
        Reported(p, {"payos/webhook"}) ~> \E e \in EventSet(p) : e.status = "SUCCESS"

Contradicted(p) ==
    \E m \in sent : m.ref = p /\ ~(m.outcome.ok /\ m.outcome.valid /\ m.outcome.exact)

\* A success that is reported and never contradicted ends up as a SUCCESS row for
\* good: no failure between two steps leaves the payment PENDING with the gateway
\* believing it was processed.
PaidIsRecorded ==
    \A p \in Payment :
        Reported(p, Channel \ ReturnChannel)
            ~> [](row[p].status = "SUCCESS") \/ Contradicted(p)

-----------------------------------------------------------------------------
\* What the documents say, and the code does not do.

\* KAFKA_EVENT_HANDLING.md, scenario 1: a payment that becomes SUCCESS is
\* followed by a payment.success event.
SuccessIsAnnounced ==
    \A p \in Payment :
        row[p].status = "SUCCESS" ~> \E e \in EventSet(p) : e.status = "SUCCESS"

\* payments.service.ts line 291: a MoMo amount mismatch triggers failure, so
\* a MoMo payment is not SUCCESS once its IPN with a wrong amount is answered.
AmountMismatchFails ==
    \A a \in answers :
        /\ a.msg.channel = "momo/ipn" /\ a.answer = "ok" /\ ~a.msg.outcome.exact
        => row[a.msg.ref].status = "FAILED"

\* payments.service.ts line 219: the redirect is double checked with the
\* database, so the success page is shown for a payment that is SUCCESS.
RedirectIsDoubleChecked ==
    \A a \in answers :
        a.msg.channel = "momo/return" /\ a.answer = "ok"
            => row[a.msg.ref].status = "SUCCESS"
=============================================================================
