---------------------- MODULE PaymentSettlementProofs ----------------------
(***************************************************************************)
(* Theorems about PaymentSettlement, for any number of payments, callbacks *)
(* and transaction numbers and any bounds.                                 *)
(***************************************************************************)
EXTENDS PaymentSettlement, FiniteSetTheorems, TLAPS

-----------------------------------------------------------------------------
(* The operators the actions are built from.                               *)

\* What the conversions make of a notification's transaction number: an update
\* never gets the text "0", MoMo's never an empty text.
LEMMA TxnTypes ==
    ASSUME NEW m \in Message
    PROVE  /\ TxnArg(m) \in Txn \cup {NoTxn, Blank, Zero}
           /\ StoredTxn(m) \in Txn \cup {NoTxn, Blank}
           /\ m.channel \in {"momo/return", "momo/ipn"} => StoredTxn(m) \in Txn \cup {NoTxn}
<1>1. m.channel \in Channel /\ m.outcome \in Outcome
  BY DEF Message
<1>2. m.outcome.txn \in Txn \cup {NoTxn, Blank}
  BY <1>1 DEF Outcome
<1>3. /\ Or(m.outcome.txn, NoTxn) \in Txn \cup {NoTxn}
      /\ TextOf(m.outcome.txn) \in Txn \cup {NoTxn, Zero}
  BY <1>2 DEF Or, TextOf
<1>4. CASE m.channel = "momo/ipn"
  BY <1>3, <1>4 DEF TxnArg, StoredTxn
<1>5. CASE m.channel # "momo/ipn"
  <2>1. TxnArg(m) \in Txn \cup {NoTxn, Blank}
    BY <1>1, <1>2, <1>3, <1>5 DEF TxnArg, Channel
  <2>2. m.channel = "momo/return" => TxnArg(m) = NoTxn
    BY DEF TxnArg
  <2> QED
    BY <1>5, <2>1, <2>2 DEF StoredTxn
<1> QED
  BY <1>4, <1>5

\* An update keeps a row a row.
LEMMA UpdatedRowType ==
    ASSUME NEW r \in Row, NEW m \in Message, NEW status \in Status
    PROVE  /\ UpdatedRow(r, m, status) \in Row
           /\ UpdatedRow(r, m, status).status = status
           /\ UpdatedRow(r, m, status).method = r.method
           /\ UpdatedRow(r, m, status).txn = OrNull(StoredTxn(m), r.txn)
<1>1. OrNull(StoredTxn(m), r.txn) \in Txn \cup {Reference, Blank}
  BY TxnTypes DEF OrNull, Row
<1> QED
  BY <1>1 DEF UpdatedRow, Row

\* The event of a callback that updated the row is an event, and published.
LEMMA EventType ==
    ASSUME NEW c \in Working
    PROVE  /\ EventOf(c) \in Event
           /\ EventOf(c).status = c.status
           /\ EventOf(c).txn = Or(TxnArg(c.msg), c.seen.txn)
           /\ \A log : Published(log, EventOf(c)) = Append(log, EventOf(c))
<1>1. /\ c.msg \in Message
      /\ c.seen.txn \in Txn \cup {Reference, Blank}
      /\ c.status \in {"SUCCESS", "FAILED"}
  BY ConstantsAssumption DEF Working, Message, Row
<1>2. Or(TxnArg(c.msg), c.seen.txn) \in Txn \cup {Reference, Blank, Zero}
  BY <1>1, TxnTypes DEF Or
<1> QED
  BY <1>1, <1>2 DEF EventOf, Event, Published

\* Of a row that still has its reference, what MoMo's callbacks store and what
\* they publish fit: they differ only for a number that is 0.
LEMMA MomoConversions ==
    ASSUME NEW m \in Message, m.channel \in {"momo/return", "momo/ipn"}, NEW status
    PROVE  Tells([status |-> status, txn |-> Or(TxnArg(m), Reference)],
                 [status |-> status, txn |-> OrNull(StoredTxn(m), Reference)])
<1>1. m.outcome.txn \in Txn \cup {NoTxn, Blank}
  BY DEF Message, Outcome
<1>2. CASE m.channel = "momo/return"
  BY <1>2 DEF TxnArg, StoredTxn, Or, OrNull, Tells
<1>3. CASE m.channel = "momo/ipn" /\ m.outcome.txn = Blank
  <2>1. TxnArg(m) = Zero /\ StoredTxn(m) = NoTxn
    BY <1>3 DEF TxnArg, StoredTxn, Or, TextOf
  <2>2. Or(Zero, Reference) = Zero /\ OrNull(NoTxn, Reference) = Reference
    BY ConstantsAssumption DEF Or, OrNull
  <2> QED
    BY <2>1, <2>2 DEF Tells
<1>4. CASE m.channel = "momo/ipn" /\ m.outcome.txn # Blank
  <2>1. TxnArg(m) = m.outcome.txn /\ StoredTxn(m) = m.outcome.txn
    BY <1>1, <1>4 DEF TxnArg, StoredTxn, Or, TextOf
  <2>2. Or(m.outcome.txn, Reference) = OrNull(m.outcome.txn, Reference)
    BY <1>4 DEF Or, OrNull
  <2> QED
    BY <2>1, <2>2 DEF Tells
<1> QED
  BY <1>2, <1>3, <1>4

\* Appending to a log adds one event to what it holds.
LEMMA AppendedSet ==
    ASSUME NEW S, NEW s \in Seq(S), NEW e \in S
    PROVE  {Append(s, e)[i] : i \in 1 .. Len(Append(s, e))}
              = {s[i] : i \in 1 .. Len(s)} \cup {e}
<1>1. /\ Len(Append(s, e)) = Len(s) + 1
      /\ Append(s, e)[Len(s) + 1] = e
      /\ \A i \in 1 .. Len(s) : Append(s, e)[i] = s[i]
      /\ Len(s) \in Nat
  OBVIOUS
<1>2. 1 .. (Len(s) + 1) = (1 .. Len(s)) \cup {Len(s) + 1}
  BY <1>1
<1> QED
  BY <1>1, <1>2

\* A callback past `idle' is of the kind its pc says.
LEMMA CallKinds ==
    ASSUME TypeOK, NEW h \in Handler
    PROVE  /\ call[h].pc = "find" => call[h] \in Finding
           /\ call[h].pc \in {"update", "publish"} => call[h] \in Working
           /\ call[h].pc = "respond" => call[h] \in Replying
BY DEF TypeOK, Call, Finding, Working, Replying, NoCall

-----------------------------------------------------------------------------
(* Type correctness.                                                       *)

\* A callback that answers at once keeps the types.
LEMMA ReplyType ==
    ASSUME TypeOK, NEW h \in Handler, NEW answer \in Answer,
           call[h].pc = "find", Reply(h, answer)
    PROVE  TypeOK'
<1>1. call[h].msg \in Message
  BY CallKinds DEF Finding
<1>2. [pc |-> "respond", msg |-> call[h].msg, answer |-> answer] \in Replying
  BY <1>1 DEF Replying
<1> QED
  BY <1>2 DEF Reply, TypeOK, Call

\* So does one that goes on to the update.
LEMMA SettleType ==
    ASSUME TypeOK, NEW h \in Handler, NEW status \in {"SUCCESS", "FAILED"},
           call[h].pc = "find", Found(call[h].msg), Settle(h, status)
    PROVE  TypeOK'
<1>1. call[h].msg \in Message /\ call[h].msg.ref \in Payment
  BY CallKinds DEF Finding, Found
<1>2. call[h].msg \in [channel: Channel, ref: Payment, outcome: Outcome]
  BY <1>1 DEF Message
<1>3. row[call[h].msg.ref] \in Row
  BY <1>1 DEF TypeOK
<1>4. [pc |-> "update", msg |-> call[h].msg, seen |-> row[call[h].msg.ref],
       status |-> status] \in Working
  BY <1>2, <1>3 DEF Working
<1> QED
  BY <1>4 DEF Settle, TypeOK, Call

\* The first step of a callback replies, or goes on with a payment it found
\* towards SUCCESS or FAILED.
LEMMA FindCases ==
    ASSUME NEW h, Find(h)
    PROVE  /\ call[h].pc = "find"
           /\ \/ \E answer \in {"already", "refused"} : Reply(h, answer)
              \/ /\ Found(call[h].msg)
                 /\ \E status \in {"SUCCESS", "FAILED"} : Settle(h, status)
<1>1. Verdict(call[h].msg) \in {"SUCCESS", "FAILED"}
  BY DEF Verdict
<1>2. CASE MomoReturn(h)
  BY <1>1, <1>2 DEF MomoReturn, At
<1>3. CASE MomoIpn(h)
  BY <1>1, <1>3 DEF MomoIpn, At
<1>4. CASE VNPayReturn(h)
  BY <1>1, <1>4 DEF VNPayReturn, At
<1>5. CASE VNPayIpn(h)
  BY <1>1, <1>5 DEF VNPayIpn, CheckThenSettle, At
<1>6. CASE VietqrWebhook(h)
  BY <1>1, <1>6 DEF VietqrWebhook, CheckThenSettle, At
<1>7. CASE PayosWebhook(h)
  BY <1>1, <1>7 DEF PayosWebhook, CheckThenSettle, At
<1> QED
  BY <1>2, <1>3, <1>4, <1>5, <1>6, <1>7 DEF Find

\* Every variable keeps its type: an update never stores a missing
\* transaction number, and only found payments reach an update.
THEOREM TypeCorrect == Spec => []TypeOK
<1>1. Init => TypeOK
  BY DEF Init, TypeOK, Row, Status, Call, NoCall
<1>2. TypeOK /\ [Next]_vars => TypeOK'
  <2> SUFFICES ASSUME TypeOK, [Next]_vars PROVE TypeOK'
    OBVIOUS
  <2>1. ASSUME NEW r \in Ref, NEW method \in Method, NEW o \in Outcomes,
               GatewayReports(r, method, o)
        PROVE  TypeOK'
    <3>1. ChannelsOf(method) \subseteq Channel /\ o \in Outcome
      BY ConstantsAssumption DEF ChannelsOf, Method, Channel
    <3>2. {[channel |-> ch, ref |-> r, outcome |-> o] : ch \in ChannelsOf(method)}
             \subseteq Message
      BY <3>1 DEF Message
    <3> QED
      BY <2>1, <3>2 DEF GatewayReports, TypeOK
  <2>2. ASSUME NEW h \in Handler, NEW m \in sent, Deliver(h, m) \/ Redeliver(h, m)
        PROVE  TypeOK'
    <3>1. [pc |-> "find", msg |-> m] \in Finding
      BY DEF TypeOK, Finding
    <3>2. duplicates' \in Nat
      BY <2>2 DEF Deliver, Redeliver, TypeOK
    <3> QED
      BY <2>2, <3>1, <3>2 DEF Deliver, Redeliver, StartCall, TypeOK, Call
  <2>3. ASSUME NEW h \in Handler, Find(h) PROVE TypeOK'
    BY <2>3, FindCases, ReplyType, SettleType DEF Answer
  <2>4. ASSUME NEW h \in Handler, MomoUpdate(h) PROVE TypeOK'
    <3> DEFINE c == call[h]
               p == c.msg.ref
    <3>1. c \in Working /\ c.msg \in Message /\ p \in Payment /\ c.status \in Status
      BY <2>4, CallKinds, ConstantsAssumption DEF MomoUpdate, At, Working, Message, Status
    <3>2. UpdatedRow(row[p], c.msg, c.status) \in Row
      BY <3>1, UpdatedRowType DEF TypeOK
    <3>3. [c EXCEPT !.pc = "publish"] \in Working
      BY <3>1 DEF Working
    <3>4. [pc |-> "respond", msg |-> c.msg, answer |-> FinalAnswer(c.msg)] \in Replying
      BY <3>1 DEF Replying, FinalAnswer, Answer
    <3> QED
      BY <2>4, <3>2, <3>3, <3>4 DEF MomoUpdate, TypeOK, Call
  <2>5. ASSUME NEW h \in Handler, UpdateStatusByPaymentId(h) PROVE TypeOK'
    <3> DEFINE c == call[h]
               p == c.msg.ref
               r == UpdatedRow(row[p], c.msg, c.status)
    <3>1. c \in Working /\ c.msg \in Message /\ p \in Payment /\ c.status \in Status
      BY <2>5, CallKinds, ConstantsAssumption
         DEF UpdateStatusByPaymentId, At, Working, Message, Status
    <3>2. r \in Row
      BY <3>1, UpdatedRowType DEF TypeOK
    <3>3. [c EXCEPT !.pc = "publish", !.seen = r] \in Working
      BY <3>1, <3>2 DEF Working
    <3> QED
      BY <2>5, <3>2, <3>3 DEF UpdateStatusByPaymentId, TypeOK, Call
  <2>6. ASSUME NEW h \in Handler, PublishPaymentStatusEvent(h) \/ LoseConfirm(h)
        PROVE  TypeOK'
    <3> DEFINE c == call[h]
    <3>1. c \in Working /\ c.msg \in Message
      BY <2>6, CallKinds, ConstantsAssumption
         DEF PublishPaymentStatusEvent, LoseConfirm, Working, Message
    <3>2. /\ EventOf(c) \in Event
          /\ Published(events[c.msg.ref], EventOf(c)) = Append(events[c.msg.ref], EventOf(c))
      BY <3>1, EventType
    <3>3. [pc |-> "respond", msg |-> c.msg, answer |-> FinalAnswer(c.msg)] \in Replying
      BY <3>1 DEF Replying, FinalAnswer, Answer
    <3>4. Append(events[c.msg.ref], EventOf(c)) \in Seq(Event)
      BY <3>1, <3>2 DEF Working, TypeOK
    <3>5. events' \in [Payment -> Seq(Event)]
      BY <2>6, <3>2, <3>4 DEF PublishPaymentStatusEvent, LoseConfirm, TypeOK
    <3>6. call' \in [Handler -> Call]
      BY <2>6, <3>3 DEF PublishPaymentStatusEvent, LoseConfirm, TypeOK, Call
    <3> QED
      BY <2>6, <3>5, <3>6 DEF PublishPaymentStatusEvent, LoseConfirm, TypeOK
  <2>7. ASSUME NEW h \in Handler, Respond(h) PROVE TypeOK'
    <3>1. [msg |-> call[h].msg, answer |-> call[h].answer] \in [msg: Message, answer: Answer]
      BY <2>7, CallKinds DEF Respond, Replying
    <3> QED
      BY <2>7, <3>1 DEF Respond, TypeOK, Call, NoCall
  <2>8. ASSUME NEW h \in Handler, Throw(h) PROVE TypeOK'
    BY <2>8 DEF Throw, TypeOK, Call, NoCall
  <2>9. CASE Crash
    BY <2>9 DEF Crash, TypeOK, Call, NoCall
  <2>10. CASE UNCHANGED vars
    BY <2>10 DEF vars, TypeOK
  <2> QED
    BY <2>1, <2>2, <2>3, <2>4, <2>5, <2>6, <2>7, <2>8, <2>9, <2>10 DEF Next, Step
<1> QED
  BY <1>1, <1>2, PTL DEF Spec
-----------------------------------------------------------------------------
(* What an emission does.                                                  *)

\* A message that reaches the exchange, confirmed or not, is appended to the log
\* of its payment.
LEMMA EmitAppends ==
    ASSUME TypeOK, NEW h \in Handler, PublishPaymentStatusEvent(h) \/ LoseConfirm(h),
           NEW p, p = call[h].msg.ref, NEW e, e = EventOf(call[h])
    PROVE  /\ p \in Payment
           /\ e \in Event /\ e.status = call[h].status
           /\ events' = [events EXCEPT ![p] = Append(events[p], e)]
           /\ events'[p] = Append(events[p], e)
           /\ \A q \in Payment : q # p => events'[q] = events[q]
<1>1. call[h] \in Working /\ p \in Payment
  BY CallKinds DEF PublishPaymentStatusEvent, LoseConfirm, Working
<1>2. /\ e \in Event /\ e.status = call[h].status
      /\ Published(events[p], e) = Append(events[p], e)
  BY <1>1, EventType
<1>3. events' = [events EXCEPT ![p] = Published(events[p], e)]
  BY DEF PublishPaymentStatusEvent, LoseConfirm
<1>4. events' = [events EXCEPT ![p] = Append(events[p], e)]
  BY <1>2, <1>3
<1>5. /\ events'[p] = Append(events[p], e)
      /\ \A q \in Payment : q # p => events'[q] = events[q]
  BY <1>1, <1>4 DEF TypeOK
<1> QED
  BY <1>1, <1>2, <1>4, <1>5

\* So the log is one longer, and what it holds grows by the event.
LEMMA EmitGrows ==
    ASSUME TypeOK, NEW p \in Payment, NEW e \in Event,
           events'[p] = Append(events[p], e)
    PROVE  /\ EventSet(p)' = EventSet(p) \cup {e}
           /\ Len(events'[p]) = Len(events[p]) + 1
<1> PICK s \in Seq(Event) : s = events[p]
  BY DEF TypeOK
<1> PICK t : t = Append(s, e)
  OBVIOUS
<1>1. {t[i] : i \in 1..Len(t)} = {s[i] : i \in 1..Len(s)} \cup {e}
  BY AppendedSet
<1>2. Len(t) = Len(s) + 1
  OBVIOUS
<1>3. events'[p] = t
  OBVIOUS
<1>4. EventSet(p) = {s[i] : i \in 1..Len(s)}
  BY DEF EventSet
<1>5. EventSet(p)' = {t[i] : i \in 1..Len(t)}
  BY <1>3 DEF EventSet
<1>6. EventSet(p)' = EventSet(p) \cup {e}
  BY <1>1, <1>4, <1>5, Zenon
<1> QED
  BY <1>2, <1>3, <1>6

\* With or without its confirm: the callback answers, or waits on.
LEMMA EmitEffect ==
    ASSUME TypeOK, NEW h \in Handler, PublishPaymentStatusEvent(h) \/ LoseConfirm(h),
           NEW p, p = call[h].msg.ref
    PROVE  LET c == call[h]
           IN  /\ c.pc = "publish" /\ c \in Working /\ p \in Payment
               /\ UNCHANGED <<row, sent, answers>>
               /\ \/ call'[h] = [pc |-> "respond", msg |-> c.msg,
                                  answer |-> FinalAnswer(c.msg)]
                  \/ call'[h] = call[h]
               /\ \A g \in Handler \ {h} : call'[g] = call[g]
               /\ \A q \in Payment : q # p => EventSet(q)' = EventSet(q)
               /\ \E e : e.status = c.status /\ EventSet(p)' = EventSet(p) \cup {e}
<1>1. call[h].pc = "publish" /\ call[h] \in Working
  BY CallKinds DEF PublishPaymentStatusEvent, LoseConfirm
<1> PICK e : e = EventOf(call[h])
  OBVIOUS
<1>2. /\ p \in Payment /\ e \in Event /\ e.status = call[h].status
      /\ events'[p] = Append(events[p], e)
      /\ \A q \in Payment : q # p => events'[q] = events[q]
  BY EmitAppends
<1>3. EventSet(p)' = EventSet(p) \cup {e}
  BY <1>2, EmitGrows
<1>4. \A q \in Payment : q # p => EventSet(q)' = EventSet(q)
  BY <1>2 DEF EventSet
<1>5. /\ UNCHANGED <<row, sent, answers>>
      /\ \/ call'[h] = [pc |-> "respond", msg |-> call[h].msg,
                         answer |-> FinalAnswer(call[h].msg)]
         \/ call'[h] = call[h]
      /\ \A g \in Handler \ {h} : call'[g] = call[g]
  BY DEF PublishPaymentStatusEvent, LoseConfirm, TypeOK
<1> QED
  BY <1>1, <1>2, <1>3, <1>4, <1>5

-----------------------------------------------------------------------------
(* MoMo settles once, and one callback announces it.  What has to be shown *)
(* of a step is only what it does to the rows, to the events, and to the   *)
(* callbacks between their read and their publish.                         *)

\* The bound on messages is one of natural numbers.
LEMMA CountsAreNumbers ==
    ASSUME TypeOK
    PROVE  faults \in Nat /\ \A p \in Payment : Len(events[p]) \in Nat
<1>1. \A p \in Payment : events[p] \in Seq(Event)
  BY DEF TypeOK
<1> QED
  BY <1>1 DEF TypeOK

\* A step that leaves the events alone, and row and publishing callbacks of a
\* payment, takes nothing from what was said of its events.
LEMMA MomoEventsKept ==
    ASSUME TypeOK, MomoInv, UNCHANGED events, faults' \in {faults, faults + 1},
           NEW p \in Payment, IsMomo(p), ResultOf(p)' = ResultOf(p),
           \A g \in Handler : WorkingOn(g, "publish", p)' =>
              WorkingOn(g, "publish", p) /\ EventOf(call'[g]) = EventOf(call[g])
    PROVE  /\ \A g \in Handler : WorkingOn(g, "publish", p)' =>
                 /\ \A e \in EventSet(p)' : e = EventOf(call'[g])
                 /\ Len(events'[p]) <= faults'
                 /\ Tells(EventOf(call'[g]), ResultOf(p)')
                 /\ \A k \in Handler : WorkingOn(k, "publish", p)' => k = g
           /\ \A e \in EventSet(p)' : Tells(e, ResultOf(p)')
           /\ \A e, f \in EventSet(p)' : e = f
           /\ Len(events'[p]) <= 1 + faults'
<1>1. EventSet(p)' = EventSet(p) /\ events'[p] = events[p]
  BY DEF EventSet
<1>2. /\ Len(events[p]) <= faults => Len(events[p]) <= faults'
      /\ Len(events[p]) <= 1 + faults => Len(events[p]) <= 1 + faults'
  BY CountsAreNumbers
<1>3. ASSUME NEW g \in Handler, WorkingOn(g, "publish", p)'
      PROVE  /\ \A e \in EventSet(p)' : e = EventOf(call'[g])
             /\ Len(events'[p]) <= faults'
             /\ Tells(EventOf(call'[g]), ResultOf(p)')
             /\ \A k \in Handler : WorkingOn(k, "publish", p)' => k = g
  <2>1. /\ \A e \in EventSet(p) : e = EventOf(call[g])
        /\ Len(events[p]) <= faults
        /\ Tells(EventOf(call[g]), ResultOf(p))
        /\ \A k \in Handler : WorkingOn(k, "publish", p) => k = g
    BY <1>3 DEF MomoInv, MomoWinnerPublishes
  <2> QED
    BY <1>1, <1>2, <1>3, <2>1
<1>4. /\ \A e \in EventSet(p) : Tells(e, ResultOf(p))
      /\ \A e, f \in EventSet(p) : e = f
      /\ Len(events[p]) <= 1 + faults
  BY DEF MomoInv, MomoEventMatchesRow
<1>5. Len(events'[p]) <= 1 + faults'
  BY <1>1, <1>2, <1>4
<1> QED
  BY <1>1, <1>3, <1>4, <1>5

\* A step that leaves the rows and the events alone, and takes no callback
\* to an update or a publish, takes nothing from the invariant.
LEMMA MomoQuietStep ==
    ASSUME TypeOK, MomoInv, UNCHANGED <<row, events>>, faults' \in {faults, faults + 1},
           \A h \in Handler : \/ call'[h] = call[h]
                              \/ call'[h].pc \notin {"update", "publish"}
    PROVE  MomoInv'
<1>1. CallsMatchRows'
  BY DEF MomoInv, CallsMatchRows
<1>2. MomoPendingIsUntouched'
  BY DEF MomoInv, MomoPendingIsUntouched, IsMomo, WorkingOn
<1>3. \A p \in Payment : (IsMomo(p)' <=> IsMomo(p)) /\ ResultOf(p)' = ResultOf(p)
  BY DEF IsMomo, ResultOf
<1>4. \A p \in Payment, g \in Handler : WorkingOn(g, "publish", p)' =>
         WorkingOn(g, "publish", p) /\ EventOf(call'[g]) = EventOf(call[g])
  BY DEF WorkingOn
<1>5. MomoWinnerPublishes'
  BY <1>3, <1>4, MomoEventsKept DEF MomoWinnerPublishes
<1>6. MomoEventMatchesRow'
  BY <1>3, <1>4, MomoEventsKept DEF MomoEventMatchesRow
<1> QED
  BY <1>1, <1>2, <1>5, <1>6 DEF MomoInv

\* A callback that found its payment goes on with the row as it is.
LEMMA MomoSettleStep ==
    ASSUME TypeOK, MomoInv, NEW h \in Handler, NEW status,
           call[h].pc = "find", Found(call[h].msg), Settle(h, status)
    PROVE  MomoInv'
<1>1. /\ UNCHANGED <<row, events, faults>>
      /\ call'[h].pc = "update"
      /\ call'[h].msg = call[h].msg
      /\ call'[h].seen = row[call[h].msg.ref]
      /\ \A g \in Handler \ {h} : call'[g] = call[g]
  BY DEF Settle, TypeOK
<1>2. CallsMatchRows'
  BY <1>1 DEF MomoInv, CallsMatchRows, Found
<1>3. MomoPendingIsUntouched'
  BY <1>1 DEF MomoInv, MomoPendingIsUntouched, IsMomo, WorkingOn
<1>4. \A p \in Payment : (IsMomo(p)' <=> IsMomo(p)) /\ ResultOf(p)' = ResultOf(p)
  BY <1>1 DEF IsMomo, ResultOf
<1>5. \A p \in Payment, g \in Handler : WorkingOn(g, "publish", p)' =>
         WorkingOn(g, "publish", p) /\ EventOf(call'[g]) = EventOf(call[g])
  BY <1>1 DEF WorkingOn
<1>6. MomoWinnerPublishes'
  BY <1>1, <1>4, <1>5, MomoEventsKept DEF MomoWinnerPublishes
<1>7. MomoEventMatchesRow'
  BY <1>1, <1>4, <1>5, MomoEventsKept DEF MomoEventMatchesRow
<1> QED
  BY <1>2, <1>3, <1>6, <1>7 DEF MomoInv

\* The conditional update: the loser changes nothing, the winner finds the
\* row pending, so nobody else publishes and what it read is what is there.
LEMMA MomoUpdateStep ==
    ASSUME TypeOK, MomoInv, NEW h \in Handler, MomoUpdate(h)
    PROVE  MomoInv'
<1> DEFINE c == call[h]
           q == c.msg.ref
<1>1. /\ c \in Working /\ c.pc = "update" /\ c.msg \in Message
      /\ q \in Payment /\ c.status \in Status /\ row[q] \in Row
      /\ c.msg.channel \in {"momo/return", "momo/ipn"}
  BY CallKinds, ConstantsAssumption DEF MomoUpdate, At, Working, Message, Status, TypeOK
<1>2. CASE ~StillPending(row[q])
  <2>1. UNCHANGED <<row, events, faults>> /\ call'[h].pc = "respond"
    BY <1>2 DEF MomoUpdate, TypeOK
  <2>2. \A g \in Handler \ {h} : call'[g] = call[g]
    BY <1>2 DEF MomoUpdate, TypeOK
  <2> QED
    BY <2>1, <2>2, MomoQuietStep
<1>3. CASE StillPending(row[q])
  <2> DEFINE new == UpdatedRow(row[q], c.msg, c.status)
  <2>1. /\ row' = [row EXCEPT ![q] = new]
        /\ call' = [call EXCEPT ![h].pc = "publish"]
        /\ UNCHANGED <<events, faults>>
    BY <1>3 DEF MomoUpdate
  <2>2. /\ new.status = c.status /\ new.method = row[q].method
        /\ new.txn = OrNull(StoredTxn(c.msg), row[q].txn)
    BY <1>1, UpdatedRowType
  <2>3. /\ row'[q] = new
        /\ \A p \in Payment : p # q => row'[p] = row[p]
        /\ \A p \in Payment : row'[p].method = row[p].method
    BY <1>1, <2>1, <2>2 DEF TypeOK
  <2>4. /\ call'[h].pc = "publish" /\ call'[h].msg = c.msg
        /\ call'[h].seen = c.seen /\ call'[h].status = c.status
        /\ \A g \in Handler \ {h} : call'[g] = call[g]
    BY <1>1, <2>1 DEF TypeOK, Working
  <2>5. row[q].status = "PENDING" /\ IsMomo(q)
    <3>1. row[q].status = "PENDING"
      BY <1>3 DEF StillPending
    <3>2. c.msg.channel \in ChannelsOf(row[q].method) /\ row[q].method \in Method
      BY <1>1 DEF MomoInv, CallsMatchRows, Row
    <3> QED
      BY <1>1, <3>1, <3>2 DEF ChannelsOf, Method, IsMomo
  <2>6. /\ row[q].txn = Reference /\ c.seen.txn = Reference
        /\ events[q] = << >>
        /\ \A g \in Handler : ~WorkingOn(g, "publish", q)
    <3>1. WorkingOn(h, "update", q)
      BY <1>1 DEF WorkingOn
    <3> QED
      BY <1>1, <2>5, <3>1 DEF MomoInv, MomoPendingIsUntouched
  <2>7. Tells(EventOf(call'[h]), ResultOf(q)')
    <3>1. EventOf(call'[h]) = [status |-> c.status, txn |-> Or(TxnArg(c.msg), Reference)]
      BY <2>4, <2>6 DEF EventOf
    <3>2. ResultOf(q)' = [status |-> c.status, txn |-> OrNull(StoredTxn(c.msg), Reference)]
      BY <2>2, <2>3, <2>4, <2>6 DEF ResultOf
    <3> QED
      BY <1>1, <3>1, <3>2, MomoConversions
  <2>8. c.status # "PENDING"
    BY <1>1 DEF Working
  <2>9. CallsMatchRows'
    <3>1. \A g \in Handler : call'[g].pc \in {"update", "publish"} =>
             /\ call[g].pc \in {"update", "publish"}
             /\ call'[g].msg = call[g].msg
             /\ call[g].msg.ref \in Payment
      BY <1>1, <2>4, CallKinds DEF Working
    <3> QED
      BY <2>3, <3>1 DEF MomoInv, CallsMatchRows
  <2>10. MomoPendingIsUntouched'
    BY <1>1, <2>1, <2>2, <2>3, <2>4, <2>8 DEF MomoInv, MomoPendingIsUntouched, IsMomo, WorkingOn
  <2>11. ASSUME NEW p \in Payment, p # q, IsMomo(p)'
         PROVE  /\ IsMomo(p) /\ ResultOf(p)' = ResultOf(p)
                /\ \A g \in Handler : WorkingOn(g, "publish", p)' =>
                      WorkingOn(g, "publish", p) /\ EventOf(call'[g]) = EventOf(call[g])
    BY <2>3, <2>4, <2>11 DEF IsMomo, ResultOf, WorkingOn
  <2>12. EventSet(q)' = {} /\ Len(events'[q]) = 0
    BY <2>1, <2>6 DEF EventSet
  <2>13. MomoWinnerPublishes'
    <3>1. ASSUME NEW g \in Handler, WorkingOn(g, "publish", q)' PROVE g = h
      BY <2>4, <2>6, <3>1 DEF WorkingOn
    <3>2. Len(events'[q]) <= faults'
      BY <2>1, <2>12, CountsAreNumbers
    <3> QED
      BY <2>1, <2>7, <2>11, <2>12, <3>1, <3>2, MomoEventsKept DEF MomoWinnerPublishes
  <2>14. MomoEventMatchesRow'
    <3>1. Len(events'[q]) <= 1 + faults'
      BY <2>1, <2>12, CountsAreNumbers
    <3> QED
      BY <2>1, <2>11, <2>12, <3>1, MomoEventsKept DEF MomoEventMatchesRow
  <2> QED
    BY <2>9, <2>10, <2>13, <2>14 DEF MomoInv
<1> QED
  BY <1>2, <1>3

\* updateStatusByPaymentId only ever touches payments of other gateways.
LEMMA UpdateIsNotMomo ==
    ASSUME TypeOK, CallsMatchRows, NEW h \in Handler, UpdateStatusByPaymentId(h)
    PROVE  ~IsMomo(call[h].msg.ref)
<1>1. /\ call[h].msg.channel \in Channel \ {"momo/return", "momo/ipn"}
      /\ call[h].msg.channel \in ChannelsOf(row[call[h].msg.ref].method)
  BY DEF UpdateStatusByPaymentId, At, CallsMatchRows
<1> QED
  BY <1>1 DEF ChannelsOf, IsMomo

\* So an update by id keeps the invariant of MoMo.
LEMMA MomoOtherUpdateStep ==
    ASSUME TypeOK, MomoInv, NEW h \in Handler, UpdateStatusByPaymentId(h)
    PROVE  MomoInv'
<1> DEFINE c == call[h]
           q == c.msg.ref
           new == UpdatedRow(row[q], c.msg, c.status)
<1>1. /\ c \in Working /\ c.msg \in Message /\ q \in Payment
      /\ c.status \in Status /\ row[q] \in Row /\ c.pc = "update"
  BY CallKinds, ConstantsAssumption
     DEF UpdateStatusByPaymentId, At, Working, Message, Status, TypeOK
<1>2. /\ row' = [row EXCEPT ![q] = new]
      /\ call' = [call EXCEPT ![h].pc = "publish", ![h].seen = new]
      /\ UNCHANGED <<events, faults>>
  BY DEF UpdateStatusByPaymentId
<1>3. new.method = row[q].method
  BY <1>1, UpdatedRowType
<1>4. /\ row'[q] = new
      /\ \A p \in Payment : p # q => row'[p] = row[p]
      /\ \A p \in Payment : row'[p].method = row[p].method
  BY <1>1, <1>2, <1>3 DEF TypeOK
<1>5. /\ call'[h].pc = "publish" /\ call'[h].msg = c.msg
      /\ \A g \in Handler \ {h} : call'[g] = call[g]
  BY <1>1, <1>2 DEF TypeOK, Working
<1>6. ~IsMomo(q)
  BY UpdateIsNotMomo DEF MomoInv
<1>7. \A p \in Payment : IsMomo(p)' => /\ IsMomo(p) /\ p # q /\ row'[p] = row[p]
  BY <1>4, <1>6 DEF IsMomo
<1>8. \A p \in Payment, pc \in {"update", "publish"}, g \in Handler :
         IsMomo(p)' /\ WorkingOn(g, pc, p)' => WorkingOn(g, pc, p) /\ call'[g] = call[g]
  BY <1>5, <1>7 DEF WorkingOn
<1>9. CallsMatchRows'
  <2>1. \A g \in Handler : call'[g].pc \in {"update", "publish"} =>
           /\ call[g].pc \in {"update", "publish"}
           /\ call'[g].msg = call[g].msg
           /\ call[g].msg.ref \in Payment
    BY <1>1, <1>5, CallKinds DEF Working
  <2> QED
    BY <1>4, <2>1 DEF MomoInv, CallsMatchRows
<1>10. MomoPendingIsUntouched'
  <2> SUFFICES ASSUME NEW p \in Payment, IsMomo(p)', row'[p].status = "PENDING",
                      NEW g \in Handler
               PROVE  /\ row'[p].txn = Reference
                      /\ events[p] = << >>
                      /\ ~WorkingOn(g, "publish", p)'
                      /\ WorkingOn(g, "update", p)' => call'[g].seen.txn = Reference
    BY <1>1, <1>2 DEF MomoPendingIsUntouched
  <2>1. IsMomo(p) /\ row'[p] = row[p]
    BY <1>7
  <2> QED
    BY <1>8, <2>1 DEF MomoInv, MomoPendingIsUntouched
<1>11. ASSUME NEW p \in Payment, IsMomo(p)'
       PROVE  /\ IsMomo(p) /\ ResultOf(p)' = ResultOf(p)
              /\ \A g \in Handler : WorkingOn(g, "publish", p)' =>
                    WorkingOn(g, "publish", p) /\ EventOf(call'[g]) = EventOf(call[g])
  BY <1>7, <1>8, <1>11 DEF ResultOf
<1>12. MomoWinnerPublishes'
  BY <1>2, <1>11, MomoEventsKept DEF MomoWinnerPublishes
<1>13. MomoEventMatchesRow'
  BY <1>2, <1>11, MomoEventsKept DEF MomoEventMatchesRow
<1> QED
  BY <1>9, <1>10, <1>12, <1>13 DEF MomoInv

\* A message on the exchange: the event of a MoMo payment is what its other
\* messages are, and costs a confirm or is the last.
LEMMA MomoEmitStep ==
    ASSUME TypeOK, MomoInv, NEW h \in Handler,
           PublishPaymentStatusEvent(h) \/ LoseConfirm(h)
    PROVE  MomoInv'
<1> PICK q : q = call[h].msg.ref
  OBVIOUS
<1> PICK e : e = EventOf(call[h])
  OBVIOUS
<1>1. /\ call[h].pc = "publish" /\ q \in Payment /\ row' = row
      /\ \/ /\ call'[h].pc = "respond" /\ UNCHANGED faults
            /\ \A g \in Handler \ {h} : call'[g] = call[g]
         \/ call' = call /\ faults' = faults + 1
      /\ \A p \in Payment : p # q => events'[p] = events[p] /\ EventSet(p)' = EventSet(p)
      /\ EventSet(q)' = EventSet(q) \cup {e}
      /\ Len(events'[q]) = Len(events[q]) + 1
  <2>1. call[h].pc = "publish" /\ row' = row
    BY DEF PublishPaymentStatusEvent, LoseConfirm
  <2>2. \/ /\ call'[h].pc = "respond" /\ UNCHANGED faults
           /\ \A g \in Handler \ {h} : call'[g] = call[g]
        \/ call' = call /\ faults' = faults + 1
    BY DEF PublishPaymentStatusEvent, LoseConfirm, TypeOK
  <2>3. /\ q \in Payment /\ e \in Event
        /\ events'[q] = Append(events[q], e)
        /\ \A p \in Payment : p # q => events'[p] = events[p]
    BY EmitAppends
  <2>4. /\ EventSet(q)' = EventSet(q) \cup {e}
        /\ Len(events'[q]) = Len(events[q]) + 1
    BY <2>3, EmitGrows
  <2>5. \A p \in Payment : p # q => EventSet(p)' = EventSet(p)
    BY <2>3 DEF EventSet
  <2> QED
    BY <2>1, <2>2, <2>3, <2>4, <2>5
<1>2. \A g \in Handler : call'[g] = call[g] \/ (g = h /\ call'[g].pc = "respond")
  BY <1>1
<1>3. WorkingOn(h, "publish", q)
  BY <1>1 DEF WorkingOn
<1>4. IsMomo(q) => /\ \A f \in EventSet(q) : f = e
                   /\ Len(events[q]) <= faults
                   /\ Tells(e, ResultOf(q))
                   /\ row[q].status # "PENDING"
                   /\ \A g \in Handler : WorkingOn(g, "publish", q) => g = h
  BY <1>1, <1>3 DEF MomoInv, MomoWinnerPublishes, MomoPendingIsUntouched
<1>5. \A p \in Payment : (IsMomo(p)' <=> IsMomo(p)) /\ ResultOf(p)' = ResultOf(p)
  BY <1>1 DEF IsMomo, ResultOf
<1>6. /\ faults \in Nat /\ faults' \in {faults, faults + 1}
      /\ \A p \in Payment : Len(events[p]) \in Nat
  BY <1>1, CountsAreNumbers
<1>7. \A p \in Payment, pc \in {"update", "publish"}, g \in Handler :
         WorkingOn(g, pc, p)' => WorkingOn(g, pc, p) /\ call'[g] = call[g]
  BY <1>2 DEF WorkingOn
<1>8. CallsMatchRows'
  BY <1>1, <1>2 DEF MomoInv, CallsMatchRows
<1>9. MomoPendingIsUntouched'
  <2> SUFFICES ASSUME NEW p \in Payment, IsMomo(p), row[p].status = "PENDING",
                      NEW g \in Handler
               PROVE  /\ row[p].txn = Reference /\ events'[p] = << >>
                      /\ ~WorkingOn(g, "publish", p)'
                      /\ WorkingOn(g, "update", p)' => call'[g].seen.txn = Reference
    BY <1>1, <1>5 DEF MomoPendingIsUntouched
  <2>1. p # q
    BY <1>4
  <2> QED
    BY <1>1, <1>7, <2>1 DEF MomoInv, MomoPendingIsUntouched
<1>10. MomoWinnerPublishes'
  <2> SUFFICES ASSUME NEW p \in Payment, NEW g \in Handler, IsMomo(p),
                      WorkingOn(g, "publish", p)'
               PROVE  /\ \A f \in EventSet(p)' : f = EventOf(call'[g])
                      /\ Len(events'[p]) <= faults'
                      /\ Tells(EventOf(call'[g]), ResultOf(p)')
                      /\ \A k \in Handler : WorkingOn(k, "publish", p)' => k = g
    BY <1>5 DEF MomoWinnerPublishes
  <2>1. /\ WorkingOn(g, "publish", p) /\ call'[g] = call[g]
        /\ \A k \in Handler : WorkingOn(k, "publish", p)' => WorkingOn(k, "publish", p)
    BY <1>7
  <2>2. CASE p = q
    <3>1. g = h /\ call' = call /\ faults' = faults + 1
      BY <1>1, <1>4, <2>1, <2>2 DEF WorkingOn
    <3>2. Len(events'[q]) <= faults'
      BY <1>1, <1>4, <1>6, <2>2, <3>1
    <3> QED
      BY <1>1, <1>4, <1>5, <2>1, <2>2, <3>1, <3>2
  <2>3. CASE p # q
    <3>1. /\ \A f \in EventSet(p) : f = EventOf(call[g])
          /\ Len(events[p]) <= faults
          /\ Tells(EventOf(call[g]), ResultOf(p))
          /\ \A k \in Handler : WorkingOn(k, "publish", p) => k = g
      BY <2>1 DEF MomoInv, MomoWinnerPublishes
    <3>2. Len(events'[p]) <= faults'
      BY <1>1, <1>6, <2>3, <3>1
    <3> QED
      BY <1>1, <1>5, <2>1, <2>3, <3>1, <3>2
  <2> QED
    BY <2>2, <2>3
<1>11. MomoEventMatchesRow'
  <2> SUFFICES ASSUME NEW p \in Payment, IsMomo(p)
               PROVE  /\ \A f \in EventSet(p)' : Tells(f, ResultOf(p)')
                      /\ \A f, g \in EventSet(p)' : f = g
                      /\ Len(events'[p]) <= 1 + faults'
    BY <1>5 DEF MomoEventMatchesRow
  <2>1. CASE p = q
    <3>1. Len(events'[q]) <= 1 + faults'
      BY <1>1, <1>4, <1>6, <2>1
    <3> QED
      BY <1>1, <1>4, <1>5, <2>1, <3>1
  <2>2. CASE p # q
    <3>1. /\ \A f \in EventSet(p) : Tells(f, ResultOf(p))
          /\ \A f, g \in EventSet(p) : f = g
          /\ Len(events[p]) <= 1 + faults
      BY DEF MomoInv, MomoEventMatchesRow
    <3>2. Len(events'[p]) <= 1 + faults'
      BY <1>1, <1>6, <2>2, <3>1
    <3> QED
      BY <1>1, <1>5, <2>2, <3>1, <3>2
  <2> QED
    BY <2>1, <2>2
<1> QED
  BY <1>8, <1>9, <1>10, <1>11 DEF MomoInv

\* The invariant is inductive.
LEMMA MomoInvInit == Init => MomoInv
<1> SUFFICES ASSUME Init PROVE MomoInv
  OBVIOUS
<1>1. \A h \in Handler : call[h].pc = "idle"
  BY DEF Init, NoCall
<1>2. \A p \in Payment : /\ row[p].txn = Reference /\ events[p] = << >>
                         /\ EventSet(p) = {} /\ Len(events[p]) <= 1 + faults
  BY DEF Init, EventSet
<1> QED
  BY <1>1, <1>2 DEF MomoInv, CallsMatchRows, MomoPendingIsUntouched,
                    MomoWinnerPublishes, MomoEventMatchesRow, WorkingOn

\* Every step keeps it.
LEMMA MomoInvStep == TypeOK /\ MomoInv /\ [Next]_vars => MomoInv'
<1> SUFFICES ASSUME TypeOK, MomoInv, [Next]_vars PROVE MomoInv'
  OBVIOUS
<1>1. ASSUME NEW r \in Ref, NEW method \in Method, NEW o \in Outcomes,
             GatewayReports(r, method, o)
      PROVE  MomoInv'
  BY <1>1, MomoQuietStep DEF GatewayReports
<1>2. ASSUME NEW h \in Handler, NEW m \in sent, Deliver(h, m) \/ Redeliver(h, m)
      PROVE  MomoInv'
  <2>1. /\ UNCHANGED <<row, events>> /\ faults' \in {faults, faults + 1}
        /\ \A g \in Handler : call'[g] = call[g] \/ call'[g].pc = "find"
    BY <1>2 DEF Deliver, Redeliver, StartCall, TypeOK
  <2> QED
    BY <2>1, MomoQuietStep
<1>3. ASSUME NEW h \in Handler, Find(h) PROVE MomoInv'
  <2>1. ASSUME NEW answer, Reply(h, answer) PROVE MomoInv'
    <3>1. /\ UNCHANGED <<row, events>> /\ faults' \in {faults, faults + 1}
          /\ \A g \in Handler : call'[g] = call[g] \/ call'[g].pc = "respond"
      BY <2>1 DEF Reply, TypeOK
    <3> QED
      BY <3>1, MomoQuietStep
  <2> QED
    BY <1>3, <2>1, FindCases, MomoSettleStep
<1>4. ASSUME NEW h \in Handler, Respond(h) PROVE MomoInv'
  <2>1. /\ UNCHANGED <<row, events>> /\ faults' \in {faults, faults + 1}
        /\ \A g \in Handler : call'[g] = call[g] \/ call'[g].pc = "idle"
    BY <1>4 DEF Respond, NoCall, TypeOK
  <2> QED
    BY <2>1, MomoQuietStep
<1>5. ASSUME NEW h \in Handler, Throw(h) PROVE MomoInv'
  <2>1. /\ UNCHANGED <<row, events>> /\ faults' \in {faults, faults + 1}
        /\ \A g \in Handler : call'[g] = call[g] \/ call'[g].pc = "idle"
    BY <1>5 DEF Throw, NoCall, TypeOK
  <2> QED
    BY <2>1, MomoQuietStep
<1>6. CASE Crash
  <2>1. /\ UNCHANGED <<row, events>> /\ faults' \in {faults, faults + 1}
        /\ \A g \in Handler : call'[g].pc = "idle"
    BY <1>6 DEF Crash, NoCall
  <2> QED
    BY <2>1, MomoQuietStep
<1>7. CASE UNCHANGED vars
  BY <1>7, MomoQuietStep DEF vars
<1> QED
  BY <1>1, <1>2, <1>3, <1>4, <1>5, <1>6, <1>7, MomoUpdateStep,
     MomoOtherUpdateStep, MomoEmitStep DEF Next, Step

\* Whatever is reported and fails, a MoMo payment has one callback that settles and
\* announces it (handleMomoReturn, handleMomoIpn), and its two conversions of the
\* number fit.
THEOREM MomoInvariant == Spec => []MomoInv
BY MomoInvInit, MomoInvStep, TypeCorrect, PTL DEF Spec

\* Everything other services hear of a MoMo payment is copies of one event, no more
\* than one and one for each fault; it tells the status and the number of the row,
\* or "0" where the row kept its reference.
THEOREM MomoSafe == Spec => []MomoEventMatchesRow
<1>1. MomoInv => MomoEventMatchesRow
  BY DEF MomoInv
<1> QED
  BY <1>1, MomoInvariant, PTL

-----------------------------------------------------------------------------
(* For MoMo payments the callbacks implement OneShotSettlement.            *)

\* What the refinement mapping shows of a payment.
LEMMA ShownInit == Init => Settlement!Init
BY DEF Init, Settlement!Init, IsMomo, ResultOf, Unsettled

\* Every step settles one payment, announces one, or shows nothing.
LEMMA ShownStep == TypeOK /\ MomoInv /\ [Next]_vars => [Settlement!Next]_(Settlement!vars)
<1> DEFINE result == [p \in Payment |-> IF IsMomo(p) THEN ResultOf(p) ELSE Unsettled]
           announced == [p \in Payment |-> IF IsMomo(p) THEN events[p] ELSE << >>]
<1> SUFFICES ASSUME TypeOK, MomoInv, [Next]_vars
             PROVE  [Settlement!Next]_(Settlement!vars)
  OBVIOUS
<1>1. ASSUME UNCHANGED <<row, events>> PROVE UNCHANGED Settlement!vars
  BY <1>1 DEF Settlement!vars, IsMomo, ResultOf
<1>2. ASSUME NEW h \in Handler, MomoUpdate(h)
      PROVE  [Settlement!Next]_(Settlement!vars)
  <2> DEFINE c == call[h]
  <2>1. CASE ~StillPending(row[c.msg.ref])
    BY <1>1, <1>2, <2>1 DEF MomoUpdate
  <2>2. CASE StillPending(row[c.msg.ref])
    <3>1. /\ c \in Working /\ c.msg \in Message /\ c.msg.ref \in Payment
          /\ c.status \in {"SUCCESS", "FAILED"} /\ c.status \in Status
          /\ c.msg.channel \in {"momo/return", "momo/ipn"} /\ c.pc = "update"
      BY <1>2, CallKinds, ConstantsAssumption DEF MomoUpdate, At, Working, Message, Status
    <3> PICK q \in Payment : q = c.msg.ref
      BY <3>1
    <3> PICK new : new = UpdatedRow(row[q], c.msg, c.status)
      OBVIOUS
    <3>2. row[q] \in Row
      BY DEF TypeOK
    <3>3. /\ new \in Row /\ new.status = c.status /\ new.method = row[q].method
      BY <3>1, <3>2, UpdatedRowType
    <3>4. row' = [row EXCEPT ![q] = new] /\ UNCHANGED events
      BY <1>2, <2>2 DEF MomoUpdate
    <3>5. row'[q] = new /\ \A p \in Payment : p # q => row'[p] = row[p]
      BY <3>4 DEF TypeOK
    <3>6. IsMomo(q)
      <4>1. c.msg.channel \in ChannelsOf(row[q].method) /\ row[q].method \in Method
        BY <3>1, <3>2 DEF MomoInv, CallsMatchRows, Row
      <4> QED
        BY <3>1, <4>1 DEF ChannelsOf, Method, IsMomo
    <3>7. ResultOf(q) = Unsettled
      BY <2>2, <3>6
         DEF StillPending, MomoInv, MomoPendingIsUntouched, ResultOf, Unsettled
    <3>8. ResultOf(q)' \in MomoResult
      BY <3>1, <3>3, <3>5 DEF ResultOf, MomoResult, Row
    <3>9. /\ \A p \in Payment : IsMomo(p)' <=> IsMomo(p)
          /\ \A p \in Payment : p # q => ResultOf(p)' = ResultOf(p)
      BY <3>3, <3>5 DEF IsMomo, ResultOf
    <3>10. result[q] = Unsettled
      BY <3>7
    <3>11. result' = [result EXCEPT ![q] = ResultOf(q)']
      BY <3>6, <3>9
    <3>12. announced' = announced
      BY <3>4, <3>9
    <3>13. Settlement!Settle(q)
      BY <3>8, <3>10, <3>11, <3>12 DEF Settlement!Settle
    <3> QED
      BY <3>13 DEF Settlement!Next
  <2> QED
    BY <2>1, <2>2
<1>3. ASSUME NEW h \in Handler, UpdateStatusByPaymentId(h)
      PROVE  UNCHANGED Settlement!vars
  <2> DEFINE c == call[h]
             q == c.msg.ref
  <2>1. /\ c \in Working /\ c.msg \in Message /\ q \in Payment
        /\ c.status \in Status /\ row[q] \in Row
    BY <1>3, CallKinds, ConstantsAssumption
       DEF UpdateStatusByPaymentId, At, Working, Message, Status, TypeOK
  <2>2. /\ UNCHANGED events
        /\ \A p \in Payment : p # q => row'[p] = row[p]
        /\ row'[q].method = row[q].method
    BY <1>3, <2>1, UpdatedRowType DEF UpdateStatusByPaymentId, TypeOK
  <2>3. ~IsMomo(q)
    BY <1>3, UpdateIsNotMomo DEF MomoInv
  <2>4. \A p \in Payment : /\ IsMomo(p)' <=> IsMomo(p)
                           /\ IsMomo(p) => ResultOf(p)' = ResultOf(p)
    BY <2>2, <2>3 DEF IsMomo, ResultOf
  <2>5. result' = result /\ announced' = announced
    BY <2>2, <2>4
  <2> QED
    BY <2>5 DEF Settlement!vars
<1>4. ASSUME NEW h \in Handler, PublishPaymentStatusEvent(h) \/ LoseConfirm(h)
      PROVE  [Settlement!Next]_(Settlement!vars)
  <2> PICK e : e = EventOf(call[h])
    OBVIOUS
  <2> PICK q : q = call[h].msg.ref
    OBVIOUS
  <2>1. /\ q \in Payment /\ call[h].pc = "publish" /\ row' = row /\ e \in Event
        /\ events' = [events EXCEPT ![q] = Append(events[q], e)]
        /\ \A p \in Payment : p # q => events'[p] = events[p]
    BY <1>4, EmitAppends DEF PublishPaymentStatusEvent, LoseConfirm
  <2>2. result' = result
    BY <2>1 DEF IsMomo, ResultOf
  <2>3. CASE IsMomo(q)
    <3>1. /\ \A f \in EventSet(q) : f = e
          /\ Tells(e, ResultOf(q))
          /\ row[q].status # "PENDING"
      BY <2>1, <2>3 DEF MomoInv, MomoWinnerPublishes, MomoPendingIsUntouched, WorkingOn
    <3>2. ResultOf(q) \in MomoResult /\ ResultOf(q) # Unsettled
      <4>1. row[q] \in Row
        BY <2>1 DEF TypeOK
      <4> QED
        BY <3>1, <4>1 DEF ResultOf, MomoResult, Unsettled, Row, Status
    <3>3. \A i \in 1 .. Len(events[q]) : events[q][i] = e
      BY <3>1 DEF EventSet
    <3>4. e \in {f \in Event : Tells(f, ResultOf(q))}
      BY <2>1, <3>1
    <3>5. result[q] = ResultOf(q) /\ announced[q] = events[q]
      BY <2>1, <2>3
    <3>6. announced' = [announced EXCEPT ![q] = Append(announced[q], e)]
      <4>1. events'[q] = Append(events[q], e)
        BY <2>1 DEF TypeOK
      <4> QED
        BY <2>1, <2>3, <3>5, <4>1 DEF IsMomo
    <3>7. e \in [r \in MomoResult |-> {f \in Event : Tells(f, r)}][result[q]]
      BY <3>2, <3>4, <3>5
    <3>8. /\ result[q] # Unsettled
          /\ \A i \in 1 .. Len(announced[q]) : announced[q][i] = e
      BY <3>2, <3>3, <3>5
    <3>9. Settlement!Announce(q)
      BY <2>2, <3>6, <3>7, <3>8, Zenon DEF Settlement!Announce
    <3>10. Settlement!Next
      BY <2>1, <3>9, Zenon DEF Settlement!Next
    <3> QED
      BY <3>10
  <2>4. CASE ~IsMomo(q)
    <3>1. announced' = announced
      BY <2>1, <2>4 DEF IsMomo
    <3> QED
      BY <2>2, <3>1 DEF Settlement!vars
  <2> QED
    BY <2>3, <2>4
<1>5. ASSUME NEW h \in Handler, Find(h) PROVE UNCHANGED <<row, events>>
  BY <1>5, FindCases DEF Reply, Settle
<1>6. ASSUME NEW h \in Handler, Step(h) \/ LoseConfirm(h)
      PROVE  [Settlement!Next]_(Settlement!vars)
  BY <1>1, <1>2, <1>3, <1>4, <1>5, <1>6 DEF Step, Respond
<1>7. CASE \/ \E r \in Ref, method \in Method, o \in Outcomes : GatewayReports(r, method, o)
           \/ \E h \in Handler : \/ \E m \in sent : Deliver(h, m) \/ Redeliver(h, m)
                                 \/ Throw(h)
           \/ Crash
           \/ UNCHANGED vars
  BY <1>1, <1>7 DEF GatewayReports, Deliver, Redeliver, StartCall, Throw, Crash, vars
<1> QED
  BY <1>6, <1>7 DEF Next

\* A MoMo payment is settled at most once and never revised, and all messages
\* about it are copies of one event, which tells what it was settled with.
THEOREM MomoImplementsOneShot == Spec => MomoIsOneShot
<1>1. Spec => Settlement!Init /\ [][Settlement!Next]_(Settlement!vars)
  BY ShownInit, ShownStep, TypeCorrect, MomoInvariant, PTL DEF Spec
<1> QED
  BY <1>1 DEF MomoIsOneShot, Settlement!Spec

-----------------------------------------------------------------------------
(* What an answer, an event and a row say of each other for all four       *)
(* gateways, whatever they report and whatever fails: everything follows   *)
(* from what a callback between two of its steps knows.                    *)

\* Channels whose callback reads the status before it updates by id, and those
\* that are told `ok' after the publish.
CheckedChannel == {"vnpay/return", "vnpay/ipn", "webhook"}
ConfirmedChannel == {"vnpay/ipn", "webhook", "payos/webhook"}

IsSettled(p) == p \in Payment /\ row[p].status # "PENDING"
IsAnnounced(p, status) == \E e \in EventSet(p) : e.status = status

\* What a callback on its way to the update or the publish knows.
WorkingKnows(c) ==
    /\ c.status = "SUCCESS" => BacksSuccess(c.msg, c.msg.ref)
    /\ c.msg.channel \in ConfirmedChannel => c.status = Verdict(c.msg)
    /\ c.pc = "update" /\ c.msg.channel \in CheckedChannel => c.seen.status # "SUCCESS"
    /\ c.pc = "publish" => IsSettled(c.msg.ref)

\* What an answer says of its payment.
AnswerHolds(a) ==
    /\ a.answer \in {"ok", "already"} => IsSettled(a.msg.ref)
    /\ a.answer = "ok" /\ a.msg.channel \in ConfirmedChannel
          => IsAnnounced(a.msg.ref, Verdict(a.msg))

CallKnows(h) ==
    /\ call[h].pc # "idle" => call[h].msg \in sent
    /\ call[h].pc \in {"update", "publish"} => WorkingKnows(call[h])
    /\ call[h].pc = "respond" => AnswerHolds(call[h])

CallbacksKnow == \A h \in Handler : CallKnows(h)
AnswersHold == \A a \in answers : AnswerHolds(a)

\* The inductive invariant: with what callbacks know, every answer holds and
\* every SUCCESS is backed.
SettleInv == CallbacksKnow /\ AnswersHold /\ SuccessIsBacked

-----------------------------------------------------------------------------
(* What no step takes back.                                                *)

\* Messages stay sent, settled rows settled, published events published.
Kept ==
    /\ sent \subseteq sent'
    /\ \A p \in Payment : row[p].status # "PENDING" => row'[p].status # "PENDING"
    /\ \A p \in Payment : EventSet(p) \subseteq EventSet(p)'

\* An update writes the status of the callback that makes it, in one row.
LEMMA UpdateEffect ==
    ASSUME TypeOK, NEW h \in Handler, MomoUpdate(h) \/ UpdateStatusByPaymentId(h),
           NEW p, p = call[h].msg.ref
    PROVE  LET c == call[h]
           IN  /\ c.pc = "update" /\ c \in Working /\ c.msg \in Message /\ p \in Payment
               /\ UNCHANGED <<sent, events, answers, faults>>
               /\ \A g \in Handler \ {h} : call'[g] = call[g]
               /\ \A q \in Payment : q # p => row'[q] = row[q]
               /\ call'[h].msg = c.msg
               /\ \/ /\ row'[p].status = c.status /\ row'[p].method = row[p].method
                     /\ call'[h].pc = "publish" /\ call'[h].status = c.status
                  \/ /\ row' = row /\ row[p].status # "PENDING"
                     /\ c.msg.channel \in {"momo/return", "momo/ipn"}
                     /\ call'[h].pc = "respond"
<1> DEFINE c == call[h]
<1>1. /\ c.pc = "update" /\ c \in Working /\ c.msg \in Message /\ p \in Payment
      /\ c.status \in Status /\ row[p] \in Row
  BY CallKinds, ConstantsAssumption
     DEF MomoUpdate, UpdateStatusByPaymentId, At, Working, Message, Status, TypeOK
<1>2. /\ UpdatedRow(row[p], c.msg, c.status).status = c.status
      /\ UpdatedRow(row[p], c.msg, c.status).method = row[p].method
  BY <1>1, UpdatedRowType
<1>3. CASE MomoUpdate(h)
  BY <1>1, <1>2, <1>3 DEF MomoUpdate, At, StillPending, TypeOK, Working
<1>4. CASE UpdateStatusByPaymentId(h)
  <2>1. [c EXCEPT !.pc = "publish", !.seen = UpdatedRow(row[p], c.msg, c.status)].pc = "publish"
    BY <1>1 DEF Working
  <2> QED
    BY <1>1, <1>2, <1>4, <2>1 DEF UpdateStatusByPaymentId, TypeOK, Working
<1> QED
  BY <1>1, <1>3, <1>4

\* No step takes any of it back.
LEMMA KeptStep == TypeOK /\ [Next]_vars => Kept
<1> SUFFICES ASSUME TypeOK, [Next]_vars PROVE Kept
  OBVIOUS
<1>1. ASSUME NEW h \in Handler, MomoUpdate(h) \/ UpdateStatusByPaymentId(h) PROVE Kept
  <2> PICK p : p = call[h].msg.ref
    OBVIOUS
  <2>1. /\ UNCHANGED <<sent, events>>
        /\ \A q \in Payment : q # p => row'[q] = row[q]
        /\ row'[p].status \in {call[h].status, row[p].status}
        /\ call[h].status # "PENDING"
    BY <1>1, UpdateEffect DEF Working
  <2> QED
    BY <2>1 DEF Kept, EventSet
<1>2. ASSUME NEW h \in Handler, PublishPaymentStatusEvent(h) \/ LoseConfirm(h) PROVE Kept
  <2> PICK p : p = call[h].msg.ref
    OBVIOUS
  <2>1. /\ UNCHANGED <<sent, row>>
        /\ \A q \in Payment : q # p => EventSet(q)' = EventSet(q)
        /\ EventSet(p) \subseteq EventSet(p)'
    BY <1>2, EmitEffect
  <2> QED
    BY <2>1 DEF Kept
<1>3. ASSUME UNCHANGED <<row, events>>, sent \subseteq sent' PROVE Kept
  BY <1>3 DEF Kept, EventSet
<1>4. ASSUME NEW h \in Handler, Find(h) PROVE Kept
  BY <1>3, <1>4, FindCases DEF Reply, Settle
<1>5. CASE \/ \E r \in Ref, method \in Method, o \in Outcomes : GatewayReports(r, method, o)
           \/ \E h \in Handler : \/ \E m \in sent : Deliver(h, m) \/ Redeliver(h, m)
                                 \/ Throw(h)
                                 \/ Respond(h)
           \/ Crash
           \/ UNCHANGED vars
  BY <1>3, <1>5
     DEF GatewayReports, Deliver, Redeliver, StartCall, Throw, Respond, Crash, vars
<1> QED
  BY <1>1, <1>2, <1>4, <1>5 DEF Next, Step

\* What is true of an answer stays true.
LEMMA AnswerStays ==
    ASSUME Kept, NEW a, AnswerHolds(a) PROVE AnswerHolds(a)'
<1>1. /\ a.answer \in {"ok", "already"} => IsSettled(a.msg.ref)'
  BY DEF AnswerHolds, IsSettled, Kept
<1>2. ASSUME a.answer = "ok", a.msg.channel \in ConfirmedChannel
      PROVE  IsAnnounced(a.msg.ref, Verdict(a.msg))'
  <2>1. a.msg.ref \in Payment
    BY <1>2 DEF AnswerHolds, IsSettled
  <2> QED
    BY <1>2, <2>1 DEF AnswerHolds, IsAnnounced, Kept
<1> QED
  BY <1>1, <1>2 DEF AnswerHolds

\* What a callback knows stays true while it waits for its next step.
LEMMA KnowledgeStays ==
    ASSUME Kept, NEW h \in Handler, call'[h] = call[h], CallKnows(h)
    PROVE  CallKnows(h)'
<1> PICK c : c = call[h]
  OBVIOUS
<1>1. c.pc # "idle" => c.msg \in sent'
  BY DEF CallKnows, Kept
<1>2. ASSUME WorkingKnows(c) PROVE WorkingKnows(c)'
  BY <1>2 DEF WorkingKnows, IsSettled, Kept
<1>3. ASSUME AnswerHolds(c) PROVE AnswerHolds(c)'
  BY <1>3, AnswerStays
<1>4. CallKnows(h)' <=> /\ c.pc # "idle" => c.msg \in sent'
                        /\ c.pc \in {"update", "publish"} => WorkingKnows(c)'
                        /\ c.pc = "respond" => AnswerHolds(c)'
  BY DEF CallKnows, WorkingKnows, AnswerHolds
<1> QED
  BY <1>1, <1>2, <1>3, <1>4 DEF CallKnows

-----------------------------------------------------------------------------
(* The inductive invariant.                                                *)

\* What the checks of a callback's first step establish, gateway by gateway.
LEMMA FindEstablishes ==
    ASSUME NEW h, Find(h), NEW m, m = call[h].msg
    PROVE  \/ Reply(h, "refused")
           \/ Reply(h, "already") /\ Found(m) /\ row[m.ref].status # "PENDING"
           \/ /\ Found(m)
              /\ \E status \in {"SUCCESS", "FAILED"} :
                    /\ Settle(h, status)
                    /\ status = "SUCCESS" => BacksSuccess(m, m.ref)
                    /\ m.channel \in ConfirmedChannel => status = Verdict(m)
                    /\ m.channel \in CheckedChannel => row[m.ref].status # "SUCCESS"
<1>1. /\ Verdict(m) \in {"SUCCESS", "FAILED"}
      /\ Verdict(m) = "SUCCESS" => m.outcome.ok
  BY DEF Verdict
<1>2. CASE MomoReturn(h)
  BY <1>1, <1>2 DEF MomoReturn, At, BacksSuccess, ConfirmedChannel, CheckedChannel
<1>3. CASE MomoIpn(h)
  BY <1>1, <1>3
     DEF MomoIpn, At, BacksSuccess, AmountMatches, ConfirmedChannel, CheckedChannel
<1>4. CASE VNPayReturn(h)
  BY <1>1, <1>4 DEF VNPayReturn, At, BacksSuccess, AmountMatches, ConfirmedChannel
<1>5. CASE VNPayIpn(h)
  BY <1>1, <1>5 DEF VNPayIpn, CheckThenSettle, At, BacksSuccess, AmountMatches
<1>6. CASE VietqrWebhook(h)
  BY <1>1, <1>6 DEF VietqrWebhook, CheckThenSettle, At, BacksSuccess, AmountMatches
<1>7. CASE PayosWebhook(h)
  BY <1>1, <1>7
     DEF PayosWebhook, CheckThenSettle, At, BacksSuccess, AmountMatches, CheckedChannel
<1> QED
  BY <1>2, <1>3, <1>4, <1>5, <1>6, <1>7 DEF Find

\* A step that changes nothing but callbacks, sends or gives answers that hold,
\* and leaves every callback knowing what it must.
LEMMA SettleQuietStep ==
    ASSUME SettleInv, Kept, UNCHANGED <<row, events>>,
           \A h \in Handler : call'[h] = call[h] \/ CallKnows(h)',
           \A a \in answers' : a \in answers \/ AnswerHolds(a)'
    PROVE  SettleInv'
<1>1. CallbacksKnow'
  BY KnowledgeStays DEF SettleInv, CallbacksKnow
<1>2. AnswersHold'
  BY AnswerStays DEF SettleInv, AnswersHold
<1>3. SuccessIsBacked'
  BY DEF SettleInv, SuccessIsBacked, EventSet, Kept
<1> QED
  BY <1>1, <1>2, <1>3 DEF SettleInv

\* The status an update writes, or a publish announces, is backed by the
\* notification of the callback that makes it.
LEMMA SettleWriteStep ==
    ASSUME SettleInv, Kept, UNCHANGED <<sent, answers>>,
           NEW h \in Handler, NEW p \in Payment, p = call[h].msg.ref,
           call[h].pc \in {"update", "publish"},
           \A g \in Handler \ {h} : call'[g] = call[g],
           CallKnows(h)',
           \A q \in Payment : q # p => row'[q] = row[q] /\ EventSet(q)' = EventSet(q),
           row'[p].status \in {row[p].status, call[h].status},
           \A e \in EventSet(p)' : e \in EventSet(p) \/ e.status = call[h].status
    PROVE  SettleInv'
<1>1. CallbacksKnow'
  BY KnowledgeStays DEF SettleInv, CallbacksKnow
<1>2. AnswersHold'
  BY AnswerStays DEF SettleInv, AnswersHold
<1>3. SuccessIsBacked'
  <2>1. call[h].status = "SUCCESS" => \E m \in sent : BacksSuccess(m, p)
    BY DEF SettleInv, CallbacksKnow, CallKnows, WorkingKnows
  <2> SUFFICES ASSUME NEW q \in Payment,
                      \/ row'[q].status = "SUCCESS"
                      \/ \E e \in EventSet(q)' : e.status = "SUCCESS"
               PROVE  \E m \in sent : BacksSuccess(m, q)
    BY DEF SuccessIsBacked
  <2>2. CASE q # p
    BY <2>2 DEF SettleInv, SuccessIsBacked
  <2>3. CASE q = p
    BY <2>1, <2>3 DEF SettleInv, SuccessIsBacked
  <2> QED
    BY <2>2, <2>3
<1> QED
  BY <1>1, <1>2, <1>3 DEF SettleInv

\* Nobody runs and nothing is settled.
LEMMA SettleInvInit == Init => SettleInv
<1> SUFFICES ASSUME Init PROVE SettleInv
  OBVIOUS
<1>1. \A h \in Handler : call[h].pc = "idle"
  BY DEF Init, NoCall
<1>2. \A p \in Payment : row[p].status = "PENDING" /\ EventSet(p) = {}
  BY DEF Init, EventSet
<1> QED
  BY <1>1, <1>2 DEF SettleInv, CallbacksKnow, CallKnows, AnswersHold, SuccessIsBacked, Init

\* The first step of a callback: what it checked is what it must know.
LEMMA SettleFindStep ==
    ASSUME TypeOK, SettleInv, Kept, NEW h \in Handler, Find(h)
    PROVE  SettleInv'
<1> PICK m : m = call[h].msg
  OBVIOUS
<1>1. m \in sent /\ call[h].pc = "find"
  BY FindCases DEF SettleInv, CallbacksKnow, CallKnows
<1>2. ASSUME NEW answer, Reply(h, answer),
             answer = "already" => Found(m) /\ row[m.ref].status # "PENDING",
             answer # "ok"
      PROVE  SettleInv'
  <2>1. /\ UNCHANGED <<row, events, sent, answers>>
        /\ call'[h] = [pc |-> "respond", msg |-> m, answer |-> answer]
        /\ \A g \in Handler \ {h} : call'[g] = call[g]
    BY <1>2 DEF Reply, TypeOK
  <2>2. AnswerHolds(call[h])'
    BY <1>2, <2>1 DEF AnswerHolds, IsSettled, Found
  <2>3. CallKnows(h)'
    BY <1>1, <2>1, <2>2 DEF CallKnows
  <2> QED
    BY <2>1, <2>3, SettleQuietStep
<1>3. ASSUME NEW status, Settle(h, status),
             status = "SUCCESS" => BacksSuccess(m, m.ref),
             m.channel \in ConfirmedChannel => status = Verdict(m),
             m.channel \in CheckedChannel => row[m.ref].status # "SUCCESS"
      PROVE  SettleInv'
  <2>1. /\ UNCHANGED <<row, events, sent, answers>>
        /\ call'[h] = [pc |-> "update", msg |-> m, seen |-> row[m.ref], status |-> status]
        /\ \A g \in Handler \ {h} : call'[g] = call[g]
    BY <1>3 DEF Settle, TypeOK
  <2>2. WorkingKnows(call[h])'
    BY <1>3, <2>1 DEF WorkingKnows, BacksSuccess, Verdict
  <2>3. CallKnows(h)'
    BY <1>1, <2>1, <2>2 DEF CallKnows
  <2> QED
    BY <2>1, <2>3, SettleQuietStep
<1> QED
  BY <1>2, <1>3, FindEstablishes

\* An update settles the row of a callback that knows why; who loses the
\* conditional update found the row settled.
LEMMA SettleUpdateStep ==
    ASSUME TypeOK, SettleInv, Kept, NEW h \in Handler,
           MomoUpdate(h) \/ UpdateStatusByPaymentId(h)
    PROVE  SettleInv'
<1> PICK p : p = call[h].msg.ref
  OBVIOUS
<1> PICK c : c = call[h]
  OBVIOUS
<1>1. /\ c.pc = "update" /\ c \in Working /\ p \in Payment
      /\ UNCHANGED <<sent, events, answers>>
      /\ \A g \in Handler \ {h} : call'[g] = call[g]
      /\ \A q \in Payment : q # p => row'[q] = row[q]
      /\ call'[h].msg = c.msg
      /\ \/ /\ row'[p].status = c.status
            /\ call'[h].pc = "publish" /\ call'[h].status = c.status
         \/ /\ row' = row /\ row[p].status # "PENDING"
            /\ c.msg.channel \in {"momo/return", "momo/ipn"}
            /\ call'[h].pc = "respond"
  BY UpdateEffect
<1>2. c.msg \in sent /\ WorkingKnows(c) /\ c.status # "PENDING"
  BY <1>1 DEF SettleInv, CallbacksKnow, CallKnows, Working
<1>3. \A q \in Payment : EventSet(q)' = EventSet(q)
  BY <1>1 DEF EventSet
<1>4. CASE row'[p].status = c.status /\ call'[h].pc = "publish" /\ call'[h].status = c.status
  <2>1. WorkingKnows(call[h])'
    BY <1>1, <1>2, <1>4 DEF WorkingKnows, BacksSuccess, Verdict, IsSettled
  <2>2. CallKnows(h)'
    BY <1>1, <1>2, <1>4, <2>1 DEF CallKnows
  <2> QED
    BY <1>1, <1>3, <1>4, <2>2, SettleWriteStep
<1>5. CASE /\ row' = row /\ row[p].status # "PENDING"
           /\ c.msg.channel \in {"momo/return", "momo/ipn"}
           /\ call'[h].pc = "respond"
  <2>1. AnswerHolds(call[h])'
    BY <1>1, <1>5 DEF AnswerHolds, IsSettled, ConfirmedChannel
  <2>2. CallKnows(h)'
    BY <1>1, <1>2, <1>5, <2>1 DEF CallKnows
  <2> QED
    BY <1>1, <1>5, <2>2, SettleQuietStep
<1> QED
  BY <1>1, <1>4, <1>5

\* A publish is what the answer after it tells of; without the confirm the
\* callback knows what it knew.
LEMMA SettleEmitStep ==
    ASSUME TypeOK, SettleInv, Kept, NEW h \in Handler,
           PublishPaymentStatusEvent(h) \/ LoseConfirm(h)
    PROVE  SettleInv'
<1> PICK p : p = call[h].msg.ref
  OBVIOUS
<1> PICK c : c = call[h]
  OBVIOUS
<1>1. /\ c.pc = "publish" /\ c \in Working /\ p \in Payment
      /\ UNCHANGED <<row, sent, answers>>
      /\ \A g \in Handler \ {h} : call'[g] = call[g]
      /\ \/ call'[h] = [pc |-> "respond", msg |-> c.msg, answer |-> FinalAnswer(c.msg)]
         \/ call'[h] = c
      /\ \A q \in Payment : q # p => EventSet(q)' = EventSet(q)
      /\ \E e : e.status = c.status /\ EventSet(p)' = EventSet(p) \cup {e}
  BY EmitEffect
<1>2. c.msg \in sent /\ WorkingKnows(c)
  BY <1>1 DEF SettleInv, CallbacksKnow, CallKnows
<1>3. CallKnows(h)'
  <2>1. CASE call'[h] = [pc |-> "respond", msg |-> c.msg, answer |-> FinalAnswer(c.msg)]
    <3>1. IsSettled(p)' /\ IsAnnounced(p, c.status)'
      BY <1>1, <1>2 DEF WorkingKnows, IsSettled, IsAnnounced
    <3>2. c.msg.channel \in ConfirmedChannel => c.status = Verdict(c.msg)
      BY <1>2 DEF WorkingKnows
    <3>3. AnswerHolds(call[h])'
      BY <1>1, <2>1, <3>1, <3>2 DEF AnswerHolds
    <3> QED
      BY <1>1, <1>2, <2>1, <3>3 DEF CallKnows
  <2>2. CASE call'[h] = c
    BY <2>2, KnowledgeStays DEF SettleInv, CallbacksKnow
  <2> QED
    BY <1>1, <2>1, <2>2
<1> QED
  BY <1>1, <1>3, SettleWriteStep

\* An answer is given as the callback made it.
LEMMA SettleRespondStep ==
    ASSUME TypeOK, SettleInv, Kept, NEW h \in Handler, Respond(h)
    PROVE  SettleInv'
<1> PICK a : a = [msg |-> call[h].msg, answer |-> call[h].answer]
  OBVIOUS
<1>1. /\ UNCHANGED <<row, events, sent>>
      /\ answers' = answers \cup {a}
      /\ call'[h].pc = "idle"
      /\ \A g \in Handler \ {h} : call'[g] = call[g]
  BY DEF Respond, TypeOK, NoCall
<1>2. AnswerHolds(a)
  BY DEF Respond, SettleInv, CallbacksKnow, CallKnows, AnswerHolds, Verdict
<1>3. AnswerHolds(a)'
  BY <1>2, AnswerStays
<1>4. CallKnows(h)'
  BY <1>1 DEF CallKnows
<1> QED
  BY <1>1, <1>3, <1>4, SettleQuietStep

\* Every step keeps the invariant.
LEMMA SettleInvStep == TypeOK /\ SettleInv /\ [Next]_vars => SettleInv'
<1> SUFFICES ASSUME TypeOK, SettleInv, [Next]_vars PROVE SettleInv'
  OBVIOUS
<1>1. Kept
  BY KeptStep
<1>2. ASSUME NEW r \in Ref, NEW method \in Method, NEW o \in Outcomes,
             GatewayReports(r, method, o)
      PROVE  SettleInv'
  BY <1>1, <1>2, SettleQuietStep DEF GatewayReports
<1>3. ASSUME NEW h \in Handler, NEW m \in sent, Deliver(h, m) \/ Redeliver(h, m)
      PROVE  SettleInv'
  <2>1. /\ UNCHANGED <<row, events, sent, answers>>
        /\ call'[h] = [pc |-> "find", msg |-> m]
        /\ \A g \in Handler \ {h} : call'[g] = call[g]
    BY <1>3 DEF Deliver, Redeliver, StartCall, TypeOK
  <2>2. CallKnows(h)'
    BY <2>1 DEF CallKnows
  <2> QED
    BY <1>1, <2>1, <2>2, SettleQuietStep
<1>4. ASSUME UNCHANGED <<row, events, answers>>,
             \A h \in Handler : call'[h] = call[h] \/ call'[h].pc = "idle"
      PROVE  SettleInv'
  <2>1. \A h \in Handler : call'[h].pc = "idle" => CallKnows(h)'
    BY DEF CallKnows
  <2> QED
    BY <1>1, <1>4, <2>1, SettleQuietStep
<1>5. CASE \/ \E h \in Handler : Throw(h)
           \/ Crash
           \/ UNCHANGED vars
  BY <1>4, <1>5 DEF Throw, Crash, vars, NoCall, TypeOK
<1> QED
  BY <1>1, <1>2, <1>3, <1>5, SettleFindStep, SettleUpdateStep, SettleEmitStep,
     SettleRespondStep DEF Next, Step

\* What callbacks, answers and SUCCESS rows and events rest on is always there.
THEOREM SettleInvariant == Spec => []SettleInv
BY SettleInvInit, SettleInvStep, TypeCorrect, PTL DEF Spec

\* A SUCCESS row or event has a verified and exact success of its gateway behind
\* it, or MoMo's return page, whatever is reported and whatever fails.
THEOREM SuccessBacked == Spec => []SuccessIsBacked
<1>1. SettleInv => SuccessIsBacked
  BY DEF SettleInv
<1> QED
  BY <1>1, SettleInvariant, PTL

\* Who was told that a notification is processed finds the payment settled, then
\* and ever after.
THEOREM AcknowledgedSettled == Spec => []AcknowledgedIsSettled
<1>1. SettleInv => AcknowledgedIsSettled
  BY DEF SettleInv, AnswersHold, AnswerHolds, IsSettled, AcknowledgedIsSettled
<1> QED
  BY <1>1, SettleInvariant, PTL

\* The gateways that go through updateStatusByPaymentId are told `ok' only after
\* the event of this outcome was published.
THEOREM OkAnnounced == Spec => []OkMeansAnnounced
<1>1. SettleInv => OkMeansAnnounced
  BY DEF SettleInv, AnswersHold, AnswerHolds, IsAnnounced, ConfirmedChannel, OkMeansAnnounced
<1> QED
  BY <1>1, SettleInvariant, PTL

-----------------------------------------------------------------------------
(* Two properties of races.                                                *)

\* VNPay and VietQR take a SUCCESS back only by a callback that had read the row
\* before it became SUCCESS.
THEOREM OnlyOverlapsRegress == Spec => RegressionNeedsOverlap
<1> DEFINE Regression ==
        \A p \in Payment :
          /\ row[p].method \in {"VNPAY", "VIETQR"}
          /\ row[p].status = "SUCCESS"
          /\ row'[p].status # "SUCCESS"
          => \E h \in Handler :
                /\ WorkingOn(h, "update", p)
                /\ call[h].seen.status # "SUCCESS"
<1>1. TypeOK /\ CallsMatchRows /\ SettleInv /\ [Next]_vars => [Regression]_vars
  <2> SUFFICES ASSUME TypeOK, CallsMatchRows, SettleInv, [Next]_vars,
                      NEW p \in Payment,
                      row[p].method \in {"VNPAY", "VIETQR"},
                      row[p].status = "SUCCESS", row'[p].status # "SUCCESS"
               PROVE  \E h \in Handler : /\ WorkingOn(h, "update", p)
                                         /\ call[h].seen.status # "SUCCESS"
    OBVIOUS
  <2>1. PICK h \in Handler : MomoUpdate(h) \/ UpdateStatusByPaymentId(h)
    <3>1. row' # row
      OBVIOUS
    <3>2. \A h \in Handler : Find(h) => row' = row
      BY FindCases DEF Reply, Settle
    <3> QED
      BY <3>1, <3>2 DEF Next, Step, GatewayReports, Deliver, Redeliver, StartCall,
         PublishPaymentStatusEvent, LoseConfirm, Respond, Throw, Crash, vars
  <2>2. PICK q : q = call[h].msg.ref
    OBVIOUS
  <2>3. /\ call[h].pc = "update" /\ call[h] \in Working
        /\ \A r \in Payment : r # q => row'[r] = row[r]
    BY <2>1, <2>2, UpdateEffect
  <2>4. q = p
    BY <2>3
  <2>5. call[h].msg.channel \in CheckedChannel
    BY <2>2, <2>3, <2>4 DEF CallsMatchRows, ChannelsOf, CheckedChannel
  <2> QED
    BY <2>2, <2>3, <2>4, <2>5
       DEF WorkingOn, SettleInv, CallbacksKnow, CallKnows, WorkingKnows
<1>2. MomoInv => CallsMatchRows
  BY DEF MomoInv
<1>3. Spec => [][Regression]_vars
  BY <1>1, <1>2, TypeCorrect, MomoInvariant, SettleInvariant, PTL DEF Spec
<1> QED
  BY <1>3 DEF RegressionNeedsOverlap

\* As long as no call failed, the status of every settled payment is announced or
\* about to be.
THEOREM SettledAnnounced == Spec => []SettledIsAnnounced
<1>1. Init => SettledIsAnnounced
  BY DEF Init, SettledIsAnnounced
<1>2. TypeOK /\ SettledIsAnnounced /\ [Next]_vars => SettledIsAnnounced'
  <2> SUFFICES ASSUME TypeOK, SettledIsAnnounced, [Next]_vars
               PROVE  SettledIsAnnounced'
    OBVIOUS
  <2>1. Kept
    BY KeptStep
  <2>2. ASSUME UNCHANGED <<row, faults>>,
               \A h \in Handler : call[h].pc = "publish" => call'[h] = call[h]
        PROVE  SettledIsAnnounced'
    BY <2>1, <2>2 DEF SettledIsAnnounced, WorkingOn, Kept
  <2>3. ASSUME NEW h \in Handler, MomoUpdate(h) \/ UpdateStatusByPaymentId(h)
        PROVE  SettledIsAnnounced'
    <3> PICK q : q = call[h].msg.ref
      OBVIOUS
    <3>1. /\ call[h].pc = "update" /\ q \in Payment /\ UNCHANGED faults
          /\ \A g \in Handler \ {h} : call'[g] = call[g]
          /\ \A p \in Payment : p # q => row'[p] = row[p]
          /\ call'[h].msg = call[h].msg
          /\ \/ /\ row'[q].status = call[h].status
                /\ call'[h].pc = "publish" /\ call'[h].status = call[h].status
             \/ row' = row
      BY <2>3, UpdateEffect
    <3>2. ASSUME NEW p \in Payment, row'[p] = row[p], row[p].status # "PENDING", faults = 0
          PROVE  \/ \E e \in EventSet(p)' : e.status = row'[p].status
                 \/ \E g \in Handler : /\ WorkingOn(g, "publish", p)'
                                       /\ call'[g].status = row'[p].status
      BY <2>1, <3>1, <3>2 DEF SettledIsAnnounced, WorkingOn, Kept
    <3>3. CASE /\ row'[q].status = call[h].status
               /\ call'[h].pc = "publish" /\ call'[h].status = call[h].status
      <4>1. WorkingOn(h, "publish", q)' /\ call'[h].status = row'[q].status
        BY <3>1, <3>3 DEF WorkingOn
      <4> QED
        BY <3>1, <3>2, <4>1 DEF SettledIsAnnounced
    <3> QED
      BY <3>1, <3>2, <3>3 DEF SettledIsAnnounced
  <2>4. ASSUME NEW h \in Handler, PublishPaymentStatusEvent(h)
        PROVE  SettledIsAnnounced'
    <3> PICK q : q = call[h].msg.ref
      OBVIOUS
    <3>1. /\ q \in Payment /\ UNCHANGED <<row, faults>>
          /\ \A g \in Handler \ {h} : call'[g] = call[g]
          /\ \E e \in EventSet(q)' : e.status = call[h].status
      <4>1. UNCHANGED faults /\ \A g \in Handler \ {h} : call'[g] = call[g]
        BY <2>4 DEF PublishPaymentStatusEvent, TypeOK
      <4>2. /\ q \in Payment /\ UNCHANGED row
            /\ \E e : e.status = call[h].status /\ EventSet(q)' = EventSet(q) \cup {e}
        BY <2>4, EmitEffect
      <4> QED
        BY <4>1, <4>2
    <3> SUFFICES ASSUME NEW p \in Payment, row[p].status # "PENDING", faults = 0
                 PROVE  \/ \E e \in EventSet(p)' : e.status = row[p].status
                        \/ \E g \in Handler : /\ WorkingOn(g, "publish", p)'
                                              /\ call'[g].status = row[p].status
      BY <3>1 DEF SettledIsAnnounced
    <3>2. CASE \E e \in EventSet(p) : e.status = row[p].status
      BY <2>1, <3>2 DEF Kept
    <3>3. ASSUME NEW g \in Handler, WorkingOn(g, "publish", p), call[g].status = row[p].status
          PROVE  \/ \E e \in EventSet(p)' : e.status = row[p].status
                 \/ WorkingOn(g, "publish", p)' /\ call'[g].status = row[p].status
      BY <3>1, <3>3 DEF WorkingOn
    <3> QED
      BY <3>2, <3>3 DEF SettledIsAnnounced
  <2>5. ASSUME NEW h \in Handler, Find(h) PROVE SettledIsAnnounced'
    BY <2>2, <2>5, FindCases DEF Reply, Settle, TypeOK
  <2>6. CASE \/ \E r \in Ref, method \in Method, o \in Outcomes : GatewayReports(r, method, o)
             \/ \E h \in Handler : \/ \E m \in sent : Deliver(h, m) \/ Redeliver(h, m)
                                   \/ Respond(h)
             \/ UNCHANGED vars
    <3>1. ASSUME NEW h \in Handler, NEW m \in sent, Deliver(h, m) \/ Redeliver(h, m)
          PROVE  SettledIsAnnounced'
      <4>1. /\ UNCHANGED <<row, faults>> /\ call[h].pc = "idle"
            /\ \A g \in Handler \ {h} : call'[g] = call[g]
        BY <3>1 DEF Deliver, Redeliver, StartCall, TypeOK, NoCall
      <4> QED
        BY <2>2, <4>1
    <3>2. ASSUME NEW h \in Handler, Respond(h) PROVE SettledIsAnnounced'
      BY <2>2, <3>2 DEF Respond, TypeOK
    <3>3. CASE \/ \E r \in Ref, method \in Method, o \in Outcomes :
                     GatewayReports(r, method, o)
               \/ UNCHANGED vars
      BY <2>2, <3>3 DEF GatewayReports, vars
    <3> QED
      BY <2>6, <3>1, <3>2, <3>3
  <2>7. CASE (\E h \in Handler : Throw(h) \/ LoseConfirm(h)) \/ Crash
    BY <2>7 DEF Throw, LoseConfirm, Crash, TypeOK, SettledIsAnnounced
  <2> QED
    BY <2>3, <2>4, <2>5, <2>6, <2>7 DEF Next, Step
<1> QED
  BY <1>1, <1>2, TypeCorrect, PTL DEF Spec

-----------------------------------------------------------------------------
(* When the gateways report one outcome (MaxReports = 1), on any channel,   *)
(* any number of times, in any order and with any failures: then row,       *)
(* events and pages never disagree.                                         *)

\* All notifications say the same.
OneReport == IsFiniteSet(Reports) /\ Cardinality(Reports) <= 1

ByIdChannel == Channel \ {"momo/return", "momo/ipn"}

IsSaid(status) == \E m \in sent : status = Verdict(m)

\* What an answer on VNPay's return page says, besides that the payment is settled.
PageHolds(a) ==
    a.msg.channel = "vnpay/return" /\ a.answer \in {"ok", "already"}
        => /\ a.msg.outcome.ok /\ a.msg \in sent
           /\ a.msg.ref \in Payment /\ ~IsMomo(a.msg.ref)

\* Payments that are updated by id hold, and were announced with, what was said.
RowsFollow ==
    \A p \in Payment : ~IsMomo(p) /\ row[p].status # "PENDING" => IsSaid(row[p].status)

EventsFollow ==
    \A p \in Payment : \A e \in EventSet(p) :
        ~IsMomo(p) => IsSaid(e.status) /\ row[p].status # "PENDING"

CallFollows(h) ==
    /\ call[h].pc \in {"update", "publish"} /\ call[h].msg.channel \in ByIdChannel
          => call[h].status = Verdict(call[h].msg)
    /\ call[h].pc = "respond" => PageHolds(call[h])

CallsFollow == \A h \in Handler : CallFollows(h)
PagesHold == \A a \in answers : PageHolds(a)

\* The inductive invariant.
FollowInv == OneReport /\ RowsFollow /\ EventsFollow /\ CallsFollow /\ PagesHold

-----------------------------------------------------------------------------
(* One report.                                                             *)

\* With one report at most, any two notifications carry the same outcome.
LEMMA OneReportSame ==
    ASSUME OneReport, NEW m \in sent, NEW n \in sent
    PROVE  m.outcome = n.outcome
<1>1. /\ <<m.ref, m.outcome>> \in Reports
      /\ <<n.ref, n.outcome>> \in Reports
  BY DEF Reports
<1>2. Cardinality(Reports) \in Nat
  BY FS_CardinalityType DEF OneReport
<1>3. Cardinality(Reports) = 1
  BY <1>1, <1>2, FS_EmptySet DEF OneReport
<1>4. \E x : Reports = {x}
  BY <1>3, FS_Singleton DEF OneReport
<1> QED
  BY <1>1, <1>4

\* So what was said of a status is what any notification says.
LEMMA SaidSame ==
    ASSUME OneReport, NEW s, NEW t, IsSaid(s), IsSaid(t) PROVE s = t
BY OneReportSame DEF IsSaid, Verdict

\* The bound on reports keeps it so.
LEMMA OneReportStep ==
    ASSUME MaxReports = 1, OneReport, [Next]_vars PROVE OneReport'
<1>1. ASSUME NEW r \in Ref, NEW method \in Method, NEW o \in Outcomes,
             GatewayReports(r, method, o)
      PROVE  OneReport'
  <2>1. Reports' = Reports \cup {<<r, o>>}
    <3> DEFINE new == {[channel |-> ch, ref |-> r, outcome |-> o] : ch \in ChannelsOf(method)}
    <3>1. sent' = sent \cup new
      BY <1>1 DEF GatewayReports
    <3>2. \A m \in new : m.ref = r /\ m.outcome = o
      OBVIOUS
    <3>3. \E m : m \in new
      <4>1. \E ch : ch \in ChannelsOf(method)
        BY DEF ChannelsOf, Method
      <4> QED
        BY <4>1
    <3> HIDE DEF new
    <3>4. \A m \in new : <<m.ref, m.outcome>> = <<r, o>>
      BY <3>2
    <3>5. {<<m.ref, m.outcome>> : m \in sent \cup new}
             = {<<m.ref, m.outcome>> : m \in sent} \cup {<<r, o>>}
      BY <3>3, <3>4
    <3> QED
      BY <3>1, <3>5 DEF Reports
  <2>2. IsFiniteSet(Reports \cup {<<r, o>>})
    BY FS_AddElement DEF OneReport
  <2> QED
    BY <1>1, <2>1, <2>2 DEF GatewayReports, OneReport
<1>2. ASSUME UNCHANGED sent PROVE OneReport'
  BY <1>2 DEF OneReport, Reports
<1>3. ASSUME NEW h \in Handler, Find(h) PROVE UNCHANGED sent
  BY <1>3, FindCases DEF Reply, Settle
<1> QED
  BY <1>1, <1>2, <1>3 DEF Next, Step, Deliver, Redeliver, StartCall, MomoUpdate,
     UpdateStatusByPaymentId, PublishPaymentStatusEvent, LoseConfirm, Respond, Throw,
     Crash, vars

-----------------------------------------------------------------------------
(* The inductive invariant.                                                *)

\* A payment keeps its method.
LEMMA MethodStays ==
    ASSUME TypeOK, [Next]_vars PROVE \A p \in Payment : row'[p].method = row[p].method
<1>1. ASSUME NEW h \in Handler, MomoUpdate(h) \/ UpdateStatusByPaymentId(h)
      PROVE  \A p \in Payment : row'[p].method = row[p].method
  <2> PICK q : q = call[h].msg.ref
    OBVIOUS
  <2> QED
    BY <1>1, UpdateEffect
<1>2. ASSUME NEW h \in Handler, Find(h) PROVE row' = row
  BY <1>2, FindCases DEF Reply, Settle
<1> QED
  BY <1>1, <1>2 DEF Next, Step, GatewayReports, Deliver, Redeliver, StartCall,
     PublishPaymentStatusEvent, LoseConfirm, Respond, Throw, Crash, vars

\* What a callback that updates by id decides, and when VNPay's page says that the
\* payment is already settled.
LEMMA FindFollows ==
    ASSUME NEW h, Find(h), NEW m, m = call[h].msg
    PROVE  \/ Reply(h, "refused")
           \/ /\ Reply(h, "already") /\ Found(m)
              /\ m.channel = "vnpay/return" => row[m.ref].status = "SUCCESS"
           \/ \E status : /\ Settle(h, status)
                          /\ m.channel \in ByIdChannel => status = Verdict(m)
<1>1. CASE MomoReturn(h)
  BY <1>1 DEF MomoReturn
<1>2. CASE MomoIpn(h)
  BY <1>2 DEF MomoIpn, At, ByIdChannel
<1>3. CASE VNPayReturn(h)
  BY <1>3 DEF VNPayReturn
<1>4. CASE VNPayIpn(h) \/ VietqrWebhook(h) \/ PayosWebhook(h)
  BY <1>4 DEF VNPayIpn, VietqrWebhook, PayosWebhook, CheckThenSettle, At
<1> QED
  BY <1>1, <1>2, <1>3, <1>4 DEF Find

\* What a step must show: what it does to the acting callback, to an answer it
\* gives, to one row and to one log.
LEMMA FollowKeeps ==
    ASSUME TypeOK, FollowInv, Kept, OneReport',
           \A p \in Payment : row'[p].method = row[p].method,
           \A h \in Handler : call'[h] = call[h] \/ CallFollows(h)',
           \A a \in answers' : a \in answers \/ PageHolds(a)',
           \A p \in Payment :
              \/ row'[p] = row[p]
              \/ IsMomo(p)
              \/ IsSaid(row'[p].status),
           \A p \in Payment : \A e \in EventSet(p)' :
              \/ e \in EventSet(p)
              \/ IsMomo(p)
              \/ IsSaid(e.status) /\ row[p].status # "PENDING"
    PROVE  FollowInv'
<1>1. /\ \A s : IsSaid(s) => IsSaid(s)'
      /\ \A p \in Payment : IsMomo(p)' <=> IsMomo(p)
  BY DEF IsSaid, Verdict, Kept, IsMomo
<1>2. ASSUME NEW a, PageHolds(a) PROVE PageHolds(a)'
  BY <1>1, <1>2 DEF PageHolds, Kept
<1>3. ASSUME NEW h \in Handler, call'[h] = call[h] PROVE CallFollows(h)'
  <2> PICK c : c = call[h]
    OBVIOUS
  <2>1. c.pc = "respond" => PageHolds(c)
    BY DEF FollowInv, CallsFollow, CallFollows
  <2>2. c.pc = "respond" => PageHolds(c)'
    BY <1>2, <2>1
  <2>3. c.pc = "respond" => PageHolds(call[h])'
    BY <1>3, <2>2 DEF PageHolds
  <2> QED
    BY <1>3, <2>3 DEF FollowInv, CallsFollow, CallFollows, Verdict
<1>4. CallsFollow' /\ PagesHold'
  BY <1>2, <1>3 DEF FollowInv, CallsFollow, PagesHold
<1>5. RowsFollow'
  <2> SUFFICES ASSUME NEW p \in Payment, ~IsMomo(p), row'[p].status # "PENDING"
               PROVE  \E m \in sent' : row'[p].status = Verdict(m)
    BY <1>1 DEF RowsFollow, IsSaid, Verdict
  <2>1. IsSaid(row'[p].status) => \E m \in sent' : row'[p].status = Verdict(m)
    BY DEF IsSaid, Kept
  <2> QED
    BY <2>1 DEF FollowInv, RowsFollow
<1>6. EventsFollow'
  BY <1>1 DEF FollowInv, EventsFollow, Kept
<1> QED
  BY <1>4, <1>5, <1>6 DEF FollowInv

\* Nothing is said, and nothing has happened.
LEMMA FollowInvInit == Init => FollowInv
<1> SUFFICES ASSUME Init PROVE FollowInv
  OBVIOUS
<1>1. Reports = {} /\ \A h \in Handler : call[h].pc = "idle"
  BY DEF Init, NoCall, Reports
<1>2. \A p \in Payment : row[p].status = "PENDING" /\ EventSet(p) = {}
  BY DEF Init, EventSet
<1>3. OneReport
  BY <1>1, FS_EmptySet DEF OneReport
<1> QED
  BY <1>1, <1>2, <1>3
     DEF FollowInv, RowsFollow, EventsFollow, CallsFollow, CallFollows, PagesHold, Init

\* The first step of a callback.
LEMMA FollowFindStep ==
    ASSUME TypeOK, SettleInv, FollowInv, Kept, OneReport', NEW h \in Handler, Find(h)
    PROVE  FollowInv'
<1> PICK m : m = call[h].msg
  OBVIOUS
<1>1. m \in sent
  BY FindCases DEF SettleInv, CallbacksKnow, CallKnows
<1>2. ASSUME NEW answer, Reply(h, answer), answer # "ok",
             answer = "already" => /\ Found(m)
                                   /\ m.channel = "vnpay/return" => row[m.ref].status = "SUCCESS"
      PROVE  FollowInv'
  <2>1. /\ UNCHANGED <<row, events, sent, answers>>
        /\ call'[h] = [pc |-> "respond", msg |-> m, answer |-> answer]
        /\ \A g \in Handler \ {h} : call'[g] = call[g]
    BY <1>2 DEF Reply, TypeOK
  <2>2. ASSUME answer = "already", m.channel = "vnpay/return"
        PROVE  m.outcome.ok /\ m.ref \in Payment /\ ~IsMomo(m.ref)
    <3>1. m.ref \in Payment /\ ~IsMomo(m.ref) /\ row[m.ref].status = "SUCCESS"
      BY <1>2, <2>2 DEF Found, ChannelsOf, IsMomo
    <3>2. IsSaid("SUCCESS") /\ IsSaid(Verdict(m))
      BY <1>1, <3>1 DEF FollowInv, RowsFollow, IsSaid
    <3> QED
      BY <3>1, <3>2, SaidSame DEF FollowInv, Verdict
  <2>3. PageHolds(call[h])'
    BY <1>1, <1>2, <2>1, <2>2 DEF PageHolds, IsMomo
  <2>4. CallFollows(h)'
    BY <2>1, <2>3 DEF CallFollows
  <2> QED
    BY <2>1, <2>4, FollowKeeps DEF EventSet
<1>3. ASSUME NEW status, Settle(h, status), m.channel \in ByIdChannel => status = Verdict(m)
      PROVE  FollowInv'
  <2>1. /\ UNCHANGED <<row, events, sent, answers>>
        /\ call'[h] = [pc |-> "update", msg |-> m, seen |-> row[m.ref], status |-> status]
        /\ \A g \in Handler \ {h} : call'[g] = call[g]
    BY <1>3 DEF Settle, TypeOK
  <2>2. CallFollows(h)'
    BY <1>3, <2>1 DEF CallFollows, Verdict
  <2> QED
    BY <2>1, <2>2, FollowKeeps DEF EventSet
<1> QED
  BY <1>2, <1>3, FindFollows

\* An update by id, and a publish after it, say what the notification said.
LEMMA WorkingSays ==
    ASSUME TypeOK, CallsMatchRows, SettleInv, FollowInv, NEW h \in Handler,
           call[h].pc \in {"update", "publish"}, NEW p, p = call[h].msg.ref
    PROVE  /\ p \in Payment
           /\ IsMomo(p) \/ (/\ call[h].msg.channel \in ByIdChannel
                            /\ call[h].status = Verdict(call[h].msg)
                            /\ IsSaid(call[h].status))
           /\ call[h].msg.channel \in {"momo/return", "momo/ipn"} => IsMomo(p)
<1>1. /\ p \in Payment /\ row[p].method \in Method
      /\ call[h].msg.channel \in ChannelsOf(row[p].method)
  BY CallKinds DEF CallsMatchRows, Working, TypeOK, Row
<1>2. IsMomo(p) \/ call[h].msg.channel \in ByIdChannel
  BY <1>1 DEF ChannelsOf, Method, ByIdChannel, Channel, IsMomo
<1>3. call[h].msg \in sent
  BY DEF SettleInv, CallbacksKnow, CallKnows
<1>4. call[h].msg.channel \in {"momo/return", "momo/ipn"} => IsMomo(p)
  BY <1>1 DEF ChannelsOf, Method, IsMomo
<1> QED
  BY <1>1, <1>2, <1>3, <1>4 DEF FollowInv, CallsFollow, CallFollows, IsSaid

\* An update writes what was said, or touches a MoMo payment.
LEMMA FollowUpdateStep ==
    ASSUME TypeOK, CallsMatchRows, SettleInv, FollowInv, Kept, OneReport',
           \A p \in Payment : row'[p].method = row[p].method,
           NEW h \in Handler, MomoUpdate(h) \/ UpdateStatusByPaymentId(h)
    PROVE  FollowInv'
<1> PICK p : p = call[h].msg.ref
  OBVIOUS
<1>1. /\ call[h].pc = "update" /\ UNCHANGED <<events, answers>>
      /\ \A g \in Handler \ {h} : call'[g] = call[g]
      /\ \A q \in Payment : q # p => row'[q] = row[q]
      /\ call'[h].msg = call[h].msg
      /\ \/ /\ row'[p].status = call[h].status
            /\ call'[h].pc = "publish" /\ call'[h].status = call[h].status
         \/ /\ row' = row
            /\ call[h].msg.channel \in {"momo/return", "momo/ipn"}
            /\ call'[h].pc = "respond"
  BY UpdateEffect
<1>2. /\ p \in Payment
      /\ IsMomo(p) \/ IsSaid(call[h].status)
  BY <1>1, WorkingSays
<1>3. CallFollows(h)'
  BY <1>1 DEF CallFollows, PageHolds, FollowInv, CallsFollow, Verdict
<1> QED
  BY <1>1, <1>2, <1>3, FollowKeeps DEF EventSet

\* A message announces what was said, or is about a MoMo payment.
LEMMA FollowEmitStep ==
    ASSUME TypeOK, CallsMatchRows, SettleInv, FollowInv, Kept, OneReport',
           NEW h \in Handler, PublishPaymentStatusEvent(h) \/ LoseConfirm(h)
    PROVE  FollowInv'
<1> PICK p : p = call[h].msg.ref
  OBVIOUS
<1> PICK m : m = call[h].msg
  OBVIOUS
<1>1. /\ call[h].pc = "publish" /\ UNCHANGED <<row, sent, answers>>
      /\ \A g \in Handler \ {h} : call'[g] = call[g]
      /\ \/ call'[h] = [pc |-> "respond", msg |-> m, answer |-> FinalAnswer(m)]
         \/ call'[h] = call[h]
      /\ \A q \in Payment : q # p => EventSet(q)' = EventSet(q)
      /\ \E e : e.status = call[h].status /\ EventSet(p)' = EventSet(p) \cup {e}
  BY EmitEffect
<1>2. /\ p \in Payment
      /\ IsMomo(p) \/ IsSaid(call[h].status)
  BY <1>1, WorkingSays
<1>3. m \in sent /\ row[p].status # "PENDING"
  BY <1>1 DEF SettleInv, CallbacksKnow, CallKnows, WorkingKnows, IsSettled
<1>4. m.channel = "vnpay/return" => ~IsMomo(p)
  <2>1. m.channel \in ChannelsOf(row[p].method)
    BY <1>1 DEF CallsMatchRows
  <2> QED
    BY <2>1 DEF ChannelsOf, IsMomo
<1>5. call'[h] = call[h] \/ CallFollows(h)'
  <2>1. CASE call'[h] = [pc |-> "respond", msg |-> m, answer |-> FinalAnswer(m)]
    <3>1. PageHolds(call[h])'
      BY <1>1, <1>2, <1>3, <1>4, <2>1 DEF PageHolds, IsMomo, FinalAnswer, ReturnChannel
    <3> QED
      BY <2>1, <3>1 DEF CallFollows
  <2> QED
    BY <1>1, <2>1
<1> QED
  BY <1>1, <1>2, <1>3, <1>5, FollowKeeps

\* Every step keeps the invariant.
LEMMA FollowInvStep ==
    ASSUME MaxReports = 1
    PROVE  TypeOK /\ CallsMatchRows /\ SettleInv /\ FollowInv /\ [Next]_vars => FollowInv'
<1> SUFFICES ASSUME TypeOK, CallsMatchRows, SettleInv, FollowInv, [Next]_vars
             PROVE  FollowInv'
  OBVIOUS
<1>1. /\ Kept /\ OneReport'
      /\ \A p \in Payment : row'[p].method = row[p].method
  BY KeptStep, MethodStays, OneReportStep DEF FollowInv
<1>2. ASSUME UNCHANGED <<row, events>>,
             \A h \in Handler : call'[h] = call[h] \/ call'[h].pc \in {"idle", "find"},
             \A a \in answers' : a \in answers \/ PageHolds(a)'
      PROVE  FollowInv'
  <2>1. \A h \in Handler : call'[h].pc \in {"idle", "find"} => CallFollows(h)'
    BY DEF CallFollows
  <2> QED
    BY <1>1, <1>2, <2>1, FollowKeeps DEF EventSet
<1>3. ASSUME NEW h \in Handler, Respond(h) PROVE FollowInv'
  <2> PICK a : a = [msg |-> call[h].msg, answer |-> call[h].answer]
    OBVIOUS
  <2>1. /\ UNCHANGED <<row, events, sent>>
        /\ answers' = answers \cup {a}
        /\ \A g \in Handler : call'[g] = call[g] \/ call'[g].pc = "idle"
    BY <1>3 DEF Respond, TypeOK, NoCall
  <2>2. PageHolds(a)
    BY <1>3 DEF Respond, FollowInv, CallsFollow, CallFollows, PageHolds
  <2>3. PageHolds(a)'
    BY <2>1, <2>2 DEF PageHolds, IsMomo
  <2> QED
    BY <1>2, <2>1, <2>3
<1>4. ASSUME NEW h \in Handler, NEW m \in sent, Deliver(h, m) \/ Redeliver(h, m)
      PROVE  FollowInv'
  <2>1. /\ UNCHANGED <<row, events, answers>>
        /\ call'[h].pc = "find"
        /\ \A g \in Handler \ {h} : call'[g] = call[g]
    BY <1>4 DEF Deliver, Redeliver, StartCall, TypeOK
  <2> QED
    BY <1>2, <2>1
<1>5. ASSUME NEW h \in Handler, Throw(h) PROVE FollowInv'
  <2>1. /\ UNCHANGED <<row, events, answers>>
        /\ \A g \in Handler : call'[g] = call[g] \/ call'[g].pc = "idle"
    BY <1>5 DEF Throw, TypeOK, NoCall
  <2> QED
    BY <1>2, <2>1
<1>6. CASE Crash
  <2>1. /\ UNCHANGED <<row, events, answers>>
        /\ \A g \in Handler : call'[g].pc = "idle"
    BY <1>6 DEF Crash, NoCall
  <2> QED
    BY <1>2, <2>1
<1>7. CASE \/ \E r \in Ref, method \in Method, o \in Outcomes : GatewayReports(r, method, o)
           \/ UNCHANGED vars
  BY <1>2, <1>7 DEF GatewayReports, vars
<1> QED
  BY <1>1, <1>3, <1>4, <1>5, <1>6, <1>7, FollowFindStep, FollowUpdateStep, FollowEmitStep
     DEF Next, Step

\* When the gateways report one outcome, rows, events and pages follow it.
THEOREM FollowInvariant == ASSUME MaxReports = 1 PROVE Spec => []FollowInv
<1>1. MomoInv => CallsMatchRows
  BY DEF MomoInv
<1>2. TypeOK /\ CallsMatchRows /\ SettleInv /\ FollowInv /\ [Next]_vars => FollowInv'
  BY FollowInvStep
<1> QED
  BY <1>1, <1>2, FollowInvInit, TypeCorrect, MomoInvariant, SettleInvariant, PTL DEF Spec

-----------------------------------------------------------------------------
(* What follows of it.                                                     *)

\* Every event of a payment carries the status of its row.
THEOREM OneOutcomeEvents == ASSUME MaxReports = 1 PROVE Spec => []EventsAgreeWithRow
<1>1. MomoInv /\ FollowInv => EventsAgreeWithRow
  <2> SUFFICES ASSUME MomoInv, FollowInv, NEW p \in Payment, NEW e \in EventSet(p)
               PROVE  e.status = row[p].status
    BY DEF EventsAgreeWithRow
  <2>1. CASE IsMomo(p)
    BY <2>1 DEF MomoInv, MomoEventMatchesRow, Tells, ResultOf
  <2>2. CASE ~IsMomo(p)
    BY <2>2, SaidSame DEF FollowInv, RowsFollow, EventsFollow
  <2> QED
    BY <2>1, <2>2
<1> QED
  BY <1>1, FollowInvariant, MomoInvariant, PTL

\* Who is sent to VNPay's success page has a payment that is SUCCESS.
THEOREM OneOutcomePage == ASSUME MaxReports = 1 PROVE Spec => []VNPaySuccessPageIsTrue
<1>1. SettleInv /\ FollowInv => VNPaySuccessPageIsTrue
  <2> SUFFICES ASSUME SettleInv, FollowInv, NEW a \in answers,
                      a.msg.channel = "vnpay/return", a.answer \in {"ok", "already"}
               PROVE  row[a.msg.ref].status = "SUCCESS"
    BY DEF VNPaySuccessPageIsTrue
  <2>1. a.msg.ref \in Payment /\ row[a.msg.ref].status # "PENDING"
    BY DEF SettleInv, AnswersHold, AnswerHolds, IsSettled
  <2>2. a.msg.outcome.ok /\ a.msg \in sent /\ ~IsMomo(a.msg.ref)
    BY DEF FollowInv, PagesHold, PageHolds
  <2>3. IsSaid(row[a.msg.ref].status) /\ IsSaid("SUCCESS")
    BY <2>1, <2>2 DEF FollowInv, RowsFollow, IsSaid, Verdict
  <2> QED
    BY <2>3, SaidSame DEF FollowInv
<1> QED
  BY <1>1, FollowInvariant, SettleInvariant, PTL

\* A settled payment keeps its status.
THEOREM OneOutcomeFinal == ASSUME MaxReports = 1 PROVE Spec => SettledIsFinal
<1> DEFINE Final == \A p \in Payment :
                       row[p].status # "PENDING" => row'[p].status = row[p].status
<1>1. TypeOK /\ CallsMatchRows /\ SettleInv /\ FollowInv /\ [Next]_vars => [Final]_vars
  <2> SUFFICES ASSUME TypeOK, CallsMatchRows, SettleInv, FollowInv, [Next]_vars,
                      NEW p \in Payment, row[p].status # "PENDING"
               PROVE  row'[p].status = row[p].status
    OBVIOUS
  <2>1. CASE row' # row
    <3>1. PICK h \in Handler : MomoUpdate(h) \/ UpdateStatusByPaymentId(h)
      <4>1. \A h \in Handler : Find(h) => row' = row
        BY FindCases DEF Reply, Settle
      <4> QED
        BY <2>1, <4>1 DEF Next, Step, GatewayReports, Deliver, Redeliver, StartCall,
           PublishPaymentStatusEvent, LoseConfirm, Respond, Throw, Crash, vars
    <3>2. PICK q : q = call[h].msg.ref
      OBVIOUS
    <3>3. /\ call[h].pc = "update"
          /\ \A r \in Payment : r # q => row'[r] = row[r]
          /\ row'[q].status = call[h].status \/ row' = row
      BY <3>1, <3>2, UpdateEffect
    <3>4. CASE p # q
      BY <3>3, <3>4
    <3>5. CASE p = q /\ MomoUpdate(h)
      BY <2>1, <3>2, <3>5 DEF MomoUpdate, StillPending
    <3>6. CASE p = q /\ UpdateStatusByPaymentId(h)
      <4>1. ~IsMomo(p) /\ IsSaid(call[h].status)
        BY <3>2, <3>3, <3>6, UpdateIsNotMomo, WorkingSays
      <4>2. row[p].status = call[h].status
        BY <4>1, SaidSame DEF FollowInv, RowsFollow
      <4> QED
        BY <3>3, <3>6, <4>2
    <3> QED
      BY <3>1, <3>4, <3>5, <3>6
  <2> QED
    BY <2>1
<1>2. MomoInv => CallsMatchRows
  BY DEF MomoInv
<1>3. Spec => [][Final]_vars
  BY <1>1, <1>2, TypeCorrect, MomoInvariant, SettleInvariant, FollowInvariant, PTL DEF Spec
<1> QED
  BY <1>3 DEF SettledIsFinal
=============================================================================
