----------------------- MODULE BookingPaymentsProofs -----------------------
(***************************************************************************)
(* Proofs about BookingPayments, for any sets of bookings, references,     *)
(* handlers and requests and any number of faults: every variable keeps    *)
(* its type, and a request makes at most one payment.                      *)
(***************************************************************************)
EXTENDS BookingPayments, TLAPS

\* Nobody and the gateway are not among the requests.
LEMMA RequestsAreNotNobody ==
    /\ NoLink \notin Request
    /\ Gateway \notin Request
  <1>1. NoLink.source \notin Source
    BY DEF NoLink, Source
  <1>2. Gateway.source \notin Source
    BY DEF Gateway, Source
  <1>3. \A q \in Request : q.source \in Source
    BY BookingAssumption DEF RequestType
  <1> QED
    BY <1>1, <1>2, <1>3

\* What the record of a handler holds, by the step it takes next.
LEMMA HandlerKinds ==
  ASSUME NEW c \in Handling \cup {Idle}
  PROVE  /\ c.pc \in {"link", "lookup", "ack", "nack", "insert"} => c.request \in Request
         /\ c.pc = "insert" => c.ref \in Ref
         /\ c.pc \in {"update", "publish"} =>
               /\ c.request \in Request \cup {Gateway}
               /\ c.ref \in Ref
               /\ c.status \in {"SUCCESS", "FAILED"}
               /\ [c EXCEPT !.pc = "publish"] \in Handling
         /\ c.pc = "idle" => c = Idle
  <1>1. CASE c \in [pc: {"link", "lookup", "ack", "nack"}, request: Request]
    BY <1>1
  <1>2. CASE c \in [pc: {"insert"}, request: Request, ref: Ref]
    BY <1>2
  <1>3. CASE c \in [pc: {"update", "publish"}, request: Request \cup {Gateway},
                    ref: Ref, status: {"SUCCESS", "FAILED"}]
    <2>1. [c EXCEPT !.pc = "publish"]
            \in [pc: {"update", "publish"}, request: Request \cup {Gateway},
                 ref: Ref, status: {"SUCCESS", "FAILED"}]
      BY <1>3
    <2> QED
      BY <1>3, <2>1 DEF Handling
  <1>4. CASE c = Idle
    BY <1>4 DEF Idle
  <1> QED
    BY <1>1, <1>2, <1>3, <1>4 DEF Handling

-----------------------------------------------------------------------------
\* The type invariant: every variable keeps the shape its declaration says,
\* whatever step the service takes.
THEOREM TypeCorrect == Spec => []TypeOK
  <1>1. Init => TypeOK
    BY BookingAssumption DEF Init, TypeOK, Handling
  <1>2. TypeOK /\ [Next]_vars => TypeOK'
    <2> SUFFICES ASSUME TypeOK, [Next]_vars PROVE TypeOK'
      OBVIOUS
    <2> USE DEF TypeOK
    <2>1. ASSUME NEW q \in Request, BookingPublishes(q) PROVE TypeOK'
      BY <2>1 DEF BookingPublishes
    <2>2. ASSUME NEW h \in Handler, Deliver(h) PROVE TypeOK'
      <3>1. Head(queue) \in Request /\ Tail(queue) \in Seq(Request)
        BY <2>2 DEF Deliver
      <3>2. Started(Head(queue)) \in Handling
        BY <3>1 DEF Started, Handling
      <3> QED
        BY <2>2, <3>1, <3>2 DEF Deliver
    <2>3. ASSUME NEW h \in Handler, NEW q \in Request, Post(h, q) PROVE TypeOK'
      <3>1. Started(q) \in Handling
        BY DEF Started, Handling
      <3> QED
        BY <2>3, <3>1 DEF Post
    <2>4. ASSUME NEW h \in Handler, NEW r \in Ref, CreateLink(h, r) PROVE TypeOK'
      <3>1. call[h].request \in Request
        BY <2>4, HandlerKinds DEF CreateLink
      <3>2. [pc |-> "insert", request |-> call[h].request, ref |-> r] \in Handling
        BY <3>1 DEF Handling
      <3> QED
        BY <2>4, <3>1, <3>2 DEF CreateLink
    <2>5. ASSUME NEW h \in Handler, InsertRow(h) PROVE TypeOK'
      <3>1. call[h].request \in Request /\ call[h].ref \in Ref
        BY <2>5, HandlerKinds DEF InsertRow
      <3>2. [pc |-> "ack", request |-> call[h].request] \in Handling
        BY <3>1 DEF Handling
      <3> QED
        BY <2>5, <3>1, <3>2 DEF InsertRow, Inserted, InitialStatus
    <2>6. ASSUME NEW h \in Handler, FindCanceled(h) PROVE TypeOK'
      <3>1. call[h].request \in Request
        BY <2>6, HandlerKinds DEF FindCanceled
      <3>2. [pc |-> "ack", request |-> call[h].request] \in Handling
        BY <3>1 DEF Handling
      <3>3. \A r \in Lookup(call[h].request.booking) :
              [pc |-> "update", request |-> call[h].request,
               ref |-> r, status |-> "FAILED"] \in Handling
        BY <3>1 DEF Handling, Lookup
      <3> QED
        BY <2>6, <3>2, <3>3 DEF FindCanceled
    <2>7. ASSUME NEW h \in Handler, NEW r \in Ref, NEW status \in {"SUCCESS", "FAILED"},
                 GatewayCallback(h, r, status)
          PROVE  TypeOK'
      <3>1. [pc |-> "update", request |-> Gateway, ref |-> r, status |-> status]
              \in Handling
        BY DEF Handling
      <3> QED
        BY <2>7, <3>1 DEF GatewayCallback
    <2>8. ASSUME NEW h \in Handler, UpdateStatusByPaymentId(h) PROVE TypeOK'
      <3>1. /\ call[h].ref \in Ref
            /\ call[h].status \in {"SUCCESS", "FAILED"}
            /\ [call[h] EXCEPT !.pc = "publish"] \in Handling
        BY <2>8, HandlerKinds DEF UpdateStatusByPaymentId
      <3> QED
        BY <2>8, <3>1 DEF UpdateStatusByPaymentId
    <2>9. ASSUME NEW h \in Handler, PublishPaymentStatusEvent(h) PROVE TypeOK'
      <3>1. /\ call[h].ref \in Ref
            /\ call[h].status \in {"SUCCESS", "FAILED"}
            /\ call[h].request \in Request \cup {Gateway}
        BY <2>9, HandlerKinds DEF PublishPaymentStatusEvent
      <3>2. call[h].request # Gateway
              => [pc |-> "ack", request |-> call[h].request] \in Handling
        BY <3>1 DEF Handling
      <3> QED
        BY <2>9, <3>1, <3>2 DEF PublishPaymentStatusEvent
    <2>10. ASSUME NEW h \in Handler, Ack(h) PROVE TypeOK'
      BY <2>10 DEF Ack
    <2>11. ASSUME NEW h \in Handler, Nack(h) PROVE TypeOK'
      BY <2>11 DEF Nack, AfterNack
    <2>12. ASSUME NEW h \in Handler, Throw(h) PROVE TypeOK'
      <3>1. call[h].request \in Request \cup {Gateway}
        BY <2>12, HandlerKinds DEF Throw
      <3>2. call[h].request # Gateway
              => [pc |-> "nack", request |-> call[h].request] \in Handling
        BY <3>1 DEF Handling
      <3> QED
        BY <2>12, <3>2 DEF Throw
    <2>13. CASE Crash
      BY <2>13 DEF Crash
    <2>14. CASE UNCHANGED vars
      BY <2>14 DEF vars
    <2> QED
      BY <2>1, <2>2, <2>3, <2>4, <2>5, <2>6, <2>7, <2>8, <2>9, <2>10, <2>11,
         <2>12, <2>13, <2>14 DEF Next, Step
  <1> QED
    BY <1>1, <1>2, PTL DEF Spec

-----------------------------------------------------------------------------
\* A step that moves no request, makes no link and no payment, and starts no
\* handler keeps the invariant of creation.
LEMMA CreationQuietStep ==
  ASSUME TypeOK, CreationInv,
         UNCHANGED <<queue, arrived, link>>,
         \A r \in Ref : Exists(r)' <=> Exists(r),
         \A h \in Handler :
            \/ call'[h] = call[h]
            \/ /\ call'[h].request \in {call[h].request, NoLink, Gateway}
               /\ call'[h].pc \notin {"link", "insert"}
               /\ call'[h].pc = "update" => row'[call'[h].ref] # Absent
  PROVE  CreationInv'
  <1>1. \A q \in Request : Waiting(q)' <=> Waiting(q)
    BY DEF Waiting
  <1>2. \A q \in Request, h \in Handler : call'[h].request = q => call[h].request = q
    BY RequestsAreNotNobody
  <1>3. \A q \in Request : Running(q)' => Running(q)
    BY <1>2 DEF Running
  <1>4. \A q \in Request : PaymentsOf(q)' = PaymentsOf(q)
    BY DEF PaymentsOf
  <1>5. RequestInOnePlace'
    BY <1>1, <1>2, <1>3 DEF CreationInv, RequestInOnePlace
  <1>6. NotYetCreated'
    BY <1>1, <1>4 DEF CreationInv, NotYetCreated
  <1>7. HandlersKnowTheirRow'
    <2> SUFFICES ASSUME NEW h \in Handler
                 PROVE  /\ call'[h].pc = "insert" => link'[call'[h].ref] = call'[h].request
                        /\ call'[h].pc = "update" => row'[call'[h].ref] # Absent
      BY DEF HandlersKnowTheirRow, Exists
    <2>1. CASE call'[h] = call[h]
      <3>1. call[h] \in Handling \cup {Idle}
        BY DEF TypeOK
      <3>2. call[h].pc = "update" => call[h].ref \in Ref
        BY <3>1, HandlerKinds
      <3> QED
        BY <2>1, <3>2 DEF CreationInv, HandlersKnowTheirRow, Exists
    <2>2. CASE call'[h] # call[h]
      BY <2>2 DEF Exists
    <2> QED
      BY <2>1, <2>2
  <1>8. PaymentsHaveLinks'
    BY DEF CreationInv, PaymentsHaveLinks
  <1>9. RequestCreatesAtMostOne'
    BY <1>4 DEF CreationInv, RequestCreatesAtMostOne
  <1> QED
    BY <1>5, <1>6, <1>7, <1>8, <1>9 DEF CreationInv

\* A request that enters a handler from where nobody had it, the queue or the
\* outside, keeps the invariant of creation.
LEMMA CreationStartStep ==
  ASSUME TypeOK, CreationInv,
         NEW h \in Handler, NEW q \in Request,
         call[h] = Idle, call' = [call EXCEPT ![h] = Started(q)],
         ~Running(q), PaymentsOf(q) = {},
         UNCHANGED <<link, row>>,
         q \in arrived', ~Waiting(q)', arrived \subseteq arrived',
         \A p \in Request : Waiting(p)' => Waiting(p),
         \A p \in Request : p \in arrived /\ p # q => p \in arrived',
         \A p \in Request : p \in arrived' => p \in arrived \/ p = q,
         \A p \in Request : \A i, j \in 1 .. Len(queue') :
            queue'[i] = p /\ queue'[j] = p => i = j
  PROVE  CreationInv'
  <1>1. \A g \in Handler : call'[g] = IF g = h THEN Started(q) ELSE call[g]
    BY DEF TypeOK
  <1>2. Started(q).request = q /\ Started(q).pc \in {"lookup", "link", "nack"}
    BY DEF Started
  <1>3. \A p \in Request : PaymentsOf(p)' = PaymentsOf(p)
    BY DEF PaymentsOf, Exists
  <1>4. RequestInOnePlace'
    BY <1>1, <1>2, RequestsAreNotNobody
       DEF CreationInv, RequestInOnePlace, Running, Idle
  <1>5. NotYetCreated'
    BY <1>1, <1>2, <1>3 DEF CreationInv, NotYetCreated
  <1>6. HandlersKnowTheirRow'
    BY <1>1, <1>2 DEF CreationInv, HandlersKnowTheirRow, Exists
  <1>7. PaymentsHaveLinks' /\ RequestCreatesAtMostOne'
    BY <1>3 DEF CreationInv, PaymentsHaveLinks, RequestCreatesAtMostOne, Exists
  <1> QED
    BY <1>4, <1>5, <1>6, <1>7 DEF CreationInv

-----------------------------------------------------------------------------
\* Init establishes the invariant of creation: nothing has arrived.
LEMMA CreationInvInit == Init => CreationInv
  <1> SUFFICES ASSUME Init PROVE CreationInv
    OBVIOUS
  <1>1. \A q \in Request : ~Waiting(q)
    BY DEF Init, Waiting
  <1>2. \A q \in Request : ~Running(q)
    BY RequestsAreNotNobody DEF Init, Running, Idle
  <1>3. RequestInOnePlace
    BY <1>1, <1>2 DEF Init, RequestInOnePlace, Running
  <1>4. NotYetCreated /\ PaymentsHaveLinks /\ RequestCreatesAtMostOne
    BY DEF Init, NotYetCreated, PaymentsHaveLinks, RequestCreatesAtMostOne,
           PaymentsOf, Exists
  <1>5. HandlersKnowTheirRow
    BY DEF Init, HandlersKnowTheirRow, Idle
  <1> QED
    BY <1>3, <1>4, <1>5 DEF CreationInv

\* A message that is published goes to the end of the queue and nowhere else.
LEMMA CreationPublishStep ==
  ASSUME TypeOK, CreationInv, NEW q \in Request, BookingPublishes(q)
  PROVE  CreationInv'
  <1>1. /\ Len(queue') = Len(queue) + 1
        /\ queue'[Len(queue) + 1] = q
        /\ \A i \in 1 .. Len(queue) : queue'[i] = queue[i]
        /\ Len(queue) \in Nat
    BY DEF BookingPublishes, TypeOK
  <1>2. q \notin arrived /\ ~Waiting(q) /\ ~Running(q) /\ PaymentsOf(q) = {}
    BY DEF BookingPublishes, CreationInv, RequestInOnePlace, NotYetCreated
  <1>3. \A p \in Request : Waiting(p)' => Waiting(p) \/ p = q
    BY <1>1 DEF Waiting
  <1>4. \A p \in Request : PaymentsOf(p)' = PaymentsOf(p)
    BY DEF BookingPublishes, PaymentsOf, Exists
  <1>5. \A p \in Request : Running(p)' <=> Running(p)
    BY DEF BookingPublishes, Running
  <1>6. ASSUME NEW p \in Request, NEW i \in 1 .. Len(queue'), NEW j \in 1 .. Len(queue'),
               queue'[i] = p, queue'[j] = p
        PROVE  i = j
    <2>1. CASE p = q
      BY <1>1, <1>2, <1>6, <2>1 DEF Waiting
    <2>2. CASE p # q
      <3>1. i \in 1 .. Len(queue) /\ j \in 1 .. Len(queue)
        BY <1>1, <1>6, <2>2
      <3> QED
        BY <1>1, <1>6, <3>1 DEF CreationInv, RequestInOnePlace
    <2> QED
      BY <2>1, <2>2
  <1>7. RequestInOnePlace'
    BY <1>2, <1>3, <1>5, <1>6 DEF BookingPublishes, CreationInv, RequestInOnePlace
  <1>8. NotYetCreated'
    BY <1>2, <1>3, <1>4 DEF BookingPublishes, CreationInv, NotYetCreated
  <1>9. HandlersKnowTheirRow' /\ PaymentsHaveLinks' /\ RequestCreatesAtMostOne'
    BY <1>4 DEF BookingPublishes, CreationInv, HandlersKnowTheirRow,
                PaymentsHaveLinks, RequestCreatesAtMostOne, Exists
  <1> QED
    BY <1>7, <1>8, <1>9 DEF CreationInv

\* A delivered message moves from the head of the queue to its handler.
LEMMA CreationDeliverStep ==
  ASSUME TypeOK, CreationInv, NEW h \in Handler, Deliver(h)
  PROVE  CreationInv'
  <1> DEFINE q == Head(queue)
  <1>1. /\ q \in Request
        /\ queue # << >>
        /\ q = queue[1]
        /\ Len(queue) \in Nat \ {0}
        /\ Len(queue') = Len(queue) - 1
        /\ \A i \in 1 .. Len(queue') : queue'[i] = queue[i + 1]
    BY DEF Deliver, TypeOK
  <1>2. PICK p \in Request : p = q
    BY <1>1
  <1>3. call[h] = Idle /\ call' = [call EXCEPT ![h] = Started(p)]
    BY <1>2 DEF Deliver
  <1>4. Waiting(p)
    BY <1>1, <1>2 DEF Waiting
  <1>5. ~Running(p) /\ PaymentsOf(p) = {} /\ p \in arrived
    BY <1>4 DEF CreationInv, RequestInOnePlace, NotYetCreated
  <1>6. \A i, j \in 1 .. Len(queue) : queue[i] = queue[j] => i = j
    <2>1. \A i \in 1 .. Len(queue) : queue[i] \in Request
      BY DEF TypeOK
    <2> QED
      BY <2>1 DEF CreationInv, RequestInOnePlace
  <1>7. \A i \in 1 .. Len(queue') : i + 1 \in 1 .. Len(queue) /\ i + 1 # 1
    BY <1>1
  <1>8. ~Waiting(p)'
    <2> SUFFICES ASSUME NEW i \in 1 .. Len(queue'), queue'[i] = p PROVE FALSE
      BY DEF Waiting
    <2>1. queue[i + 1] = queue[1]
      BY <1>1, <1>2
    <2>2. 1 \in 1 .. Len(queue)
      BY <1>1
    <2> QED
      BY <1>6, <1>7, <2>1, <2>2
  <1>9. \A r \in Request : Waiting(r)' => Waiting(r)
    BY <1>1, <1>7 DEF Waiting
  <1>10. \A r \in Request : \A i, j \in 1 .. Len(queue') :
            queue'[i] = r /\ queue'[j] = r => i = j
    BY <1>1, <1>6, <1>7
  <1>11. UNCHANGED <<arrived, link, row>>
    BY DEF Deliver
  <1> QED
    BY <1>3, <1>5, <1>8, <1>9, <1>10, <1>11, CreationStartStep

\* The link goes to the request whose handler asked for it; the reference had
\* none, so no payment had it.
LEMMA CreationLinkStep ==
  ASSUME TypeOK, CreationInv, NEW h \in Handler, NEW r \in Ref, CreateLink(h, r)
  PROVE  CreationInv'
  <1>1. PICK q \in Request : call[h].request = q
    BY HandlerKinds DEF CreateLink, TypeOK
  <1>2. \A g \in Handler :
          call'[g] = IF g = h THEN [pc |-> "insert", request |-> q, ref |-> r] ELSE call[g]
    BY <1>1 DEF CreateLink, TypeOK
  <1>3. \A s \in Ref : link'[s] = IF s = r THEN q ELSE link[s]
    BY <1>1 DEF CreateLink, TypeOK
  <1>4. ~Exists(r)
    BY RequestsAreNotNobody DEF CreateLink, CreationInv, PaymentsHaveLinks
  <1>5. \A p \in Request : PaymentsOf(p)' = PaymentsOf(p)
    BY <1>3, <1>4 DEF CreateLink, PaymentsOf, Exists
  <1>6. \A p \in Request : Waiting(p)' <=> Waiting(p)
    BY DEF CreateLink, Waiting
  <1>7. \A g \in Handler : call'[g].request = call[g].request
    BY <1>1, <1>2
  <1>8. RequestInOnePlace'
    BY <1>6, <1>7 DEF CreateLink, CreationInv, RequestInOnePlace, Running
  <1>9. NotYetCreated'
    BY <1>1, <1>2, <1>5, <1>6 DEF CreateLink, CreationInv, NotYetCreated
  <1>10. HandlersKnowTheirRow'
    <2> SUFFICES ASSUME NEW g \in Handler
                 PROVE  /\ call'[g].pc = "insert" => link'[call'[g].ref] = call'[g].request
                        /\ call'[g].pc = "update" => row'[call'[g].ref] # Absent
      BY DEF HandlersKnowTheirRow, Exists
    <2>1. CASE g = h
      BY <1>2, <1>3, <2>1
    <2>2. CASE g # h
      <3>1. call[g] \in Handling \cup {Idle} /\ call'[g] = call[g]
        BY <1>2, <2>2 DEF TypeOK
      <3>2. call[g].pc = "insert" =>
              call[g].ref \in Ref /\ call[g].request \in Request
        BY <3>1, HandlerKinds
      <3>3. call[g].pc = "insert" => call[g].ref # r
        BY <3>2, RequestsAreNotNobody DEF CreateLink, CreationInv, HandlersKnowTheirRow
      <3> QED
        BY <1>3, <3>1, <3>2, <3>3
           DEF CreateLink, CreationInv, HandlersKnowTheirRow, Exists
    <2> QED
      BY <2>1, <2>2
  <1>11. PaymentsHaveLinks'
    BY <1>3, <1>4 DEF CreateLink, CreationInv, PaymentsHaveLinks, Exists
  <1>12. RequestCreatesAtMostOne'
    BY <1>5 DEF CreationInv, RequestCreatesAtMostOne
  <1> QED
    BY <1>8, <1>9, <1>10, <1>11, <1>12 DEF CreationInv

\* The insert gives the request its first payment, and nobody else has the
\* request any more.
LEMMA CreationInsertStep ==
  ASSUME TypeOK, CreationInv, NEW h \in Handler, InsertRow(h)
  PROVE  CreationInv'
  <1>1. PICK q \in Request, r \in Ref : call[h].request = q /\ call[h].ref = r
    BY HandlerKinds DEF InsertRow, TypeOK
  <1>2. \A g \in Handler :
          call'[g] = IF g = h THEN [pc |-> "ack", request |-> q] ELSE call[g]
    BY <1>1 DEF InsertRow, TypeOK
  <1>3. \A s \in Ref : row'[s] = IF s = r THEN "PENDING" ELSE row[s]
    BY <1>1 DEF InsertRow, Inserted, InitialStatus, TypeOK
  <1>4. link[r] = q /\ PaymentsOf(q) = {}
    BY <1>1 DEF InsertRow, CreationInv, HandlersKnowTheirRow, NotYetCreated
  <1>5. \A s \in Ref : Exists(s)' <=> Exists(s) \/ s = r
    BY <1>3 DEF Exists, Absent
  <1>6. \A p \in Request : PaymentsOf(p)' = IF p = q THEN {r} ELSE PaymentsOf(p)
    BY <1>4, <1>5 DEF InsertRow, PaymentsOf
  <1>7. \A p \in Request : Waiting(p)' <=> Waiting(p)
    BY DEF InsertRow, Waiting
  <1>8. \A g \in Handler : call'[g].request = call[g].request
    BY <1>1, <1>2
  <1>9. RequestInOnePlace'
    BY <1>7, <1>8 DEF InsertRow, CreationInv, RequestInOnePlace, Running
  <1>10. \A g \in Handler : g # h => call[g].request # q
    BY <1>1 DEF CreationInv, RequestInOnePlace
  <1>11. q \in arrived /\ ~Waiting(q)
    BY <1>1 DEF CreationInv, RequestInOnePlace, Running
  <1>12. NotYetCreated'
    BY <1>2, <1>6, <1>7, <1>10, <1>11 DEF InsertRow, CreationInv, NotYetCreated
  <1>13. HandlersKnowTheirRow'
    <2> SUFFICES ASSUME NEW g \in Handler
                 PROVE  /\ call'[g].pc = "insert" => link'[call'[g].ref] = call'[g].request
                        /\ call'[g].pc = "update" => row'[call'[g].ref] # Absent
      BY DEF HandlersKnowTheirRow, Exists
    <2>1. call[g] \in Handling \cup {Idle}
      BY DEF TypeOK
    <2>2. call[g].pc = "update" => call[g].ref \in Ref
      BY <2>1, HandlerKinds
    <2> QED
      BY <1>2, <1>3, <2>2
         DEF InsertRow, CreationInv, HandlersKnowTheirRow, Exists, Absent
  <1>14. PaymentsHaveLinks'
    BY <1>4, <1>5 DEF InsertRow, CreationInv, PaymentsHaveLinks
  <1>15. RequestCreatesAtMostOne'
    BY <1>6 DEF CreationInv, RequestCreatesAtMostOne
  <1> QED
    BY <1>9, <1>12, <1>13, <1>14, <1>15 DEF CreationInv

\* Every step keeps the invariant of creation.
LEMMA CreationInvStep == TypeOK /\ CreationInv /\ [Next]_vars => CreationInv'
  <1> SUFFICES ASSUME TypeOK, CreationInv, [Next]_vars PROVE CreationInv'
    OBVIOUS
  <1>1. ASSUME NEW q \in Request, BookingPublishes(q) PROVE CreationInv'
    BY <1>1, CreationPublishStep
  <1>2. ASSUME NEW h \in Handler, Deliver(h) PROVE CreationInv'
    BY <1>2, CreationDeliverStep
  <1>3. ASSUME NEW h \in Handler, NEW q \in Request, Post(h, q) PROVE CreationInv'
    <2>1. ~Waiting(q) /\ ~Running(q) /\ PaymentsOf(q) = {}
      BY <1>3 DEF Post, CreationInv, RequestInOnePlace, NotYetCreated
    <2>2. \A p \in Request : Waiting(p)' <=> Waiting(p)
      BY <1>3 DEF Post, Waiting
    <2>3. \A p \in Request : \A i, j \in 1 .. Len(queue') :
            queue'[i] = p /\ queue'[j] = p => i = j
      BY <1>3 DEF Post, CreationInv, RequestInOnePlace
    <2> QED
      BY <1>3, <2>1, <2>2, <2>3, CreationStartStep DEF Post
  <1>4. ASSUME NEW h \in Handler, NEW r \in Ref, CreateLink(h, r) PROVE CreationInv'
    BY <1>4, CreationLinkStep
  <1>5. ASSUME NEW h \in Handler, InsertRow(h) PROVE CreationInv'
    BY <1>5, CreationInsertStep
  <1>6. ASSUME NEW h \in Handler, FindCanceled(h) PROVE CreationInv'
    BY <1>6, CreationQuietStep DEF FindCanceled, Lookup, Exists, TypeOK
  <1>7. ASSUME NEW h \in Handler, NEW r \in Ref, NEW status \in {"SUCCESS", "FAILED"},
               GatewayCallback(h, r, status)
        PROVE  CreationInv'
    BY <1>7, CreationQuietStep DEF GatewayCallback, Exists, TypeOK, Absent
  <1>8. ASSUME NEW h \in Handler, UpdateStatusByPaymentId(h) PROVE CreationInv'
    <2>1. /\ call[h].ref \in Ref
          /\ call[h].status \in {"SUCCESS", "FAILED"}
          /\ Exists(call[h].ref)
      BY <1>8, HandlerKinds
         DEF UpdateStatusByPaymentId, TypeOK, CreationInv, HandlersKnowTheirRow
    <2>2. \A r \in Ref : Exists(r)' <=> Exists(r)
      BY <1>8, <2>1 DEF UpdateStatusByPaymentId, Exists, TypeOK, Absent
    <2>3. \A g \in Handler :
            \/ call'[g] = call[g]
            \/ call'[g].request = call[g].request /\ call'[g].pc = "publish"
      BY <1>8 DEF UpdateStatusByPaymentId, TypeOK, Handling
    <2> QED
      BY <1>8, <2>2, <2>3, CreationQuietStep DEF UpdateStatusByPaymentId
  <1>9. ASSUME NEW h \in Handler, PublishPaymentStatusEvent(h) PROVE CreationInv'
    BY <1>9, CreationQuietStep DEF PublishPaymentStatusEvent, Exists, TypeOK, Idle
  <1>10. ASSUME NEW h \in Handler, Ack(h) PROVE CreationInv'
    BY <1>10, CreationQuietStep DEF Ack, Exists, TypeOK, Idle
  <1>11. ASSUME NEW h \in Handler, Nack(h) PROVE CreationInv'
    BY <1>11, CreationQuietStep DEF Nack, AfterNack, Exists, TypeOK, Idle
  <1>12. ASSUME NEW h \in Handler, Throw(h) PROVE CreationInv'
    BY <1>12, CreationQuietStep DEF Throw, Exists, TypeOK, Idle
  <1>13. CASE Crash
    BY <1>13, CreationQuietStep DEF Crash, Exists, TypeOK, Idle
  <1>14. CASE UNCHANGED vars
    BY <1>14, CreationQuietStep DEF vars, Exists
  <1> QED
    BY <1>1, <1>2, <1>3, <1>4, <1>5, <1>6, <1>7, <1>8, <1>9, <1>10, <1>11,
       <1>12, <1>13, <1>14 DEF Next, Step

-----------------------------------------------------------------------------
\* The invariant of creation holds for any number of requests, handlers,
\* references and faults: above all a message that failed, or whose handler
\* died, does not make a second payment.
THEOREM CreationInvariant == Spec => []CreationInv
  <1> QED
    BY CreationInvInit, CreationInvStep, TypeCorrect, PTL DEF Spec

\* Its conclusion: one message or POST makes at most one payment.
THEOREM CreationSafe == Spec => []RequestCreatesAtMostOne
  <1>1. CreationInv => RequestCreatesAtMostOne
    BY DEF CreationInv
  <1> QED
    BY <1>1, CreationInvariant, PTL

-----------------------------------------------------------------------------
(* As long as no call failed, no request and no link is lost.              *)

Creates(q) == q \in Request /\ ~Canceled(q) /\ Accepted(q)

\* A request that is handled is before its insert, or has its payment.
Progresses(h) ==
  Creates(call[h].request) =>
    call[h].pc \in {"link", "insert"} \/ PaymentsOf(call[h].request) # {}

\* The inductive invariant.
FlowInv ==
  /\ faults = 0 => \A h \in Handler : Progresses(h)
  /\ NothingIsDropped
  /\ LinksHaveRows

\* Nothing has arrived.
LEMMA FlowInvInit == Init => FlowInv
  BY RequestsAreNotNobody
     DEF Init, FlowInv, Progresses, Creates, NothingIsDropped, LinksHaveRows, Idle

\* What a step must show: that payments stay, that a handler it moves is before
\* its insert or has its payment, and where requests and links went.
LEMMA FlowStep ==
  ASSUME TypeOK, FlowInv, faults' = 0 => faults = 0, arrived' \subseteq Request,
         \A q \in Request : PaymentsOf(q) \subseteq PaymentsOf(q)',
         \A r \in Ref : Exists(r) => Exists(r)',
         \A g \in Handler : call'[g] = call[g] \/ Progresses(g)',
         \A q \in arrived' : Creates(q) =>
            \/ q \in arrived /\ ~Waiting(q) /\ ~Running(q)
            \/ Waiting(q)' \/ Running(q)' \/ PaymentsOf(q)' # {},
         \A r \in Ref : link'[r] # NoLink =>
            \/ \E g \in Handler : call'[g].pc = "insert" /\ call'[g].ref = r
            \/ Exists(r)'
            \/ /\ link[r] # NoLink
               /\ \A g \in Handler : call[g].pc = "insert" => call'[g] = call[g]
  PROVE  FlowInv'
  <1> SUFFICES ASSUME faults' = 0, faults = 0
               PROVE  /\ \A h \in Handler : Progresses(h)'
                      /\ NothingIsDropped'
                      /\ LinksHaveRows'
    BY DEF FlowInv, NothingIsDropped, LinksHaveRows
  <1>1. ASSUME NEW h \in Handler, call'[h] = call[h] PROVE Progresses(h)'
    BY <1>1 DEF FlowInv, Progresses, Creates
  <1>2. NothingIsDropped'
    <2> SUFFICES ASSUME NEW q \in arrived', ~Canceled(q), Accepted(q),
                        ~Waiting(q)', ~Running(q)'
                 PROVE  PaymentsOf(q)' # {}
      BY DEF NothingIsDropped
    <2> QED
      BY DEF FlowInv, NothingIsDropped, Creates
  <1>3. LinksHaveRows'
    BY DEF FlowInv, LinksHaveRows
  <1> QED
    BY <1>1, <1>2, <1>3

\* A handler past its insert, or not on the way to one, goes on with its request
\* or is done with it.
LEMMA FlowQuietStep ==
  ASSUME TypeOK, FlowInv, NEW h \in Handler,
         UNCHANGED <<queue, arrived, link, faults>>,
         \A r \in Ref : Exists(r)' <=> Exists(r),
         \A g \in Handler \ {h} : call'[g] = call[g],
         call[h].pc \notin {"link", "insert"},
         call'[h].request \in {call[h].request, NoLink, Gateway}
  PROVE  FlowInv'
  <1>1. \A q \in Request : PaymentsOf(q)' = PaymentsOf(q)
    BY DEF PaymentsOf
  <1>2. faults = 0 => Progresses(h)'
    BY <1>1, RequestsAreNotNobody DEF FlowInv, Progresses, Creates
  <1>3. \A q \in Request : Waiting(q)' <=> Waiting(q)
    BY DEF Waiting
  <1>4. ASSUME faults = 0, NEW q \in Request, Creates(q), Running(q), ~Running(q)'
        PROVE  PaymentsOf(q) # {}
    <2>1. call[h].request = q
      BY <1>4 DEF Running
    <2> QED
      BY <1>4, <2>1 DEF FlowInv, Progresses
  <1>5. CASE faults # 0
    BY <1>5 DEF FlowInv, NothingIsDropped, LinksHaveRows
  <1>6. CASE faults = 0
    <2>1. \A q \in arrived' : Creates(q) =>
            \/ q \in arrived /\ ~Waiting(q) /\ ~Running(q)
            \/ Waiting(q)' \/ Running(q)' \/ PaymentsOf(q)' # {}
      BY <1>1, <1>3, <1>4, <1>6 DEF Creates
    <2>2. \A r \in Ref : link'[r] # NoLink =>
            /\ link[r] # NoLink
            /\ \A g \in Handler : call[g].pc = "insert" => call'[g] = call[g]
      OBVIOUS
    <2>3. arrived' \subseteq Request
      BY DEF TypeOK
    <2> QED
      BY <1>1, <1>2, <1>6, <2>1, <2>2, <2>3, FlowStep
  <1> QED
    BY <1>5, <1>6

\* A request that is published, delivered or posted waits or is handled.
LEMMA FlowArriveStep ==
  ASSUME TypeOK, FlowInv, NEW q \in Request,
         (\E h \in Handler : (Deliver(h) /\ q = Head(queue)) \/ Post(h, q)) \/ BookingPublishes(q)
  PROVE  FlowInv'
  <1>1. UNCHANGED <<link, row, faults>>
    BY DEF Deliver, Post, BookingPublishes
  <1>2. \A p \in Request : PaymentsOf(p)' = PaymentsOf(p)
    BY <1>1 DEF PaymentsOf, Exists
  <1>3. arrived' \subseteq arrived \cup {q}
    BY DEF Deliver, Post, BookingPublishes
  <1>4. \A g \in Handler :
           \/ call'[g] = call[g]
           \/ call[g] = Idle /\ call'[g] = Started(q)
    BY DEF Deliver, Post, BookingPublishes, TypeOK
  <1>5. \A g \in Handler : call'[g] = Started(q) => Progresses(g)'
    BY DEF Progresses, Creates, Started
  <1>6. \A p \in Request : Running(p) => Running(p)'
    BY <1>4, RequestsAreNotNobody DEF Running, Idle
  <1>7. Waiting(q)' \/ Running(q)'
    <2>1. ASSUME NEW h \in Handler, call' = [call EXCEPT ![h] = Started(q)]
          PROVE  Running(q)'
      BY <2>1 DEF Running, Started, TypeOK
    <2>2. CASE BookingPublishes(q)
      <3>1. Len(queue') \in Nat /\ Len(queue') # 0 /\ queue'[Len(queue')] = q
        BY <2>2 DEF BookingPublishes, TypeOK
      <3> QED
        BY <3>1 DEF Waiting
    <2> QED
      BY <2>1, <2>2 DEF Deliver, Post
  <1>8. \A p \in Request : p # q /\ Waiting(p) => Waiting(p)'
    <2> SUFFICES ASSUME NEW p \in Request, p # q, NEW i \in 1 .. Len(queue), queue[i] = p
                 PROVE  \E j \in 1 .. Len(queue') : queue'[j] = p
      BY DEF Waiting
    <2>1. CASE BookingPublishes(q)
      <3>1. i \in 1 .. Len(queue') /\ queue'[i] = queue[i]
        BY <2>1 DEF BookingPublishes, TypeOK
      <3> QED
        BY <3>1
    <2>2. ASSUME NEW h \in Handler, Deliver(h), q = Head(queue)
          PROVE  \E j \in 1 .. Len(queue') : queue'[j] = p
      <3>1. /\ Len(queue') = Len(queue) - 1 /\ Len(queue) \in Nat
            /\ queue[1] = q
            /\ \A j \in 1 .. Len(queue') : queue'[j] = queue[j + 1]
        BY <2>2 DEF Deliver, TypeOK
      <3>2. i - 1 \in 1 .. Len(queue') /\ (i - 1) + 1 = i
        BY <3>1
      <3> QED
        BY <3>1, <3>2
    <2>3. ASSUME NEW h \in Handler, Post(h, q)
          PROVE  \E j \in 1 .. Len(queue') : queue'[j] = p
      BY <2>3 DEF Post
    <2> QED
      BY <2>1, <2>2, <2>3
  <1>9. \A p \in arrived' : Creates(p) =>
          \/ p \in arrived /\ ~Waiting(p) /\ ~Running(p)
          \/ Waiting(p)' \/ Running(p)'
    BY <1>3, <1>6, <1>7, <1>8 DEF Creates
  <1>10. \A g \in Handler : call[g].pc = "insert" => call'[g] = call[g]
    BY <1>4 DEF Idle
  <1>11. arrived' \subseteq Request
    BY <1>3 DEF TypeOK
  <1>12. \A g \in Handler : call'[g] = call[g] \/ Progresses(g)'
    BY <1>4, <1>5
  <1> QED
    BY <1>1, <1>2, <1>9, <1>10, <1>11, <1>12, FlowStep DEF Exists

\* The handler that asked for a link is about to insert its row.
LEMMA FlowLinkStep ==
  ASSUME TypeOK, CreationInv, FlowInv, NEW h \in Handler, NEW r \in Ref, CreateLink(h, r)
  PROVE  FlowInv'
  <1>1. /\ call'[h].pc = "insert" /\ call'[h].ref = r /\ call[h].pc = "link"
        /\ call'[h].request = call[h].request
        /\ \A g \in Handler \ {h} : call'[g] = call[g]
        /\ \A s \in Ref \ {r} : link'[s] = link[s]
        /\ UNCHANGED <<queue, arrived, row, faults>>
    BY DEF CreateLink, TypeOK
  <1>2. ~Exists(r)
    BY RequestsAreNotNobody DEF CreateLink, CreationInv, PaymentsHaveLinks
  <1>3. \A q \in Request : PaymentsOf(q) \subseteq PaymentsOf(q)'
    BY <1>1, <1>2 DEF PaymentsOf, Exists
  <1>4. \A q \in Request : (Waiting(q)' <=> Waiting(q)) /\ (Running(q)' <=> Running(q))
    BY <1>1 DEF Waiting, Running
  <1>5. Progresses(h)'
    BY <1>1 DEF Progresses
  <1>6. \A s \in Ref : link'[s] # NoLink =>
          \/ \E g \in Handler : call'[g].pc = "insert" /\ call'[g].ref = s
          \/ /\ link[s] # NoLink
             /\ \A g \in Handler : call[g].pc = "insert" => call'[g] = call[g]
    BY <1>1
  <1>7. arrived' \subseteq Request
    BY <1>1 DEF TypeOK
  <1>8. \A q \in arrived' : Creates(q) =>
          (q \in arrived /\ ~Waiting(q) /\ ~Running(q)) \/ Waiting(q)' \/ Running(q)'
    BY <1>1, <1>4 DEF Creates
  <1> QED
    BY <1>1, <1>3, <1>5, <1>6, <1>7, <1>8, FlowStep DEF Exists

\* The inserted row is the payment of the request and the row of the link.
LEMMA FlowInsertStep ==
  ASSUME TypeOK, CreationInv, FlowInv, NEW h \in Handler, InsertRow(h)
  PROVE  FlowInv'
  <1>1. PICK q \in Request, r \in Ref : call[h].request = q /\ call[h].ref = r
    BY HandlerKinds DEF InsertRow, TypeOK
  <1>2. /\ call'[h] = [pc |-> "ack", request |-> q]
        /\ \A g \in Handler \ {h} : call'[g] = call[g]
        /\ \A s \in Ref : row'[s] = IF s = r THEN "PENDING" ELSE row[s]
        /\ UNCHANGED <<queue, arrived, link, faults>>
        /\ call[h].pc = "insert"
    BY <1>1 DEF InsertRow, Inserted, InitialStatus, TypeOK
  <1>3. Exists(r)' /\ \A s \in Ref : Exists(s) => Exists(s)'
    BY <1>2 DEF Exists, Absent
  <1>4. \A p \in Request : PaymentsOf(p) \subseteq PaymentsOf(p)'
    BY <1>2, <1>3 DEF PaymentsOf
  <1>5. r \in PaymentsOf(q)'
    BY <1>1, <1>2, <1>3 DEF PaymentsOf, CreationInv, HandlersKnowTheirRow
  <1>6. Progresses(h)'
    BY <1>2, <1>5 DEF Progresses
  <1>7. \A p \in Request : (Waiting(p)' <=> Waiting(p)) /\ (Running(p)' <=> Running(p))
    BY <1>1, <1>2 DEF Waiting, Running
  <1>8. arrived' \subseteq Request
    BY <1>2 DEF TypeOK
  <1>9. \A p \in arrived' : Creates(p) =>
          (p \in arrived /\ ~Waiting(p) /\ ~Running(p)) \/ Waiting(p)' \/ Running(p)'
    BY <1>2, <1>7 DEF Creates
  <1>10. CASE faults # 0
    BY <1>2, <1>10 DEF FlowInv, NothingIsDropped, LinksHaveRows
  <1>11. CASE faults = 0
    <2>1. \A s \in Ref : link'[s] # NoLink =>
            \/ \E g \in Handler : call'[g].pc = "insert" /\ call'[g].ref = s
            \/ Exists(s)'
      BY <1>1, <1>2, <1>3, <1>11 DEF FlowInv, LinksHaveRows
    <2> QED
      BY <1>2, <1>3, <1>4, <1>6, <1>8, <1>9, <2>1, FlowStep
  <1> QED
    BY <1>10, <1>11

\* Every step keeps the invariant.
LEMMA FlowInvStep == TypeOK /\ CreationInv /\ FlowInv /\ [Next]_vars => FlowInv'
  <1> SUFFICES ASSUME TypeOK, CreationInv, FlowInv, [Next]_vars PROVE FlowInv'
    OBVIOUS
  <1>1. ASSUME NEW q \in Request, BookingPublishes(q) PROVE FlowInv'
    BY <1>1, FlowArriveStep
  <1>2. ASSUME NEW h \in Handler, Deliver(h) PROVE FlowInv'
    <2>1. Head(queue) \in Request
      BY <1>2 DEF Deliver, TypeOK
    <2> QED
      BY <1>2, <2>1, FlowArriveStep
  <1>3. ASSUME NEW h \in Handler, NEW q \in Request, Post(h, q) PROVE FlowInv'
    BY <1>3, FlowArriveStep
  <1>4. ASSUME NEW h \in Handler, FindCanceled(h) PROVE FlowInv'
    <2>1. call'[h].request = call[h].request
      BY <1>4 DEF FindCanceled, TypeOK
    <2> QED
      BY <1>4, <2>1, FlowQuietStep DEF FindCanceled, Exists, TypeOK
  <1>5. ASSUME NEW h \in Handler, NEW r \in Ref, NEW status \in {"SUCCESS", "FAILED"},
               GatewayCallback(h, r, status)
        PROVE  FlowInv'
    BY <1>5, FlowQuietStep DEF GatewayCallback, Exists, TypeOK, Idle
  <1>6. ASSUME NEW h \in Handler, UpdateStatusByPaymentId(h) PROVE FlowInv'
    <2>1. /\ call[h].ref \in Ref
          /\ call[h].status \in {"SUCCESS", "FAILED"}
          /\ Exists(call[h].ref)
      BY <1>6, HandlerKinds
         DEF UpdateStatusByPaymentId, TypeOK, CreationInv, HandlersKnowTheirRow
    <2>2. \A r \in Ref : Exists(r)' <=> Exists(r)
      BY <1>6, <2>1 DEF UpdateStatusByPaymentId, Exists, TypeOK, Absent
    <2>3. /\ call'[h].request = call[h].request
          /\ \A g \in Handler \ {h} : call'[g] = call[g]
      BY <1>6 DEF UpdateStatusByPaymentId, TypeOK, Handling
    <2> QED
      BY <1>6, <2>2, <2>3, FlowQuietStep DEF UpdateStatusByPaymentId
  <1>7. ASSUME NEW h \in Handler, PublishPaymentStatusEvent(h) PROVE FlowInv'
    BY <1>7, FlowQuietStep DEF PublishPaymentStatusEvent, Exists, TypeOK, Idle
  <1>8. ASSUME NEW h \in Handler, Ack(h) PROVE FlowInv'
    BY <1>8, FlowQuietStep DEF Ack, Exists, TypeOK, Idle
  <1>9. ASSUME NEW h \in Handler, Nack(h) PROVE FlowInv'
    BY <1>9, FlowQuietStep DEF Nack, AfterNack, Exists, TypeOK, Idle
  <1>10. CASE (\E h \in Handler : Throw(h)) \/ Crash
    BY <1>10 DEF Throw, Crash, TypeOK, FlowInv, NothingIsDropped, LinksHaveRows
  <1>11. CASE UNCHANGED vars
    BY <1>11 DEF vars, FlowInv, Progresses, Creates, PaymentsOf, Exists, NothingIsDropped,
       LinksHaveRows, Waiting, Running
  <1> QED
    BY <1>1, <1>2, <1>3, <1>4, <1>5, <1>6, <1>7, <1>8, <1>9, <1>10, <1>11,
       FlowLinkStep, FlowInsertStep DEF Next, Step

\* As long as no call failed, a request to create a payment that is neither waiting
\* nor handled was refused for its fields or has its payment.
THEOREM NoRequestIsDropped == Spec => []NothingIsDropped
  <1>1. FlowInv => NothingIsDropped
    BY DEF FlowInv
  <1> QED
    BY <1>1, FlowInvInit, FlowInvStep, TypeCorrect, CreationInvariant, PTL DEF Spec

\* As long as no call failed, every link has its row or a handler about to insert it.
THEOREM NoLinkIsLost == Spec => []LinksHaveRows
  <1>1. FlowInv => LinksHaveRows
    BY DEF FlowInv
  <1> QED
    BY <1>1, FlowInvInit, FlowInvStep, TypeCorrect, CreationInvariant, PTL DEF Spec
=============================================================================
