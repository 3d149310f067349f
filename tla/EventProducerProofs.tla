------------------------ MODULE EventProducerProofs -------------------------
(***************************************************************************)
(* Proofs about EventProducer, for any emissions and any number of faults: *)
(* types, the invariant of the connection manager, and that the producer   *)
(* implements AwaitedPublish.                                              *)
(***************************************************************************)
EXTENDS EventProducer, TLAPS

\* What losing a connection does to the copies: one more, or none.
LEMMA LostCopies ==
  ASSUME TypeOK, NEW taken \in SUBSET OnWire, Lost(taken)
  PROVE  /\ link' = "down"
         /\ copies' \in [Emission -> Nat]
         /\ \A e \in Emission :
               /\ copies'[e] \in {copies[e], copies[e] + 1}
               /\ copies'[e] # copies[e] => place[e] = "wire"
  BY DEF TypeOK, Lost, OnWire

\* The type invariant: emissions, places and channel only ever have the values
\* the service and the connection manager give them.
THEOREM TypeCorrect == Spec => []TypeOK
  <1>1. Init => TypeOK
    BY ProducerAssumption DEF Init, TypeOK, Place
  <1>2. TypeOK /\ [Next]_vars => TypeOK'
    <2> SUFFICES ASSUME TypeOK, [Next]_vars PROVE TypeOK'
      OBVIOUS
    <2> USE ProducerAssumption DEF TypeOK, Place
    <2>1. CASE OnModuleInit
      BY <2>1 DEF OnModuleInit
    <2>2. CASE OnModuleDestroy
      BY <2>2, LostCopies DEF OnModuleDestroy, Stranded
    <2>3. CASE Connect \/ SetupFails
      BY <2>3 DEF Connect, SetupFails
    <2>4. CASE Setup
      BY <2>4 DEF Setup, Requeued
    <2>5. CASE Disconnect
      BY <2>5, LostCopies DEF Disconnect, Stranded
    <2>6. CASE Crash
      BY <2>6, LostCopies DEF Crash
    <2>7. ASSUME NEW e \in Emission, Publish(e) PROVE TypeOK'
      BY <2>7 DEF Publish
    <2>8. ASSUME NEW e \in Emission, Send(e) PROVE TypeOK'
      BY <2>8 DEF Send
    <2>9. ASSUME NEW e \in Emission, BrokerTakes(e) PROVE TypeOK'
      BY <2>9 DEF BrokerTakes
    <2>10. ASSUME NEW e \in Emission, Confirm(e) PROVE TypeOK'
      BY <2>10 DEF Confirm
    <2>11. ASSUME NEW e \in Emission, Refuse(e) PROVE TypeOK'
      BY <2>11 DEF Refuse
    <2>12. CASE UNCHANGED vars
      BY <2>12 DEF vars
    <2> QED
      BY <2>1, <2>2, <2>3, <2>4, <2>5, <2>6, <2>7, <2>8, <2>9, <2>10, <2>11, <2>12
      DEF Next, EmitPaymentEvent, EmitBookingEvent
  <1> QED
    BY <1>1, <1>2, PTL DEF Spec

-----------------------------------------------------------------------------
\* Every step keeps the invariant of the connection manager.
LEMMA ProducerStep ==
  ASSUME TypeOK, ProducerInv, [Next]_vars
  PROVE  ProducerInv'
  <1> USE ProducerAssumption
      DEF TypeOK, Place, ProducerInv, AwaitedIsHeld, DeclaredFirst, ReturnedIsPublished,
          ResentOnlyAfterLoss, ChannelHoldsMessages
  <1>1. CASE OnModuleInit
    BY <1>1 DEF OnModuleInit
  <1>2. CASE OnModuleDestroy
    <2>1. PICK taken \in SUBSET OnWire : Lost(taken)
      BY <1>2 DEF OnModuleDestroy
    <2>2. /\ link' = "down"
          /\ \A e \in Emission :
                /\ copies'[e] \in {copies[e], copies[e] + 1}
                /\ copies'[e] # copies[e] => place[e] = "wire"
      BY <2>1, LostCopies
    <2>3. /\ wrapper' = "closed"
          /\ declared' = declared /\ faults' = faults
          /\ \A e \in Emission :
                /\ emit'[e] = IF place[e] = "buffer" THEN "thrown" ELSE emit[e]
                /\ place'[e] = IF place[e] = "buffer" THEN "none" ELSE Stranded(place[e])
      BY <1>2 DEF OnModuleDestroy
    <2> QED
      BY <2>2, <2>3 DEF Stranded
  <1>3. CASE Connect \/ SetupFails
    BY <1>3 DEF Connect, SetupFails
  <1>4. CASE Setup
    BY <1>4 DEF Setup, Requeued
  <1>5. CASE Disconnect
    <2>1. PICK taken \in SUBSET OnWire : Lost(taken)
      BY <1>5 DEF Disconnect
    <2>2. /\ link' = "down"
          /\ \A e \in Emission :
                /\ copies'[e] \in {copies[e], copies[e] + 1}
                /\ copies'[e] # copies[e] => place[e] = "wire"
      BY <2>1, LostCopies
    <2>3. /\ UNCHANGED <<wrapper, declared, emit>>
          /\ faults' = faults + 1
          /\ link # "down"
          /\ \A e \in Emission : place'[e] = Stranded(place[e])
      BY <1>5 DEF Disconnect
    <2> QED
      BY <2>2, <2>3 DEF Stranded
  <1>6. CASE Crash
    <2>1. PICK taken \in SUBSET OnWire : Lost(taken)
      BY <1>6 DEF Crash
    <2>2. /\ link' = "down"
          /\ \A e \in Emission :
                /\ copies'[e] \in {copies[e], copies[e] + 1}
                /\ copies'[e] # copies[e] => place[e] = "wire"
      BY <2>1, LostCopies
    <2>3. /\ wrapper' = "none" /\ declared' = declared
          /\ faults' = faults + 1
          /\ \A e \in Emission :
                /\ emit'[e] = IF emit[e] = "waiting" THEN "dead" ELSE emit[e]
                /\ place'[e] = "none"
      BY <1>6 DEF Crash
    <2> QED
      BY <2>2, <2>3
  <1>7. ASSUME NEW e \in Emission, Publish(e) PROVE ProducerInv'
    BY <1>7 DEF Publish
  <1>8. ASSUME NEW e \in Emission, Send(e) PROVE ProducerInv'
    BY <1>8 DEF Send
  <1>9. ASSUME NEW e \in Emission, BrokerTakes(e) PROVE ProducerInv'
    BY <1>9 DEF BrokerTakes
  <1>10. ASSUME NEW e \in Emission, Confirm(e) PROVE ProducerInv'
    BY <1>10 DEF Confirm
  <1>11. ASSUME NEW e \in Emission, Refuse(e) PROVE ProducerInv'
    BY <1>11 DEF Refuse
  <1>12. CASE UNCHANGED vars
    BY <1>12 DEF vars
  <1> QED
    BY <1>1, <1>2, <1>3, <1>4, <1>5, <1>6, <1>7, <1>8, <1>9, <1>10, <1>11, <1>12
    DEF Next, EmitPaymentEvent, EmitBookingEvent

\* The connection manager holds a message exactly while its emission is awaited,
\* and sends it again only after a loss (rabbitmq.producer.service.ts:54-98).
THEOREM ProducerInvariant == Spec => []ProducerInv
  <1>1. Init => ProducerInv
    BY ProducerAssumption
    DEF Init, ProducerInv, AwaitedIsHeld, DeclaredFirst, ReturnedIsPublished,
        ResentOnlyAfterLoss, ChannelHoldsMessages
  <1> QED
    BY <1>1, ProducerStep, TypeCorrect, PTL DEF Spec

-----------------------------------------------------------------------------
\* A connection that is lost makes copies only of emissions that are awaited.
LEMMA LostAppears ==
  ASSUME TypeOK, ProducerInv, NEW taken \in SUBSET OnWire, Lost(taken)
  PROVE  \A e \in Emission : Awaited!Appear(e)
  BY LostCopies DEF TypeOK, ProducerInv, AwaitedIsHeld, Awaited!Appear

\* Every step of the producer is a step of AwaitedPublish, or none.
LEMMA AwaitedStep ==
  ASSUME TypeOK, ProducerInv, [Next]_vars
  PROVE  [Awaited!Next]_(Awaited!vars)
  <1> SUFFICES ASSUME ~(UNCHANGED vars), Next
               PROVE  \A e \in Emission : Awaited!Appear(e) /\ Awaited!Move(e)
    BY DEF vars, Awaited!vars, Awaited!Next
  <1> USE DEF TypeOK, ProducerInv, AwaitedIsHeld, ReturnedIsPublished,
              Awaited!Move, Awaited!Moves
  <1>1. CASE OnModuleInit \/ Connect \/ SetupFails
    BY <1>1 DEF OnModuleInit, Connect, SetupFails, Awaited!Appear
  <1>2. CASE OnModuleDestroy
    <2>1. \A e \in Emission : Awaited!Appear(e)
      BY <1>2, LostAppears DEF OnModuleDestroy
    <2>2. \A e \in Emission :
             emit'[e] = IF place[e] = "buffer" THEN "thrown" ELSE emit[e]
      BY <1>2 DEF OnModuleDestroy
    <2> QED
      BY <2>1, <2>2
  <1>3. CASE Setup
    BY <1>3 DEF Setup, Awaited!Appear
  <1>4. CASE Disconnect
    <2>1. \A e \in Emission : Awaited!Appear(e)
      BY <1>4, LostAppears DEF Disconnect
    <2> QED
      BY <1>4, <2>1 DEF Disconnect
  <1>5. CASE Crash
    <2>1. \A e \in Emission : Awaited!Appear(e)
      BY <1>5, LostAppears DEF Crash
    <2>2. \A e \in Emission :
             emit'[e] = IF emit[e] = "waiting" THEN "dead" ELSE emit[e]
      BY <1>5 DEF Crash
    <2> QED
      BY <2>1, <2>2
  <1>6. ASSUME NEW f \in Emission, Publish(f)
        PROVE  \A e \in Emission : Awaited!Appear(e) /\ Awaited!Move(e)
    BY <1>6 DEF Publish, Awaited!Appear
  <1>7. ASSUME NEW f \in Emission, Send(f)
        PROVE  \A e \in Emission : Awaited!Appear(e) /\ Awaited!Move(e)
    BY <1>7 DEF Send, Awaited!Appear
  <1>8. ASSUME NEW f \in Emission, BrokerTakes(f)
        PROVE  \A e \in Emission : Awaited!Appear(e) /\ Awaited!Move(e)
    BY <1>8 DEF BrokerTakes, Awaited!Appear
  <1>9. ASSUME NEW f \in Emission, Confirm(f)
        PROVE  \A e \in Emission : Awaited!Appear(e) /\ Awaited!Move(e)
    BY <1>9 DEF Confirm, Awaited!Appear
  <1>10. ASSUME NEW f \in Emission, Refuse(f)
         PROVE  \A e \in Emission : Awaited!Appear(e) /\ Awaited!Move(e)
    BY <1>10 DEF Refuse, Awaited!Appear
  <1> QED
    BY <1>1, <1>2, <1>3, <1>4, <1>5, <1>6, <1>7, <1>8, <1>9, <1>10
    DEF Next, EmitPaymentEvent, EmitBookingEvent

\* The producer implements AwaitedPublish: an awaited emission that returns has
\* been published, and nothing of it is published afterwards.
THEOREM ProducerImplementsAwaited == Spec => ImplementsAwaitedPublish
  <1>1. Init => Awaited!Init
    BY DEF Init, Awaited!Init
  <1>2. Spec => Awaited!Init /\ [][Awaited!Next]_(Awaited!vars)
    BY <1>1, AwaitedStep, TypeCorrect, ProducerInvariant, PTL DEF Spec
  <1> QED
    BY <1>2 DEF ImplementsAwaitedPublish, Awaited!Spec
=============================================================================
