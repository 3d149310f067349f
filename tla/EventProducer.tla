--------------------------- MODULE EventProducer ----------------------------
(***************************************************************************)
(* RabbitMQProducerService and the connection manager it publishes with    *)
(* (rabbitmq.producer.service.ts; amqp-connection-manager is modelled from *)
(* its use there).  emitPaymentEvent awaits publish, which keeps a message *)
(* until the broker confirms it: in a buffer while there is no channel,    *)
(* then on the wire, and again in the buffer when the connection broke     *)
(* before the confirm came.                                                *)
(***************************************************************************)
EXTENDS Naturals

CONSTANTS
    PaymentEmission,    \* calls of emitPaymentEvent
    BookingEmission,    \* calls of emitBookingEvent
    MaxFaults           \* how often the connection, the broker or the process fails

Emission == PaymentEmission \cup BookingEmission

ASSUME ProducerAssumption == MaxFaults \in Nat

VARIABLES
    wrapper,    \* the service's channelWrapper: not made yet, open or closed
    link,       \* the connection manager's channel
    declared,   \* whether the exchange, the queue and its bindings exist
    emit,       \* emit[e]: how far the emission is
    place,      \* place[e]: where the message of a waiting emission is
    copies,     \* copies[e]: how often the broker put it on the exchange
    faults

vars == <<wrapper, link, declared, emit, place, copies, faults>>

\* A message is buffered, on the wire, taken by the broker with the confirm on
\* its way back, or unconfirmed on a connection that is gone.
Place == {"none", "buffer", "wire", "taken", "stranded"}

TypeOK ==
    /\ wrapper \in {"none", "open", "closed"}
    /\ link \in {"down", "setup", "up"}
    /\ declared \in BOOLEAN
    /\ emit \in [Emission -> {"idle", "waiting", "returned", "thrown", "dead"}]
    /\ place \in [Emission -> Place]
    /\ copies \in [Emission -> Nat]
    /\ faults \in Nat

Init ==
    /\ wrapper = "none"
    /\ link = "down"
    /\ declared \in BOOLEAN
    /\ emit = [e \in Emission |-> "idle"]
    /\ place = [e \in Emission |-> "none"]
    /\ copies = [e \in Emission |-> 0]
    /\ faults = 0

-----------------------------------------------------------------------------
(* The service *)

\* createChannel does not wait for the broker.
OnModuleInit ==
    /\ wrapper = "none"
    /\ wrapper' = "open"
    /\ UNCHANGED <<link, declared, emit, place, copies, faults>>

\* Publishing without the await, for comparison.
PublishUnawaited(e) ==
    /\ emit[e] = "idle"
    /\ wrapper # "none"
    /\ emit' = [emit EXCEPT ![e] = "returned"]
    /\ place' = [place EXCEPT ![e] = "buffer"]
    /\ UNCHANGED <<wrapper, link, declared, copies, faults>>

\* Without a channelWrapper the call throws; otherwise the message goes to the
\* buffer, whether there is a connection or not, and the call awaits its confirm.
Publish(e) ==
    /\ emit[e] = "idle"
    /\ \/ /\ wrapper = "none"
          /\ emit' = [emit EXCEPT ![e] = "thrown"]
          /\ UNCHANGED place
       \/ /\ wrapper # "none"
          /\ emit' = [emit EXCEPT ![e] = "waiting"]
          /\ place' = [place EXCEPT ![e] = "buffer"]
    /\ UNCHANGED <<wrapper, link, declared, copies, faults>>

EmitPaymentEvent(e) == e \in PaymentEmission /\ Publish(e)

EmitBookingEvent(e) == e \in BookingEmission /\ Publish(e)

\* The connection is lost with what it carried: the broker has read some of the
\* messages on the wire, and no confirm arrives.
Lost(taken) ==
    /\ link' = "down"
    /\ copies' = [e \in Emission |-> IF e \in taken THEN copies[e] + 1 ELSE copies[e]]

OnWire == {e \in Emission : place[e] = "wire"}

Stranded(p) == IF p \in {"wire", "taken"} THEN "stranded" ELSE p

\* Closing rejects what is buffered.  Who waits for a confirm is not told.
OnModuleDestroy ==
    /\ wrapper = "open"
    /\ wrapper' = "closed"
    /\ \E taken \in SUBSET OnWire : Lost(taken)
    /\ emit' = [e \in Emission |-> IF place[e] = "buffer" THEN "thrown" ELSE emit[e]]
    /\ place' = [e \in Emission |-> IF place[e] = "buffer" THEN "none"
                                    ELSE Stranded(place[e])]
    /\ UNCHANGED <<declared, faults>>

-----------------------------------------------------------------------------
(* The connection manager and the broker *)

ConnectAtOnce ==
    /\ wrapper = "open"
    /\ link = "down"
    /\ link' = "up"
    /\ UNCHANGED <<wrapper, declared, emit, place, copies, faults>>
Connect ==
    /\ wrapper = "open"
    /\ link = "down"
    /\ link' = "setup"
    /\ UNCHANGED <<wrapper, declared, emit, place, copies, faults>>

\* What a channel still owes is buffered again once the next one is set up.
RequeuedAsIdle(p) == IF p = "stranded" THEN "idle" ELSE p
RequeuedNothing(p) == p
Requeued(p) == IF p = "stranded" THEN "buffer" ELSE p

\* The channel is used for publishing only after its setup function has declared
\* exchange, queue and bindings.
Setup ==
    /\ link = "setup"
    /\ link' = "up"
    /\ declared' = TRUE
    /\ place' = [e \in Emission |-> Requeued(place[e])]
    /\ UNCHANGED <<wrapper, emit, copies, faults>>

\* A declaration fails, and the error nobody listens for closes the channel; an
\* error that ends the process is a Crash.
SetupFails ==
    /\ link = "setup"
    /\ faults < MaxFaults
    /\ faults' = faults + 1
    /\ link' = "down"
    /\ UNCHANGED <<wrapper, declared, emit, place, copies>>

Send(e) ==
    /\ link = "up"
    /\ place[e] = "buffer"
    /\ place' = [place EXCEPT ![e] = "wire"]
    /\ UNCHANGED <<wrapper, link, declared, emit, copies, faults>>

BrokerTakes(e) ==
    /\ link = "up"
    /\ place[e] = "wire"
    /\ place' = [place EXCEPT ![e] = "taken"]
    /\ copies' = [copies EXCEPT ![e] = @ + 1]
    /\ UNCHANGED <<wrapper, link, declared, emit, faults>>

\* The broker confirms: publish resolves and the emission returns.
Confirm(e) ==
    /\ link = "up"
    /\ place[e] = "taken"
    /\ place' = [place EXCEPT ![e] = "none"]
    /\ emit' = [emit EXCEPT ![e] = "returned"]
    /\ UNCHANGED <<wrapper, link, declared, copies, faults>>

\* The broker refuses the message: publish rejects and the emission throws.
Refuse(e) ==
    /\ link = "up"
    /\ place[e] = "wire"
    /\ faults < MaxFaults
    /\ place' = [place EXCEPT ![e] = "none"]
    /\ emit' = [emit EXCEPT ![e] = "thrown"]
    /\ faults' = faults + 1
    /\ UNCHANGED <<wrapper, link, declared, copies>>

\* The connection breaks, while it is set up or later.
Disconnect ==
    /\ link # "down"
    /\ faults < MaxFaults
    /\ faults' = faults + 1
    /\ \E taken \in SUBSET OnWire : Lost(taken)
    /\ place' = [e \in Emission |-> Stranded(place[e])]
    /\ UNCHANGED <<wrapper, declared, emit>>

\* The process dies and is started again: its buffer and its callers are gone.
Crash ==
    /\ wrapper # "none"
    /\ faults < MaxFaults
    /\ faults' = faults + 1
    /\ wrapper' = "none"
    /\ \E taken \in SUBSET OnWire : Lost(taken)
    /\ emit' = [e \in Emission |-> IF emit[e] = "waiting" THEN "dead" ELSE emit[e]]
    /\ place' = [e \in Emission |-> "none"]
    /\ UNCHANGED declared

-----------------------------------------------------------------------------
Next ==
    \/ OnModuleInit \/ OnModuleDestroy
    \/ Connect \/ Setup \/ SetupFails \/ Disconnect \/ Crash
    \/ \E e \in Emission :
          \/ EmitPaymentEvent(e) \/ EmitBookingEvent(e)
          \/ Send(e) \/ BrokerTakes(e) \/ Confirm(e) \/ Refuse(e)

Spec == Init /\ [][Next]_vars

\* The manager reconnects for as long as it takes, the broker comes back and
\* answers.  Nobody has to emit, and nothing has to fail.
Fairness ==
    /\ WF_vars(Connect) /\ WF_vars(Setup)
    /\ \A e \in Emission : WF_vars(Send(e)) /\ WF_vars(BrokerTakes(e)) /\ WF_vars(Confirm(e))

FairSpec == Spec /\ Fairness

-----------------------------------------------------------------------------
(* Properties *)

\* A message is in the connection manager exactly as long as its emission is
\* awaited: what was confirmed, rejected or died with the process is never sent
\* again (the await at rabbitmq.producer.service.ts:65).
AwaitedIsHeld == \A e \in Emission : place[e] # "none" <=> emit[e] = "waiting"

\* The exchange is there before anything is published to it (setup, lines 38-50):
\* publishing to an exchange that does not exist closes the channel.
DeclaredFirst ==
    /\ link = "up" => declared
    /\ \A e \in Emission : copies[e] > 0 => declared

\* A confirm is only on its way for a message the broker has taken, so an
\* emission that returned has been published (lines 65-70).
ReturnedIsPublished ==
    \A e \in Emission : place[e] = "taken" \/ emit[e] = "returned" => copies[e] > 0

\* A message is sent again only after a connection was lost: consumers see it
\* at most once more than there were failures.
ResentOnlyAfterLoss ==
    \A e \in Emission :
        /\ copies[e] <= faults + 1
        /\ emit[e] = "idle" => copies[e] = 0
        /\ place[e] \in {"buffer", "wire"} => copies[e] <= faults
        /\ place[e] = "stranded" /\ wrapper = "open" => copies[e] <= faults

\* A missing wrapper holds no message, a closed or missing one has no channel,
\* and a channel that is gone carries nothing (lines 30-52, 100-108).
ChannelHoldsMessages ==
    /\ wrapper = "none" => \A e \in Emission : place[e] = "none"
    /\ wrapper # "open" => link = "down"
    /\ link # "up" => \A e \in Emission : place[e] \notin {"wire", "taken"}

\* The inductive invariant of the producer (lines 30-98).
ProducerInv ==
    /\ AwaitedIsHeld
    /\ DeclaredFirst
    /\ ReturnedIsPublished
    /\ ResentOnlyAfterLoss
    /\ ChannelHoldsMessages

\* The producer implements what its callers rely on (lines 54-75): a returned
\* emission is on the exchange and never appears on it again.
Awaited == INSTANCE AwaitedPublish
ImplementsAwaitedPublish == Awaited!Spec

\* Whoever awaits an emission is not left waiting once the broker is back, unless
\* the producer was closed (line 65: there is no timeout of its own).
EmissionsEnd ==
    \A e \in Emission : emit[e] = "waiting" ~> emit[e] # "waiting" \/ wrapper = "closed"
=============================================================================
