# Payment service: models, checks and proofs

TLA+ models of the booking platform's payment service (NestJS, PostgreSQL through
Prisma, RabbitMQ, four payment gateways), the TLC configurations that check them on
small instances, and proofs for instances of every size. Line numbers refer to
`src/src/payments/payments.service.ts` unless a file is named.

## 1. The system

The service turns bookings into payments and gateway notifications into events.

```
booking service --booking.created / booking.canceled--> payment_worker_queue
        |                                                      |
   customer --POST /payments--> createPayment <-- RabbitMQConsumerController
                                   |      |                    |
                        gateway link      row in payments  (canceled) update
                                   |                           |
   gateway --return page, IPN, webhook--> callbacks --update--> payments
                                              |
                                              +--payment.success / payment.failed--> booking_topic_exchange
```

One Node process runs everything. A handler runs without interruption up to its next
`await`; between two awaits any other handler may run. Several processes may share the
database; the models do not need to tell the two cases apart, because a step holds no
in-memory state but its own handler's.

### Inventory

| Component | State | Operations | What is hard | What makes it correct |
|---|---|---|---|---|
| Settlement: `handleMomoReturn`, `handleMomoIpn`, `handleVNPayReturn`, `handleVNPayIpn`, `handleVietqrWebhook`, `handlePayosWebhook`, `updateStatusByPaymentId`, `publishPaymentStatusEvent` | row: status, transactionId | six callbacks | check and update in two queries (all but MoMo); update and publish in two steps; lost, repeated, overtaking and conflicting notifications; failures and crashes in between | one result per payment; row, events and answers agree; nothing acknowledged is lost |
| Creation: `createPayment` | gateway link, new row | from POST and from `booking.created` | link before row; no check for an existing payment; failures in between | one payment per request; every link has a row |
| Booking consumer: `RabbitMQConsumerController`, `main.ts` | queue | `booking.created`, `booking.canceled` | `noAck`, nack with requeue, handlers of one booking overlapping | every message has its effect once |
| Event producer: `RabbitMQProducerService` | connection, buffer of unconfirmed publishes | `emitPaymentEvent`, start, stop | broker away, confirms lost with a connection, refusals, shutdown | an emission that returns is on the exchange, and nothing of it comes later; after the exchange is declared |
| User cache: `ExternalService`, `RedisService` | Redis `user:<id>` | `getUsersByIds`, `invalidateUserCache` (no caller) | parallel lookups and fetches paired by index, timeouts, errors swallowed, stores after a change | each id gets its own user or none; one failure hides one user; listings end |
| Reports: `getMonthlyRevenue`, `getStats` | none | functions of the rows and the clock | month and year boundaries, seven queries and a report without a transaction | sums match the rows; the parts of a dashboard match each other |
| Queries: `findAll`, `getPayment`, `findPaymentByReference`, ... | none | reads | page and count are two queries; offset paging while rows come in; no tie-break | a walk misses nothing; meta agrees with data |
| Providers and signatures | keys | create link, verify | canonical strings, amounts in cents | sender and receiver hash the same string |
| References: line 67-73, 107, 116-118, `vietqr.provider.ts:31` | clock, random | generate | collisions within and across methods, leading zeros; unique index in the schema but in no migration | only draws and times that coincide make one reference of two |
| Controllers, bootstrap, logging, templates, build | - | forwarding | - | - |

The hazards of each component, with their lines, are in `PROJECT.json`.

## 2. Modules

| Module | What it is |
|---|---|
| `PaymentSettlement` | the six callbacks, step by step, with gateways, failures and crashes |
| `OneShotSettlement` | what other services may rely on: a payment is settled once and announced once, possibly in copies, as it was settled |
| `MCPaymentSettlement` | instances for TLC |
| `PaymentSettlementProofs` | proofs about `PaymentSettlement`: types, MoMo, the refinement; backing, answers, events, races, and what holds when one outcome is reported |
| `BookingPayments` | queue, consumer, POST and `createPayment`; a callback is one choice here |
| `MCBookingPayments` | instances for TLC |
| `BookingPaymentsProofs` | proofs about `BookingPayments` |
| `References` | how the four methods make references, the insert with or without the unique index, and what a callback settles |
| `ReferencesProofs` | proofs about `References` |
| `EventProducer` | the service's producer over the connection manager and the broker |
| `AwaitedPublish` | what a caller that awaits an emission may rely on |
| `EventProducerProofs` | proofs about `EventProducer`, with the refinement of `AwaitedPublish` |
| `UserCache` | `getUsersByIds` over Redis and the auth service |
| `UserCacheProofs` | proofs about `UserCache` |
| `RevenueReport` | `getMonthlyRevenue` over a small calendar, with the rows and the clock that move |
| `Dashboard` | `getStats`, step by step, on top of `RevenueReport` |
| `DashboardProofs` | proofs about `RevenueReport` and `Dashboard` |
| `PaymentQueries` | `findAll` under a client that walks its pages |
| `PaymentQueriesProofs` | proofs about `PaymentQueries` |
| `Signatures` | the texts that are signed, on both sides |
| `SignaturesProofs` | proofs about `Signatures` |
| `MCReferences`, `MCEventProducer`, `MCUserCache`, `MCDashboard`, `MCPaymentQueries`, `MCSignatures` | instances for TLC |

How they fit together: `PaymentSettlement` and `BookingPayments` treat a publish as one step
that returns or throws, and `PaymentSettlement` also as one whose confirm is lost and whose message
is sent again (`LoseConfirm`); `EventProducer` shows what stands behind that step, and that it may be
read so. `BookingPayments` picks a fresh reference for a link; `References` says when a
reference is fresh. A notification of `PaymentSettlement` says whether its signature verifies;
`Signatures` says which messages do. `PaymentQueries` and `UserCache` are the two halves of a
listing, `RevenueReport` and `Dashboard` read the rows the first two modules write.
Each module below has only the part of a row (status, time of creation) its properties need.

In several modules a definition has a neighbour that differs from it in one respect (`Skip`,
`SkipFromPage`). The neighbour is a plausible mistake; replacing the definition by it
must break the property named in `PROJECT.json`.

### PaymentSettlement

State: `row[p]` is the payment's method, status and transactionId; `call[h]` is a callback
in progress with the step it takes next; `sent` are the gateways' notifications;
`events[p]` is what reached the exchange, copies that were sent again included; `answers` is what the gateways were told. A callback
takes four steps, one per `await` and one for its answer:

| step | actions | code |
|---|---|---|
| find, check, decide | `MomoReturn`, `MomoIpn`, `VNPayReturn`, `VNPayIpn`, `VietqrWebhook`, `PayosWebhook` | the `findFirst` and every test after it |
| update | `MomoUpdate` (conditional, 241 and 306), `UpdateStatusByPaymentId` (by id, 359) | |
| publish | `LoseConfirm` (a copy more, the await goes on), `PublishPaymentStatusEvent` | 328-349 |
| answer | `Respond` | the controller's routes |

`Throw` is any of these awaits throwing (a call that took effect and then threw is one that
threw a step later), `Crash` is the process dying. A callback that ends either way leaves no
answer, so the gateway repeats the notification (`Deliver`); `Redeliver` is a repeated copy of
an answered one.

What is abstracted: a notification carries three booleans (its signature verifies, its code
is the success code, its amount is the row's) and a transaction number or none. The order of
the tests is the code's, and it differs between callbacks: `handleVNPayReturn` looks at the
status before the amount, the others at the amount first; MoMo's IPN turns a wrong amount
into FAILED; MoMo's return page tests neither signature nor amount; PayOS's webhook never
looks at the status.

The transaction number goes through several conversions, which are kept apart because they differ on a
number that is there but falsy (`Blank`: MoMo's 0, an empty text of the others). `TxnArg` is what a
callback passes on (`transId?.toString()` at 319 is `TextOf`: 0 becomes the text "0", `Zero`);
`StoredTxn` is what the row is updated with, the same but for MoMo's IPN, where a 0 becomes undefined
(313). `Or` is `||`, `OrNull` is `??`: the update by id keeps an empty text (363), the event takes the
row's number instead of it (338), which by then is the empty text. `EventOf` puts the event
together. So a MoMo payment with `transId` 0 keeps its reference in the row and is announced with "0";
`Tells` says that this is the only way the two may differ.

A MoMo return page that is opened without an `orderId` makes `findFirst` give some MoMo payment
(222). It is covered by a notification about that payment, since the return page carries no signature and
the model's gateways report any outcome of any payment; such a page counts as a report.

Assumptions about the outside, marked external in `PROJECT.json`: a gateway sends each
outcome on all its channels; any copy may be lost or late; it repeats a server-to-server
notification until it gets an answer. Any answer ends the repetition: callbacks other than
VNPay's IPN answer HTTP 2xx to notifications they refuse as well.

### BookingPayments

State: `queue` holds the booking messages not delivered yet, `call[h]` a handler,
`link[r]` the request the gateway issued reference `r` for, `row[r]` the status of the
payment with that reference. `Deliver` takes a message off the queue at once, because the
consumer is configured with `noAck: true` (`main.ts:27`); the synchronous field checks belong
to that step. `CreateLink` is the gateway's request (79-130), `InsertRow` the insert (133),
`FindCanceled` the lookup of `handleBookingCanceled`, and `UpdateStatusByPaymentId` and
`PublishPaymentStatusEvent` are shared by the cancellation and by `GatewayCallback`, which
stands for a callback of `PaymentSettlement` that has decided, whatever the row's status was. `Nack` applies `AfterNack`:
`requeue` has no effect on a message the broker no longer holds. What a broker does to a
channel that acknowledges an already settled delivery (AMQP calls it a channel error) is not
modelled; no liveness of the consumer is claimed.

Bookings and references are disjoint sets (`BookingAssumption`): a booking id is a UUID, a
reference starts with `BK` or is a number. So a cancellation with an id finds nothing, which is
what the run `canceled_stays_pending` shows. One without an id (`NoBooking`; `handleBookingCanceled` looks
for no missing field) makes `findFirst` compare nothing, and any payment may be the one it finds: this is
how the update branch of `FindCanceled` is reached, and a callback that falls between the lookup and the
update is overwritten. A message or body to create a payment is refused without an id (`Accepted`).

### References

`call[c]` is a call of `createPayment`: its method, booking, the time it read and the number it
drew. `Ask` is the branch of the method up to the answer of the gateway (79-130): `ReferenceOf`
is what it puts together. For MoMo and VNPay that is a text with the booking in it; for VietQR
and PayOS a number, so the arithmetic of the digits is modelled: `VietqrCode` pads its draw to
four digits, `PayosCode` does not pad. `Refuse` is a gateway that makes no link. `Insert` may
throw, for a repeated (method, reference) or because the database fails; a repeated pair may also be
inserted: `schema.prisma:46` has a unique index that no migration of the repository creates, so both
databases are possible. `Callback` settles a
row with the method and reference of the link, as the `findFirst` of every handler does.

The clock is any set of numbers of one length (`ReferenceAssumption`); `Window` is what the last
six digits repeat with. Not modelled: `substring(0, 100)`, which would cut a VNPay reference
only for booking ids of more than 80 characters (they are UUIDs).

### EventProducer

State of the service: `wrapper` (the `channelWrapper`). State of the connection manager, which
is external: `link` (its channel), `place[e]` (where the message of emission `e` is: buffered,
on the wire, taken by the broker, or unconfirmed on a lost connection). `copies[e]` counts what
the broker put on the exchange. `OnModuleInit` does not wait for the broker; `Publish` is the
call of `publish` (65), which stays in the buffer while there is no channel and has no timeout;
`Setup` is the setup function (38-50), which runs before a channel is used, and `SetupFails` one of
its declarations failing, after which the manager has no channel until it connects again; `Confirm`, `Refuse`
end the await. `Disconnect` loses what was on the wire, part of which the broker may have read;
the next `Setup` puts it back in the buffer (`Requeued`), which is how a message appears twice.
`Crash` forgets everything. `OnModuleDestroy` is the hook; `main.ts` does not enable shutdown
hooks, so it runs only when the application is closed from within.

Assumed of the outside: what a lost connection still carried has been read by the broker, or is
lost, before the next connection publishes. `EmitBookingEvent` has no caller in the repository.

### UserCache

A listing (`GetUsersByIds`) asks Redis for all its ids at once; `CacheAnswers` is one answer, in
any order, and the order of the misses is that of `idsToFetch`. Then one request per missing id
(`Sent`, `AuthAnswers`, `BodyArrives`, `AuthFails`, `TimesOut`): the timer is cleared when the headers
arrive (106), so a request has two waits. `AllFetched` pairs `users[index]` with `idsToFetch[index]`
(`IdAt`), completes the map and starts the stores (`RedisSet`). Redis may fail at any get or
set, which `RedisService` swallows. `UserChanges` and `Expires` are the world. Nothing calls
`invalidateUserCache`. Not modelled: the unit in which the store reads the time to live, and
answers of the auth service that are falsy.

### RevenueReport and Dashboard

Time is a number; a year has `MonthsInYear` months of `DaysInMonth` days of `InstantsInDay` instants,
of which the last stands for 23:59:59.999. Months of one length keep what matters: `new Date(y, m, 1)`
also for `m = -1` and `m = 12` (`Start`), the day 0 of a month. The operators follow the code:
`RangeStart`, `RangeEnd`, `Rejected` (535-558), `FindCompletedPayments` (bounds included), `Monthly`
(grouped by the name of the month), `Shown` with the three cases of `Overlaps` (601-634),
`TotalRevenue` of the months shown, `TotalPayments` of all payments found. Rows are created and
settled and the clock moves, so the report is compared with the rows in every state. Dates that do
not parse are rejected before anything is read and are left out. The year of a query is a text, `"0"`
included, which is truthy: it is never taken for the current year by `year ?` (535) or `year ||` (710),
so only a missing year is (`None`), and 0 is outside the years the report accepts.

`Dashboard` takes the steps of `getStats`: five queries in any order (`Query` on `Counts`), the
report of the year (`Report`), then the clock is read and the two sums of this month and the last
are asked for (`Query` on `Halves`). `CreatePayment` and `UpdateStatus` are other requests, before a
dashboard or in the midst of it. The bound `MaxChanges` is on the changes of the table while
a dashboard is made. The growth percentage (757-772) is a rounding and is not modelled.

### PaymentQueries

A client asks for page 1, 2, ... with one order, limit and filter. `FindMany` and `CountQuery` are the
two queries of the `Promise.all`; between them, and between pages, payments are created (`Create`)
and settled (`Settle`). `Pages` are the pages `ORDER BY createdAt OFFSET LIMIT` may give: payments
that tie come in any order, which SQL leaves open. `walk` remembers what the client saw; `reply`
counts the changes that fell between the two queries. Any sort field other than `createdAt` that
does not change behaves alike. A payment gets its `createdAt` and becomes visible in one step; two
inserts that become visible in the other order of their times would be one more way for a row to come in
behind a client that reads oldest first. The search text and the method are filters that do not change.

### Signatures

An object is a sequence of (key, value) in the order its keys were put. `GenerateSignature`
(`payos-utils.ts`), `HashData` (the loop of `vnpay.provider.ts`, 71-86 and 133-145) and `RawSignature`
(MoMo's template) are the texts the service writes; the gateways' text is written from the `Content`
they document (`InOrder` of it). `Arrive` hands the reader the fields that are `Carried`, in any order,
one of them possibly `Changed` or lost (`Without`). `Sorted` and `InOrder` choose the one sequence whose
keys ascend, which says what the code's sort does and not how. HMAC is the text itself: equal texts have equal signatures. `SignatureAssumption` and
`MayPut` name what is assumed: VNPay's last key in the alphabet (`vnp_Version` of a request,
`vnp_TxnRef` of a callback) is never empty. Without that the property fails, since the loop leaves an
`&` at the end. Not modelled: arrays inside PayOS data, URL encoding, values with an `&` in them.

## 3. Runs

| Run | Instance | States | Question |
|---|---|---|---|
| `one_outcome` | a payment of any method and an unknown reference, 2 callbacks, 1 outcome (paid, paid with an empty or zero number, declined, short, garbled), 1 duplicate, 1 fault | 918 000 | do row, events and answers agree when the gateway says one thing? |
| `conflict` | one payment, 2 of 3 outcomes (paid, declined with an empty or zero number, short), 2 callbacks, no duplicates, 1 fault | 559 000 | what survives two different outcomes, and does a payment that was paid get its SUCCESS and its event in the end? |
| `create_traffic` | 5 requests of one booking (two copies of `booking.created`, a POST, one without a method, a cancellation without an id), 2 handlers, 3 references, any callbacks, 1 fault | 2 215 000 | one payment per request, none dropped, no link without a row |
| `producer` | 3 emissions (one of them a booking event), 3 faults | 39 000 | may a publish be read as one awaited step, and does it end when the broker is back? |
| `user_cache` | 3 users of 2 versions, one listing after another | 290 000 | does everyone get their own user, is nobody hidden by another's failure, do listings end and old entries go? |
| `dashboard` | 2 payments of one amount and method, 2 years of 2 months of 2 days of 2 instants, every range between the boundary instants, 1 change while a dashboard is made | 7 530 000 | does the report add up, do the parts of a dashboard agree, how far do its counts drift? |
| `payment_queries` | 3 payments, pages of 1 or 2 and a limit of 0, 3 instants, 2 settlements | 2 250 000 | what does a walk through the pages miss or repeat? |
| `references` | 2 calls, 2 bookings, 3 milliseconds, draws at the digit boundaries | 56 000 | which calls can be taken for one another? |
| `signatures` | 3 keys, 2 texts and the empty, null and undefined values | 180 000 | is exactly the message that was written accepted? |

Bounds. Two callbacks at a time are enough for every race between a check and an update,
since each race is between two of them; callbacks that follow one another need no third
handler. One payment is enough because no action reads or writes two rows. One fault hits
any point of either callback, or costs a confirm. A duplicate is delivered in `one_outcome` only; in `conflict` the
second outcome and its channels are what comes late. Three references are what two messages and
a POST can take; the cancellation has no id because it then may find nothing, as one with an id
does, or any payment. For `EventProducer`, two messages show every order of two on one connection, a third
is one of the other kind; three faults lose a message, lose it again and refuse or kill it.
For `UserCache` three ids are what a permutation of the misses needs to differ from its inverse, and
entries outlive a listing, so what one stores another reads; listings at the same time meet only in
Redis, and the proofs cover any number of them. Two years and two months have every boundary there
is (first and last month, turn of the year, a month in between is none or both), two instants a
first and a last one; two payments of equal amount tell a sum from a count of one, and one change
between the queries of a dashboard shows each way they can differ.
For the pages, three payments in pages of one or two have a first, a middle and a last page, and
three instants leave room for ties. A clock of two windows and one draw on each side of a digit
boundary are what the proofs of `References` then free from bounds.

Properties of `one_outcome`: `SuccessIsBacked` (a SUCCESS row or event has a verified,
exact notification behind it, or MoMo's return page), `AcknowledgedIsSettled` (who was told
`ok` will not ask again, so the payment is settled and stays so), `OkMeansAnnounced` (for the
gateways that go through `updateStatusByPaymentId`), `SettledIsAnnounced` (without a fault no
race loses the event), `EventsAgreeWithRow`, `SettledIsFinal`, `VNPaySuccessPageIsTrue`.
Properties of `conflict`: `MomoInv` and the refinement `MomoIsOneShot`, which hold for MoMo
whatever is reported (all messages about a payment are copies of one event, which tells what the row
keeps); `RegressionNeedsOverlap`: VNPay and VietQR take a SUCCESS back only
through a callback that read the row before; and two liveness properties, `PaidIsRecorded` and
`PayosSuccessIsAnnounced`, whose retries survive a failed call or a crash.

Properties of the other runs:

- `ProducerInv`: a message is held exactly while its emission is awaited; nothing is published
  before the exchange exists; a message is sent again only after a loss, so consumers see at
  most one copy more than there were failures. `ImplementsAwaitedPublish`: what returned is on the
  exchange and never appears again. `EmissionsEnd`: with the broker back, whoever waits is
  answered, unless the producer was closed, which leaves those on the wire waiting.
- `OwnUser`, `NobodyIsHidden`: pairing by index is right in whatever order Redis answered, and a
  failed request hides nobody but its own user. `ListingsReturn`; `StaleEntriesGo`: nothing
  invalidates an entry, but stores never repeat what came from the cache, so old versions die out.
- `FullYearAdds`, `RangeInYearAdds`: to the last instant of the year and for every range inside the
  report's year, months and total are what the payments add up to. Rows and clock move between
  dashboards, and the report is compared with them whenever none is being made. Ranges of another
  year and over two years are not in these properties (see "Where documents and code differ").
- `QuietDashboardAgrees`: the month the growth starts from is the report's entry of that month.
  `LastDayIsInNoMonth` states precisely what `endOfLastMonth` leaves out: the last day after
  midnight. `DriftIsBounded`: pending, success and failed miss the total by at most the changes.
- `WalkMissesNothing`: no payment that was there is missed, if no two payments tie, none changes
  sides of the filter, and the client did not stop by a total that was read before a payment came
  and the page after. `NothingIsShownTwice`: oldest first nothing is shown twice, newest first only
  when payments came. `MetaAgrees`: page and total differ by no more than the changes between the
  two queries. Each condition was checked to be needed.
- `SettledForAnotherIsACoincidence`: a callback settles another call's payment only when both drew
  alike at times (and bookings) the reference cannot tell apart; no other digits collide.
  `ReferenceTellsMethod`: a reference is never that of two methods.
- `HonestIsAccepted`, `ChangedIsRefused`: a message verifies exactly if its signed content is what
  was written.

`FairSpec` assumes weak fairness of a started callback's next step (Node runs what is ready;
gateways, database and broker answer or throw) and of the first delivery of each
server-to-server notification (gateways retry until answered). The customer's browser is not
fair: nobody has to follow a return URL. For `BookingPayments` fairness covers the delivery from
the queue and the handlers' steps; no gateway has to call.
For `EventProducer`: the connection manager reconnects and sends, the broker answers; nobody has to emit
and nothing has to fail. For `UserCache`: Redis answers or fails, timers fire, a response whose headers
came has an end (line 106 clears the timer, so nothing else ends it), an entry does not outlive its
time; the auth service need not answer. The other modules may stop when their bounds are reached or
nobody asks, so their runs do not look for deadlocks; `user_cache` does, as it cannot stop.

### Where documents and code differ

Each of these runs checks one sentence of the repository and finds a counterexample:

| Run | The sentence | What happens |
|---|---|---|
| `lost_success_event` | `KAFKA_EVENT_HANDLING.md:52-53`: SUCCESS, then `payment.success` | the publish fails after the update; the retry finds the row settled and stops |
| `canceled_stays_pending` | `KAFKA_EVENT_HANDLING.md:60-61`, `RABBITMQ_MIGRATION.md:38` | the payment is looked for by a reference that is never a booking id |
| `second_payment` | `KAFKA_EVENT_HANDLING.md:25,82`: an existing payment is skipped | nothing looks for one |

These are smaller, and are kept as definitions without a run of their own; TLC refutes each when its
name is put in place of the properties of the configuration in the last column (the two of
`CanceledStaysPending.cfg` are temporal; the first of them with `MaxFaults = 1`, the second with
`Request <- Traffic`):

| Definition | The sentence | What happens | Configuration |
|---|---|---|---|
| `AmountMismatchFails` | comment at line 291: a mismatch must trigger failure | the return page settled the payment first | `SettleOneOutcome.cfg` |
| `RedirectIsDoubleChecked` | comment at line 219: double check with DB | the success page is shown for a FAILED row | `SettleConflict.cfg` |
| `CreatedIsNotLost` | `RABBITMQ_MIGRATION.md:56,60`: acknowledged delivery | `noAck: true` | `CanceledStaysPending.cfg` |
| `DefaultMethodIsTaken` | `KAFKA_EVENT_HANDLING.md:12-27`: no method, VIETQR by default | refused | `CanceledStaysPending.cfg` |
| `OnlyMonthsWithData` | comments at lines 595, 608: only months with data | months of the range without data are shown | `Dashboard.cfg` |
| `MonthsInRangeAreShown` | comment at line 616: months that lie in the range | they are laid out in the current year, so a range of another year shows none of its own | `Dashboard.cfg` |
| `VietqrCodesAreUnique` | `vietqr.provider.ts:30`: "to ensure uniqueness" | the last six digits of the clock repeat every 1000 seconds | `References.cfg` |
| `MomoOrderIdsAreUnique` | comment at line 107: "unique orderId" | two orders of a booking in one millisecond have one | `References.cfg` |

## 4. Proofs

All proofs are for any sets of payments, references, handlers, requests and any bounds.
They use the named assumptions `ConstantsAssumption`, `BookingAssumption`, `ProducerAssumption`,
`UserAssumption`, `ReferenceAssumption`, `CalendarAssumption`, `FiltersAssumption`, `DashboardAssumption`,
`QueriesAssumption` and `SignatureAssumption`, which TLC evaluates in the runs of their modules, and nothing else; the three
theorems about one outcome also state `MaxReports = 1`. Payments are a finite set where sums, counts or
pages of them are taken (`CalendarAssumption`, `QueriesAssumption`): it is a table.

`PaymentSettlementProofs`
- `TypeCorrect`: `TypeOK` is inductive. The step that needs care is the update: only a
  reference that was found gets there, and `OrNull` never stores a missing number, though it may store
  an empty one (`UpdatedRowType`, `EventType`, and `MomoConversions` for how MoMo's two numbers fit).
- `MomoInvariant`: `MomoInv` is inductive relative to `TypeOK`. The claim itself,
  `MomoEventMatchesRow` (all messages are copies of one event that tells the row, one and one more for each
  fault at most), is not: it needs that a
  callback that publishes is the only one (`MomoWinnerPublishes`), which needs that a PENDING
  row is untouched and nobody publishes for it (`MomoPendingIsUntouched`), which needs that
  updates by id never reach a MoMo row (`CallsMatchRows`). `MomoPendingIsUntouched` is also why
  the event may be built from the row as it was before the update. `MomoSafe` is the claim.
- `MomoImplementsOneShot`: `Spec` implements `OneShotSettlement!Spec` under the mapping
  `Settlement`: the winning update is `Settle`, its publish and each copy a lost confirm leaves are
  `Announce`, everything else,
  steps of other gateways included, is a stutter.

`PaymentSettlementProofs`, all gateways
- `SettleInvariant`: `SettleInv` is inductive relative to `TypeOK`. Its parts say what each place knows:
  `CallbacksKnow` (a callback on its way to SUCCESS has a notification that backs it; one at the update
  of VNPay or VietQR read a row that was not SUCCESS; one at the publish finds its payment settled; an
  answer about to be given is true), `AnswersHold` (an answer that was given is true and stays so),
  `SuccessIsBacked`. The claims about answers are not inductive, because what an answer says is decided
  two awaits before it is given; `CallbacksKnow` carries it there.
- `SuccessBacked`, `AcknowledgedSettled` and `OkAnnounced` follow: `SuccessIsBacked`,
  `AcknowledgedIsSettled` and `OkMeansAnnounced`, whatever is reported, repeated or fails.
- `OnlyOverlapsRegress` is the action property `RegressionNeedsOverlap`; `SettledAnnounced`
  is `SettledIsAnnounced`, which is inductive with `TypeOK`: the callback that wrote the status of
  the row last is the one that publishes it.

`PaymentSettlementProofs`, last sections: gateways that report one outcome in all (`MaxReports = 1`)
- `FollowInvariant`: every notification sent says the same (`OneReport`), so rows, callbacks and
  events follow it. MoMo is the exception: its return page ignores the amount that its IPN tests, so
  of a wrong amount the two say different things; there the argument is `MomoInv`: one of them wins.
- `OneOutcomeEvents`, `OneOutcomePage`, `OneOutcomeFinal` are `EventsAgreeWithRow`,
  `VNPaySuccessPageIsTrue` and the action property `SettledIsFinal`.

`BookingPaymentsProofs`
- `TypeCorrect`: `TypeOK` is inductive.
- `CreationInvariant`: `CreationInv` is inductive relative to `TypeOK`. That a request makes at
  most one payment rests on the request being in one place (queue, one handler, or done:
  `RequestInOnePlace`) and on having no payment before its insert (`NotYetCreated`); an insert is
  about the request's own link (`HandlersKnowTheirRow`), and a reference without a link has no
  payment (`PaymentsHaveLinks`). `CreationQuietStep` covers every step that moves no request
  and makes nothing; `Throw`, `Crash` and `Nack` are among them. `CreationSafe` is the claim.
- `NoRequestIsDropped` and `NoLinkIsLost` are `NothingIsDropped` and `LinksHaveRows`, from an invariant
  that also follows each request through its handler: as long as nothing failed, a handler
  leaves only with its payment, or refused for a field.

`EventProducerProofs`
- `TypeCorrect`: `TypeOK` is inductive.
- `ProducerInvariant`: `ProducerInv` is inductive relative to `TypeOK`. Its parts need each other: that
  a resent message has at most one copy per fault (`ResentOnlyAfterLoss`) needs that a channel that is
  gone carries nothing (`ChannelHoldsMessages`); `AwaitedIsHeld` is why a confirmed message is not sent
  again.
- `ProducerImplementsAwaited`: `Spec` implements `AwaitedPublish!Spec`, by the identity on `emit` and
  `copies`. `LostAppears` covers the three actions that lose a connection: a copy appears only of an
  emission that is still awaited, which is `AwaitedIsHeld` again. A return needs `ReturnedIsPublished`.

`UserCacheProofs`
- `CacheInvariant`: `TypeOK` and `CacheInv` are inductive together: the answer of the auth service has
  a type only if a request belongs to an id (`PhasesAgree`), and phases speak of typed values.
  `CacheInv` adds to `OwnUser` and `NobodyIsHidden` the phases of a listing: without "one request per
  id, and none before the last lookup" the pairing by index is not inductive.
- `TypeCorrect`, `UsersAreOwn`, `OnlyItsOwnRequestHides` follow. `CompletedMap` is the lemma about the
  map: an entry is what it was or what a request for that very user got.

`ReferencesProofs`
- `VietqrCodeDetermines`, `PayosCodeDetermines`, `CodesDiffer`: what the digits determine. Four digits after
  a number can be told from it; a draw of one digit and one of two make numbers of different lengths
  because the clock keeps its length (`ClockLow`); VietQR's codes are shorter than PayOS's because
  `Window * 1000 <= ClockLow` (10^6 and 10^12).
- `ReferenceInvariant`: rows and settlements are of calls that were made, with the draws of their
  method, and a call keeps what its reference is made of.
- `ReferencesTellMethods`, `OnlyCoincidencesMislead`: the two properties, for every clock and draw.

`DashboardProofs`
- Sums. The code's sums are folds, which need induction over data. The way round it is to count: the
  `Units` of a set are the pairs of an element and one of its units, `Size` is their number, and the
  library's theorems about cardinalities say what the size of a union or a part is. `ChosenIsSize` is the
  one induction, over the subsets of a finite set (a well-founded relation): the fold's equation has
  one solution (`SolutionIsOne`) and `Size` is one (`UnitsSolve`). `SumIsSize` carries it to the
  operator the model uses.
- The calendar. `Quotient` turns a division into a pair of bounds; from it `YearIs` and `MonthIs`: a time
  is in a month exactly if it is between the month's `Start` and the next one's, which `StartsAreOrdered`
  puts one after another, month -1 and month 12 included.
- The report. Payments grouped by month are a partition, so their sums add up (`SumByKey`,
  `MonthsAddUp`). `OverlapsIs`: the three cases at lines 601-634 are exactly "the month and the range have
  a time in common", so no payment found falls in a month that is not shown. `FullYear` and `RangeInYear`
  are about a single state and need only the types of the rows; `ReportOfYearAdds` and `ReportOfRangeAdds`
  say them of every state.
- `DashboardInvariant`: `DashInv` is inductive. `DriftInv` completes the queries that have not answered
  with what they would find now: total and statuses then differ by at most the changes so far,
  since a change moves them one apart or none (`OneApart`) and an answer moves nothing. `SnapshotInv` says
  that while nothing changed every answer is what it would be now, which is what `QuietDashboardIsOneTable`
  and `LastDayIsLost` start from: the first needs that this month's bounds are the report's of that month
  up to now, the second what the day 0 of a month is, in January too (`LastMonthIs`).

`PaymentQueriesProofs`
- `TypeCorrect`: `TypeOK` is inductive.
- `PageMatchesTotal` is `MetaAgrees`, for pages of any size. `MetaInvariant`, behind it, says of the
  query that has run how far it is from what the other would give now: at most the changes since. A
  change moves a count by one at most (`ChangeIsOne`), and a page is no more sensitive than the
  count it is cut from (`PageLengthIsClose`).
- `NoPaymentIsMissed` and `NoPaymentIsRepeated` (`WalkMissesNothing`, `NothingIsShownTwice`) rest on ranks:
  the rank of a payment is the number of those before it in the order asked for, and with no ties a page
  is exactly the payments whose ranks are in its window (`PageIsRanks`). A creation moves no payment to
  a lower rank, and none at all oldest first (`CreateMovesDown`); a settlement that leaves the filter
  alone moves none (`SettleMovesNothing`). So `WalkInvariant` can say of all pages so far: a payment that
  was there at the start has been seen, is on the page under way, or has a rank still to come; and for
  a walk without creations, or oldest first, nothing that was seen has a rank still to come.

`SignaturesProofs`
- Sorting. A field's `Rank` is the number of fields with no greater key, so in ascending order each field
  stands at its rank (`PlaceIsRank`): there is exactly one such sequence (`OneOrder`), whether keys are sorted
  and given their values or fields are sorted (`KeysInOrder`). That is why the order in which keys were put
  or arrive does not matter.
- Flattening. The library's `FlattenSeq` chooses a function that solves a recursive equation; `Flattening`
  shows that there is one, by the least number for which there would be none. `Line(parts, l)` is what the text
  should be: parts and `&` in turn, cut after `l` of them. `JoinedIsLine` is the way of PayOS, MoMo and the
  gateways. `PiecesMakeLine` is the loop of VNPay, which passes over empty values: after `i` keys it has a
  line of twice as many as were not empty (`UpTo`), and the `&` at the end is missing only if the last key
  is not empty. So `Texts`: each side writes a line of the content, and the same one if VNPay's last key is
  there.
- Reading. A line without its `&` is the set of its fields again (`LineTells`), so different contents have
  different lines (`TextsTell`).
- `MessagesAreSigned`: `MessageInvariant` is inductive. It says that VNPay's last key is not empty in what was
  written; if the contents are equal it is not empty in what arrived either (`LastOfContent`), which is
  what `HonestMessageIsAccepted` needs. `ChangedMessageIsRefused` needs only `TextsTell`, with or without the
  `&` at the end.

Every safety property of the runs is proved. Only model-checked are the liveness properties (`PaidIsRecorded`,
`PayosSuccessIsAnnounced`, `EmissionsEnd`, `ListingsReturn`, `StaleEntriesGo`): liveness under fairness is out
of the prover's reach.

## 5. Not modelled

- HTTP framing, logging, mail templates, response wrappers, module wiring and build files have no
  state the properties are about.
- HMAC, URL encoding and the gateways' own servers, the `@payos/node` library, Redis and PostgreSQL
  inside; what a broker does to a channel that acknowledges a `noAck` delivery.
- `generateBookingCode`: its result is not used (line 81). `sortObject` (`vnpay.provider.ts:169`),
  `emitBookingEvent` and `invalidateUserCache` have no caller (the second is modelled all the same).
- The `payment_details` table and the statuses REFUNDED and CANCELLED are never written by the code.
- Values of a wrong type: a body without fields ends in the refusals that are modelled, and a value that is
  neither the text nor the number expected (an object as `transId`) is left out.

## 6. Plan

Done: settlement with its abstract specification, booking payments, references, the event producer
with its abstract specification, the user cache, report and dashboard, queries, signatures.

1. An abstract specification of a listing (each id once, its own user or none) that `UserCache` refines.
2. A composition of creation, settlement and cancellation of one booking that refines both
   `PaymentSettlement` and `BookingPayments`, with a customer who pays through two links as the question.
