--------------------------- MODULE PaymentQueries ---------------------------
(***************************************************************************)
(* findAll (payments.service.ts:381-455): a page of payments and the total *)
(* they are a page of, read by two queries of one Promise.all, for a       *)
(* client that walks through the pages while payments are created and      *)
(* settled under it.                                                       *)
(***************************************************************************)
EXTENDS Integers, FiniteSets

CONSTANTS
    Payment,    \* the payments that may be created
    Limits,     \* the limits a client may give
    MaxTime,    \* bound: the clock, at which payments are created
    MaxSettled, \* bound: settlements
    None        \* no filter

ASSUME QueriesAssumption ==
    /\ IsFiniteSet(Payment)
    /\ Limits \subseteq Int
    /\ MaxTime \in Nat \ {0}
    /\ MaxSettled \in Nat

VARIABLES
    row,        \* row[p]: status and time of creation, or none yet
    now,        \* the clock
    settled,    \* settlements so far
    walk,       \* the client: what it asks for and what it has seen
    reply       \* the answer in the making to the page it asked for last

vars == <<row, now, settled, walk, reply>>

Absent == [status |-> "absent", createdAt |-> 0]
Status == {"PENDING", "SUCCESS", "FAILED"}
Filter == {None, "PENDING", "SUCCESS"}
Query  == {"findMany", "count"}

NoWalk == [phase |-> "idle", sortOrder |-> "desc", limit |-> 1,
           status |-> None, page |-> 1, start |-> {}, seen |-> {}, again |-> {},
           created |-> FALSE, settled |-> FALSE, trusted |-> FALSE]

\* left: the queries still to run; between: changes of the table since the first
\* of them; stale: a payment came after the count and before the page.
NoReply == [left |-> {}, payments |-> {}, total |-> 0, between |-> 0, stale |-> FALSE]

Init ==
    /\ row = [p \in Payment |-> Absent]
    /\ now = 1
    /\ settled = 0
    /\ walk = NoWalk
    /\ reply = NoReply

-----------------------------------------------------------------------------
(* The two queries *)

Exists(p) == row[p] # Absent

Where(status) == {p \in Payment : Exists(p) /\ status \in {None, row[p].status}}

\* p may come before q, sorted by createdAt (the default; another field that does
\* not change is sorted by alike); payments that tie come in any order.
MayPrecede(p, q) ==
    IF walk.sortOrder = "asc" THEN row[p].createdAt <= row[q].createdAt
    ELSE row[p].createdAt >= row[q].createdAt

AtMost(n, bound) == IF n < bound THEN n ELSE bound

\* The pages that the rows may give: take of them, after skip of them.
UnorderedPages(rows, skip, take) ==
    {page \in SUBSET rows :
        Cardinality(page) = AtMost(take, Cardinality(rows) - AtMost(skip, Cardinality(rows)))}
Pages(rows, skip, take) ==
    {page \in SUBSET rows :
        \E before \in SUBSET (rows \ page) :
            /\ Cardinality(before) = AtMost(skip, Cardinality(rows))
            /\ Cardinality(page) = AtMost(take, Cardinality(rows) - Cardinality(before))
            /\ \A p \in before, q \in rows \ before : MayPrecede(p, q)
            /\ \A p \in page, q \in rows \ (before \cup page) : MayPrecede(p, q)}

SkipFromPage(page, limit) == page * limit
Skip(page, limit) == (page - 1) * limit

TotalPages(total, limit) == (total + limit - 1) \div limit

-----------------------------------------------------------------------------
(* A client walks through the pages *)

Ask == [NoReply EXCEPT !.left = Query]

\* A limit below 1 is an error.
Begin ==
    /\ walk.phase = "idle"
    /\ \E sortOrder \in {"asc", "desc"}, limit \in Limits, status \in Filter :
          /\ walk' = [NoWalk EXCEPT
                        !.phase = IF limit < 1 THEN "failed" ELSE "reading",
                        !.sortOrder = sortOrder, !.limit = limit, !.status = status, !.start = Where(status)]
          /\ reply' = IF limit < 1 THEN NoReply ELSE Ask
    /\ UNCHANGED <<row, now, settled>>

FindMany ==
    /\ "findMany" \in reply.left
    /\ \E page \in Pages(Where(walk.status), Skip(walk.page, walk.limit), walk.limit) :
          reply' = [reply EXCEPT !.left = @ \ {"findMany"}, !.payments = page]
    /\ UNCHANGED <<row, now, settled, walk>>

CountAll == Cardinality(Where(None))
Count == Cardinality(Where(walk.status))

CountQuery ==
    /\ "count" \in reply.left
    /\ reply' = [reply EXCEPT !.left = @ \ {"count"}, !.total = Count]
    /\ UNCHANGED <<row, now, settled, walk>>

Answered == walk.phase = "reading" /\ reply.left = {}

\* The client takes the page in, and stops at an empty one; on the last page by
\* the total it may trust the total and stop, or ask on.
Take(trusts) ==
    /\ Answered
    /\ trusts => walk.page >= TotalPages(reply.total, walk.limit)
    /\ LET ends == reply.payments = {} \/ trusts
       IN  /\ walk' = [walk EXCEPT
                         !.phase = IF ends THEN "done" ELSE @,
                         !.page = IF ends THEN @ ELSE @ + 1,
                         !.again = @ \cup (walk.seen \cap reply.payments),
                         !.seen = @ \cup reply.payments,
                         !.trusted = trusts /\ reply.payments # {} /\ reply.stale]
           /\ reply' = IF ends THEN NoReply ELSE Ask
    /\ UNCHANGED <<row, now, settled>>

-----------------------------------------------------------------------------
(* Meanwhile, the table changes *)

\* Changes are followed until the walk is over.
Walking == walk.phase \notin {"done", "failed"}

\* A change falls between the two queries when one of them has run.
Between == IF Cardinality(reply.left) = 1 THEN 1 ELSE 0

Create(p) ==
    /\ Walking
    /\ ~Exists(p)
    /\ row' = [row EXCEPT ![p] = [status |-> "PENDING", createdAt |-> now]]
    /\ walk' = [walk EXCEPT !.created = walk.phase = "reading" \/ @]
    /\ reply' = [reply EXCEPT !.between = @ + Between, !.stale = @ \/ reply.left = {"findMany"}]
    /\ UNCHANGED <<now, settled>>

Settle(p) ==
    /\ Walking
    /\ Exists(p)
    /\ settled < MaxSettled
    /\ settled' = settled + 1
    /\ \E status \in {"SUCCESS", "FAILED"} \ {row[p].status} :
          row' = [row EXCEPT ![p].status = status]
    /\ walk' = [walk EXCEPT !.settled = walk.phase = "reading" \/ @]
    /\ reply' = [reply EXCEPT !.between = @ + Between]
    /\ UNCHANGED now

Tick ==
    /\ Walking
    /\ now < MaxTime
    /\ now' = now + 1
    /\ UNCHANGED <<row, settled, walk, reply>>

Next ==
    \/ Begin
    \/ FindMany
    \/ CountQuery
    \/ \E trusts \in BOOLEAN : Take(trusts)
    \/ \E p \in Payment : Create(p) \/ Settle(p)
    \/ Tick

Spec == Init /\ [][Next]_vars

-----------------------------------------------------------------------------
(* Properties *)

\* No two payments tie: the order has no tie-break (line 428).
NoTies == \A p, q \in Payment :
    p # q /\ Exists(p) /\ Exists(q) => row[p].createdAt # row[q].createdAt

\* No payment changes sides of the filter during the walk.
FilterIsStable == walk.status = None \/ ~walk.settled

\* Pages are cut by offset, and rows may come in above it (lines 401-436): a
\* finished walk still misses no payment that was there when it began, whatever
\* was created meanwhile, when nothing ties, the filter is stable, and it did
\* not stop by a total that was read before a payment came and the page after.
WalkMissesNothing ==
    walk.phase = "done" /\ NoTies /\ FilterIsStable /\ ~walk.trusted
        => walk.start \subseteq walk.seen

\* A payment is shown twice only when rows came in above it, leave the filter or
\* tie: never oldest first (lines 428-436).
NothingIsShownTwice ==
    /\ NoTies
    /\ FilterIsStable
    /\ ~walk.created \/ walk.sortOrder = "asc"
    => walk.again = {}

Distance(m, n) == IF m < n THEN n - m ELSE m - n

\* Page and total are two queries (lines 430-438): a page is as long as its
\* total says, give or take the payments created or settled between the two.
MetaAgrees ==
    Answered =>
        LET rest == reply.total - Skip(walk.page, walk.limit)
        IN  Distance(Cardinality(reply.payments),
                     AtMost(walk.limit, IF rest < 0 THEN 0 ELSE rest)) <= reply.between
=============================================================================
