------------------------ MODULE PaymentQueriesProofs ------------------------
(***************************************************************************)
(* A page and its total agree up to the changes between their two queries, *)
(* and a walk through the pages misses and repeats nothing, for any        *)
(* payments, limits, pages, filters and any number of changes.             *)
(***************************************************************************)
EXTENDS PaymentQueries, FiniteSetTheorems, TLAPS

-----------------------------------------------------------------------------
Walk == [phase: {"idle", "reading", "done", "failed"}, sortOrder: {"asc", "desc"},
         limit: Int, status: Filter, page: Nat \ {0}, start: SUBSET Payment,
         seen: SUBSET Payment, again: SUBSET Payment,
         created: BOOLEAN, settled: BOOLEAN, trusted: BOOLEAN]

ReplyType == [left: SUBSET Query, payments: SUBSET Payment, total: Nat,
              between: Nat, stale: BOOLEAN]

TypeOK ==
    /\ row \in [Payment -> [status: Status \cup {"absent"}, createdAt: Nat]]
    /\ now \in Nat
    /\ walk \in Walk
    /\ reply \in ReplyType
    /\ walk.phase = "reading" => walk.limit >= 1
    /\ walk.phase # "reading" => reply = NoReply

\* How long the page is of n payments, after skip of them.
PageLength(n, skip, limit) == AtMost(limit, IF n - skip < 0 THEN 0 ELSE n - skip)
ThisPage(n) == PageLength(n, Skip(walk.page, walk.limit), walk.limit)

\* What the query that has run gave is what the other would give now, but for the
\* changes since.
MetaInv ==
    walk.phase = "reading" =>
        /\ reply.left = Query => reply.between = 0
        /\ reply.left = {"count"} =>
              Distance(Cardinality(reply.payments), ThisPage(Count)) <= reply.between
        /\ reply.left = {"findMany"} => Distance(reply.total, Count) <= reply.between
        /\ reply.left = {} =>
              Distance(Cardinality(reply.payments), ThisPage(reply.total)) <= reply.between

-----------------------------------------------------------------------------
(* Arithmetic of pages                                                     *)

\* Distance is a metric.
LEMMA DistanceFacts ==
    ASSUME NEW k \in Nat, NEW m \in Nat, NEW n \in Nat
    PROVE  /\ Distance(m, m) = 0
           /\ Distance(m, n) \in Nat
           /\ Distance(m, n) = Distance(n, m)
           /\ Distance(k, n) <= Distance(k, m) + Distance(m, n)
BY DEF Distance

\* Pages are no further apart than what they are pages of.
LEMMA PageLengthIsClose ==
    ASSUME NEW m \in Nat, NEW n \in Nat, NEW skip \in Nat, NEW limit \in Nat
    PROVE  /\ PageLength(m, skip, limit) \in Nat
           /\ Distance(PageLength(m, skip, limit), PageLength(n, skip, limit)) <= Distance(m, n)
BY DEF PageLength, AtMost, Distance

\* No page begins before the first payment.
LEMMA SkipType ==
    ASSUME NEW page \in Nat \ {0}, NEW limit \in Nat PROVE Skip(page, limit) \in Nat
<1>1. page - 1 \in Nat
  OBVIOUS
<1> QED
  BY <1>1 DEF Skip

\* A page that findMany may give has that length.
LEMMA PageHasLength ==
    ASSUME NEW rows, IsFiniteSet(rows), NEW skip \in Nat, NEW take \in Nat,
           NEW page \in Pages(rows, skip, take)
    PROVE  Cardinality(page) = PageLength(Cardinality(rows), skip, take)
<1>1. Cardinality(rows) \in Nat
  BY FS_CardinalityType
<1>2. Cardinality(page) =
        AtMost(take, Cardinality(rows) - AtMost(skip, Cardinality(rows)))
  BY DEF Pages
<1> QED
  BY <1>1, <1>2 DEF PageLength, AtMost

-----------------------------------------------------------------------------
(* The table                                                               *)

\* What a filter finds can be counted, before a step and after it.
LEMMA WhereIsFinite ==
    ASSUME NEW status
    PROVE  /\ IsFiniteSet(Where(status)) /\ Cardinality(Where(status)) \in Nat
           /\ IsFiniteSet(Where(status)') /\ Cardinality(Where(status)') \in Nat
<1>1. Where(status) \subseteq Payment /\ Where(status)' \subseteq Payment
  BY DEF Where
<1>2. IsFiniteSet(Where(status)) /\ IsFiniteSet(Where(status)')
  BY <1>1, FS_Subset, QueriesAssumption
<1> QED
  BY <1>2, FS_CardinalityType

\* A set that differs from another in one element is no further than one from it.
LEMMA OneApart ==
    ASSUME NEW S, NEW T, NEW x, IsFiniteSet(S), IsFiniteSet(T), S \ {x} = T \ {x}
    PROVE  Distance(Cardinality(S), Cardinality(T)) <= 1
<1>1. /\ Cardinality(S \ {x}) = IF x \in S THEN Cardinality(S) - 1 ELSE Cardinality(S)
      /\ Cardinality(T \ {x}) = IF x \in T THEN Cardinality(T) - 1 ELSE Cardinality(T)
  BY FS_RemoveElement
<1>2. Cardinality(S) \in Nat /\ Cardinality(T) \in Nat
  BY FS_CardinalityType
<1> QED
  BY <1>1, <1>2 DEF Distance

\* A change of one payment changes every count by one at most.
LEMMA ChangeIsOne ==
    ASSUME NEW p \in Payment, NEW status, \A q \in Payment : q # p => row'[q] = row[q]
    PROVE  Distance(Cardinality(Where(status)), Cardinality(Where(status)')) <= 1
<1>1. Where(status) \ {p} = Where(status)' \ {p}
  BY DEF Where, Exists
<1> QED
  BY <1>1, WhereIsFinite, OneApart

-----------------------------------------------------------------------------
(* Types                                                                   *)

\* The records a client and an answer start from.
LEMMA ConstantTypes ==
    /\ NoReply \in ReplyType /\ NoReply.left = {}
    /\ Ask \in ReplyType /\ Ask.left = Query /\ Ask.between = 0
    /\ NoWalk \in Walk /\ NoWalk.phase = "idle"
<1>1. NoReply \in ReplyType /\ NoReply.left = {}
  BY DEF NoReply, ReplyType
<1>2. NoReply.between = 0
  BY DEF NoReply
<1>3. Ask \in ReplyType /\ Ask.left = Query /\ Ask.between = 0
  <2>1. Ask = [NoReply EXCEPT !.left = Query]
    BY DEF Ask
  <2> QED
    BY <1>1, <1>2, <2>1 DEF ReplyType
<1>4. NoWalk \in Walk /\ NoWalk.phase = "idle"
  BY DEF NoWalk, Walk, Filter
<1> QED
  BY <1>1, <1>3, <1>4

\* Nothing is there at first.
LEMMA TypeInit == Init => TypeOK
BY ConstantTypes DEF Init, TypeOK, Absent

\* Every step keeps the types, and an answer to those who read.
LEMMA TypeStep == TypeOK /\ [Next]_vars => TypeOK'
<1> SUFFICES ASSUME TypeOK, [Next]_vars PROVE TypeOK'
  OBVIOUS
<1>1. CASE Begin
  <2> PICK sortOrder \in {"asc", "desc"}, limit \in Limits, status \in Filter :
        /\ walk' = [NoWalk EXCEPT
                      !.phase = IF limit < 1 THEN "failed" ELSE "reading",
                      !.sortOrder = sortOrder, !.limit = limit, !.status = status,
                      !.start = Where(status)]
        /\ reply' = IF limit < 1 THEN NoReply ELSE Ask
    BY <1>1 DEF Begin
  <2>1. Where(status) \in SUBSET Payment /\ limit \in Int
    BY QueriesAssumption DEF Where
  <2>2. walk' \in Walk /\ walk'.limit = limit
        /\ walk'.phase = IF limit < 1 THEN "failed" ELSE "reading"
    <3>1. walk' = [NoWalk EXCEPT
                     !.phase = IF limit < 1 THEN "failed" ELSE "reading",
                     !.sortOrder = sortOrder, !.limit = limit, !.status = status,
                     !.start = Where(status)]
      OBVIOUS
    <3> PICK phase \in {"failed", "reading"} : phase = IF limit < 1 THEN "failed" ELSE "reading"
      OBVIOUS
    <3>2. walk' = [NoWalk EXCEPT !.phase = phase, !.sortOrder = sortOrder, !.limit = limit,
                                 !.status = status, !.start = Where(status)]
      BY <3>1
    <3>3. NoWalk \in Walk /\ NoWalk.page = 1
      BY ConstantTypes DEF NoWalk
    <3> QED
      BY <2>1, <3>2, <3>3 DEF Walk
  <2> QED
    BY <1>1, <2>1, <2>2, ConstantTypes DEF Begin, TypeOK
<1>2. CASE FindMany
  <2> PICK page \in Pages(Where(walk.status), Skip(walk.page, walk.limit), walk.limit) :
        reply' = [reply EXCEPT !.left = @ \ {"findMany"}, !.payments = page]
    BY <1>2 DEF FindMany
  <2>1. page \in SUBSET Payment
    BY DEF Pages, Where
  <2>2. walk.phase = "reading"
    BY <1>2, ConstantTypes DEF FindMany, TypeOK
  <2>3. reply' \in ReplyType
    BY <2>1 DEF TypeOK, ReplyType
  <2> QED
    BY <1>2, <2>2, <2>3 DEF FindMany, TypeOK
<1>3. CASE CountQuery
  <2>1. Count \in Nat
    BY WhereIsFinite DEF Count
  <2>2. walk.phase = "reading"
    BY <1>3, ConstantTypes DEF CountQuery, TypeOK
  <2>3. reply' \in ReplyType
    BY <1>3, <2>1 DEF CountQuery, TypeOK, ReplyType
  <2> QED
    BY <1>3, <2>2, <2>3 DEF CountQuery, TypeOK
<1>4. ASSUME NEW trusts \in BOOLEAN, Take(trusts) PROVE TypeOK'
  <2> PICK ends \in BOOLEAN : ends = (reply.payments = {} \/ trusts)
    OBVIOUS
  <2>1. /\ walk' = [walk EXCEPT
                      !.phase = IF ends THEN "done" ELSE @,
                      !.page = IF ends THEN @ ELSE @ + 1,
                      !.again = @ \cup (walk.seen \cap reply.payments),
                      !.seen = @ \cup reply.payments,
                      !.trusted = trusts /\ reply.payments # {} /\ reply.stale]
        /\ reply' = IF ends THEN NoReply ELSE Ask
        /\ UNCHANGED <<row, now>>
        /\ walk.phase = "reading"
    BY <1>4 DEF Take, Answered
  <2>2. walk' \in Walk
    <3> PICK trusted \in BOOLEAN : trusted = (trusts /\ reply.payments # {} /\ reply.stale)
      OBVIOUS
    <3> PICK phase \in {"done", "reading"} : phase = IF ends THEN "done" ELSE walk.phase
      BY <2>1
    <3> PICK page \in Nat \ {0} : page = IF ends THEN walk.page ELSE walk.page + 1
      BY DEF TypeOK, Walk
    <3> PICK seen \in SUBSET Payment : seen = walk.seen \cup reply.payments
      BY DEF TypeOK, Walk, ReplyType
    <3> PICK again \in SUBSET Payment :
          again = walk.again \cup (walk.seen \cap reply.payments)
      BY DEF TypeOK, Walk, ReplyType
    <3>1. walk' = [walk EXCEPT !.phase = phase, !.page = page, !.again = again,
                               !.seen = seen, !.trusted = trusted]
      BY <2>1
    <3> QED
      BY <3>1 DEF TypeOK, Walk
  <2>3. walk'.limit = walk.limit /\ walk'.phase = IF ends THEN "done" ELSE "reading"
    BY <2>1 DEF TypeOK, Walk
  <2> QED
    BY <2>1, <2>2, <2>3, ConstantTypes DEF TypeOK
<1>5. Between \in Nat
  BY DEF Between
<1>6. walk.phase # "reading" => Between = 0
  BY FS_EmptySet, ConstantTypes DEF Between, TypeOK
<1>7. ASSUME NEW p \in Payment, Create(p) PROVE TypeOK'
  <2>1. row' \in [Payment -> [status: Status \cup {"absent"}, createdAt: Nat]]
    BY <1>7 DEF Create, TypeOK, Status
  <2>2. /\ walk' \in Walk /\ walk'.limit = walk.limit /\ walk'.phase = walk.phase
    BY <1>7 DEF Create, TypeOK, Walk
  <2>3. reply' \in ReplyType
    <3> PICK stale \in BOOLEAN : stale = (reply.stale \/ reply.left = {"findMany"})
      BY DEF TypeOK, ReplyType
    <3>1. reply' = [reply EXCEPT !.between = @ + Between, !.stale = stale]
      BY <1>7 DEF Create
    <3> PICK between \in Nat : between = reply.between + Between
      BY <1>5 DEF TypeOK, ReplyType
    <3>2. reply' = [reply EXCEPT !.between = between, !.stale = stale]
      BY <3>1
    <3> QED
      BY <3>2 DEF TypeOK, ReplyType
  <2>4. walk.phase # "reading" => reply' = NoReply
    <3> SUFFICES ASSUME walk.phase # "reading" PROVE reply' = NoReply
      OBVIOUS
    <3>1. reply = NoReply /\ Between = 0
      BY <1>6 DEF TypeOK
    <3>2. NoReply.stale = FALSE /\ NoReply.left # {"findMany"} /\ NoReply.between = 0
      BY DEF NoReply
    <3> PICK stale \in BOOLEAN : stale = (reply.stale \/ reply.left = {"findMany"})
      BY DEF TypeOK, ReplyType
    <3>3. stale = FALSE
      <4>1. ~stale
        BY <3>1, <3>2
      <4> QED
        BY <4>1, Zenon
    <3>4. reply' = [reply EXCEPT !.between = @ + Between, !.stale = stale]
      BY <1>7 DEF Create
    <3>5. NoReply.stale = stale
      BY <3>2, <3>3, Zenon
    <3>6. reply' = [NoReply EXCEPT !.between = 0, !.stale = stale]
      <4>1. NoReply.between + Between = 0
        BY <3>1, <3>2
      <4> QED
        BY <3>1, <3>4, <4>1
    <3> HIDE DEF NoReply
    <3>7. NoReply \in ReplyType /\ NoReply.between = 0 /\ NoReply.stale = stale
      BY <3>2, <3>5, ConstantTypes
    <3> QED
      BY <3>6, <3>7 DEF ReplyType
  <2> QED
    BY <1>7, <2>1, <2>2, <2>3, <2>4 DEF Create, TypeOK
<1>8. ASSUME NEW p \in Payment, Settle(p) PROVE TypeOK'
  <2>1. row' \in [Payment -> [status: Status \cup {"absent"}, createdAt: Nat]]
    BY <1>8 DEF Settle, TypeOK, Status
  <2>2. /\ walk' \in Walk /\ walk'.limit = walk.limit /\ walk'.phase = walk.phase
    BY <1>8 DEF Settle, TypeOK, Walk
  <2>3. reply' \in ReplyType
    BY <1>5, <1>8 DEF Settle, TypeOK, ReplyType
  <2>4. walk.phase # "reading" => reply' = NoReply
    <3> SUFFICES ASSUME walk.phase # "reading" PROVE reply' = NoReply
      OBVIOUS
    <3>1. reply = NoReply /\ Between = 0
      BY <1>6 DEF TypeOK
    <3>2. NoReply.between + Between = 0
      BY <3>1 DEF NoReply
    <3>3. reply' = [reply EXCEPT !.between = @ + Between]
      BY <1>8 DEF Settle
    <3>4. reply' = [NoReply EXCEPT !.between = 0]
      BY <3>1, <3>2, <3>3
    <3> QED
      BY <3>4 DEF NoReply
  <2> QED
    BY <1>8, <2>1, <2>2, <2>3, <2>4 DEF Settle, TypeOK
<1>9. CASE Tick
  BY <1>9 DEF Tick, TypeOK
<1>10. CASE UNCHANGED vars
  BY <1>10 DEF vars, TypeOK
<1> QED
  BY <1>1, <1>2, <1>3, <1>4, <1>7, <1>8, <1>9, <1>10 DEF Next

-----------------------------------------------------------------------------
(* The inductive invariant                                                 *)

\* What a page is cut with is of a type once a client reads.
LEMMA PageTypes ==
    ASSUME TypeOK, walk.phase = "reading"
    PROVE  /\ walk.limit \in Nat
           /\ Skip(walk.page, walk.limit) \in Nat
           /\ reply.between \in Nat /\ reply.total \in Nat
           /\ \A n \in Nat : ThisPage(n) \in Nat
           /\ Count \in Nat
           /\ Cardinality(reply.payments) \in Nat
<1>1. walk.limit \in Nat /\ walk.page \in Nat \ {0}
  BY DEF TypeOK, Walk
<1>2. Skip(walk.page, walk.limit) \in Nat
  BY <1>1, SkipType
<1>3. \A n \in Nat : ThisPage(n) \in Nat
  BY <1>1, <1>2, PageLengthIsClose DEF ThisPage
<1>4. reply.payments \in SUBSET Payment /\ reply.between \in Nat /\ reply.total \in Nat
  BY DEF TypeOK, ReplyType
<1>5. Cardinality(reply.payments) \in Nat
  BY <1>4, FS_Subset, FS_CardinalityType, QueriesAssumption
<1> QED
  BY <1>1, <1>2, <1>3, <1>4, <1>5, WhereIsFinite DEF Count

\* The page cut now is no further from another than what both are cut from.
LEMMA ThisPageIsClose ==
    ASSUME TypeOK, walk.phase = "reading", NEW m \in Nat, NEW n \in Nat
    PROVE  /\ Distance(ThisPage(m), ThisPage(n)) <= Distance(m, n)
           /\ Distance(ThisPage(m), ThisPage(n)) \in Nat
           /\ Distance(m, n) \in Nat
           /\ Distance(m, n) = Distance(n, m)
<1> DEFINE skip == Skip(walk.page, walk.limit)
           limit == walk.limit
<1>1. skip \in Nat /\ limit \in Nat
  BY PageTypes
<1>2. ThisPage(m) = PageLength(m, skip, limit) /\ ThisPage(n) = PageLength(n, skip, limit)
  BY DEF ThisPage
<1> HIDE DEF skip, limit
<1>3. /\ PageLength(m, skip, limit) \in Nat
      /\ PageLength(n, skip, limit) \in Nat
      /\ Distance(PageLength(m, skip, limit), PageLength(n, skip, limit)) <= Distance(m, n)
  BY <1>1, PageLengthIsClose
<1>4. Distance(PageLength(m, skip, limit), PageLength(n, skip, limit)) \in Nat
  BY <1>3, DistanceFacts
<1> QED
  BY <1>2, <1>3, <1>4, DistanceFacts

\* A new request has run neither query.
LEMMA MetaAskStep ==
    ASSUME walk'.phase = "reading" => reply' = Ask PROVE MetaInv'
BY ConstantTypes DEF MetaInv, Query

\* The second query gives what the first allows for.
LEMMA MetaQueryStep ==
    ASSUME TypeOK, MetaInv, FindMany \/ CountQuery PROVE MetaInv'
<1>1. walk.phase = "reading" /\ walk' = walk /\ row' = row
  BY ConstantTypes DEF FindMany, CountQuery, TypeOK
<1>2. Count' = Count /\ \A n : ThisPage(n)' = ThisPage(n)
  BY <1>1 DEF Count, Where, Exists, ThisPage
<1>3. reply.left \subseteq Query /\ reply \in ReplyType
  BY DEF TypeOK, ReplyType
<1>4. CASE FindMany
  <2> PICK page \in Pages(Where(walk.status), Skip(walk.page, walk.limit), walk.limit) :
        reply' = [reply EXCEPT !.left = @ \ {"findMany"}, !.payments = page]
    BY <1>4 DEF FindMany
  <2>1. /\ reply'.left = reply.left \ {"findMany"} /\ reply'.payments = page
        /\ reply'.total = reply.total /\ reply'.between = reply.between
    BY <1>3 DEF ReplyType
  <2>2. Cardinality(page) = ThisPage(Count)
    BY <1>1, PageTypes, WhereIsFinite, PageHasLength DEF ThisPage, Count
  <2>3. reply.left = Query \/ reply.left = {"findMany"}
    BY <1>3, <1>4 DEF FindMany, Query
  <2>4. Distance(ThisPage(Count), ThisPage(Count)) = 0
    BY <1>1, PageTypes, DistanceFacts
  <2>5. reply.left = Query => reply'.left = {"count"}
    BY <2>1 DEF Query
  <2>6. reply.left = {"findMany"} => reply'.left = {}
    BY <2>1
  <2>7. CASE reply.left = Query
    BY <1>1, <1>2, <2>1, <2>2, <2>4, <2>5, <2>7, PageTypes DEF MetaInv, Query
  <2>8. CASE reply.left = {"findMany"}
    <3>1. Distance(reply.total, Count) <= reply.between
      BY <1>1, <2>8 DEF MetaInv
    <3>2. /\ Distance(ThisPage(Count), ThisPage(reply.total)) <= Distance(Count, reply.total)
          /\ Distance(Count, reply.total) = Distance(reply.total, Count)
          /\ Distance(Count, reply.total) \in Nat
          /\ Distance(ThisPage(Count), ThisPage(reply.total)) \in Nat
      BY <1>1, ThisPageIsClose, PageTypes
    <3>3. Distance(ThisPage(Count), ThisPage(reply.total)) <= reply.between
      BY <1>1, <3>1, <3>2, PageTypes
    <3> QED
      BY <1>1, <1>2, <2>1, <2>2, <2>6, <2>8, <3>3 DEF MetaInv, Query
  <2> QED
    BY <2>3, <2>7, <2>8
<1>5. CASE CountQuery
  <2>1. /\ reply'.left = reply.left \ {"count"} /\ reply'.payments = reply.payments
        /\ reply'.total = Count /\ reply'.between = reply.between
    BY <1>3, <1>5 DEF CountQuery, ReplyType
  <2>2. reply.left = Query \/ reply.left = {"count"}
    BY <1>3, <1>5 DEF CountQuery, Query
  <2>3. Distance(Count, Count) = 0
    BY <1>1, PageTypes, DistanceFacts
  <2>4. CASE reply.left = Query
    <3>1. reply'.left = {"findMany"}
      BY <2>1, <2>4 DEF Query
    <3> QED
      BY <1>1, <1>2, <2>1, <2>3, <3>1, PageTypes DEF MetaInv, Query
  <2>5. CASE reply.left = {"count"}
    <3>1. reply'.left = {}
      BY <2>1, <2>5
    <3>2. Distance(Cardinality(reply.payments), ThisPage(Count)) <= reply.between
      BY <1>1, <2>5 DEF MetaInv
    <3> QED
      BY <1>1, <1>2, <2>1, <3>1, <3>2 DEF MetaInv, Query
  <2> QED
    BY <2>2, <2>4, <2>5
<1> QED
  BY <1>4, <1>5

\* A change between the two queries moves every count by one at most, and is counted.
LEMMA MetaChangeStep ==
    ASSUME TypeOK, TypeOK', MetaInv,
           NEW p \in Payment, \A q \in Payment : q # p => row'[q] = row[q],
           /\ walk'.phase = walk.phase /\ walk'.limit = walk.limit
           /\ walk'.page = walk.page /\ walk'.status = walk.status,
           /\ reply'.left = reply.left /\ reply'.payments = reply.payments
           /\ reply'.total = reply.total /\ reply'.between = reply.between + Between
    PROVE  MetaInv'
<1> SUFFICES ASSUME walk.phase = "reading"
             PROVE  /\ reply.left = Query => reply'.between = 0
                    /\ reply.left = {"count"} =>
                         Distance(Cardinality(reply.payments), ThisPage(Count')) <= reply'.between
                    /\ reply.left = {"findMany"} =>
                         Distance(reply.total, Count') <= reply'.between
                    /\ reply.left = {} =>
                         Distance(Cardinality(reply.payments), ThisPage(reply.total)) <= reply'.between
  BY DEF MetaInv, ThisPage, Query
<1>1. /\ Cardinality({}) = 0 /\ Cardinality(Query) = 2
      /\ Cardinality({"count"}) = 1 /\ Cardinality({"findMany"}) = 1
  <2>1. Cardinality({}) = 0
    BY FS_EmptySet
  <2>2. \A query : IsFiniteSet({query}) /\ Cardinality({query}) = 1
    BY FS_Singleton
  <2>3. Cardinality({"findMany"} \cup {"count"}) = Cardinality({"findMany"}) + 1
    BY <2>2, FS_AddElement
  <2>4. Query = {"findMany"} \cup {"count"}
    BY DEF Query
  <2>5. Cardinality({"count"}) = 1 /\ Cardinality({"findMany"}) = 1
    BY <2>2
  <2>6. Cardinality(Query) = Cardinality({"findMany"}) + 1
    BY <2>3, <2>4, Zenon
  <2>7. Cardinality(Query) = 2
    BY <2>5, <2>6
  <2> QED
    BY <2>1, <2>5, <2>7, Zenon
<1>2. Count \in Nat /\ Count' \in Nat
  <2> PICK status : status = walk.status
    OBVIOUS
  <2>1. Cardinality(Where(status)) \in Nat /\ Cardinality(Where(status)') \in Nat
    BY WhereIsFinite
  <2> QED
    BY <2>1 DEF Count
<1>3. Distance(Count, Count') <= 1
  <2> PICK status : status = walk.status
    OBVIOUS
  <2>1. Distance(Cardinality(Where(status)), Cardinality(Where(status)')) <= 1
    BY ChangeIsOne
  <2>2. Count = Cardinality(Where(status)) /\ Count' = Cardinality(Where(status)')
    BY DEF Count
  <2> QED
    BY <2>1, <2>2
<1>4. reply.between \in Nat /\ reply.total \in Nat /\ Cardinality(reply.payments) \in Nat
  BY PageTypes
<1>5. reply.left = Query => reply'.between = 0
  BY <1>1, <1>4 DEF MetaInv, Between
<1>6. ASSUME reply.left = {"count"}
      PROVE  Distance(Cardinality(reply.payments), ThisPage(Count')) <= reply'.between
  <2> PICK length \in Nat, before \in Nat, after \in Nat :
        length = Cardinality(reply.payments) /\ before = Count /\ after = Count'
    BY <1>2, <1>4
  <2>1. reply'.between = reply.between + 1
    BY <1>1, <1>6 DEF Between
  <2>2. Distance(length, ThisPage(before)) <= reply.between
    BY <1>6 DEF MetaInv
  <2>3. /\ Distance(ThisPage(before), ThisPage(after)) <= Distance(before, after)
        /\ Distance(before, after) \in Nat /\ Distance(before, after) <= 1
        /\ Distance(ThisPage(before), ThisPage(after)) \in Nat
    BY <1>3, ThisPageIsClose
  <2>4. ThisPage(before) \in Nat /\ ThisPage(after) \in Nat
    BY PageTypes
  <2>5. /\ Distance(length, ThisPage(after)) <=
              Distance(length, ThisPage(before)) + Distance(ThisPage(before), ThisPage(after))
        /\ Distance(length, ThisPage(after)) \in Nat /\ Distance(length, ThisPage(before)) \in Nat
    BY <2>4, DistanceFacts
  <2>6. Distance(length, ThisPage(after)) <= reply'.between
    BY <1>4, <2>1, <2>2, <2>3, <2>5
  <2> QED
    BY <2>6
<1>7. ASSUME reply.left = {"findMany"}
      PROVE  Distance(reply.total, Count') <= reply'.between
  <2> PICK total \in Nat, before \in Nat, after \in Nat :
        total = reply.total /\ before = Count /\ after = Count'
    BY <1>2, <1>4
  <2>1. reply'.between = reply.between + 1
    BY <1>1, <1>7 DEF Between
  <2>2. Distance(total, before) <= reply.between /\ Distance(before, after) <= 1
    BY <1>3, <1>7 DEF MetaInv
  <2>3. /\ Distance(total, after) <= Distance(total, before) + Distance(before, after)
        /\ Distance(total, before) \in Nat /\ Distance(before, after) \in Nat
        /\ Distance(total, after) \in Nat
    BY DistanceFacts
  <2> QED
    BY <1>4, <2>1, <2>2, <2>3
<1>8. reply.left = {} =>
        Distance(Cardinality(reply.payments), ThisPage(reply.total)) <= reply'.between
  BY <1>1, <1>4 DEF MetaInv, Between
<1> QED
  BY <1>5, <1>6, <1>7, <1>8

\* Every step keeps the invariant.
LEMMA MetaStep == TypeOK /\ TypeOK' /\ MetaInv /\ [Next]_vars => MetaInv'
<1> SUFFICES ASSUME TypeOK, TypeOK', MetaInv, [Next]_vars PROVE MetaInv'
  OBVIOUS
<1>1. CASE Begin
  <2> PICK sortOrder \in {"asc", "desc"}, limit \in Limits, status \in Filter :
        /\ walk' = [NoWalk EXCEPT
                      !.phase = IF limit < 1 THEN "failed" ELSE "reading",
                      !.sortOrder = sortOrder, !.limit = limit, !.status = status,
                      !.start = Where(status)]
        /\ reply' = IF limit < 1 THEN NoReply ELSE Ask
    BY <1>1 DEF Begin
  <2>1. walk'.phase = IF limit < 1 THEN "failed" ELSE "reading"
    BY DEF NoWalk
  <2> QED
    BY <2>1, MetaAskStep
<1>2. CASE FindMany \/ CountQuery
  BY <1>2, MetaQueryStep
<1>3. ASSUME NEW trusts \in BOOLEAN, Take(trusts) PROVE MetaInv'
  <2> PICK ends \in BOOLEAN : ends = (reply.payments = {} \/ trusts)
    OBVIOUS
  <2>1. reply' = IF ends THEN NoReply ELSE Ask
    BY <1>3 DEF Take
  <2>2. CASE ends
    <3>1. walk' = [walk EXCEPT
                     !.phase = "done", !.page = walk.page,
                     !.again = @ \cup (walk.seen \cap reply.payments),
                     !.seen = @ \cup reply.payments,
                     !.trusted = trusts /\ reply.payments # {} /\ reply.stale]
      BY <1>3, <2>2 DEF Take
    <3>2. walk'.phase = "done"
      BY <3>1 DEF TypeOK, Walk
    <3> QED
      BY <3>2, MetaAskStep
  <2>3. CASE ~ends
    BY <2>1, <2>3, MetaAskStep
  <2> QED
    BY <2>2, <2>3
<1>4. Between \in Nat
  BY DEF Between
<1>5. ASSUME NEW p \in Payment, Create(p) PROVE MetaInv'
  <2>1. \A q \in Payment : q # p => row'[q] = row[q]
    BY <1>5 DEF Create, TypeOK
  <2>2. /\ walk'.phase = walk.phase /\ walk'.limit = walk.limit
        /\ walk'.page = walk.page /\ walk'.status = walk.status
    BY <1>5 DEF Create, TypeOK, Walk
  <2>3. /\ reply'.left = reply.left /\ reply'.payments = reply.payments
        /\ reply'.total = reply.total /\ reply'.between = reply.between + Between
    BY <1>5 DEF Create, TypeOK, ReplyType
  <2> QED
    BY <2>1, <2>2, <2>3, MetaChangeStep
<1>6. ASSUME NEW p \in Payment, Settle(p) PROVE MetaInv'
  <2>1. \A q \in Payment : q # p => row'[q] = row[q]
    BY <1>6 DEF Settle, TypeOK
  <2>2. /\ walk'.phase = walk.phase /\ walk'.limit = walk.limit
        /\ walk'.page = walk.page /\ walk'.status = walk.status
    BY <1>6 DEF Settle, TypeOK, Walk
  <2>3. /\ reply'.left = reply.left /\ reply'.payments = reply.payments
        /\ reply'.total = reply.total /\ reply'.between = reply.between + Between
    BY <1>6 DEF Settle, TypeOK, ReplyType
  <2> QED
    BY <2>1, <2>2, <2>3, MetaChangeStep
<1>7. CASE Tick \/ UNCHANGED vars
  BY <1>7 DEF Tick, vars, MetaInv, Count, Where, Exists, ThisPage, Query
<1> QED
  BY <1>1, <1>2, <1>3, <1>5, <1>6, <1>7 DEF Next

-----------------------------------------------------------------------------
(* The walk *)

\* p comes before q, and not q before p.
Before(p, q) ==
    IF walk.sortOrder = "asc" THEN row[p].createdAt < row[q].createdAt
    ELSE row[p].createdAt > row[q].createdAt

\* How many payments of the filter come before p.
Preceding(p) == {q \in Where(walk.status) : Before(q, p)}
Rank(p) == Cardinality(Preceding(p))

\* The first rank of the page, and of the next one.
First == Skip(walk.page, walk.limit)
Fetched == "findMany" \notin reply.left

\* No payment is of the future.
CreatedByNow == \A p \in Payment : Exists(p) => row[p].createdAt <= now

\* What both properties of a walk ask for.
OrderIsKept == NoTies /\ FilterIsStable

\* What was shown is of the pages before, what was fetched is of this one.
ShownInv ==
    OrderIsKept /\ (~walk.created \/ walk.sortOrder = "asc") =>
        /\ walk.again = {}
        /\ walk.phase = "reading" =>
              /\ \A p \in walk.seen : Exists(p) /\ Rank(p) < First
              /\ Fetched => \A p \in reply.payments :
                               Exists(p) /\ First <= Rank(p) /\ Rank(p) < First + walk.limit

\* What was there when the walk began and was not shown yet is still to come, and
\* a total that is not stale says so.
ComingInv ==
    OrderIsKept /\ walk.phase = "reading" =>
        /\ walk.start \subseteq Where(walk.status)
        /\ ~Fetched => \A p \in walk.start \ walk.seen : First <= Rank(p)
        /\ Fetched =>
              /\ \A p \in walk.start \ (walk.seen \cup reply.payments) :
                    First + walk.limit <= Rank(p)
              /\ reply.payments = {} => walk.start \subseteq walk.seen
        /\ ~reply.stale =>
              /\ reply.left = {"findMany"} => reply.total = Count
              /\ reply.left = {} => \/ walk.start \subseteq walk.seen \cup reply.payments
                                    \/ First + walk.limit < reply.total

-----------------------------------------------------------------------------
(* Ranks *)

\* A part of the rows: no more of them, and all of them only if as many.
LEMMA PartOf ==
    ASSUME NEW S, IsFiniteSet(S), NEW T \in SUBSET S
    PROVE  /\ IsFiniteSet(T) /\ Cardinality(T) \in Nat /\ Cardinality(S) \in Nat
           /\ Cardinality(T) <= Cardinality(S)
           /\ T # S => Cardinality(T) < Cardinality(S)
<1>1. IsFiniteSet(T) /\ Cardinality(T) <= Cardinality(S) /\ (Cardinality(T) = Cardinality(S) => T = S)
  BY FS_Subset
<1>2. Cardinality(T) \in Nat /\ Cardinality(S) \in Nat
  BY <1>1, FS_CardinalityType
<1> QED
  BY <1>1, <1>2

\* The rows before one are some of the rows, not itself.
LEMMA RankType ==
    ASSUME NEW p
    PROVE  /\ Preceding(p) \in SUBSET Where(walk.status)
           /\ IsFiniteSet(Preceding(p)) /\ Rank(p) \in Nat
<1>1. IsFiniteSet(Where(walk.status))
  BY WhereIsFinite
<1>2. Preceding(p) \in SUBSET Where(walk.status)
  BY DEF Preceding
<1> QED
  BY <1>1, <1>2, PartOf DEF Rank

\* Every payment of the filter has a rank below their number.
LEMMA RankIsBelowCount ==
    ASSUME TypeOK, NEW p \in Where(walk.status) PROVE Rank(p) < Count
<1>1. p \notin Preceding(p)
  BY DEF Preceding, Before, TypeOK, Where
<1>2. Preceding(p) # Where(walk.status)
  BY <1>1
<1> QED
  BY <1>2, RankType, WhereIsFinite, PartOf DEF Rank, Count

\* When nothing ties, a set that nothing outside it may precede has the ranks below
\* its size.
LEMMA RanksOfPrefix ==
    ASSUME TypeOK, NoTies, NEW S \in SUBSET Where(walk.status),
           \A p \in S, q \in Where(walk.status) \ S : MayPrecede(p, q),
           NEW p \in Where(walk.status)
    PROVE  /\ Cardinality(S) \in Nat
           /\ p \in S => Rank(p) < Cardinality(S)
           /\ p \notin S => Cardinality(S) <= Rank(p) /\ Cardinality(S) < Count
<1> DEFINE rows == Where(walk.status)
<1>1. IsFiniteSet(rows) /\ IsFiniteSet(S) /\ Cardinality(S) \in Nat
  BY WhereIsFinite, PartOf
<1>2. \A q \in rows : Exists(q) /\ q \in Payment /\ row[q].createdAt \in Nat
  BY DEF Where, TypeOK
<1>3. ASSUME p \in S PROVE Rank(p) < Cardinality(S)
  <2>1. ASSUME NEW q \in Preceding(p), q \notin S PROVE FALSE
    <3>1. q \in rows /\ Before(q, p) /\ MayPrecede(p, q)
      BY <1>3, <2>1 DEF Preceding
    <3> QED
      BY <1>2, <3>1 DEF Before, MayPrecede
  <2>2. p \notin Preceding(p)
    BY <1>2 DEF Preceding, Before
  <2>3. Preceding(p) \in SUBSET S /\ Preceding(p) # S
    BY <1>3, <2>1, <2>2
  <2> QED
    BY <1>1, <2>3, PartOf DEF Rank
<1>4. ASSUME p \notin S PROVE Cardinality(S) <= Rank(p) /\ Cardinality(S) < Count
  <2>1. ASSUME NEW q \in S PROVE q \in Preceding(p)
    <3>1. q \in rows /\ q # p /\ MayPrecede(q, p)
      BY <1>4, <2>1
    <3>2. row[q].createdAt # row[p].createdAt
      BY <1>2, <3>1 DEF NoTies
    <3> QED
      BY <1>2, <3>1, <3>2 DEF Before, MayPrecede, Preceding
  <2>2. S \in SUBSET Preceding(p)
    BY <2>1
  <2>3. S # rows
    BY <1>4
  <2> QED
    BY <1>1, <2>2, <2>3, RankType, PartOf DEF Rank, Count
<1> QED
  BY <1>1, <1>3, <1>4

\* When nothing ties, a page has the rows of its ranks, and no others.
LEMMA PageIsRanks ==
    ASSUME TypeOK, NoTies, NEW skip \in Nat, NEW take \in Nat,
           NEW page \in Pages(Where(walk.status), skip, take)
    PROVE  /\ page \in SUBSET Where(walk.status)
           /\ \A p \in Where(walk.status) :
                 p \in page <=> skip <= Rank(p) /\ Rank(p) < skip + take
<1> DEFINE rows == Where(walk.status)
<1>1. page \in SUBSET rows
  BY DEF Pages
<1> PICK before \in SUBSET (rows \ page) :
       /\ Cardinality(before) = AtMost(skip, Cardinality(rows))
       /\ Cardinality(page) = AtMost(take, Cardinality(rows) - Cardinality(before))
       /\ \A p \in before, q \in rows \ before : MayPrecede(p, q)
       /\ \A p \in page, q \in rows \ (before \cup page) : MayPrecede(p, q)
  BY DEF Pages
<1> DEFINE both == before \cup page
<1>2. before \in SUBSET rows /\ both \in SUBSET rows /\ before \cap page = {}
  BY <1>1
<1>3. \A p \in both, q \in rows \ both : MayPrecede(p, q)
  OBVIOUS
<1>4. IsFiniteSet(before) /\ IsFiniteSet(page) /\ Cardinality(before) \in Nat /\ Cardinality(page) \in Nat
  BY <1>1, <1>2, WhereIsFinite, PartOf
<1>5. Cardinality(both) = Cardinality(before) + Cardinality(page)
  <2>1. Cardinality(both) = Cardinality(before) + Cardinality(page) - Cardinality({})
    BY <1>2, <1>4, FS_Union
  <2> QED
    BY <1>4, <2>1, FS_EmptySet
<1>6. Count \in Nat /\ Cardinality(rows) = Count
  BY WhereIsFinite DEF Count
<1> PICK b \in Nat : b = Cardinality(before)
  BY <1>4
<1> PICK n \in Nat : n = Count
  BY <1>6
<1>7. /\ b = AtMost(skip, n)
      /\ Cardinality(both) = b + AtMost(take, n - b)
  BY <1>5, <1>6
<1> SUFFICES ASSUME NEW p \in rows
             PROVE  p \in page <=> skip <= Rank(p) /\ Rank(p) < skip + take
  BY <1>1
<1> PICK r \in Nat : r = Rank(p)
  BY RankType
<1>8. /\ p \in before => r < b
      /\ p \notin before => b <= r /\ b < n
  BY <1>2, RanksOfPrefix
<1> PICK c : c = Cardinality(both)
  OBVIOUS
<1>9. /\ p \in both => r < c
      /\ p \notin both => c <= r /\ c < n
  BY <1>2, <1>3, RanksOfPrefix
<1>10. c = b + AtMost(take, n - b)
  BY <1>7
<1>11. CASE p \in before
  <2>1. r < skip
    BY <1>7, <1>8, <1>11 DEF AtMost
  <2> QED
    BY <1>11, <2>1
<1>12. CASE p \in page
  <2>1. p \notin before /\ p \in both
    BY <1>12
  <2>2. b = skip
    BY <1>7, <1>8, <2>1 DEF AtMost
  <2>3. skip <= r /\ r < skip + take
    BY <1>8, <1>9, <1>10, <2>1, <2>2 DEF AtMost
  <2> QED
    BY <1>12, <2>3
<1>13. CASE p \notin both
  <2>1. p \notin before /\ p \notin page
    BY <1>13
  <2>2. b = skip
    BY <1>7, <1>8, <2>1 DEF AtMost
  <2>3. skip + take <= r
    BY <1>9, <1>10, <1>13, <2>2 DEF AtMost
  <2> QED
    BY <2>1, <2>3
<1> QED
  BY <1>11, <1>12, <1>13

-----------------------------------------------------------------------------
(* How the ranks move                                                      *)

\* Ranks are of the rows, the filter and the order.
LEMMA SameRowsSameRanks ==
    ASSUME UNCHANGED row, walk'.status = walk.status, walk'.sortOrder = walk.sortOrder
    PROVE  /\ Where(walk.status)' = Where(walk.status) /\ Count' = Count
           /\ \A p : Exists(p)' = Exists(p) /\ Rank(p)' = Rank(p)
           /\ NoTies' <=> NoTies
<1>1. Where(walk.status)' = Where(walk.status)
  BY DEF Where, Exists
<1>2. \A p : Preceding(p)' = Preceding(p)
  BY <1>1 DEF Preceding, Before
<1>3. Count' = Count
  BY <1>1 DEF Count
<1>4. \A p : Exists(p)' = Exists(p) /\ Rank(p)' = Rank(p)
  BY <1>2 DEF Exists, Rank
<1>5. NoTies' <=> NoTies
  BY DEF NoTies, Exists
<1> QED
  BY <1>1, <1>3, <1>4, <1>5

\* A row that comes in puts no other row further up, and oldest first none down.
LEMMA CreateMovesDown ==
    ASSUME TypeOK, CreatedByNow, NEW x \in Payment, Create(x)
    PROVE  /\ NoTies' => NoTies
           /\ Where(walk.status) \subseteq Where(walk.status)'
           /\ \A p \in Payment : Exists(p) =>
                 /\ Exists(p)' /\ Rank(p) <= Rank(p)'
                 /\ walk.sortOrder = "asc" => Rank(p)' = Rank(p)
<1>1. /\ ~Exists(x) /\ row'[x].createdAt = now /\ \A q \in Payment : q # x => row'[q] = row[q]
      /\ walk'.status = walk.status /\ walk'.sortOrder = walk.sortOrder
  BY DEF Create, TypeOK, Walk
<1>2. \A q \in Payment : Exists(q) => q # x /\ row'[q] = row[q] /\ Exists(q)'
  BY <1>1 DEF Exists
<1>3. NoTies' => NoTies
  BY <1>2 DEF NoTies
<1>4. Where(walk.status) \subseteq Where(walk.status)'
  BY <1>1, <1>2 DEF Where
<1>5. ASSUME NEW p \in Payment, Exists(p)
      PROVE  /\ Rank(p) <= Rank(p)'
             /\ walk.sortOrder = "asc" => Rank(p)' = Rank(p)
  <2>1. \A q \in Where(walk.status) : row'[q] = row[q] /\ (Before(q, p)' <=> Before(q, p))
    BY <1>1, <1>2, <1>5 DEF Where, Before
  <2>2. Preceding(p) \in SUBSET (Preceding(p)')
    BY <1>4, <2>1 DEF Preceding
  <2>3. IsFiniteSet(Preceding(p)')
    <3>1. IsFiniteSet(Payment) /\ Preceding(p)' \in SUBSET Payment
      BY QueriesAssumption DEF Preceding, Where
    <3> QED
      BY <3>1, PartOf
  <2>4. ASSUME walk.sortOrder = "asc" PROVE Preceding(p)' \subseteq Preceding(p)
    <3> SUFFICES ASSUME NEW q \in Preceding(p)' PROVE q \in Preceding(p)
      OBVIOUS
    <3>1. q \in Payment /\ Before(q, p)' /\ q \in Where(walk.status)'
      BY DEF Preceding, Where
    <3>2. q # x
      <4>1. row'[p].createdAt = row[p].createdAt /\ row[p].createdAt <= now
        BY <1>2, <1>5 DEF CreatedByNow
      <4>2. row'[x].createdAt >= row'[p].createdAt
        BY <1>1, <4>1, <1>5 DEF TypeOK
      <4>3. row'[q].createdAt < row'[p].createdAt
        BY <1>1, <2>4, <3>1 DEF Before
      <4>4. row'[p].createdAt \in Nat /\ now \in Nat
        BY <4>1 DEF TypeOK
      <4> QED
        BY <1>1, <4>2, <4>3, <4>4
    <3>3. q \in Where(walk.status)
      BY <1>1, <3>1, <3>2 DEF Where, Exists
    <3> QED
      BY <2>1, <3>1, <3>3 DEF Preceding
  <2> QED
    BY <2>2, <2>3, <2>4, PartOf DEF Rank
<1> QED
  BY <1>2, <1>3, <1>4, <1>5

\* Without a filter, a settlement moves nothing.
LEMMA SettleMovesNothing ==
    ASSUME TypeOK, NEW x \in Payment, Settle(x), walk.status = None
    PROVE  /\ NoTies' => NoTies
           /\ Where(walk.status)' = Where(walk.status) /\ Count' = Count
           /\ \A p \in Payment : Exists(p)' = Exists(p) /\ Rank(p)' = Rank(p)
<1> PICK status \in {"SUCCESS", "FAILED"} : row' = [row EXCEPT ![x].status = status]
  BY DEF Settle
<1>1. /\ \A q \in Payment : row'[q].createdAt = row[q].createdAt
      /\ \A q \in Payment : q # x => row'[q] = row[q]
      /\ row'[x].status = status /\ Exists(x)
      /\ walk'.status = walk.status /\ walk'.sortOrder = walk.sortOrder
  BY DEF Settle, TypeOK, Walk
<1>2. \A q \in Payment : Exists(q)' = Exists(q)
  BY <1>1 DEF Exists, Absent
<1>3. Where(walk.status)' = Where(walk.status)
  BY <1>1, <1>2 DEF Where
<1>4. \A p \in Payment : Preceding(p)' = Preceding(p)
  BY <1>1, <1>3 DEF Preceding, Before, Where
<1>5. NoTies' => NoTies
  BY <1>1, <1>2 DEF NoTies
<1> QED
  BY <1>2, <1>3, <1>4, <1>5 DEF Rank, Count

\* The next page begins where this one ends, and the total says whether there is one.
LEMMA PagesMeet ==
    ASSUME NEW page \in Nat \ {0}, NEW limit \in Nat \ {0}, NEW total \in Nat
    PROVE  /\ Skip(page, limit) \in Nat
           /\ Skip(page + 1, limit) = Skip(page, limit) + limit
           /\ page >= TotalPages(total, limit) => total <= Skip(page, limit) + limit
<1> PICK a \in Nat : a = Skip(page, limit)
  BY SkipType
<1>1. a + limit = page * limit
  BY DEF Skip
<1>2. Skip(page + 1, limit) = page * limit
  BY DEF Skip
<1>3. ASSUME page >= TotalPages(total, limit) PROVE total <= page * limit
  <2> PICK q \in Int, r \in 0..(limit - 1) :
         total + limit - 1 = q * limit + r /\ q = TotalPages(total, limit)
    BY DEF TotalPages
  <2>1. page >= q
    BY <1>3
  <2>2. page * limit >= q * limit
    BY <2>1
  <2> PICK b \in Int : b = q * limit
    OBVIOUS
  <2> PICK c \in Int : c = page * limit
    OBVIOUS
  <2> QED
    BY <2>2
<1> QED
  BY <1>1, <1>2, <1>3

-----------------------------------------------------------------------------
(* The steps of a walk                                                     *)

\* All a walk keeps, between its steps.
WalkParts == ShownInv /\ ComingInv /\ WalkMissesNothing

\* What a page is cut with.
LEMMA ReadingTypes ==
    ASSUME TypeOK, walk.phase = "reading"
    PROVE  /\ walk.limit \in Nat \ {0} /\ walk.page \in Nat \ {0} /\ First \in Nat
           /\ reply.total \in Nat /\ reply.payments \in SUBSET Payment
           /\ reply.left \in SUBSET Query /\ reply.stale \in BOOLEAN
<1>1. walk.limit \in Nat \ {0} /\ walk.page \in Nat \ {0}
  BY DEF TypeOK, Walk
<1>2. First \in Nat
  BY <1>1, SkipType DEF First
<1> QED
  BY <1>1, <1>2 DEF TypeOK, ReplyType

\* A walk begins having shown nothing, before the first rank.
LEMMA BeginWalks == TypeOK /\ TypeOK' /\ Begin => WalkParts'
<1> SUFFICES ASSUME TypeOK, TypeOK', Begin PROVE WalkParts'
  OBVIOUS
<1> PICK sortOrder \in {"asc", "desc"}, limit \in Limits, status \in Filter :
      /\ walk' = [NoWalk EXCEPT
                    !.phase = IF limit < 1 THEN "failed" ELSE "reading",
                    !.sortOrder = sortOrder, !.limit = limit, !.status = status,
                    !.start = Where(status)]
      /\ reply' = IF limit < 1 THEN NoReply ELSE Ask
  BY DEF Begin
<1>1. /\ walk'.again = {} /\ walk'.seen = {} /\ walk'.page = 1 /\ walk'.limit = limit
      /\ walk'.status = status /\ walk'.start = Where(status)
      /\ walk'.phase = IF limit < 1 THEN "failed" ELSE "reading"
  BY DEF NoWalk
<1>2. UNCHANGED row /\ limit \in Int
  BY QueriesAssumption DEF Begin
<1>3. Where(walk.status)' = Where(status)
  BY <1>1, <1>2 DEF Where, Exists
<1>4. walk'.phase = "reading" => reply'.left = Query /\ "findMany" \in Query /\ Query # {"findMany"}
                                 /\ Query # {}
  BY <1>1, ConstantTypes DEF Query
<1>5. Skip(walk'.page, walk'.limit) = 0
  BY <1>1, <1>2 DEF Skip
<1>6. \A p : Rank(p)' \in Nat
  <2> TAKE p
  <2>1. IsFiniteSet(Payment) /\ Preceding(p)' \in SUBSET Payment
    BY QueriesAssumption DEF Preceding, Where
  <2> QED
    BY <2>1, PartOf DEF Rank
<1>7. ShownInv'
  BY <1>1, <1>4 DEF ShownInv, Fetched
<1>8. ComingInv'
  BY <1>1, <1>3, <1>4, <1>5, <1>6 DEF ComingInv, Fetched, First
<1>9. WalkMissesNothing'
  BY <1>1 DEF WalkMissesNothing
<1> QED
  BY <1>7, <1>8, <1>9 DEF WalkParts

\* What the two queries leave alone.
LEMMA QueriesKeep ==
    ASSUME TypeOK, WalkParts, UNCHANGED <<row, walk>>, walk.phase = "reading"
    PROVE  /\ First' = First /\ Count' = Count
           /\ OrderIsKept' <=> OrderIsKept
           /\ \A p : Exists(p)' = Exists(p) /\ Rank(p)' = Rank(p)
           /\ Where(walk.status)' = Where(walk.status)
           /\ WalkMissesNothing'
<1>1. /\ Where(walk.status)' = Where(walk.status) /\ Count' = Count
      /\ \A p : Exists(p)' = Exists(p) /\ Rank(p)' = Rank(p)
      /\ NoTies' <=> NoTies
  BY SameRowsSameRanks
<1>2. First' = First
  BY DEF First
<1>3. OrderIsKept' <=> OrderIsKept
  BY <1>1 DEF OrderIsKept, FilterIsStable
<1>4. WalkMissesNothing'
  BY DEF WalkMissesNothing
<1> QED
  BY <1>1, <1>2, <1>3, <1>4

\* The page has the ranks of the page.
LEMMA FindManyWalks == TypeOK /\ WalkParts /\ FindMany => WalkParts'
<1> SUFFICES ASSUME TypeOK, WalkParts, FindMany PROVE WalkParts'
  OBVIOUS
<1>1. walk.phase = "reading" /\ UNCHANGED <<row, walk>>
  BY ConstantTypes DEF FindMany, TypeOK
<1> PICK page \in Pages(Where(walk.status), Skip(walk.page, walk.limit), walk.limit) :
      reply' = [reply EXCEPT !.left = @ \ {"findMany"}, !.payments = page]
  BY DEF FindMany
<1>2. /\ reply'.left = reply.left \ {"findMany"} /\ reply'.payments = page
      /\ reply'.total = reply.total /\ reply'.stale = reply.stale
  BY DEF TypeOK, ReplyType
<1>3. "findMany" \in reply.left /\ Fetched'
  BY <1>2 DEF FindMany, Fetched
<1> PICK first \in Nat, limit \in Nat \ {0} : first = First /\ limit = walk.limit
  BY <1>1, ReadingTypes
<1>4. /\ First' = First /\ Count' = Count /\ (OrderIsKept' <=> OrderIsKept)
      /\ \A p : Exists(p)' = Exists(p) /\ Rank(p)' = Rank(p)
      /\ Where(walk.status)' = Where(walk.status)
      /\ WalkMissesNothing'
  BY <1>1, QueriesKeep
<1>5. ASSUME OrderIsKept
      PROVE  /\ page \in SUBSET Where(walk.status)
             /\ \A p \in Where(walk.status) :
                   p \in page <=> first <= Rank(p) /\ Rank(p) < first + limit
  BY <1>5, PageIsRanks DEF First, OrderIsKept
<1>6. page = {} => Count <= first
  <2> SUFFICES ASSUME page = {} PROVE Count <= first
    OBVIOUS
  <2>1. Cardinality(page) = 0
    BY FS_EmptySet
  <2>2. Cardinality(page) = PageLength(Count, first, limit) /\ Count \in Nat
    BY PageHasLength, WhereIsFinite DEF First, Count
  <2> QED
    BY <2>1, <2>2 DEF PageLength, AtMost
<1>7. ShownInv'
  <2> SUFFICES ASSUME OrderIsKept', ~walk.created \/ walk.sortOrder = "asc"
               PROVE  /\ walk.again = {}
                      /\ \A p \in walk.seen : Exists(p)' /\ Rank(p)' < First'
                      /\ \A p \in page : Exists(p)' /\ First' <= Rank(p)'
                                         /\ Rank(p)' < First' + walk.limit
    BY <1>1, <1>2 DEF ShownInv
  <2>1. OrderIsKept
    BY <1>4
  <2>2. walk.again = {} /\ \A p \in walk.seen : Exists(p) /\ Rank(p) < First
    BY <1>1, <2>1 DEF WalkParts, ShownInv
  <2>3. \A p \in page : Exists(p) /\ First <= Rank(p) /\ Rank(p) < First + walk.limit
    BY <1>5, <2>1 DEF Where
  <2> QED
    BY <1>4, <2>2, <2>3
<1>8. ComingInv'
  <2> SUFFICES ASSUME OrderIsKept' PROVE ComingInv'
    BY DEF ComingInv
  <2>1. OrderIsKept
    BY <1>4
  <2>2. /\ walk.start \subseteq Where(walk.status)
        /\ \A p \in walk.start \ walk.seen : first <= Rank(p)
        /\ ~reply.stale /\ reply.left = {"findMany"} => reply.total = Count
    BY <1>1, <1>3, <2>1 DEF WalkParts, ComingInv, Fetched
  <2>3. \A p \in Where(walk.status) : Rank(p) < Count /\ Rank(p) \in Nat /\ Count \in Nat
    BY RankIsBelowCount, RankType, WhereIsFinite DEF Count
  <2>4. \A p \in walk.start \ (walk.seen \cup page) : first + limit <= Rank(p)
    <3> TAKE p \in walk.start \ (walk.seen \cup page)
    <3>1. p \in Where(walk.status) /\ p \notin page /\ first <= Rank(p)
      BY <2>2
    <3>2. ~(Rank(p) < first + limit)
      BY <1>5, <2>1, <3>1
    <3> QED
      BY <2>3, <3>1, <3>2
  <2>5. page = {} => walk.start \subseteq walk.seen
    <3> SUFFICES ASSUME page = {}, NEW p \in walk.start, p \notin walk.seen PROVE FALSE
      OBVIOUS
    <3>1. first <= Rank(p) /\ Rank(p) < Count /\ Rank(p) \in Nat /\ Count \in Nat
      BY <2>2, <2>3
    <3> QED
      BY <1>6, <3>1
  <2>6. ~reply.stale /\ reply'.left = {} =>
          walk.start \subseteq walk.seen \cup page \/ first + limit < reply.total
    <3> SUFFICES ASSUME ~reply.stale, reply'.left = {},
                        NEW p \in walk.start, p \notin walk.seen \cup page
                 PROVE  first + limit < reply.total
      OBVIOUS
    <3>1. reply.left = {"findMany"}
      BY <1>2, <1>3
    <3>2. reply.total = Count
      BY <2>2, <3>1
    <3>3. first + limit <= Rank(p) /\ Rank(p) < Count /\ Rank(p) \in Nat /\ Count \in Nat
      BY <2>2, <2>3, <2>4
    <3> QED
      BY <3>2, <3>3
  <2>7. reply'.left # {"findMany"}
    BY <1>2
  <2> QED
    BY <1>1, <1>2, <1>3, <1>4, <2>2, <2>4, <2>5, <2>6, <2>7 DEF ComingInv, Fetched
<1> QED
  BY <1>4, <1>7, <1>8 DEF WalkParts

\* The total is what the filter finds now.
LEMMA CountWalks == TypeOK /\ WalkParts /\ CountQuery => WalkParts'
<1> SUFFICES ASSUME TypeOK, WalkParts, CountQuery PROVE WalkParts'
  OBVIOUS
<1>1. walk.phase = "reading" /\ UNCHANGED <<row, walk>>
  BY ConstantTypes DEF CountQuery, TypeOK
<1>2. /\ reply'.left = reply.left \ {"count"} /\ reply'.payments = reply.payments
      /\ reply'.total = Count /\ reply'.stale = reply.stale
      /\ "count" \in reply.left
  BY DEF CountQuery, TypeOK, ReplyType
<1>3. Fetched' <=> Fetched
  BY <1>2 DEF Fetched
<1> PICK first \in Nat, limit \in Nat \ {0} : first = First /\ limit = walk.limit
  BY <1>1, ReadingTypes
<1>4. /\ First' = First /\ Count' = Count /\ (OrderIsKept' <=> OrderIsKept)
      /\ \A p : Exists(p)' = Exists(p) /\ Rank(p)' = Rank(p)
      /\ Where(walk.status)' = Where(walk.status)
      /\ WalkMissesNothing'
  BY <1>1, QueriesKeep
<1>5. ShownInv'
  BY <1>1, <1>2, <1>3, <1>4 DEF WalkParts, ShownInv
<1>6. ComingInv'
  <2> SUFFICES ASSUME OrderIsKept' PROVE ComingInv'
    BY DEF ComingInv
  <2>1. OrderIsKept
    BY <1>4
  <2>2. /\ walk.start \subseteq Where(walk.status)
        /\ ~Fetched => \A p \in walk.start \ walk.seen : First <= Rank(p)
        /\ Fetched =>
              /\ \A p \in walk.start \ (walk.seen \cup reply.payments) :
                    First + walk.limit <= Rank(p)
              /\ reply.payments = {} => walk.start \subseteq walk.seen
    BY <1>1, <2>1 DEF WalkParts, ComingInv
  <2>3. reply'.left = {} =>
          walk.start \subseteq walk.seen \cup reply.payments \/ First + walk.limit < Count
    <3> SUFFICES ASSUME reply'.left = {},
                        NEW p \in walk.start, p \notin walk.seen \cup reply.payments
                 PROVE  first + limit < Count
      OBVIOUS
    <3>1. Fetched
      BY <1>2 DEF Fetched
    <3>2. first + limit <= Rank(p) /\ p \in Where(walk.status)
      BY <2>2, <3>1
    <3>3. Rank(p) < Count /\ Rank(p) \in Nat /\ Count \in Nat
      BY <3>2, RankIsBelowCount, RankType, WhereIsFinite DEF Count
    <3> QED
      BY <3>2, <3>3
  <2> QED
    BY <1>1, <1>2, <1>3, <1>4, <2>2, <2>3 DEF ComingInv
<1> QED
  BY <1>4, <1>5, <1>6 DEF WalkParts

\* A page is taken in: what was on it is shown, and the next one begins behind it.
\* A walk that ends has shown all there was, by an empty page or a total.
LEMMA TakeWalks ==
    ASSUME TypeOK, WalkParts, NEW trusts \in BOOLEAN, Take(trusts)
    PROVE  WalkParts'
<1> PICK ends \in BOOLEAN : ends = (reply.payments = {} \/ trusts)
  OBVIOUS
<1> PICK shown \in SUBSET Payment : shown = walk.seen \cup reply.payments
  BY DEF TypeOK, Walk, ReplyType
<1>1. /\ walk.phase = "reading" /\ reply.left = {} /\ UNCHANGED row
      /\ reply' = IF ends THEN NoReply ELSE Ask
      /\ trusts => walk.page >= TotalPages(reply.total, walk.limit)
  BY DEF Take, Answered
<1>2. /\ walk'.phase = IF ends THEN "done" ELSE "reading"
      /\ walk'.page = IF ends THEN walk.page ELSE walk.page + 1
      /\ walk'.again = walk.again \cup (walk.seen \cap reply.payments)
      /\ walk'.seen = shown
      /\ walk'.trusted = (trusts /\ reply.payments # {} /\ reply.stale)
  BY <1>1 DEF Take, TypeOK, Walk
<1>3. /\ walk'.sortOrder = walk.sortOrder /\ walk'.limit = walk.limit
      /\ walk'.status = walk.status /\ walk'.start = walk.start
      /\ walk'.created = walk.created /\ walk'.settled = walk.settled
  BY DEF Take, TypeOK, Walk
<1>4. /\ Where(walk.status)' = Where(walk.status)
      /\ \A p : Exists(p)' = Exists(p) /\ Rank(p)' = Rank(p)
      /\ NoTies' <=> NoTies
  BY <1>1, <1>3, SameRowsSameRanks
<1>5. OrderIsKept' <=> OrderIsKept
  BY <1>3, <1>4 DEF OrderIsKept, FilterIsStable
<1> PICK first \in Nat, limit \in Nat \ {0} : first = First /\ limit = walk.limit
  BY <1>1, ReadingTypes
<1>6. walk.page \in Nat \ {0} /\ reply.total \in Nat /\ Fetched
  BY <1>1, ReadingTypes DEF Fetched
<1>7. ~ends => First' = first + limit /\ ~Fetched' /\ reply'.left # {"findMany"} /\ reply'.left # {}
  <2> SUFFICES ASSUME ~ends PROVE First' = first + limit /\ ~Fetched'
                                  /\ reply'.left # {"findMany"} /\ reply'.left # {}
    OBVIOUS
  <2>1. reply'.left = Query
    BY <1>1, ConstantTypes
  <2>2. Skip(walk.page + 1, limit) = first + limit
    BY <1>6, PagesMeet DEF First
  <2> QED
    BY <1>2, <1>3, <2>1, <2>2 DEF First, Fetched, Query
<1>8. ShownInv'
  <2> SUFFICES ASSUME OrderIsKept', ~walk.created \/ walk.sortOrder = "asc"
               PROVE  /\ walk'.again = {}
                      /\ ~ends => /\ \A p \in shown : Exists(p)' /\ Rank(p)' < First'
                                  /\ ~Fetched'
    BY <1>2, <1>3 DEF ShownInv
  <2>1. /\ walk.again = {}
        /\ \A p \in walk.seen : Exists(p) /\ Rank(p) < first
        /\ \A p \in reply.payments : Exists(p) /\ first <= Rank(p) /\ Rank(p) < first + limit
    BY <1>1, <1>5, <1>6 DEF WalkParts, ShownInv
  <2>2. \A p : Rank(p) \in Nat
    BY RankType
  <2>3. walk.seen \cap reply.payments = {}
    BY <2>1, <2>2
  <2>4. \A p \in shown : Exists(p) /\ Rank(p) < first + limit
    BY <2>1, <2>2
  <2> QED
    BY <1>2, <1>4, <1>7, <2>1, <2>3, <2>4
<1>9. ASSUME OrderIsKept
      PROVE  /\ walk.start \subseteq Where(walk.status)
             /\ \A p \in walk.start \ shown : first + limit <= Rank(p)
             /\ reply.payments = {} => walk.start \subseteq walk.seen
             /\ ~reply.stale => walk.start \subseteq shown \/ first + limit < reply.total
  BY <1>1, <1>6, <1>9 DEF WalkParts, ComingInv
<1>10. ComingInv'
  BY <1>2, <1>3, <1>4, <1>5, <1>7, <1>9 DEF ComingInv
<1>11. WalkMissesNothing'
  <2> SUFFICES ASSUME ends, OrderIsKept, ~(trusts /\ reply.payments # {} /\ reply.stale)
               PROVE  walk.start \subseteq shown
    BY <1>2, <1>3, <1>5 DEF WalkMissesNothing, OrderIsKept
  <2>1. CASE reply.payments = {}
    BY <1>9, <2>1
  <2>2. CASE reply.payments # {}
    <3>1. trusts /\ ~reply.stale
      BY <2>2 DEF TypeOK, ReplyType
    <3>2. reply.total <= first + limit
      BY <1>1, <1>6, <3>1, PagesMeet DEF First
    <3> QED
      BY <1>6, <1>9, <3>1, <3>2
  <2> QED
    BY <2>1, <2>2
<1> QED
  BY <1>8, <1>10, <1>11 DEF WalkParts

\* A change of the table while a client reads keeps the walk, when no rank of a row
\* that is there goes up, none goes down that must not, and the total stays or turns
\* stale.
LEMMA ChangesWalk ==
    ASSUME TypeOK, WalkParts,
           NEW creates \in BOOLEAN, NEW settles \in BOOLEAN, NEW between \in Nat, NEW stale \in BOOLEAN,
           walk' = [walk EXCEPT !.created = creates, !.settled = settles],
           reply' = [reply EXCEPT !.between = between, !.stale = stale],
           walk.phase \notin {"done", "failed"},
           OrderIsKept' => OrderIsKept, walk.created => creates, reply.stale => stale,
           OrderIsKept' /\ walk.phase = "reading" =>
              /\ Where(walk.status) \subseteq Where(walk.status)'
              /\ \A p \in Payment : Exists(p) =>
                    /\ Exists(p)' /\ Rank(p) <= Rank(p)' /\ Rank(p)' \in Nat
                    /\ ~creates \/ walk.sortOrder = "asc" => Rank(p)' = Rank(p)
              /\ reply.left = {"findMany"} => stale \/ Count' = Count
    PROVE  WalkParts'
<1>1. /\ walk'.phase = walk.phase /\ walk'.sortOrder = walk.sortOrder /\ walk'.limit = walk.limit
      /\ walk'.status = walk.status /\ walk'.page = walk.page /\ walk'.start = walk.start
      /\ walk'.seen = walk.seen /\ walk'.again = walk.again /\ walk'.created = creates
  BY DEF TypeOK, Walk
<1>2. /\ reply'.left = reply.left /\ reply'.payments = reply.payments
      /\ reply'.total = reply.total /\ reply'.stale = stale
  BY DEF TypeOK, ReplyType
<1>3. First' = First /\ (Fetched' <=> Fetched)
  BY <1>1, <1>2 DEF First, Fetched
<1>4. WalkMissesNothing'
  BY <1>1 DEF WalkMissesNothing
<1>5. walk.phase = "reading" => First \in Nat /\ walk.limit \in Nat
  BY ReadingTypes
<1>6. \A p : Rank(p) \in Nat
  BY RankType
<1>7. walk.seen \in SUBSET Payment /\ reply.payments \in SUBSET Payment
      /\ walk.start \in SUBSET Payment
  BY DEF TypeOK, Walk, ReplyType
<1>8. ShownInv'
  <2> SUFFICES ASSUME OrderIsKept', ~creates \/ walk.sortOrder = "asc" PROVE ShownInv'
    BY <1>1 DEF ShownInv
  <2>1. OrderIsKept /\ (~walk.created \/ walk.sortOrder = "asc")
    OBVIOUS
  <2>2. walk.again = {}
    BY <2>1 DEF WalkParts, ShownInv
  <2>3. ASSUME walk.phase = "reading"
        PROVE  /\ \A p \in walk.seen : Exists(p)' /\ Rank(p)' < First
               /\ Fetched => \A p \in reply.payments :
                                Exists(p)' /\ First <= Rank(p)' /\ Rank(p)' < First + walk.limit
    <3>1. /\ \A p \in walk.seen : Exists(p) /\ Rank(p) < First
          /\ Fetched => \A p \in reply.payments :
                           Exists(p) /\ First <= Rank(p) /\ Rank(p) < First + walk.limit
      BY <2>1, <2>3 DEF WalkParts, ShownInv
    <3>2. \A p \in Payment : Exists(p) => Exists(p)' /\ Rank(p)' = Rank(p)
      BY <2>3
    <3> QED
      BY <1>7, <3>1, <3>2
  <2> QED
    BY <1>1, <1>2, <1>3, <2>2, <2>3 DEF ShownInv
<1>9. ComingInv'
  <2> SUFFICES ASSUME OrderIsKept', walk.phase = "reading" PROVE ComingInv'
    BY <1>1 DEF ComingInv
  <2>1. OrderIsKept
    OBVIOUS
  <2>2. /\ walk.start \subseteq Where(walk.status)
        /\ ~Fetched => \A p \in walk.start \ walk.seen : First <= Rank(p)
        /\ Fetched =>
              /\ \A p \in walk.start \ (walk.seen \cup reply.payments) :
                    First + walk.limit <= Rank(p)
              /\ reply.payments = {} => walk.start \subseteq walk.seen
        /\ ~reply.stale =>
              /\ reply.left = {"findMany"} => reply.total = Count
              /\ reply.left = {} => \/ walk.start \subseteq walk.seen \cup reply.payments
                                    \/ First + walk.limit < reply.total
    BY <2>1 DEF WalkParts, ComingInv
  <2>3. /\ walk.start \subseteq Where(walk.status)'
        /\ \A p \in walk.start : Rank(p) <= Rank(p)' /\ Rank(p)' \in Nat
    BY <2>2 DEF Where
  <2>4. /\ ~Fetched => \A p \in walk.start \ walk.seen : First <= Rank(p)'
        /\ Fetched => \A p \in walk.start \ (walk.seen \cup reply.payments) :
                         First + walk.limit <= Rank(p)'
    BY <1>5, <1>6, <2>2, <2>3
  <2>5. ~stale /\ reply.left = {"findMany"} => reply.total = Count'
    BY <2>2
  <2> QED
    BY <1>1, <1>2, <1>3, <2>2, <2>3, <2>4, <2>5 DEF ComingInv
<1> QED
  BY <1>4, <1>8, <1>9 DEF WalkParts

\* A creation, which makes the total of a page still to be read stale.
LEMMA CreateWalks ==
    ASSUME TypeOK, CreatedByNow, WalkParts, NEW x \in Payment, Create(x)
    PROVE  WalkParts'
<1>1. /\ walk.phase \notin {"done", "failed"}
      /\ walk' = [walk EXCEPT !.created = walk.phase = "reading" \/ walk.created]
      /\ reply' = [reply EXCEPT !.between = reply.between + Between,
                                !.stale = reply.stale \/ reply.left = {"findMany"}]
  BY DEF Create, Walking
<1> PICK creates \in BOOLEAN : creates = (walk.phase = "reading" \/ walk.created)
  OBVIOUS
<1> PICK stale \in BOOLEAN : stale = (reply.stale \/ reply.left = {"findMany"})
  OBVIOUS
<1> PICK settles \in BOOLEAN : settles = walk.settled
  BY DEF TypeOK, Walk
<1> PICK between \in Nat : between = reply.between + Between
  BY DEF TypeOK, ReplyType, Between
<1>2. walk' = [walk EXCEPT !.created = creates, !.settled = settles]
  <2>1. walk' = [walk EXCEPT !.created = creates] /\ walk.settled = settles
    BY <1>1
  <2> QED
    BY <2>1 DEF TypeOK, Walk
<1>3. reply' = [reply EXCEPT !.between = between, !.stale = stale]
  BY <1>1
<1>4. walk'.status = walk.status /\ walk'.settled = walk.settled /\ walk'.sortOrder = walk.sortOrder
  BY <1>2 DEF TypeOK, Walk
<1>5. /\ NoTies' => NoTies
      /\ Where(walk.status) \subseteq Where(walk.status)'
      /\ \A p \in Payment : Exists(p) =>
            /\ Exists(p)' /\ Rank(p) <= Rank(p)'
            /\ walk.sortOrder = "asc" => Rank(p)' = Rank(p)
  BY CreateMovesDown
<1>6. OrderIsKept' => OrderIsKept
  BY <1>4, <1>5 DEF OrderIsKept, FilterIsStable
<1>7. \A p : Rank(p)' \in Nat
  <2> TAKE p
  <2>1. IsFiniteSet(Payment) /\ Preceding(p)' \in SUBSET Payment
    BY QueriesAssumption DEF Preceding, Where
  <2> QED
    BY <2>1, PartOf DEF Rank
<1>8. walk.phase = "reading" => creates
  OBVIOUS
<1>9. reply.left = {"findMany"} => stale
  OBVIOUS
<1>10. (walk.created => creates) /\ (reply.stale => stale)
  OBVIOUS
<1> QED
  BY <1>1, <1>2, <1>3, <1>5, <1>6, <1>7, <1>8, <1>9, <1>10, ChangesWalk

\* A settlement, which moves no rank when the client filters by no status.
LEMMA SettleWalks ==
    ASSUME TypeOK, WalkParts, NEW x \in Payment, Settle(x)
    PROVE  WalkParts'
<1>1. /\ walk.phase \notin {"done", "failed"}
      /\ walk' = [walk EXCEPT !.settled = walk.phase = "reading" \/ walk.settled]
      /\ reply' = [reply EXCEPT !.between = reply.between + Between]
  BY DEF Settle, Walking
<1> PICK settles \in BOOLEAN : settles = (walk.phase = "reading" \/ walk.settled)
  OBVIOUS
<1> PICK stale \in BOOLEAN : stale = reply.stale
  BY DEF TypeOK, ReplyType
<1> PICK creates \in BOOLEAN : creates = walk.created
  BY DEF TypeOK, Walk
<1> PICK between \in Nat : between = reply.between + Between
  BY DEF TypeOK, ReplyType, Between
<1>2. walk' = [walk EXCEPT !.created = creates, !.settled = settles]
  <2>1. walk' = [walk EXCEPT !.settled = settles] /\ walk.created = creates
    BY <1>1
  <2> QED
    BY <2>1 DEF TypeOK, Walk
<1>3. reply' = [reply EXCEPT !.between = between, !.stale = stale]
  <2>1. reply' = [reply EXCEPT !.between = between] /\ reply.stale = stale
    BY <1>1
  <2> QED
    BY <2>1 DEF TypeOK, ReplyType
<1>4. walk'.status = walk.status /\ walk'.settled = settles
  BY <1>2 DEF TypeOK, Walk
<1>5. OrderIsKept' /\ walk.phase = "reading" => walk.status = None
  BY <1>4 DEF OrderIsKept, FilterIsStable
<1>6. NoTies' => NoTies
  <2>1. \A q \in Payment : row'[q].createdAt = row[q].createdAt /\ (Exists(q) => Exists(q)')
    <3> PICK status \in {"SUCCESS", "FAILED"} : row' = [row EXCEPT ![x].status = status]
      BY DEF Settle
    <3>1. \A q \in Payment : q # x => row'[q] = row[q]
      BY DEF TypeOK
    <3>2. row'[x].status = status /\ row'[x].createdAt = row[x].createdAt
      BY DEF TypeOK
    <3> QED
      BY <3>1, <3>2 DEF Exists, Absent
  <2> QED
    BY <2>1 DEF NoTies
<1>7. OrderIsKept' => OrderIsKept
  <2>1. walk.settled => settles
    OBVIOUS
  <2> QED
    BY <1>4, <1>6, <2>1 DEF OrderIsKept, FilterIsStable
<1>8. \A p : Rank(p) \in Nat
  BY RankType
<1>9. OrderIsKept' /\ walk.phase = "reading" =>
        /\ Where(walk.status)' = Where(walk.status) /\ Count' = Count
        /\ \A p \in Payment : Exists(p)' = Exists(p) /\ Rank(p)' = Rank(p)
  BY <1>5, SettleMovesNothing
<1>10. OrderIsKept' /\ walk.phase = "reading" =>
        /\ Where(walk.status) \subseteq Where(walk.status)'
        /\ \A p \in Payment : Exists(p) =>
              /\ Exists(p)' /\ Rank(p) <= Rank(p)' /\ Rank(p)' \in Nat
              /\ ~creates \/ walk.sortOrder = "asc" => Rank(p)' = Rank(p)
        /\ reply.left = {"findMany"} => stale \/ Count' = Count
  BY <1>8, <1>9
<1>11. (walk.created => creates) /\ (reply.stale => stale)
  OBVIOUS
<1> QED
  BY <1>1, <1>2, <1>3, <1>7, <1>10, <1>11, ChangesWalk

\* Without a change, the walk is what it was.
LEMMA QuietWalks ==
    ASSUME WalkParts, UNCHANGED <<row, walk, reply>> PROVE WalkParts'
<1>1. /\ Where(walk.status)' = Where(walk.status) /\ Count' = Count
      /\ \A p : Exists(p)' = Exists(p) /\ Rank(p)' = Rank(p)
      /\ NoTies' <=> NoTies
  BY SameRowsSameRanks
<1>2. First' = First /\ (Fetched' <=> Fetched) /\ (OrderIsKept' <=> OrderIsKept)
  BY <1>1 DEF First, Fetched, OrderIsKept, FilterIsStable
<1>3. WalkMissesNothing'
  BY <1>1 DEF WalkParts, WalkMissesNothing, FilterIsStable
<1>4. ShownInv'
  BY <1>1, <1>2 DEF WalkParts, ShownInv
<1>5. ComingInv'
  BY <1>1, <1>2 DEF WalkParts, ComingInv
<1> QED
  BY <1>3, <1>4, <1>5 DEF WalkParts

\* No payment is of the future.
LEMMA CreatedStep == TypeOK /\ CreatedByNow /\ [Next]_vars => CreatedByNow'
<1> SUFFICES ASSUME TypeOK, CreatedByNow, [Next]_vars PROVE CreatedByNow'
  OBVIOUS
<1>1. ASSUME UNCHANGED <<row, now>> PROVE CreatedByNow'
  BY <1>1 DEF CreatedByNow, Exists
<1>2. CASE Begin \/ FindMany \/ CountQuery \/ (\E trusts \in BOOLEAN : Take(trusts))
           \/ UNCHANGED vars
  BY <1>1, <1>2 DEF Begin, FindMany, CountQuery, Take, vars
<1>3. ASSUME NEW p \in Payment, Create(p) PROVE CreatedByNow'
  BY <1>3 DEF Create, CreatedByNow, Exists, TypeOK
<1>4. ASSUME NEW p \in Payment, Settle(p) PROVE CreatedByNow'
  <2> PICK status \in {"SUCCESS", "FAILED"} : row' = [row EXCEPT ![p].status = status]
    BY <1>4 DEF Settle
  <2>1. now' = now /\ Exists(p) /\ row'[p].createdAt = row[p].createdAt
        /\ \A q \in Payment : q # p => row'[q] = row[q]
    BY <1>4 DEF Settle, TypeOK
  <2> QED
    BY <2>1 DEF CreatedByNow, Exists
<1>5. CASE Tick
  BY <1>5 DEF Tick, CreatedByNow, Exists, TypeOK
<1> QED
  BY <1>2, <1>3, <1>4, <1>5 DEF Next

\* Every step keeps the walk.
LEMMA WalkStep == TypeOK /\ TypeOK' /\ CreatedByNow /\ WalkParts /\ [Next]_vars => WalkParts'
<1> SUFFICES ASSUME TypeOK, TypeOK', CreatedByNow, WalkParts, [Next]_vars PROVE WalkParts'
  OBVIOUS
<1>1. CASE Tick \/ UNCHANGED vars
  <2>1. UNCHANGED <<row, walk, reply>>
    BY <1>1 DEF Tick, vars
  <2> QED
    BY <2>1, QuietWalks
<1> QED
  BY <1>1, BeginWalks, FindManyWalks, CountWalks, TakeWalks, CreateWalks, SettleWalks DEF Next

-----------------------------------------------------------------------------
(* Theorems                                                                *)

\* Every state is of its type, and only a request under way has an answer.
THEOREM TypeCorrect == Spec => []TypeOK
BY TypeInit, TypeStep, PTL DEF Spec

\* What the first query gave is what the second will give, up to the changes since.
THEOREM MetaInvariant == Spec => []MetaInv
<1>1. Init => MetaInv
  BY ConstantTypes DEF Init, MetaInv
<1> QED
  BY <1>1, MetaStep, TypeCorrect, PTL DEF Spec

\* Page and total of an answer disagree by no more than the payments created or
\* settled between the two queries of findAll (lines 430-438).
THEOREM PageMatchesTotal == Spec => []MetaAgrees
<1>1. MetaInv => MetaAgrees
  BY DEF MetaInv, MetaAgrees, Answered, ThisPage, PageLength
<1> QED
  BY <1>1, MetaInvariant, PTL

\* What was shown is of earlier pages, and what was there at the start and was not
\* shown is still to come.
THEOREM WalkInvariant == Spec => [](CreatedByNow /\ WalkParts)
<1>1. Init => CreatedByNow /\ WalkParts
  <2> SUFFICES ASSUME Init PROVE CreatedByNow /\ WalkParts
    OBVIOUS
  <2>1. walk.phase = "idle" /\ walk.again = {}
    BY DEF Init, NoWalk
  <2>2. CreatedByNow
    BY DEF Init, CreatedByNow, Exists
  <2> QED
    BY <2>1, <2>2 DEF WalkParts, ShownInv, ComingInv, WalkMissesNothing
<1>2. TypeOK /\ TypeOK' /\ CreatedByNow /\ WalkParts /\ [Next]_vars => (CreatedByNow /\ WalkParts)'
  BY CreatedStep, WalkStep
<1> QED
  BY <1>1, <1>2, TypeCorrect, PTL DEF Spec

\* A finished walk misses no payment that was there when it began, whatever was
\* created under it, for any number of pages (lines 401-436).
THEOREM NoPaymentIsMissed == Spec => []WalkMissesNothing
<1>1. WalkParts => WalkMissesNothing
  BY DEF WalkParts
<1> QED
  BY <1>1, WalkInvariant, PTL

\* A payment is shown twice only when rows came in above it, left the filter or tie
\* (lines 428-436).
THEOREM NoPaymentIsRepeated == Spec => []NothingIsShownTwice
<1>1. WalkParts => NothingIsShownTwice
  BY DEF WalkParts, ShownInv, OrderIsKept, NothingIsShownTwice
<1> QED
  BY <1>1, WalkInvariant, PTL
=============================================================================
