--------------------------- MODULE UserCacheProofs --------------------------
(***************************************************************************)
(* Proofs about UserCache, for any users, any listings and any number of   *)
(* changes: types, and that every id gets its own user, of which only a    *)
(* failed request of its own can deprive it.                               *)
(***************************************************************************)
EXTENDS UserCache, SequenceTheorems, TLAPS

\* Replacing one request of a sequence.
LEMMA OneRequest ==
  ASSUME NEW s \in Seq(Request), NEW i \in DOMAIN s, NEW r \in Request
  PROVE  /\ [s EXCEPT ![i] = r] \in Seq(Request)
         /\ Len([s EXCEPT ![i] = r]) = Len(s)
         /\ DOMAIN [s EXCEPT ![i] = r] = DOMAIN s
         /\ \A j \in DOMAIN s : [s EXCEPT ![i] = r][j] = IF j = i THEN r ELSE s[j]
  OBVIOUS

\* What a step of one request does.
LEMMA RequestStep ==
  ASSUME TypeOK, NEW l \in Listing, NEW i \in DOMAIN fetch[l], NEW r \in Request,
         Becomes(l, i, r)
  PROVE  /\ TypeOK'
         /\ Len(fetch'[l]) = Len(fetch[l])
         /\ DOMAIN fetch'[l] = DOMAIN fetch[l]
         /\ \A j \in DOMAIN fetch[l] : fetch'[l][j] = IF j = i THEN r ELSE fetch[l][j]
         /\ \A m \in Listing : m # l => fetch'[m] = fetch[m]
  <1>1. /\ fetch[l] \in Seq(Request)
        /\ fetch' = [fetch EXCEPT ![l] = [fetch[l] EXCEPT ![i] = r]]
    BY DEF TypeOK, Becomes
  <1>2. [fetch[l] EXCEPT ![i] = r] \in Seq(Request)
    BY <1>1, OneRequest
  <1>3. fetch' \in [Listing -> Seq(Request)]
    BY <1>1, <1>2 DEF TypeOK
  <1>4. TypeOK'
    BY <1>3 DEF TypeOK, Becomes
  <1>5. fetch'[l] = [fetch[l] EXCEPT ![i] = r]
    BY <1>1 DEF TypeOK
  <1>6. \A m \in Listing : m # l => fetch'[m] = fetch[m]
    BY <1>1 DEF TypeOK
  <1> QED
    BY <1>1, <1>4, <1>5, <1>6, OneRequest

\* The completed map has for every user what the map had, or what a request for
\* that user got.
LEMMA CompletedMap ==
  ASSUME TypeOK, NEW l \in Listing, Len(fetch[l]) = Len(toFetch[l])
  PROVE  /\ Completed(l) \in [User -> Profile \cup {Nobody}]
         /\ \A u \in User :
               \/ Completed(l)[u] = result[l][u]
                  /\ \A i \in DOMAIN fetch[l] :
                        toFetch[l][i] = u => fetch[l][i].user = Nobody
               \/ \E i \in DOMAIN fetch[l] :
                     /\ toFetch[l][i] = u
                     /\ fetch[l][i].user # Nobody
                     /\ Completed(l)[u] = fetch[l][i].user
  <1> DEFINE got(u) == {i \in DOMAIN fetch[l] : IdAt(l, i) = u /\ fetch[l][i].user # Nobody}
  <1>1. \A i \in DOMAIN fetch[l] : fetch[l][i] \in Request
    BY DEF TypeOK
  <1>2. ASSUME NEW u \in User
        PROVE  /\ Completed(l)[u] \in Profile \cup {Nobody}
               /\ \/ Completed(l)[u] = result[l][u]
                     /\ \A i \in DOMAIN fetch[l] :
                           toFetch[l][i] = u => fetch[l][i].user = Nobody
                  \/ \E i \in DOMAIN fetch[l] :
                        /\ toFetch[l][i] = u
                        /\ fetch[l][i].user # Nobody
                        /\ Completed(l)[u] = fetch[l][i].user
    <2>1. CASE got(u) = {}
      <3>1. Completed(l)[u] = result[l][u]
        BY <2>1 DEF Completed
      <3> QED
        BY <2>1, <3>1 DEF IdAt, TypeOK
    <2>2. CASE got(u) # {}
      <3>1. PICK i \in got(u) : Completed(l)[u] = fetch[l][i].user
        BY <2>2 DEF Completed
      <3> QED
        BY <1>1, <3>1 DEF IdAt, Request
    <2> QED
      BY <2>1, <2>2
  <1>3. Completed(l) = [u \in User |-> Completed(l)[u]]
    BY DEF Completed
  <1> QED
    BY <1>2, <1>3

-----------------------------------------------------------------------------
\* Every step keeps the types.  That a request belongs to an id is needed for the
\* answer of the auth service.
LEMMA TypeStep ==
  ASSUME TypeOK, PhasesAgree, [Next]_vars
  PROVE  TypeOK'
  <1>0. Empty \in [User -> Profile \cup {Nobody}]
    BY DEF Empty
  <1>1. ASSUME NEW l \in Listing, NEW ids \in SUBSET User, GetUsersByIds(l, ids)
        PROVE  TypeOK'
    BY <1>1, <1>0 DEF GetUsersByIds, TypeOK
  <1>2. ASSUME NEW l \in Listing, NEW u \in User, CacheAnswers(l, u)
        PROVE  TypeOK'
    <2>1. PICK hit \in {cache[u], Nobody} :
            /\ result' = [result EXCEPT ![l] = [result[l] EXCEPT ![u] = hit]]
            /\ toFetch' = [toFetch EXCEPT ![l] =
                              IF hit = Nobody THEN Append(toFetch[l], u) ELSE toFetch[l]]
      BY <1>2 DEF CacheAnswers
    <2>2. result' \in [Listing -> [User -> Profile \cup {Nobody}]]
      <3>1. [result[l] EXCEPT ![u] = hit] \in [User -> Profile \cup {Nobody}]
        BY DEF TypeOK
      <3> QED
        BY <2>1, <3>1 DEF TypeOK
    <2>3. toFetch' \in [Listing -> Seq(User)]
      BY <2>1 DEF TypeOK
    <2>4. fetch' \in [Listing -> Seq(Request)]
      <3>1. Sent \in Request
        BY DEF Sent, Request
      <3>2. [i \in 1..Len(toFetch'[l]) |-> Sent] \in Seq(Request)
        BY <2>3, <3>1
      <3> QED
        BY <1>2, <3>2 DEF CacheAnswers, TypeOK
    <2>5. pc' \in [Listing -> {"idle", "lookup", "fetch", "store", "done"}]
      BY <1>2 DEF CacheAnswers, TypeOK
    <2>6. UNCHANGED <<profile, cache, asked>> /\ pending' \in [Listing -> SUBSET User]
      BY <1>2 DEF CacheAnswers, TypeOK
    <2> QED
      BY <2>2, <2>3, <2>4, <2>5, <2>6 DEF TypeOK
  <1>3. ASSUME NEW l \in Listing, NEW u \in User, RedisSet(l, u)
        PROVE  TypeOK'
    BY <1>3 DEF RedisSet, TypeOK
  <1>4. ASSUME NEW l \in Listing, NEW i \in DOMAIN fetch[l],
               \/ AuthAnswers(l, i) \/ BodyArrives(l, i)
               \/ AuthFails(l, i) \/ TimesOut(l, i)
        PROVE  TypeOK'
    <2>0. fetch[l][i] \in Request
      BY DEF TypeOK
    <2>1. /\ NotFound \in Request
          /\ [fetch[l][i] EXCEPT !.at = "done"] \in Request
      BY <2>0 DEF NotFound, Request
    <2>2. CASE AuthAnswers(l, i)
      <3>1. CASE profile[toFetch[l][i]] = 0
        BY <2>1, <2>2, <3>1, RequestStep DEF AuthAnswers
      <3>2. CASE profile[toFetch[l][i]] # 0
        <4> DEFINE u == toFetch[l][i]
        <4>1. i \in DOMAIN toFetch[l] /\ u \in User
          BY <2>2 DEF AuthAnswers, Waits, PhasesAgree, TypeOK
        <4>2. profile[u] \in 1..MaxVersion
          BY <3>2, <4>1, UserAssumption DEF TypeOK
        <4>3. [at |-> "body", user |-> [of |-> u, version |-> profile[u]]] \in Request
          BY <4>1, <4>2 DEF Request, Profile
        <4> QED
          BY <2>2, <3>2, <4>3, RequestStep DEF AuthAnswers
      <3> QED
        BY <3>1, <3>2
    <2> QED
      BY <1>4, <2>1, <2>2, RequestStep DEF BodyArrives, AuthFails, TimesOut
  <1>5. ASSUME NEW l \in Listing, AllFetched(l) PROVE TypeOK'
    <2>1. Completed(l) \in [User -> Profile \cup {Nobody}]
      BY <1>5, CompletedMap DEF AllFetched, PhasesAgree
    <2>2. Stored(l) \in SUBSET User
      BY DEF Stored, Range, TypeOK
    <2> QED
      BY <1>5, <2>1, <2>2 DEF AllFetched, TypeOK
  <1>6. ASSUME NEW l \in Listing, Return(l) PROVE TypeOK'
    BY <1>6 DEF Return, TypeOK
  <1>7. ASSUME NEW u \in User, UserChanges(u) PROVE TypeOK'
    BY <1>7, UserAssumption DEF UserChanges, TypeOK
  <1>8. ASSUME NEW u \in User, Expires(u) PROVE TypeOK'
    BY <1>8 DEF Expires, TypeOK
  <1>9. CASE UNCHANGED vars
    BY <1>9 DEF vars, TypeOK
  <1> QED
    BY <1>1, <1>2, <1>3, <1>4, <1>5, <1>6, <1>7, <1>8, <1>9 DEF Next

-----------------------------------------------------------------------------
\* What the invariant says of one listing.
Phases(l) ==
    /\ pc[l] \in {"idle", "lookup"} => fetch[l] = << >>
    /\ pc[l] \in {"fetch", "store", "done"} => Len(fetch[l]) = Len(toFetch[l])
    /\ pc[l] = "fetch" => pending[l] = {}
    /\ pc[l] \in {"lookup", "fetch"} =>
          \A u \in asked[l] \ pending[l] : result[l][u] = Nobody =>
              \E i \in DOMAIN toFetch[l] : toFetch[l][i] = u

Owned(l) ==
    /\ \A u \in User : result[l][u] # Nobody => result[l][u].of = u
    /\ \A i \in DOMAIN fetch[l] :
          fetch[l][i].user # Nobody => fetch[l][i].user.of = toFetch[l][i]

Shown(l) ==
    pc[l] \in {"store", "done"} =>
        \A u \in asked[l] : result[l][u] = Nobody =>
            \E i \in DOMAIN fetch[l] : toFetch[l][i] = u /\ fetch[l][i].user = Nobody

CacheOwned == \A u \in User : cache[u] # Nobody => cache[u].of = u

\* The invariant, listing by listing.
LEMMA InvByListing ==
    CacheInv <=> CacheOwned /\ \A l \in Listing : Phases(l) /\ Owned(l) /\ Shown(l)
  BY DEF CacheInv, PhasesAgree, OwnUser, NobodyIsHidden, CacheOwned, Phases, Owned, Shown

\* And after a step.
LEMMA InvByListingNext ==
    CacheOwned' /\ (\A l \in Listing : Phases(l)' /\ Owned(l)' /\ Shown(l)') => CacheInv'
  BY DEF CacheInv, PhasesAgree, OwnUser, NobodyIsHidden, CacheOwned, Phases, Owned, Shown

\* A step leaves every other listing alone.
LEMMA OtherListing ==
  ASSUME NEW m \in Listing, Phases(m), Owned(m), Shown(m),
         pc'[m] = pc[m], asked'[m] = asked[m], pending'[m] = pending[m],
         toFetch'[m] = toFetch[m], fetch'[m] = fetch[m], result'[m] = result[m]
  PROVE  Phases(m)' /\ Owned(m)' /\ Shown(m)'
  BY DEF Phases, Owned, Shown

\* A request that is answered, ends or fails keeps the invariant when what it got
\* is the user it is for.
LEMMA RequestKeepsInv ==
  ASSUME TypeOK, CacheInv, NEW l \in Listing, NEW i \in DOMAIN fetch[l],
         NEW r \in Request, Becomes(l, i, r), pc[l] = "fetch",
         r.user # Nobody => r.user.of = toFetch[l][i]
  PROVE  CacheInv'
  <1>1. CacheOwned' /\ UNCHANGED <<pc, asked, pending, toFetch, result>>
    BY InvByListing DEF Becomes, CacheOwned
  <1>2. ASSUME NEW m \in Listing PROVE Phases(m)' /\ Owned(m)' /\ Shown(m)'
    <2>1. CASE m # l
      BY <1>1, <2>1, RequestStep, OtherListing, InvByListing
    <2>2. CASE m = l
      BY <1>1, <2>2, RequestStep, InvByListing DEF Phases, Owned, Shown
    <2> QED
      BY <2>1, <2>2
  <1> QED
    BY <1>1, <1>2, InvByListingNext

\* The requests are sent only after the last lookup; the map is complete only
\* after the last request.
LEMMA CacheStep ==
  ASSUME TypeOK, CacheInv, [Next]_vars
  PROVE  CacheInv'
  <1>0. CacheOwned /\ \A m \in Listing : Phases(m) /\ Owned(m) /\ Shown(m)
    BY InvByListing
  <1>1. ASSUME NEW l \in Listing, NEW ids \in SUBSET User, GetUsersByIds(l, ids)
        PROVE  CacheInv'
    <2>1. CacheOwned' /\ \A m \in Listing \ {l} : Phases(m)' /\ Owned(m)' /\ Shown(m)'
      <3>1. CacheOwned'
        BY <1>0, <1>1 DEF GetUsersByIds, CacheOwned
      <3> QED
        BY <1>0, <1>1, <3>1, OtherListing DEF GetUsersByIds, TypeOK
    <2>2. /\ pc'[l] = IF ids = {} THEN "done" ELSE "lookup"
          /\ asked'[l] = ids /\ pending'[l] = ids
          /\ toFetch'[l] = << >> /\ fetch'[l] = << >>
          /\ result'[l] = Empty
      BY <1>1 DEF GetUsersByIds, TypeOK
    <2>3. Phases(l)' /\ Owned(l)' /\ Shown(l)'
      BY <2>2 DEF Phases, Owned, Shown, Empty
    <2> QED
      BY <2>1, <2>3, InvByListingNext
  <1>2. ASSUME NEW l \in Listing, NEW u \in User, CacheAnswers(l, u)
        PROVE  CacheInv'
    <2>1. CacheOwned' /\ \A m \in Listing \ {l} : Phases(m)' /\ Owned(m)' /\ Shown(m)'
      <3>1. CacheOwned'
        BY <1>0, <1>2 DEF CacheAnswers, CacheOwned
      <3> QED
        BY <1>0, <1>2, <3>1, OtherListing DEF CacheAnswers, TypeOK
    <2>2. PICK hit \in {cache[u], Nobody} :
            /\ result' = [result EXCEPT ![l] = [result[l] EXCEPT ![u] = hit]]
            /\ toFetch' = [toFetch EXCEPT ![l] =
                              IF hit = Nobody THEN Append(toFetch[l], u) ELSE toFetch[l]]
      BY <1>2 DEF CacheAnswers
    <2>3. /\ \A v \in User : result'[l][v] = IF v = u THEN hit ELSE result[l][v]
          /\ toFetch'[l] = IF hit = Nobody THEN Append(toFetch[l], u) ELSE toFetch[l]
          /\ asked'[l] = asked[l] /\ pending'[l] = pending[l] \ {u}
          /\ pc[l] = "lookup" /\ u \in pending[l] /\ fetch[l] = << >>
      BY <1>0, <1>2, <2>2 DEF CacheAnswers, Phases, TypeOK
    <2>4. hit # Nobody => hit.of = u
      BY <1>0, <2>2 DEF CacheOwned
    <2>5. \A v \in asked[l] \ pending'[l] : result'[l][v] = Nobody =>
             \E i \in DOMAIN toFetch'[l] : toFetch'[l][i] = v
      <3> SUFFICES ASSUME NEW v \in asked[l] \ pending'[l], result'[l][v] = Nobody
                   PROVE  \E i \in DOMAIN toFetch'[l] : toFetch'[l][i] = v
        OBVIOUS
      <3>0. toFetch[l] \in Seq(User) /\ asked[l] \subseteq User
        BY DEF TypeOK
      <3>1. CASE v = u
        <4>1. toFetch'[l] = Append(toFetch[l], u)
          BY <2>3, <3>0, <3>1
        <4>2. /\ Len(toFetch[l]) + 1 \in DOMAIN Append(toFetch[l], u)
              /\ Append(toFetch[l], u)[Len(toFetch[l]) + 1] = u
          BY <3>0
        <4> QED
          BY <3>1, <4>1, <4>2
      <3>2. CASE v # u
        <4>1. v \in asked[l] \ pending[l] /\ result[l][v] = Nobody
          BY <2>3, <3>0, <3>2
        <4>2. PICK i \in DOMAIN toFetch[l] : toFetch[l][i] = v
          BY <1>0, <2>3, <4>1 DEF Phases
        <4>3. /\ i \in DOMAIN Append(toFetch[l], u)
              /\ Append(toFetch[l], u)[i] = v
          BY <3>0, <4>2
        <4> QED
          BY <2>3, <4>2, <4>3
      <3> QED
        BY <3>1, <3>2
    <2>6. \/ pc'[l] = "lookup" /\ fetch'[l] = << >> /\ pending'[l] # {}
          \/ /\ pc'[l] = "done" /\ fetch'[l] = << >>
             /\ pending'[l] = {} /\ toFetch'[l] = << >>
          \/ /\ pc'[l] = "fetch" /\ pending'[l] = {}
             /\ fetch'[l] = [i \in 1..Len(toFetch'[l]) |-> Sent]
      BY <1>2, <2>3 DEF CacheAnswers, TypeOK
    <2>7. Owned(l)'
      <3>1. \A v \in User : result'[l][v] # Nobody => result'[l][v].of = v
        BY <1>0, <2>3, <2>4 DEF Owned
      <3>2. \A i \in DOMAIN fetch'[l] : fetch'[l][i].user = Nobody
        BY <2>6 DEF Sent
      <3> QED
        BY <3>1, <3>2 DEF Owned
    <2>8. Phases(l)' /\ Shown(l)'
      <3>0. toFetch'[l] \in Seq(User)
        BY TypeStep, InvByListing DEF TypeOK, CacheInv
      <3>1. CASE pc'[l] = "lookup"
        BY <2>3, <2>5, <2>6, <3>1 DEF Phases, Shown
      <3>2. CASE pc'[l] = "done"
        BY <2>3, <2>5, <2>6, <3>2 DEF Phases, Shown
      <3>3. CASE pc'[l] = "fetch"
        <4>1. /\ pending'[l] = {}
              /\ fetch'[l] = [i \in 1..Len(toFetch'[l]) |-> Sent]
          BY <2>6, <3>3
        <4>2. Len(fetch'[l]) = Len(toFetch'[l])
          BY <3>0, <4>1
        <4> QED
          BY <2>3, <2>5, <3>3, <4>1, <4>2 DEF Phases, Shown
      <3> QED
        BY <2>6, <3>1, <3>2, <3>3
    <2> QED
      BY <2>1, <2>7, <2>8, InvByListingNext
  <1>3. ASSUME NEW l \in Listing, NEW u \in User, RedisSet(l, u)
        PROVE  CacheInv'
    <2>1. CacheOwned'
      BY <1>0, <1>3 DEF RedisSet, CacheOwned, Owned, TypeOK
    <2>2. Phases(l)' /\ Owned(l)' /\ Shown(l)'
      BY <1>0, <1>3 DEF RedisSet, Phases, Owned, Shown, TypeOK
    <2>3. \A m \in Listing \ {l} : Phases(m)' /\ Owned(m)' /\ Shown(m)'
      BY <1>0, <1>3, OtherListing DEF RedisSet, TypeOK
    <2> QED
      BY <2>1, <2>2, <2>3, InvByListingNext
  <1>4. ASSUME NEW l \in Listing, NEW i \in DOMAIN fetch[l],
               \/ AuthAnswers(l, i) \/ BodyArrives(l, i)
               \/ AuthFails(l, i) \/ TimesOut(l, i)
        PROVE  CacheInv'
    <2>0. fetch[l][i] \in Request /\ pc[l] = "fetch"
      BY <1>4 DEF TypeOK, AuthAnswers, BodyArrives, AuthFails, TimesOut, Waits
    <2>1. NotFound \in Request /\ NotFound.user = Nobody
      BY DEF NotFound, Request
    <2>2. CASE AuthAnswers(l, i)
      <3> DEFINE u == toFetch[l][i]
                 r == [at |-> "body", user |-> [of |-> u, version |-> profile[u]]]
      <3>1. CASE profile[u] = 0
        BY <2>0, <2>1, <2>2, <3>1, RequestKeepsInv DEF AuthAnswers
      <3>2. CASE profile[u] # 0
        <4>1. i \in DOMAIN toFetch[l] /\ u \in User
          BY <1>0, <2>0 DEF Phases, TypeOK
        <4>2. profile[u] \in 1..MaxVersion
          BY <3>2, <4>1, UserAssumption DEF TypeOK
        <4>3. r \in Request /\ r.user.of = toFetch[l][i]
          BY <4>1, <4>2 DEF Request, Profile
        <4>4. Becomes(l, i, r)
          BY <2>2, <3>2 DEF AuthAnswers
        <4> QED
          BY <2>0, <4>3, <4>4, RequestKeepsInv
      <3> QED
        BY <3>1, <3>2
    <2>3. CASE BodyArrives(l, i)
      <3> DEFINE r == [fetch[l][i] EXCEPT !.at = "done"]
      <3>1. r \in Request /\ r.user = fetch[l][i].user
        BY <2>0 DEF Request
      <3>2. r.user # Nobody => r.user.of = toFetch[l][i]
        BY <1>0, <3>1 DEF Owned
      <3>3. Becomes(l, i, r)
        BY <2>3 DEF BodyArrives
      <3> QED
        BY <2>0, <3>1, <3>2, <3>3, RequestKeepsInv
    <2> QED
      BY <1>4, <2>0, <2>1, <2>2, <2>3, RequestKeepsInv DEF AuthFails, TimesOut
  <1>5. ASSUME NEW l \in Listing, AllFetched(l) PROVE CacheInv'
    <2>1. CacheOwned' /\ \A m \in Listing \ {l} : Phases(m)' /\ Owned(m)' /\ Shown(m)'
      <3>1. CacheOwned'
        BY <1>0, <1>5 DEF AllFetched, CacheOwned
      <3> QED
        BY <1>0, <1>5, <3>1, OtherListing DEF AllFetched, TypeOK
    <2>2. /\ pc[l] = "fetch" /\ pc'[l] = "store"
          /\ result'[l] = Completed(l)
          /\ asked'[l] = asked[l] /\ toFetch'[l] = toFetch[l] /\ fetch'[l] = fetch[l]
          /\ pending[l] = {}
          /\ Len(fetch[l]) = Len(toFetch[l])
      BY <1>0, <1>5 DEF AllFetched, Phases, TypeOK
    <2>3. Phases(l)'
      BY <2>2 DEF Phases
    <2>4. Owned(l)'
      BY <1>0, <2>2, CompletedMap DEF Owned
    <2>5. Shown(l)'
      <3> SUFFICES ASSUME NEW u \in asked[l], Completed(l)[u] = Nobody
                   PROVE  \E i \in DOMAIN fetch[l] :
                             toFetch[l][i] = u /\ fetch[l][i].user = Nobody
        BY <2>2 DEF Shown
      <3>1. u \in User
        BY DEF TypeOK
      <3>2. /\ result[l][u] = Nobody
            /\ \A i \in DOMAIN fetch[l] : toFetch[l][i] = u => fetch[l][i].user = Nobody
        BY <2>2, <3>1, CompletedMap
      <3>3. PICK i \in DOMAIN toFetch[l] : toFetch[l][i] = u
        BY <1>0, <2>2, <3>2 DEF Phases
      <3>4. i \in DOMAIN fetch[l]
        BY <2>2 DEF TypeOK
      <3> QED
        BY <3>2, <3>3, <3>4
    <2> QED
      BY <2>1, <2>3, <2>4, <2>5, InvByListingNext
  <1>6. ASSUME NEW l \in Listing, Return(l) PROVE CacheInv'
    <2>1. Phases(l)' /\ Owned(l)' /\ Shown(l)' /\ CacheOwned'
      BY <1>0, <1>6 DEF Return, Phases, Owned, Shown, CacheOwned, TypeOK
    <2>2. \A m \in Listing \ {l} : Phases(m)' /\ Owned(m)' /\ Shown(m)'
      BY <1>0, <1>6, OtherListing DEF Return, TypeOK
    <2> QED
      BY <2>1, <2>2, InvByListingNext
  <1>7. ASSUME NEW u \in User, UserChanges(u) PROVE CacheInv'
    BY <1>0, <1>7, OtherListing, InvByListingNext DEF UserChanges, CacheOwned
  <1>8. ASSUME NEW u \in User, Expires(u) PROVE CacheInv'
    <2>1. CacheOwned'
      BY <1>0, <1>8 DEF Expires, CacheOwned, TypeOK
    <2> QED
      BY <1>0, <1>8, <2>1, OtherListing, InvByListingNext DEF Expires
  <1>9. CASE UNCHANGED vars
    BY <1>0, <1>9, OtherListing, InvByListingNext DEF vars, CacheOwned
  <1> QED
    BY <1>1, <1>2, <1>3, <1>4, <1>5, <1>6, <1>7, <1>8, <1>9 DEF Next

-----------------------------------------------------------------------------
\* Types and the invariant of listings hold together (external.service.ts:23-80):
\* each needs the other.
THEOREM CacheInvariant == Spec => [](TypeOK /\ CacheInv)
  <1>1. Init => TypeOK
    BY UserAssumption DEF Init, TypeOK, Empty
  <1>2. Init => CacheInv
    BY DEF Init, CacheInv, PhasesAgree, OwnUser, NobodyIsHidden, Empty
  <1>3. CacheInv => PhasesAgree
    BY DEF CacheInv
  <1> QED
    BY <1>1, <1>2, <1>3, TypeStep, CacheStep, PTL DEF Spec

\* Types: lists of ids, requests and the map hold what their declarations say.
THEOREM TypeCorrect == Spec => []TypeOK
  BY CacheInvariant, PTL

\* Whatever order lookups and requests are answered in, every id has its own user
\* or none, in the answer and in the cache (lines 36-74).
THEOREM UsersAreOwn == Spec => []OwnUser
  <1>1. CacheInv => OwnUser
    BY DEF CacheInv
  <1> QED
    BY <1>1, CacheInvariant, PTL

\* Only a request of its own that failed or found nobody hides a user (lines 55-77).
THEOREM OnlyItsOwnRequestHides == Spec => []NobodyIsHidden
  <1>1. CacheInv => NobodyIsHidden
    BY DEF CacheInv
  <1> QED
    BY <1>1, CacheInvariant, PTL
=============================================================================
