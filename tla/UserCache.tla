----------------------------- MODULE UserCache ------------------------------
(***************************************************************************)
(* The users shown with a listing of payments: getUsersByIds and           *)
(* fetchUserById (external.service.ts), the cache they share through       *)
(* RedisService, and the auth service behind them.  A listing asks the     *)
(* cache for all its users at once, fetches the missing ones in parallel   *)
(* and stores what it got; failures of either service are swallowed.       *)
(***************************************************************************)
EXTENDS Naturals, Sequences, Functions

CONSTANTS
    User,           \* ids of users
    Listing,        \* calls of getUsersByIds that may run at the same time
    MaxVersion,     \* how often a user's data changes
    Nobody          \* null and undefined: no user

\* A user as the auth service returned it, at some version of its data.
Profile == [of: User, version: 1..MaxVersion]

ASSUME UserAssumption ==
    /\ MaxVersion \in Nat
    /\ Nobody \notin Profile

VARIABLES
    profile,    \* profile[u]: the version of u at the auth service, 0: no such user
    cache,      \* cache[u]: the entry user:<u>
    pc,         \* pc[l]: what the listing waits for
    asked,      \* asked[l]: uniqueIds
    pending,    \* pending[l]: the lookups, then the stores, not answered yet
    toFetch,    \* toFetch[l]: idsToFetch, in the order in which the cache answered
    fetch,      \* fetch[l][i]: the request for toFetch[l][i]
    result      \* result[l]: the map that is returned

vars == <<profile, cache, pc, asked, pending, toFetch, fetch, result>>

\* A request waits for its headers, then for its body; user is what it got.
Request == [at: {"sent", "body", "done"}, user: Profile \cup {Nobody}]

TypeOK ==
    /\ profile \in [User -> 0..MaxVersion]
    /\ cache \in [User -> Profile \cup {Nobody}]
    /\ pc \in [Listing -> {"idle", "lookup", "fetch", "store", "done"}]
    /\ asked \in [Listing -> SUBSET User]
    /\ pending \in [Listing -> SUBSET User]
    /\ toFetch \in [Listing -> Seq(User)]
    /\ fetch \in [Listing -> Seq(Request)]
    /\ result \in [Listing -> [User -> Profile \cup {Nobody}]]

Empty == [u \in User |-> Nobody]

Init ==
    /\ profile \in [User -> 0..MaxVersion]
    /\ cache = Empty
    /\ pc = [l \in Listing |-> "idle"]
    /\ asked = [l \in Listing |-> {}]
    /\ pending = [l \in Listing |-> {}]
    /\ toFetch = [l \in Listing |-> << >>]
    /\ fetch = [l \in Listing |-> << >>]
    /\ result = [l \in Listing |-> Empty]

-----------------------------------------------------------------------------
(* A listing *)

\* The users of the payments on the page, each once.  Without any the answer is
\* an empty map.
GetUsersByIds(l, ids) ==
    /\ pc[l] \in {"idle", "done"}
    /\ asked' = [asked EXCEPT ![l] = ids]
    /\ pending' = [pending EXCEPT ![l] = ids]
    /\ toFetch' = [toFetch EXCEPT ![l] = << >>]
    /\ fetch' = [fetch EXCEPT ![l] = << >>]
    /\ result' = [result EXCEPT ![l] = Empty]
    /\ pc' = [pc EXCEPT ![l] = IF ids = {} THEN "done" ELSE "lookup"]
    /\ UNCHANGED <<profile, cache>>

Sent == [at |-> "sent", user |-> Nobody]

\* Redis answers one lookup: with the entry, or with nothing when there is none
\* or when Redis failed (redis.service.ts:14-17).  After the last answer the
\* requests are sent, or the listing is complete.
CacheAnswers(l, u) ==
    /\ pc[l] = "lookup"
    /\ u \in pending[l]
    /\ pending' = [pending EXCEPT ![l] = @ \ {u}]
    /\ \E hit \in {cache[u], Nobody} :
          /\ result' = [result EXCEPT ![l] = [@ EXCEPT ![u] = hit]]
          /\ toFetch' = [toFetch EXCEPT ![l] = IF hit = Nobody THEN Append(@, u) ELSE @]
    /\ \/ /\ pending'[l] # {}
          /\ UNCHANGED <<pc, fetch>>
       \/ /\ pending'[l] = {} /\ toFetch'[l] = << >>
          /\ pc' = [pc EXCEPT ![l] = "done"]
          /\ UNCHANGED fetch
       \/ /\ pending'[l] = {} /\ toFetch'[l] # << >>
          /\ pc' = [pc EXCEPT ![l] = "fetch"]
          /\ fetch' = [fetch EXCEPT ![l] = [i \in 1..Len(toFetch'[l]) |-> Sent]]
    /\ UNCHANGED <<profile, cache, asked>>

Waits(l, i, at) ==
    /\ pc[l] = "fetch"
    /\ i \in DOMAIN fetch[l]
    /\ fetch[l][i].at = at

Becomes(l, i, request) ==
    /\ fetch' = [fetch EXCEPT ![l] = [@ EXCEPT ![i] = request]]
    /\ UNCHANGED <<profile, cache, pc, asked, pending, toFetch, result>>

NotFoundIsNone == [at |-> "done", user |-> [status |-> 404]]
NotFound == [at |-> "done", user |-> Nobody]

\* The headers arrive, with a user as it is now or with 404; they end the timer.
AuthAnswers(l, i) ==
    /\ Waits(l, i, "sent")
    /\ LET u == toFetch[l][i] IN
       Becomes(l, i, IF profile[u] = 0 THEN NotFound
                     ELSE [at |-> "body", user |-> [of |-> u, version |-> profile[u]]])

\* response.json(), with or without the wrapper of ResponseData.
BodyArrives(l, i) ==
    /\ Waits(l, i, "body")
    /\ Becomes(l, i, [fetch[l][i] EXCEPT !.at = "done"])

\* Any other status, a broken connection or a body that is not JSON: the request
\* throws, and the catch at its call makes that no user.
AuthFails(l, i) ==
    /\ Waits(l, i, "sent") \/ Waits(l, i, "body")
    /\ Becomes(l, i, NotFound)

\* After five seconds without headers the request is aborted.
TimesOutOnBody(l, i) ==
    /\ Waits(l, i, "body")
    /\ Becomes(l, i, NotFound)
TimesOut(l, i) ==
    /\ Waits(l, i, "sent")
    /\ Becomes(l, i, NotFound)

\* users[index] is the answer for idsToFetch[index].
NewestFirst(l, i) == toFetch[l][Len(toFetch[l]) + 1 - i]
IdAt(l, i) == toFetch[l][i]

\* The map with every user that was fetched; a request that failed adds nothing
\* and takes nothing away.
FailFast(l) ==
    LET failed == \E i \in DOMAIN fetch[l] : fetch[l][i].user = Nobody
        got(u) == {i \in DOMAIN fetch[l] : IdAt(l, i) = u /\ ~failed}
    IN  [u \in User |-> IF got(u) = {} THEN result[l][u]
                        ELSE fetch[l][CHOOSE i \in got(u) : TRUE].user]
Completed(l) ==
    LET got(u) == {i \in DOMAIN fetch[l] : IdAt(l, i) = u /\ fetch[l][i].user # Nobody}
    IN  [u \in User |-> IF got(u) = {} THEN result[l][u]
                        ELSE fetch[l][CHOOSE i \in got(u) : TRUE].user]

\* The users that go to the cache: the fetched ones, not those that came from it.
StoredAgain(l) == {u \in asked[l] : Completed(l)[u] # Nobody}
Stored(l) == {u \in Range(toFetch[l]) : Completed(l)[u] # Nobody}

\* All requests have ended.  The map is completed at once, and one store for
\* every fetched user is under way.
AllFetched(l) ==
    /\ pc[l] = "fetch"
    /\ \A i \in DOMAIN fetch[l] : fetch[l][i].at = "done"
    /\ result' = [result EXCEPT ![l] = Completed(l)]
    /\ pending' = [pending EXCEPT ![l] = Stored(l)]
    /\ pc' = [pc EXCEPT ![l] = "store"]
    /\ UNCHANGED <<profile, cache, asked, toFetch, fetch>>

\* Redis stores the user, or fails, which is logged (redis.service.ts:21-26).
RedisSet(l, u) ==
    /\ pc[l] = "store"
    /\ u \in pending[l]
    /\ cache' \in {cache, [cache EXCEPT ![u] = result[l][u]]}
    /\ pending' = [pending EXCEPT ![l] = @ \ {u}]
    /\ UNCHANGED <<profile, pc, asked, toFetch, fetch, result>>

Return(l) ==
    /\ pc[l] = "store"
    /\ pending[l] = {}
    /\ pc' = [pc EXCEPT ![l] = "done"]
    /\ UNCHANGED <<profile, cache, asked, pending, toFetch, fetch, result>>

-----------------------------------------------------------------------------
(* The world *)

\* A user changes at the auth service.  Nothing calls invalidateUserCache.
UserChanges(u) ==
    /\ profile[u] < MaxVersion
    /\ profile' = [profile EXCEPT ![u] = @ + 1]
    /\ UNCHANGED <<cache, pc, asked, pending, toFetch, fetch, result>>

\* An entry reaches its time to live, or is evicted.
Expires(u) ==
    /\ cache[u] # Nobody
    /\ cache' = [cache EXCEPT ![u] = Nobody]
    /\ UNCHANGED <<profile, pc, asked, pending, toFetch, fetch, result>>

Next ==
    \/ \E l \in Listing :
          \/ \E ids \in SUBSET User : GetUsersByIds(l, ids)
          \/ \E u \in User : CacheAnswers(l, u) \/ RedisSet(l, u)
          \/ \E i \in DOMAIN fetch[l] :
                \/ AuthAnswers(l, i) \/ BodyArrives(l, i)
                \/ AuthFails(l, i) \/ TimesOut(l, i)
          \/ AllFetched(l) \/ Return(l)
    \/ \E u \in User : UserChanges(u) \/ Expires(u)

Spec == Init /\ [][Next]_vars

\* Redis answers or fails, the runtime runs what is ready, the timer fires, an
\* answer whose headers came has an end, and an entry does not outlive its time.
\* The auth service need not answer, and nobody has to ask for a listing.
Fairness ==
    /\ \A l \in Listing :
          /\ WF_vars(\E u \in User : CacheAnswers(l, u))
          /\ WF_vars(\E u \in User : RedisSet(l, u))
          /\ WF_vars(\E i \in DOMAIN fetch[l] : TimesOut(l, i))
          /\ WF_vars(\E i \in DOMAIN fetch[l] : BodyArrives(l, i))
          /\ WF_vars(AllFetched(l)) /\ WF_vars(Return(l))
    /\ \A u \in User : WF_vars(Expires(u))

FairSpec == Spec /\ Fairness

-----------------------------------------------------------------------------
(* Properties *)

\* Every id gets its own user or none, in the answer and in the cache, in
\* whatever order the cache answered and the requests ended (lines 36-74).
OwnUser ==
    /\ \A l \in Listing, u \in User : result[l][u] # Nobody => result[l][u].of = u
    /\ \A u \in User : cache[u] # Nobody => cache[u].of = u
    /\ \A l \in Listing : \A i \in DOMAIN fetch[l] :
          fetch[l][i].user # Nobody => fetch[l][i].user.of = toFetch[l][i]

\* Who was asked for and is not shown was asked for at the auth service, and that
\* very request failed or found nobody: the failure of another user's request, or
\* of Redis, hides no one (lines 55-77).
NobodyIsHidden ==
    \A l \in Listing : pc[l] \in {"store", "done"} =>
        \A u \in asked[l] : result[l][u] = Nobody =>
            \E i \in DOMAIN fetch[l] :
                toFetch[l][i] = u /\ fetch[l][i].user = Nobody

\* A listing works in phases: no request is sent before all lookups are answered,
\* there is one for every id in idsToFetch, and whoever the cache did not know is
\* among these ids (lines 33-63).
PhasesAgree ==
    \A l \in Listing :
        /\ pc[l] \in {"idle", "lookup"} => fetch[l] = << >>
        /\ pc[l] \in {"fetch", "store", "done"} => Len(fetch[l]) = Len(toFetch[l])
        /\ pc[l] = "fetch" => pending[l] = {}
        /\ pc[l] \in {"lookup", "fetch"} =>
              \A u \in asked[l] \ pending[l] : result[l][u] = Nobody =>
                  \E i \in DOMAIN toFetch[l] : toFetch[l][i] = u

\* The inductive invariant of a listing (lines 23-80).
CacheInv == PhasesAgree /\ OwnUser /\ NobodyIsHidden

\* A listing ends, whatever the auth service and Redis do, as long as an answer
\* that has begun comes to an end (the timer at line 88 stops at line 106).
ListingsReturn == \A l \in Listing : pc[l] = "lookup" ~> pc[l] = "done"

\* Nothing invalidates an entry, but once a user no longer changes, the time to
\* live removes every older version, those included that a slow listing stores
\* after the change (line 71).
StaleEntriesGo ==
    <>[](\A u \in User : cache[u] # Nobody => cache[u].version = profile[u])
=============================================================================
