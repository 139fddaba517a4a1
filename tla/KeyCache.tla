------------------------------ MODULE KeyCache ------------------------------
(***************************************************************************)
(* The keys Nafath signs its tokens with, as a server caches them          *)
(* (getKey and refresh, nafath-jwt.verifier.ts).  A token names its key;   *)
(* the cache is fetched anew when it is older than KeysTTL or lacks the    *)
(* key, and everyone who wants it meanwhile shares the fetch in flight.    *)
(* What follows an answer (the new map, the end of the fetch, and every    *)
(* waiter's second look) runs in microtasks, before any other event.       *)
(***************************************************************************)
EXTENDS Integers

CONSTANTS
    Kids,           \* key identifiers
    Verifications,  \* concurrent verifications of tokens
    KeysTTL,        \* KEYS_TTL_MS
    FetchTime,      \* the HTTP client's timeout
    LastNow,        \* bound on the clock
    MaxRestarts     \* bound on restarts of the server

ASSUME BoundsAssumption == {KeysTTL, FetchTime, LastNow, MaxRestarts} \subseteq Nat

VARIABLES
    keys,           \* cached keys
    fetchedAt,      \* when they were fetched; 0, long ago, at the start
    inflight,       \* the shared fetch: "none", "sent", or "answered" by Nafath
    reply,          \* the keys in Nafath's answer
    sentAt,         \* when the fetch in flight was sent
    pc,             \* each verification: "idle", "waiting", or its outcome
    kid,            \* each verification: the key its token names
    published,      \* keys Nafath publishes
    changedAt,      \* when it last began or ceased to publish each key
    now, restarts

cacheVars == <<keys, fetchedAt, inflight, reply, sentAt>>
nafathVars == <<published, changedAt>>
vars == <<cacheVars, pc, kid, nafathVars, now, restarts>>

Outcomes == {"accepted", "unknown", "failed"}

\* k was published at some moment since t.
PublishedSince(k, t) == k \in published \/ changedAt[k] >= t
\* ... and was not.
AbsentSince(k, t) == k \notin published \/ changedAt[k] >= t

Init ==
    /\ keys = {}
    /\ fetchedAt = 0
    /\ inflight = "none"
    /\ reply = {}
    /\ sentAt = 0
    /\ pc = [v \in Verifications |-> "idle"]
    /\ kid \in [Verifications -> Kids]
    /\ published \in SUBSET Kids
    /\ changedAt = [k \in Kids |-> 0]
    /\ now = KeysTTL + FetchTime + 1
    /\ restarts = 0

-----------------------------------------------------------------------------

\* Mutant: the age of the keys is looked at only when the key is not there.
ExpiredIfMissing(k) == now - fetchedAt > KeysTTL /\ k \notin keys

Expired(k) == now - fetchedAt > KeysTTL

\* A fresh cache that has the key is enough.
VerifyCached(v, k) ==
    /\ pc[v] = "idle"
    /\ ~Expired(k) /\ k \in keys
    /\ pc' = [pc EXCEPT ![v] = "accepted"]
    /\ kid' = [kid EXCEPT ![v] = k]
    /\ UNCHANGED <<cacheVars, nafathVars, now, restarts>>

\* Otherwise the verification joins the fetch in flight, or sends one.
VerifyRefreshing(v, k) ==
    /\ pc[v] = "idle"
    /\ Expired(k) \/ k \notin keys
    /\ pc' = [pc EXCEPT ![v] = "waiting"]
    /\ kid' = [kid EXCEPT ![v] = k]
    /\ IF inflight = "none"
       THEN inflight' = "sent" /\ sentAt' = now
       ELSE UNCHANGED <<inflight, sentAt>>
    /\ UNCHANGED <<keys, fetchedAt, reply, nafathVars, now, restarts>>

\* The tokens of the outcomes have been dealt with.
Return(v) ==
    /\ pc[v] \in Outcomes
    /\ pc' = [pc EXCEPT ![v] = "idle"]
    /\ UNCHANGED <<cacheVars, kid, nafathVars, now, restarts>>

\* Nafath answers with what it publishes at that moment; entries
\* that are no RSA keys, or have no kid, are skipped.
Answer ==
    /\ inflight = "sent"
    /\ inflight' = "answered"
    /\ reply' = published
    /\ UNCHANGED <<keys, fetchedAt, sentAt, pc, kid, nafathVars, now, restarts>>

\* The fetch is over, and its answer with it.
EndFetch == inflight' = "none" /\ reply' = {} /\ sentAt' = 0

\* Everyone who waits learns from the same answer.
Arrive ==
    /\ inflight = "answered"
    /\ keys' = reply
    /\ fetchedAt' = now
    /\ EndFetch
    /\ pc' = [v \in Verifications |->
                 IF pc[v] # "waiting" THEN pc[v]
                 ELSE IF kid[v] \in reply THEN "accepted" ELSE "unknown"]
    /\ UNCHANGED <<kid, nafathVars, now, restarts>>

\* Mutant: a call nobody answers is waited for without a limit.
FetchFailsAnswered ==
    /\ inflight = "answered"
    /\ EndFetch
    /\ pc' = [v \in Verifications |-> IF pc[v] = "waiting" THEN "failed" ELSE pc[v]]
    /\ UNCHANGED <<keys, fetchedAt, kid, nafathVars, now, restarts>>

\* An error, a malformed answer or the timeout: all who wait fail, the old
\* keys stay, and the next verification that needs it sends a new fetch.
FetchFails ==
    /\ inflight # "none"
    /\ EndFetch
    /\ pc' = [v \in Verifications |-> IF pc[v] = "waiting" THEN "failed" ELSE pc[v]]
    /\ UNCHANGED <<keys, fetchedAt, kid, nafathVars, now, restarts>>

\* Nafath rotates its keys.
Rotate ==
    /\ \E S \in SUBSET Kids \ {published} :
          /\ published' = S
          /\ changedAt' = [k \in Kids |->
                              IF (k \in S) = (k \in published) THEN changedAt[k] ELSE now]
    /\ UNCHANGED <<cacheVars, pc, kid, now, restarts>>

\* A fetch ends, one way or another, within FetchTime.
Tick ==
    /\ now < LastNow
    /\ inflight # "none" => now - sentAt < FetchTime
    /\ now' = now + 1
    /\ UNCHANGED <<cacheVars, pc, kid, nafathVars, restarts>>

\* The cache lives in memory.
Restart ==
    /\ restarts < MaxRestarts
    /\ restarts' = restarts + 1
    /\ keys' = {}
    /\ fetchedAt' = 0
    /\ EndFetch
    /\ pc' = [v \in Verifications |-> "idle"]
    /\ UNCHANGED <<kid, nafathVars, now>>

-----------------------------------------------------------------------------

Next ==
    \/ \E v \in Verifications, k \in Kids : VerifyCached(v, k) \/ VerifyRefreshing(v, k)
    \/ \E v \in Verifications : Return(v)
    \/ Answer
    \/ Arrive
    \/ FetchFails
    \/ Rotate
    \/ Tick
    \/ Restart

Spec == Init /\ [][Next]_vars

\* A call ends within its timeout, whatever Nafath does.
FairSpec == Spec /\ WF_vars(Arrive \/ FetchFails)

-----------------------------------------------------------------------------
(* Properties.                                                             *)

TypeOK ==
    /\ keys \subseteq Kids /\ reply \subseteq Kids /\ published \subseteq Kids
    /\ inflight \in {"none", "sent", "answered"}
    /\ fetchedAt \in Nat /\ sentAt \in Nat /\ now \in Nat /\ restarts \in Nat
    /\ pc \in [Verifications -> {"idle", "waiting"} \cup Outcomes]
    /\ kid \in [Verifications -> Kids]
    /\ changedAt \in [Kids -> Nat]

\* v's verification ends with outcome o in this step.
Ends(v, o) == pc[v] # o /\ pc'[v] = o

\* A withdrawn key stops being accepted a day (and a fetch) later, though
\* fetches overlap its withdrawal and failed ones keep the old keys ("Keys
\* cached ... 24 h TTL", the design, section 8).
AcceptedWasPublished ==
    [][\A v \in Verifications : Ends(v, "accepted") =>
          PublishedSince(kid'[v], now - KeysTTL - FetchTime)]_vars

\* A token is refused as unknown only if its key really was not published a
\* moment ago: never on the word of a cache that is merely old.
RefusedWasAbsent ==
    [][\A v \in Verifications : Ends(v, "unknown") =>
          AbsentSince(kid'[v], now - FetchTime)]_vars

\* Verdicts are never staler than the cache's lifetime and a fetch.
VerdictsWereTrue == AcceptedWasPublished /\ RefusedWasAbsent

\* A verification that waits for a fetch gets its outcome, whoever sent the
\* fetch and whatever becomes of it.
VerificationsEnd == \A v \in Verifications : pc[v] = "waiting" ~> pc[v] # "waiting"
=============================================================================
