--------------------------- MODULE KeyCacheProofs ---------------------------
(***************************************************************************)
(* Proofs about KeyCache: how stale the verdict on a token can be.         *)
(***************************************************************************)
EXTENDS KeyCache, TLAPS

\* The past is past.
TimesOK == fetchedAt <= now /\ \A k \in Kids : changedAt[k] <= now

\* Every cached key was published while its fetch was in flight.
CacheOK == \A k \in keys : PublishedSince(k, fetchedAt - FetchTime)

\* A fetch is younger than the timeout, and its answer was true since.
FetchOK ==
    /\ inflight # "none" => sentAt <= now /\ now - sentAt <= FetchTime
    /\ inflight = "answered" => \A k \in Kids : IF k \in reply THEN PublishedSince(k, sentAt)
                                                              ELSE AbsentSince(k, sentAt)

IInv == TypeOK /\ TimesOK /\ CacheOK /\ FetchOK

LEMMA BoundFacts == KeysTTL \in Nat /\ FetchTime \in Nat
  BY BoundsAssumption

LEMMA InitIInv == Init => IInv
  BY BoundFacts DEF Init, IInv, TypeOK, TimesOK, CacheOK, FetchOK, Outcomes

\* Neither history forgets: what was so since t stays so.
LEMMA SinceStays ==
  ASSUME IInv, [Next]_vars, NEW k \in Kids, NEW t \in Int, t <= now
  PROVE  /\ PublishedSince(k, t) => PublishedSince(k, t)'
         /\ AbsentSince(k, t) => AbsentSince(k, t)'
<1>1. CASE Rotate
  BY <1>1 DEF Rotate, IInv, TypeOK, PublishedSince, AbsentSince
<1>2. CASE UNCHANGED nafathVars
  BY <1>2 DEF nafathVars, PublishedSince, AbsentSince
<1>3. QED
  BY <1>1, <1>2 DEF Next, VerifyCached, VerifyRefreshing, Return, Answer, Arrive, FetchFails,
                    Tick, Restart, vars

LEMMA TypeStep == IInv /\ [Next]_vars => TypeOK'
<1> SUFFICES ASSUME IInv, [Next]_vars PROVE TypeOK'
  OBVIOUS
<1> USE BoundFacts DEF IInv, TypeOK, Outcomes, EndFetch
<1>1. ASSUME NEW v \in Verifications, NEW k \in Kids, VerifyCached(v, k) \/ VerifyRefreshing(v, k)
      PROVE TypeOK'
  BY <1>1 DEF VerifyCached, VerifyRefreshing, cacheVars, nafathVars
<1>2. ASSUME NEW v \in Verifications, Return(v) PROVE TypeOK'
  BY <1>2 DEF Return, cacheVars, nafathVars
<1>3. CASE Answer
  BY <1>3 DEF Answer, nafathVars
<1>4. CASE Arrive
  BY <1>4 DEF Arrive, nafathVars
<1>5. CASE FetchFails
  BY <1>5 DEF FetchFails, nafathVars
<1>6. CASE Rotate
  BY <1>6 DEF Rotate, cacheVars
<1>7. CASE Tick \/ Restart
  BY <1>7 DEF Tick, Restart, cacheVars, nafathVars
<1>8. CASE UNCHANGED vars
  BY <1>8 DEF vars, cacheVars, nafathVars
<1>9. QED
  BY <1>1, <1>2, <1>3, <1>4, <1>5, <1>6, <1>7, <1>8 DEF Next

LEMMA TimesStep == IInv /\ [Next]_vars => TimesOK'
<1> SUFFICES ASSUME IInv, [Next]_vars PROVE TimesOK'
  OBVIOUS
<1> USE DEF IInv, TypeOK, TimesOK
<1>1. CASE Rotate
  BY <1>1 DEF Rotate, cacheVars
<1>2. CASE Tick
  BY <1>2 DEF Tick, cacheVars, nafathVars
<1>3. CASE Arrive \/ Restart
  BY <1>3 DEF Arrive, Restart, nafathVars
<1>4. CASE UNCHANGED <<fetchedAt, nafathVars, now>>
  BY <1>4 DEF nafathVars
<1>5. QED
  BY <1>1, <1>2, <1>3, <1>4 DEF Next, VerifyCached, VerifyRefreshing, Return, Answer, FetchFails,
                                vars, cacheVars

LEMMA CacheStep == IInv /\ [Next]_vars => CacheOK'
<1> SUFFICES ASSUME IInv, [Next]_vars, NEW k \in keys'
             PROVE  PublishedSince(k, fetchedAt - FetchTime)'
  BY DEF CacheOK
<1>1. CASE Arrive
  <2>1. k \in Kids /\ k \in reply /\ inflight = "answered" /\ fetchedAt' = now
    BY <1>1 DEF Arrive, IInv, TypeOK
  <2>2. PublishedSince(k, sentAt) /\ now - FetchTime <= sentAt
    BY <2>1, BoundFacts DEF IInv, FetchOK, TypeOK
  <2>3. PublishedSince(k, now - FetchTime)
    BY <2>1, <2>2, BoundFacts DEF PublishedSince, IInv, TypeOK
  <2>4. QED
    BY <1>1, <2>1, <2>3 DEF Arrive, nafathVars, PublishedSince
<1>2. CASE Restart
  BY <1>2 DEF Restart
<1>3. CASE UNCHANGED <<keys, fetchedAt>>
  <2>1. k \in Kids /\ PublishedSince(k, fetchedAt - FetchTime)
    BY <1>3 DEF IInv, TypeOK, CacheOK
  <2>2. fetchedAt - FetchTime \in Int /\ fetchedAt - FetchTime <= now
    BY BoundFacts DEF IInv, TypeOK, TimesOK
  <2>3. PublishedSince(k, fetchedAt - FetchTime)'
    BY <1>3, <2>1, <2>2, SinceStays DEF PublishedSince
  <2>4. QED
    BY <2>3
<1>4. QED
  BY <1>1, <1>2, <1>3 DEF Next, VerifyCached, VerifyRefreshing, Return, Answer, FetchFails,
                          Rotate, Tick, vars, cacheVars

LEMMA FetchStep == IInv /\ [Next]_vars => FetchOK'
<1> SUFFICES ASSUME IInv, [Next]_vars PROVE FetchOK'
  OBVIOUS
<1>1. CASE Arrive \/ FetchFails \/ Restart
  BY <1>1 DEF Arrive, FetchFails, Restart, EndFetch, FetchOK
<1>2. CASE Answer
  BY <1>2, BoundFacts DEF Answer, nafathVars, FetchOK, IInv, TypeOK, PublishedSince, AbsentSince
<1>3. ASSUME NEW v \in Verifications, NEW k \in Kids, VerifyRefreshing(v, k) PROVE FetchOK'
  BY <1>3, BoundFacts
     DEF VerifyRefreshing, nafathVars, FetchOK, IInv, TypeOK, PublishedSince, AbsentSince
<1>4. CASE UNCHANGED <<inflight, reply, sentAt>> /\ (now' = now \/ Tick)
  <2>1. inflight' # "none" => sentAt' <= now' /\ now' - sentAt' <= FetchTime
    BY <1>4, BoundFacts DEF Tick, FetchOK, IInv, TypeOK
  <2>2. ASSUME inflight' = "answered", NEW k \in Kids
        PROVE  IF k \in reply' THEN PublishedSince(k, sentAt)' ELSE AbsentSince(k, sentAt)'
    BY <1>4, <2>2, SinceStays DEF FetchOK, IInv, TypeOK, PublishedSince, AbsentSince
  <2>3. QED
    BY <2>1, <2>2 DEF FetchOK
<1>5. QED
  BY <1>1, <1>2, <1>3, <1>4 DEF Next, VerifyCached, Return, Rotate, Tick, vars, cacheVars

\* The invariant behind the bounds: a cached key was published while it was
\* fetched, and an answer in flight was true after its fetch was sent.
THEOREM CacheInvariance == Spec => []IInv
<1>1. IInv /\ [Next]_vars => IInv'
  BY TypeStep, TimesStep, CacheStep, FetchStep DEF IInv
<1>2. QED
  BY InitIInv, <1>1, PTL DEF Spec

\* Every variable keeps its type.
THEOREM CacheTypes == Spec => []TypeOK
<1>1. IInv => TypeOK
  BY DEF IInv
<1>2. QED
  BY CacheInvariance, <1>1, PTL

\* No token is accepted a day and a fetch after Nafath withdrew its key, and
\* none is refused for a key that was published all through the last fetch.
THEOREM VerdictsAreFresh == Spec => VerdictsWereTrue
<1>1. ASSUME IInv, [Next]_vars, NEW v \in Verifications
      PROVE  /\ Ends(v, "accepted") => PublishedSince(kid'[v], now - KeysTTL - FetchTime)
             /\ Ends(v, "unknown") => AbsentSince(kid'[v], now - FetchTime)
  <2>1. ASSUME NEW w \in Verifications, NEW k \in Kids, VerifyCached(w, k),
               Ends(v, "accepted") \/ Ends(v, "unknown")
        PROVE  Ends(v, "accepted") /\ PublishedSince(kid'[v], now - KeysTTL - FetchTime)
    <3>1. v = w /\ kid'[v] = k /\ pc'[v] = "accepted"
      BY <1>1, <2>1 DEF VerifyCached, Ends, IInv, TypeOK
    <3>2. k \in keys /\ now - fetchedAt <= KeysTTL
      BY <1>1, <2>1, BoundFacts DEF VerifyCached, Expired, IInv, TypeOK
    <3>3. PublishedSince(k, fetchedAt - FetchTime)
      BY <1>1, <3>2 DEF IInv, CacheOK
    <3>4. QED
      BY <1>1, <2>1, <3>1, <3>2, <3>3, BoundFacts DEF PublishedSince, IInv, TypeOK, Ends
  <2>2. CASE Arrive
    <3>1. kid'[v] = kid[v] /\ kid[v] \in Kids /\ inflight = "answered"
      BY <1>1, <2>2 DEF Arrive, IInv, TypeOK
    <3>2. sentAt \in Int /\ now - FetchTime <= sentAt /\ now - KeysTTL - FetchTime <= sentAt
      BY <1>1, <3>1, BoundFacts DEF IInv, TypeOK, FetchOK
    <3>3. /\ Ends(v, "accepted") => kid[v] \in reply
          /\ Ends(v, "unknown") => kid[v] \notin reply
      BY <1>1, <2>2 DEF Arrive, Ends, IInv, TypeOK
    <3>4. IF kid[v] \in reply THEN PublishedSince(kid[v], sentAt) ELSE AbsentSince(kid[v], sentAt)
      BY <1>1, <3>1 DEF IInv, FetchOK
    <3>5. now \in Int /\ changedAt[kid[v]] \in Int
      BY <1>1, <3>1 DEF IInv, TypeOK
    <3>6. QED
      BY <3>1, <3>2, <3>3, <3>4, <3>5, BoundFacts DEF PublishedSince, AbsentSince
  <2>3. ASSUME NEW w \in Verifications, NEW k \in Kids, VerifyRefreshing(w, k)
        PROVE  ~Ends(v, "accepted") /\ ~Ends(v, "unknown")
    BY <1>1, <2>3 DEF VerifyRefreshing, Ends, IInv, TypeOK
  <2>4. CASE Answer \/ FetchFails \/ Rotate \/ Tick \/ Restart \/ UNCHANGED vars
    BY <1>1, <2>4 DEF Answer, FetchFails, Rotate, Tick, Restart, vars, Ends, IInv, TypeOK
  <2>5. ASSUME NEW w \in Verifications, Return(w)
        PROVE  ~Ends(v, "accepted") /\ ~Ends(v, "unknown")
    BY <1>1, <2>5 DEF Return, Ends, IInv, TypeOK
  <2>6. Ends(v, "accepted") /\ Ends(v, "unknown") => FALSE
    BY DEF Ends
  <2>7. QED
    BY <1>1, <2>1, <2>2, <2>3, <2>4, <2>5, <2>6 DEF Next
<1>2. IInv /\ [Next]_vars =>
          /\ \A v \in Verifications : Ends(v, "accepted") =>
                PublishedSince(kid'[v], now - KeysTTL - FetchTime)
          /\ \A v \in Verifications : Ends(v, "unknown") => AbsentSince(kid'[v], now - FetchTime)
  BY <1>1
<1>3. QED
  BY CacheInvariance, <1>2, PTL DEF Spec, VerdictsWereTrue, AcceptedWasPublished, RefusedWasAbsent
=============================================================================
