------------------------------- MODULE Nafath -------------------------------
(***************************************************************************)
(* Login with Nafath, the national single sign-on (nafath.service.ts,      *)
(* nafath.cron.ts): a request is sent to a person's phone, the person      *)
(* decides, and the decision comes back by callback or by polling, once,   *)
(* many times or never; an approval is exchanged for a session, or for a   *)
(* token that links the identity to an account.                            *)
(*                                                                         *)
(* Every HTTP request and every cron run is a process that takes one       *)
(* statement at a time, each committed by itself; only link is a           *)
(* transaction, which keeps its request row locked until it commits.       *)
(* Left out: how often a client polls (POLL_AFTER_MS, POLL_EVERY_MS,       *)
(* lastPolledAt), where a status came from (statusSource, which nothing    *)
(* reads), and nafathVerifiedAt.                                           *)
(***************************************************************************)
EXTENDS Integers, FiniteSets

CONSTANTS
    RequestIds,     \* nafath_requests.id
    NationalIds,    \* people, by their national ID
    Users,          \* accounts
    Handlers,       \* concurrent HTTP requests
    CronRuns,       \* concurrent runs of expireStale
    DecisionTime,   \* decisionSeconds: how long a person has to decide
    GraceTime,      \* graceSeconds on top of it
    RedeemWindow,   \* REDEEM_WINDOW_MS
    IdWindow,       \* PER_ID_WINDOW_MS
    IdMaxRequests,  \* PER_ID_MAX_REQUESTS
    LinkTokenLife,  \* expiresIn of a link token
    Retention,      \* retentionDays
    LastNow,        \* bound on the clock
    LastStart,      \* bound on when the last request is made
    MaxUpsets,      \* bound on crashes, lost replies and closed accounts
    NoRequest, NoId, NoUser

Procs == Handlers \cup CronRuns

ASSUME ProcsAssumption == Handlers \cap CronRuns = {}
ASSUME BoundsAssumption ==
    {DecisionTime, GraceTime, RedeemWindow, IdWindow, IdMaxRequests, LinkTokenLife,
     Retention, LastNow, LastStart, MaxUpsets} \subseteq Nat
ASSUME NullAssumption ==
    NoRequest \notin RequestIds /\ NoId \notin NationalIds /\ NoUser \notin Users

VARIABLES
    nid,            \* nationalId of each request, NoId before there is a row
    status,         \* its status; "none" before there is a row, "purged" after
    hasTrans,       \* whether its transId and random are stored
    claims,         \* whether its signed claims are stored
    createdAt, completedAt,
    consumed,       \* whether consumedAt is set
    linkedUser,     \* linkedUserId, or NoUser
    nationalId,     \* users.nationalId, or NoId
    verified,       \* users.isVerified
    active,         \* accounts whose isActive is set
    upstream,       \* what Nafath knows of each request
    told,           \* requests whose id the client that started them has got
    answers,        \* sessions and link tokens given out for each request
    linkTokens,     \* link tokens given out
    now,            \* the clock
    pc, job, who, saw,  \* each process: statement, request, person or account, data in memory
    upsets          \* upsets so far

rowVars == <<nid, status, hasTrans, claims, createdAt, completedAt, consumed, linkedUser>>
userVars == <<nationalId, verified, active>>
clientVars == <<told, answers, linkTokens>>
procVars == <<pc, job, who, saw>>
vars == <<rowVars, userVars, clientVars, upstream, procVars, now, upsets>>

Decisions == {"COMPLETED", "REJECTED", "EXPIRED"}
Final == Decisions \cup {"FAILED"}
Statuses == {"none", "WAITING", "purged"} \cup Final
Steps == {"idle", "count", "insert", "send", "storeTrans", "markFailed", "poll", "finish",
          "expire", "reload", "redeem", "login", "keepClaims", "lockRow", "findOwner",
          "linkUser", "saveProfile", "expireUnredeemed"}
LinkTokens == [request: RequestIds, issuedAt: Nat]

Exists(r) == status[r] \notin {"none", "purged"}

\* The row's lock is free: no link transaction has it.
Unlocked(r) == \A p \in Procs : pc[p] \in {"findOwner", "linkUser"} => job[p] # r

ExpiresAt(r) == createdAt[r] + DecisionTime
StaleAt(r) == ExpiresAt(r) + GraceTime

\* A result nobody redeemed in time.
Unredeemed(r) == /\ status[r] = "COMPLETED"
                 /\ ~consumed[r]
                 /\ now - completedAt[r] > RedeemWindow

Init ==
    /\ nid = [r \in RequestIds |-> NoId]
    /\ status = [r \in RequestIds |-> "none"]
    /\ hasTrans = [r \in RequestIds |-> FALSE]
    /\ claims = [r \in RequestIds |-> FALSE]
    /\ createdAt = [r \in RequestIds |-> 0]
    /\ completedAt = [r \in RequestIds |-> 0]
    /\ consumed = [r \in RequestIds |-> FALSE]
    /\ linkedUser = [r \in RequestIds |-> NoUser]
    /\ nationalId = [u \in Users |-> NoId]
    /\ verified = [u \in Users |-> FALSE]
    /\ active = Users
    /\ upstream = [r \in RequestIds |-> "none"]
    /\ told = {}
    /\ answers = [r \in RequestIds |-> 0]
    /\ linkTokens = {}
    /\ now = 0
    /\ pc = [p \in Procs |-> "idle"]
    /\ job = [p \in Procs |-> NoRequest]
    /\ who = [p \in Procs |-> NoUser]
    /\ saw = [p \in Procs |-> "nothing"]
    /\ upsets = 0

-----------------------------------------------------------------------------
(* Moves of a process.                                                     *)

\* p begins to serve a request, at statement s.
Begin(p, s, r, w, v) ==
    /\ pc[p] = "idle"
    /\ pc' = [pc EXCEPT ![p] = s]
    /\ job' = [job EXCEPT ![p] = r]
    /\ who' = [who EXCEPT ![p] = w]
    /\ saw' = [saw EXCEPT ![p] = v]

GoTo(p, s) == pc' = [pc EXCEPT ![p] = s] /\ UNCHANGED <<job, who, saw>>

\* p goes on to statement s with v in memory.
GoWith(p, s, v) ==
    /\ pc' = [pc EXCEPT ![p] = s]
    /\ saw' = [saw EXCEPT ![p] = v]
    /\ UNCHANGED <<job, who>>

Finish(p) ==
    /\ pc' = [pc EXCEPT ![p] = "idle"]
    /\ job' = [job EXCEPT ![p] = NoRequest]
    /\ who' = [who EXCEPT ![p] = NoUser]
    /\ saw' = [saw EXCEPT ![p] = "nothing"]

Unwritten == UNCHANGED <<rowVars, userVars, clientVars, upstream, now, upsets>>

-----------------------------------------------------------------------------
(* POST start.                                                             *)

\* The newest WAITING row of n decides whether one is pending.
Start(p, n) ==
    /\ \A r \in RequestIds : nid[r] = n /\ status[r] = "WAITING" => now >= StaleAt(r)
    /\ Begin(p, "count", NoRequest, n, "nothing")
    /\ Unwritten

Recent(n) == {r \in RequestIds : nid[r] = n /\ Exists(r) /\ createdAt[r] > now - IdWindow}

CountRecent(p) ==
    /\ pc[p] = "count"
    /\ IF Cardinality(Recent(who[p])) >= IdMaxRequests THEN Finish(p) ELSE GoTo(p, "insert")
    /\ Unwritten

\* The row is saved, or saving it fails (as it does here when the bounds are
\* reached).
InsertRequest(p) ==
    /\ pc[p] = "insert"
    /\ \/ /\ now <= LastStart
          /\ \E r \in RequestIds :
                /\ status[r] = "none"
                /\ nid' = [nid EXCEPT ![r] = who[p]]
                /\ status' = [status EXCEPT ![r] = "WAITING"]
                /\ createdAt' = [createdAt EXCEPT ![r] = now]
                /\ job' = [job EXCEPT ![p] = r]
          /\ pc' = [pc EXCEPT ![p] = "send"]
          /\ UNCHANGED <<who, saw>>
       \/ Finish(p) /\ UNCHANGED <<nid, status, createdAt>>
    /\ UNCHANGED <<hasTrans, claims, completedAt, consumed, linkedUser, userVars, clientVars,
                   upstream, now, upsets>>

\* Nafath has one request per person open at a time (its error 400-034-050).
ActiveUpstream(n) == \E r \in RequestIds : nid[r] = n /\ upstream[r] = "WAITING"

SendRequest(p) ==
    /\ pc[p] = "send"
    /\ IF ActiveUpstream(nid[job[p]])
       THEN GoTo(p, "markFailed") /\ UNCHANGED upstream
       ELSE /\ upstream' = [upstream EXCEPT ![job[p]] = "WAITING"]
            /\ GoTo(p, "storeTrans")
    /\ UNCHANGED <<rowVars, userVars, clientVars, now, upsets>>

\* The call fails or times out, and may have got through all the same.
SendFails(p) ==
    /\ pc[p] = "send"
    /\ upsets < MaxUpsets
    /\ upsets' = upsets + 1
    /\ \/ UNCHANGED upstream
       \/ /\ ~ActiveUpstream(nid[job[p]])
          /\ upstream' = [upstream EXCEPT ![job[p]] = "WAITING"]
    /\ GoTo(p, "markFailed")
    /\ UNCHANGED <<rowVars, userVars, clientVars, now>>

StoreTrans(p) ==
    /\ pc[p] = "storeTrans"
    /\ hasTrans' = [hasTrans EXCEPT ![job[p]] = TRUE]
    /\ told' = told \cup {job[p]}
    /\ Finish(p)
    /\ UNCHANGED <<nid, status, claims, createdAt, completedAt, consumed, linkedUser,
                   userVars, answers, linkTokens, upstream, now, upsets>>

\* The update reports an error, whether or not it was committed.
StoreTransFails(p) ==
    /\ pc[p] = "storeTrans"
    /\ upsets < MaxUpsets
    /\ upsets' = upsets + 1
    /\ \E committed \in BOOLEAN : hasTrans' = [hasTrans EXCEPT ![job[p]] = committed]
    /\ GoTo(p, "markFailed")
    /\ UNCHANGED <<nid, status, claims, createdAt, completedAt, consumed, linkedUser,
                   userVars, clientVars, upstream, now>>

\* Whatever the row says by now.
MarkFailed(p) ==
    LET r == job[p] IN
    /\ pc[p] = "markFailed"
    /\ IF Exists(r)
       THEN /\ status' = [status EXCEPT ![r] = "FAILED"]
            /\ completedAt' = [completedAt EXCEPT ![r] = now]
       ELSE UNCHANGED <<status, completedAt>>
    /\ Finish(p)
    /\ UNCHANGED <<nid, hasTrans, claims, createdAt, consumed, linkedUser, userVars,
                   clientVars, upstream, now, upsets>>

-----------------------------------------------------------------------------
(* Nafath and the people who use it.                                       *)

\* The person approves or rejects, or lets the request lapse.
Decide(r) ==
    /\ upstream[r] = "WAITING"
    /\ \E d \in Decisions : upstream' = [upstream EXCEPT ![r] = d]
    /\ UNCHANGED <<rowVars, userVars, clientVars, procVars, now, upsets>>

Tick ==
    /\ now < LastNow
    /\ now' = now + 1
    /\ UNCHANGED <<rowVars, userVars, clientVars, upstream, procVars, upsets>>

\* Mutant: the UPDATE does not look at the status.
FinishRowAnyway(r, s, signed) ==
    /\ status' = [status EXCEPT ![r] = IF Exists(r) THEN s ELSE @]
    /\ completedAt' = [completedAt EXCEPT ![r] = now]
    /\ claims' = [claims EXCEPT ![r] = signed]

\* finish: UPDATE ... WHERE id = r AND status = 'WAITING'.
FinishRow(r, s, signed) ==
    IF status[r] = "WAITING"
    THEN /\ status' = [status EXCEPT ![r] = s]
         /\ completedAt' = [completedAt EXCEPT ![r] = now]
         /\ claims' = [claims EXCEPT ![r] = signed]
    ELSE UNCHANGED <<status, completedAt, claims>>

\* Nafath calls back with its signed decision: at any time after it, any
\* number of times, or never.  A row without that transId refuses it.
HandleCallback(p, r) ==
    /\ upstream[r] \in Decisions
    /\ Exists(r) /\ hasTrans[r]
    /\ FinishRow(r, upstream[r], upstream[r] = "COMPLETED")
    /\ IF status[r] # "WAITING" /\ upstream[r] = "COMPLETED"
       THEN Begin(p, "keepClaims", r, NoUser, "nothing")
       ELSE pc[p] = "idle" /\ UNCHANGED procVars
    /\ UNCHANGED <<nid, hasTrans, createdAt, consumed, linkedUser, userVars, clientVars,
                   upstream, now, upsets>>

\* Polling set COMPLETED first: the signed claims are kept once.
KeepClaims(p) ==
    LET r == job[p] IN
    /\ pc[p] = "keepClaims"
    /\ status[r] = "COMPLETED" => Unlocked(r)
    /\ claims' = [claims EXCEPT ![r] = @ \/ status[r] = "COMPLETED"]
    /\ Finish(p)
    /\ UNCHANGED <<nid, status, hasTrans, createdAt, completedAt, consumed, linkedUser,
                   userVars, clientVars, upstream, now, upsets>>

-----------------------------------------------------------------------------
(* GET status.                                                             *)

\* Mutant: a request past its time is polled for like any other.
AfterReadingNoExpiry(r, mayPoll) ==
    CASE status[r] = "WAITING" /\ mayPoll -> "poll"
      [] status[r] = "COMPLETED" /\ ~Unredeemed(r) -> "redeem"
      [] OTHER -> "idle"

\* What getStatus does with the row it has read.
AfterReading(r, mayPoll) ==
    CASE status[r] = "WAITING" /\ mayPoll /\ now >= StaleAt(r) -> "expire"
      [] status[r] = "WAITING" /\ mayPoll /\ now < StaleAt(r) -> "poll"
      [] status[r] = "COMPLETED" /\ ~Unredeemed(r) -> "redeem"
      [] OTHER -> "idle"

\* Mutant: the status to record when the time is over is left out.
GetStatusForgetful(p, r) ==
    /\ r \in told
    /\ AfterReading(r, TRUE) # "idle"
    /\ Begin(p, AfterReading(r, TRUE), r, NoUser, "nothing")
    /\ Unwritten

\* Only the client that started a request knows its id.
GetStatus(p, r) ==
    /\ r \in told
    /\ AfterReading(r, TRUE) # "idle"
    /\ Begin(p, AfterReading(r, TRUE), r, NoUser, "EXPIRED")
    /\ Unwritten

\* Mutant: a request Nafath no longer knows of is taken for a completed one.
PollTrustingErrors(p) ==
    /\ pc[p] = "poll"
    /\ \/ /\ upstream[job[p]] \in Decisions
          /\ \E answer \in {upstream[job[p]], "COMPLETED"} : GoWith(p, "finish", answer)
       \/ Finish(p)
    /\ Unwritten

\* Nafath says what was decided, or that it no longer knows of the request;
\* while it waits, and after any other error, the client is told WAITING.
PollUpstream(p) ==
    /\ pc[p] = "poll"
    /\ \/ /\ upstream[job[p]] \in Decisions
          /\ \E answer \in {upstream[job[p]], "EXPIRED"} : GoWith(p, "finish", answer)
       \/ Finish(p)
    /\ Unwritten

\* What was learnt, or that the time is over, is recorded; then the row is
\* read again, as a callback may have been first.
RecordStatus(p) ==
    /\ pc[p] \in {"finish", "expire"}
    /\ FinishRow(job[p], saw[p], FALSE)
    /\ IF pc[p] = "expire" /\ status[job[p]] = "WAITING" THEN Finish(p) ELSE GoTo(p, "reload")
    /\ UNCHANGED <<nid, hasTrans, createdAt, consumed, linkedUser, userVars, clientVars,
                   upstream, now, upsets>>

Reload(p) ==
    /\ pc[p] = "reload"
    /\ IF AfterReading(job[p], FALSE) = "redeem" THEN GoTo(p, "redeem") ELSE Finish(p)
    /\ Unwritten

\* Mutant: consumedAt is looked at in the row in memory, not in the UPDATE.
RedeemUnchecked(p) ==
    /\ pc[p] = "redeem"
    /\ consumed' = [consumed EXCEPT ![job[p]] = TRUE]
    /\ GoTo(p, "login")
    /\ UNCHANGED <<nid, status, hasTrans, claims, createdAt, completedAt, linkedUser,
                   userVars, clientVars, upstream, now, upsets>>

\* UPDATE ... SET consumedAt WHERE id = r AND consumedAt IS NULL: the first
\* to come takes the result.
Redeem(p) ==
    LET r == job[p] IN
    /\ pc[p] = "redeem"
    /\ IF Exists(r) /\ ~consumed[r]
       THEN consumed' = [consumed EXCEPT ![r] = TRUE] /\ GoTo(p, "login")
       ELSE Finish(p) /\ UNCHANGED consumed
    /\ UNCHANGED <<nid, status, hasTrans, claims, createdAt, completedAt, linkedUser,
                   userVars, clientVars, upstream, now, upsets>>

\* loginOrLink: a session for the account with that national ID, unless it
\* is closed, or a link token where there is none.
LoginOrLink(p) ==
    LET r == job[p]
        owners == {u \in Users : nationalId[u] = nid[r]}
    IN
    /\ pc[p] = "login"
    /\ answers' = [answers EXCEPT ![r] = IF owners \subseteq active THEN @ + 1 ELSE @]
    /\ linkTokens' = linkTokens \cup
          (IF owners = {} THEN {[request |-> r, issuedAt |-> now]} ELSE {})
    /\ Finish(p)
    /\ UNCHANGED <<rowVars, userVars, told, upstream, now, upsets>>

\* completeWebLogin: a browser brings a token Nafath signed for n; it is
\* recorded as a request of its own, completed and consumed.
WebLogin(p, n) ==
    /\ now <= LastStart
    /\ \E r \in RequestIds :
          /\ status[r] = "none"
          /\ nid' = [nid EXCEPT ![r] = n]
          /\ status' = [status EXCEPT ![r] = "COMPLETED"]
          /\ claims' = [claims EXCEPT ![r] = TRUE]
          /\ createdAt' = [createdAt EXCEPT ![r] = now]
          /\ completedAt' = [completedAt EXCEPT ![r] = now]
          /\ consumed' = [consumed EXCEPT ![r] = TRUE]
          /\ upstream' = [upstream EXCEPT ![r] = "COMPLETED"]
          /\ Begin(p, "login", r, NoUser, "nothing")
    /\ UNCHANGED <<hasTrans, linkedUser, userVars, clientVars, now, upsets>>

-----------------------------------------------------------------------------
(* POST link, a transaction, and the profile form.                         *)

\* The bearer of a link token who is logged in to account u.
Link(p, u, t) ==
    /\ u \in active
    /\ t \in linkTokens
    /\ now - t.issuedAt < LinkTokenLife
    /\ Begin(p, "lockRow", t.request, u, "nothing")
    /\ Unwritten

LockRow(p) ==
    LET r == job[p] IN
    /\ pc[p] = "lockRow"
    /\ Exists(r) => Unlocked(r)
    /\ IF status[r] = "COMPLETED" /\ consumed[r] /\ linkedUser[r] = NoUser
       THEN GoTo(p, "findOwner")
       ELSE Finish(p)
    /\ Unwritten

FindOwner(p) ==
    LET owners == {u \in Users : nationalId[u] = nid[job[p]]} IN
    /\ pc[p] = "findOwner"
    /\ CASE owners = {} -> GoWith(p, "linkUser", "unowned")
         [] owners = {who[p]} -> GoWith(p, "linkUser", "own")
         [] OTHER -> Finish(p)
    /\ Unwritten

\* The unique index on users.nationalId would let u have identity n.
FreeFor(u, n) == \A v \in Users \ {u} : nationalId[v] # n

\* Mutant: users.nationalId has no unique index.
LinkUserUnindexed(p) ==
    LET r == job[p]
        u == who[p]
    IN
    /\ pc[p] = "linkUser"
    /\ IF saw[p] = "own" \/ nationalId[u] = NoId
       THEN /\ nationalId' = [nationalId EXCEPT ![u] = nid[r]]
            /\ verified' = [verified EXCEPT ![u] = TRUE]
            /\ linkedUser' = [linkedUser EXCEPT ![r] = u]
       ELSE UNCHANGED <<nationalId, verified, linkedUser>>
    /\ Finish(p)
    /\ UNCHANGED <<nid, status, hasTrans, claims, createdAt, completedAt, consumed, active,
                   clientVars, upstream, now, upsets>>

\* Mutant: an account that carries another identity is linked all the same.
LinkUserOverwrite(p) ==
    LET r == job[p]
        u == who[p]
    IN
    /\ pc[p] = "linkUser"
    /\ IF FreeFor(u, nid[r])
       THEN /\ nationalId' = [nationalId EXCEPT ![u] = nid[r]]
            /\ verified' = [verified EXCEPT ![u] = TRUE]
            /\ linkedUser' = [linkedUser EXCEPT ![r] = u]
       ELSE UNCHANGED <<nationalId, verified, linkedUser>>
    /\ Finish(p)
    /\ UNCHANGED <<nid, status, hasTrans, claims, createdAt, completedAt, consumed, active,
                   clientVars, upstream, now, upsets>>

\* UPDATE users, by id for the owner and WHERE nationalId IS NULL for
\* anyone else; a row that is not there to update, or a duplicate, rolls
\* the transaction back.
LinkUser(p) ==
    LET r == job[p]
        u == who[p]
    IN
    /\ pc[p] = "linkUser"
    /\ IF FreeFor(u, nid[r]) /\ (saw[p] = "own" \/ nationalId[u] = NoId)
       THEN /\ nationalId' = [nationalId EXCEPT ![u] = nid[r]]
            /\ verified' = [verified EXCEPT ![u] = TRUE]
            /\ linkedUser' = [linkedUser EXCEPT ![r] = u]
       ELSE UNCHANGED <<nationalId, verified, linkedUser>>
    /\ Finish(p)
    /\ UNCHANGED <<nid, status, hasTrans, claims, createdAt, completedAt, consumed, active,
                   clientVars, upstream, now, upsets>>

\* completeProfile reads the account, all but nationalId (select: false) ...
CompleteProfile(p, u) ==
    /\ u \in active
    /\ Begin(p, "saveProfile", NoRequest, u, IF verified[u] THEN "verified" ELSE "unverified")
    /\ Unwritten

\* ... and saves it, with whatever else it read then.
SaveProfile(p) ==
    /\ pc[p] = "saveProfile"
    /\ verified' = [verified EXCEPT ![who[p]] = (saw[p] = "verified")]
    /\ Finish(p)
    /\ UNCHANGED <<rowVars, nationalId, active, clientVars, upstream, now, upsets>>

-----------------------------------------------------------------------------
(* The crons.                                                              *)

\* Mutant: requests Nafath never took are left alone.
ExpireSentOnly(p) ==
    LET stale == {r \in RequestIds : /\ status[r] = "WAITING" /\ hasTrans[r]
                                     /\ ExpiresAt(r) < now - GraceTime}
    IN
    /\ Begin(p, "expireUnredeemed", NoRequest, NoUser, "nothing")
    /\ status' = [r \in RequestIds |-> IF r \in stale THEN "EXPIRED" ELSE status[r]]
    /\ completedAt' = [r \in RequestIds |-> IF r \in stale THEN now ELSE completedAt[r]]
    /\ UNCHANGED <<nid, hasTrans, claims, createdAt, consumed, linkedUser, userVars,
                   clientVars, upstream, now, upsets>>

\* expireStale, every five minutes: first what nobody decided ...
ExpireStale(p) ==
    LET stale == {r \in RequestIds : status[r] = "WAITING" /\ ExpiresAt(r) < now - GraceTime} IN
    /\ Begin(p, "expireUnredeemed", NoRequest, NoUser, "nothing")
    /\ status' = [r \in RequestIds |-> IF r \in stale THEN "EXPIRED" ELSE status[r]]
    /\ completedAt' = [r \in RequestIds |-> IF r \in stale THEN now ELSE completedAt[r]]
    /\ UNCHANGED <<nid, hasTrans, claims, createdAt, consumed, linkedUser, userVars,
                   clientVars, upstream, now, upsets>>

\* ... then what nobody redeemed.
ExpireUnredeemed(p) ==
    /\ pc[p] = "expireUnredeemed"
    /\ status' = [r \in RequestIds |-> IF Unredeemed(r) THEN "EXPIRED" ELSE status[r]]
    /\ Finish(p)
    /\ UNCHANGED <<nid, hasTrans, claims, createdAt, completedAt, consumed, linkedUser,
                   userVars, clientVars, upstream, now, upsets>>

\* purgeOld, every night.
PurgeOld ==
    LET old == {r \in RequestIds : Exists(r) /\ createdAt[r] < now - Retention} IN
    /\ old # {}
    /\ \A r \in old : Unlocked(r)
    /\ status' = [r \in RequestIds |-> IF r \in old THEN "purged" ELSE status[r]]
    /\ UNCHANGED <<nid, hasTrans, claims, createdAt, completedAt, consumed, linkedUser,
                   userVars, clientVars, upstream, procVars, now, upsets>>

-----------------------------------------------------------------------------
(* Upsets.                                                                 *)

\* A server dies, or the database fails a statement: the request ends there.
Crash(p) ==
    /\ pc[p] # "idle"
    /\ upsets < MaxUpsets
    /\ upsets' = upsets + 1
    /\ Finish(p)
    /\ UNCHANGED <<rowVars, userVars, clientVars, upstream, now>>

\* An operator closes an account in the database: no code does.
Deactivate(u) ==
    /\ u \in active
    /\ upsets < MaxUpsets
    /\ upsets' = upsets + 1
    /\ active' = active \ {u}
    /\ UNCHANGED <<rowVars, nationalId, verified, clientVars, upstream, procVars, now>>

-----------------------------------------------------------------------------

\* The next statement of what p is serving.
HandlerStep(p) ==
    \/ CountRecent(p)
    \/ InsertRequest(p)
    \/ SendRequest(p)
    \/ StoreTrans(p)
    \/ MarkFailed(p)
    \/ KeepClaims(p)
    \/ PollUpstream(p)
    \/ RecordStatus(p)
    \/ Reload(p)
    \/ Redeem(p)
    \/ LoginOrLink(p)
    \/ LockRow(p)
    \/ FindOwner(p)
    \/ LinkUser(p)
    \/ SaveProfile(p)
    \/ ExpireUnredeemed(p)

Next ==
    \/ Tick
    \/ PurgeOld
    \/ \E r \in RequestIds : Decide(r)
    \/ \E u \in Users : Deactivate(u)
    \/ \E p \in Handlers :
          \/ \E n \in NationalIds : Start(p, n) \/ WebLogin(p, n)
          \/ \E r \in RequestIds : GetStatus(p, r) \/ HandleCallback(p, r)
          \/ \E u \in Users, t \in linkTokens : Link(p, u, t)
          \/ \E u \in Users : CompleteProfile(p, u)
    \/ \E p \in CronRuns : ExpireStale(p)
    \/ \E p \in Procs : HandlerStep(p) \/ SendFails(p) \/ StoreTransFails(p) \/ Crash(p)

Spec == Init /\ [][Next]_vars

\* Time passes and the crons run.
CronFairness ==
    /\ WF_vars(Tick)
    /\ \A p \in CronRuns : WF_vars(ExpireStale(p)) /\ WF_vars(HandlerStep(p))

\* Time passes, a server gets on with what it is serving, and it always has
\* room for a client that asks again (mobile clients do, every few seconds,
\* until they hear something other than WAITING).  Crons need not run.
ClientFairness ==
    /\ WF_vars(Tick)
    /\ \A p \in Handlers : WF_vars(HandlerStep(p))
    /\ \A r \in RequestIds : SF_vars(\E p \in Handlers : GetStatus(p, r))


-----------------------------------------------------------------------------
(* Properties.                                                             *)

TypeOK ==
    /\ nid \in [RequestIds -> NationalIds \cup {NoId}]
    /\ status \in [RequestIds -> Statuses]
    /\ hasTrans \in [RequestIds -> BOOLEAN]
    /\ claims \in [RequestIds -> BOOLEAN]
    /\ createdAt \in [RequestIds -> Nat] /\ completedAt \in [RequestIds -> Nat]
    /\ consumed \in [RequestIds -> BOOLEAN]
    /\ linkedUser \in [RequestIds -> Users \cup {NoUser}]
    /\ nationalId \in [Users -> NationalIds \cup {NoId}]
    /\ verified \in [Users -> BOOLEAN]
    /\ active \subseteq Users
    /\ upstream \in [RequestIds -> {"none", "WAITING"} \cup Decisions]
    /\ told \subseteq RequestIds
    /\ answers \in [RequestIds -> Nat]
    /\ linkTokens \subseteq LinkTokens
    /\ now \in Nat
    /\ pc \in [Procs -> Steps]
    /\ job \in [Procs -> RequestIds \cup {NoRequest}]
    /\ who \in [Procs -> NationalIds \cup Users \cup {NoUser}]
    /\ saw \in [Procs -> {"nothing", "own", "unowned", "verified", "unverified"} \cup Decisions]
    /\ upsets \in Nat

\* An approval is exchanged once, for a session or for a link token, though
\* clients poll in parallel, retry, and race the callback ("Single-use
\* redemption", getStatus and redeem).
OneAnswerPerRequest == \A r \in RequestIds : answers[r] <= 1

\* Nothing is recorded, given out or linked that the person did not approve:
\* not by a poll and a callback that disagree, nor by an expiry that comes
\* between them.
OnlyApproved ==
    /\ \A r \in RequestIds :
          (status[r] = "COMPLETED" \/ claims[r] \/ consumed[r] \/ answers[r] > 0)
             => upstream[r] = "COMPLETED"
    /\ \A u \in Users : nationalId[u] # NoId =>
          \E r \in RequestIds : nid[r] = nationalId[u] /\ answers[r] > 0

\* Two accounts never carry one identity, though link looks for an owner
\* before it takes a lock the other account's link would need.
OneAccountPerIdentity ==
    \A u, v \in Users : u # v /\ nationalId[u] # NoId => nationalId[u] # nationalId[v]

\* A request that says it linked an account is right, now and later: the
\* account carries that request's identity and no link replaces it.
LinkedRowsMatch ==
    \A r \in RequestIds : linkedUser[r] # NoUser => nationalId[linkedUser[r]] = nid[r]

\* Identities and accounts belong together one to one, and for good.
IdentitiesAgree == OneAccountPerIdentity /\ LinkedRowsMatch

\* The end of a request whose client can ask for it is final: callbacks,
\* polls, expiry and start's own unguarded error path do not overwrite each
\* other.  Only a result nobody redeemed still expires.
ToldStatusIsFinal ==
    [][\A r \in told : status[r] \in Final =>
          \/ status'[r] \in {status[r], "purged"}
          \/ status[r] = "COMPLETED" /\ ~consumed[r] /\ status'[r] = "EXPIRED"]_vars

\* Every step of the code is one step, or none, of what a login promises.
Abstract == INSTANCE Identity WITH approved <- {r \in RequestIds : upstream[r] = "COMPLETED"}
ImplementsIdentity == Abstract!Spec

\* With the cron running, no request waits for ever, also none whose start
\* died half-way and whose id no client knows.
StaleRequestsEnd ==
    CronFairness => \A r \in RequestIds :
        (status[r] = "WAITING" /\ now > StaleAt(r)) ~> status[r] # "WAITING"

\* A client that keeps asking hears how its request ended, though callbacks
\* get lost, Nafath does not answer, and no cron runs.
PollingClientsLearn ==
    ClientFairness => \A r \in RequestIds : r \in told ~> status[r] # "WAITING"

\* "How long a COMPLETED, unconsumed result can still be exchanged for a
\* session" (nafath.service.ts:46): none is exchanged after it expired.
RedeemedWhileCompleted ==
    [][\A r \in RequestIds : ~consumed[r] /\ consumed'[r] => status'[r] = "COMPLETED"]_vars

\* "isVerified ... becomes true when a national ID is linked" (the design,
\* section 5.2).
LinkedIsVerified == \A u \in Users : nationalId[u] # NoId => verified[u]
=============================================================================
