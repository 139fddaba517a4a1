------------------------------ MODULE Accounts ------------------------------
(***************************************************************************)
(* Signing in with a code sent to a phone (auth.service.ts): an account is *)
(* found by its phone, or made.  All of it is about one phone.  Statements *)
(* are transactions of their own.                                          *)
(***************************************************************************)
EXTENDS Naturals

CONSTANTS
    Requests,       \* concurrent requests
    MaxCodes,       \* bound on the codes sent
    Lifetime,       \* how long a code is valid
    LastNow         \* bound on the clock

VARIABLES
    codes,          \* otp_codes rows, by the order they were made in
    sent,           \* codes made so far
    account,        \* whether users has a row for the phone
    sessions,       \* tokens each code was turned into
    at, what,       \* each request: where it is, what it is about
    now,
    overlapped      \* whether requests ever overlapped

vars == <<codes, sent, account, sessions, at, what, now, overlapped>>

Ids == 1..MaxCodes
Steps == {"idle", "storeCode", "useCode", "findUser", "insertUser"}

TypeOK ==
    /\ codes \in [Ids -> [there: BOOLEAN, isUsed: BOOLEAN, expiresAt: 0..LastNow + Lifetime]]
    /\ sent \in 0..MaxCodes /\ account \in BOOLEAN
    /\ sessions \in [Ids -> Nat]
    /\ at \in [Requests -> Steps] /\ what \in [Requests -> 0..MaxCodes]
    /\ now \in 0..LastNow /\ overlapped \in BOOLEAN

Init ==
    /\ codes = [c \in Ids |-> [there |-> FALSE, isUsed |-> FALSE, expiresAt |-> 0]]
    /\ sent = 0 /\ account = FALSE
    /\ sessions = [c \in Ids |-> 0]
    /\ at = [p \in Requests |-> "idle"] /\ what = [p \in Requests |-> 0]
    /\ now = 0 /\ overlapped = FALSE

Begin(p, step, w) ==
    /\ at[p] = "idle"
    /\ at' = [at EXCEPT ![p] = step] /\ what' = [what EXCEPT ![p] = w]
    /\ overlapped' = (overlapped \/ \E q \in Requests : at[q] # "idle")

Continue(p, step) ==
    /\ at' = [at EXCEPT ![p] = step]
    /\ what' = IF step = "idle" THEN [what EXCEPT ![p] = 0] ELSE what
    /\ UNCHANGED overlapped

-----------------------------------------------------------------------------
\* sendOtp: codes that were not used are deleted ...
SendOtp(p) ==
    /\ sent < MaxCodes
    /\ codes' = [c \in Ids |-> [codes[c] EXCEPT !.there = @ /\ codes[c].isUsed]]
    /\ Begin(p, "storeCode", 0)
    /\ UNCHANGED <<sent, account, sessions, now>>

\* ... and a new one is saved.
StoreCode(p) ==
    /\ at[p] = "storeCode" /\ sent < MaxCodes
    /\ sent' = sent + 1
    /\ codes' = [codes EXCEPT ![sent + 1] =
                    [there |-> TRUE, isUsed |-> FALSE, expiresAt |-> now + Lifetime]]
    /\ Continue(p, "idle")
    /\ UNCHANGED <<account, sessions, now>>

Valid == {c \in Ids : codes[c].there /\ ~codes[c].isUsed /\ codes[c].expiresAt > now}

\* verifyOtp: the latest code that is valid is the one typed in ...
VerifyOtp(p, c) ==
    /\ c \in Valid /\ \A d \in Valid : d <= c
    /\ Begin(p, "useCode", c)
    /\ UNCHANGED <<codes, sent, account, sessions, now>>

\* Mutant of UseCode: it can be used again.
UseCodeAgain(p) ==
    /\ at[p] = "useCode"
    /\ Continue(p, "findUser")
    /\ UNCHANGED <<codes, sent, account, sessions, now>>

\* ... is saved as used (and is there again, if it was deleted) ...
UseCode(p) ==
    /\ at[p] = "useCode"
    /\ codes' = [codes EXCEPT ![what[p]] = [@ EXCEPT !.isUsed = TRUE, !.there = TRUE]]
    /\ Continue(p, "findUser")
    /\ UNCHANGED <<sent, account, sessions, now>>

OpenSession(p) ==
    /\ sessions' = [sessions EXCEPT ![what[p]] = @ + 1]
    /\ Continue(p, "idle")

\* ... and opens a session for the phone's account ...
FindUser(p) ==
    /\ at[p] = "findUser"
    /\ IF account THEN OpenSession(p) ELSE Continue(p, "insertUser") /\ UNCHANGED sessions
    /\ UNCHANGED <<codes, sent, account, now>>

\* ... which is made if there is none (the phone is unique).
InsertUser(p) ==
    /\ at[p] = "insertUser"
    /\ account' = TRUE
    /\ IF account THEN Continue(p, "idle") /\ UNCHANGED sessions ELSE OpenSession(p)
    /\ UNCHANGED <<codes, sent, now>>

Tick ==
    /\ now < LastNow /\ now' = now + 1
    /\ UNCHANGED <<codes, sent, account, sessions, at, what, overlapped>>

\* The server dies.
Crash(p) ==
    /\ at[p] # "idle"
    /\ Continue(p, "idle")
    /\ UNCHANGED <<codes, sent, account, sessions, now>>

Next ==
    \/ \E p \in Requests :
          \/ SendOtp(p) \/ StoreCode(p) \/ UseCode(p) \/ FindUser(p) \/ InsertUser(p) \/ Crash(p)
          \/ \E c \in Ids : VerifyOtp(p, c)
    \/ Tick

Spec == Init /\ [][Next]_vars

-----------------------------------------------------------------------------
\* Unless requests overlap, a code opens one session, and once a newer one
\* was sent it opens none, though servers die after deleting, and after
\* using, a code (sendOtp, verifyOtp).
CodesWorkOnce ==
    ~overlapped =>
        /\ \A c \in Ids : sessions[c] <= 1
        /\ \A p \in Requests : at[p] \in {"useCode", "findUser", "insertUser"} => what[p] = sent
=============================================================================
