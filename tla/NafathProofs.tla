---------------------------- MODULE NafathProofs ----------------------------
(***************************************************************************)
(* Proofs about Nafath: types, the exchange of an approval, and who        *)
(* carries which identity, for any number of requests, people, accounts    *)
(* and processes.                                                          *)
(***************************************************************************)
EXTENDS Nafath, FiniteSetTheorems, TLAPS

\* start is past its insert; its row is its own.
Starting == {"send", "storeTrans", "markFailed"}
Linking == {"lockRow", "findOwner", "linkUser"}
OnRow == Starting \cup Linking \cup
         {"poll", "finish", "expire", "reload", "redeem", "login", "keepClaims"}

\* A row that is not there yet has left no trace; what is recorded or done
\* about one was approved; it was answered at most once, when consumed.
RowOK(r) ==
    /\ status[r] = "none" <=> nid[r] = NoId
    /\ status[r] = "none" => /\ upstream[r] = "none" /\ ~consumed[r]
                             /\ linkedUser[r] = NoUser /\ r \notin told
    /\ status[r] = "COMPLETED" \/ claims[r] \/ consumed[r] => upstream[r] = "COMPLETED"
    /\ answers[r] \in {0, 1}
    /\ answers[r] = 1 => consumed[r]
    /\ linkedUser[r] # NoUser => nationalId[linkedUser[r]] = nid[r]

RowsOK == \A r \in RequestIds : RowOK(r)

UsersOK ==
    /\ \A u \in Users : nationalId[u] # NoId =>
          \E r \in RequestIds : nid[r] = nationalId[u] /\ answers[r] = 1
    /\ \A t \in linkTokens : answers[t.request] = 1
    /\ OneAccountPerIdentity

\* What a process knows of the row and the account it is about.
ProcOK(p) ==
    LET r == job[p] IN
    /\ pc[p] \in {"count", "insert"} => who[p] \in NationalIds
    /\ pc[p] \in OnRow => r \in RequestIds /\ status[r] # "none"
    /\ pc[p] \in Starting => r \notin told
    /\ pc[p] = "send" => upstream[r] = "none"
    /\ pc[p] \in {"finish", "expire"} => /\ saw[p] \in Decisions
                                         /\ saw[p] = "COMPLETED" => upstream[r] = "COMPLETED"
    /\ pc[p] = "redeem" => upstream[r] = "COMPLETED"
    /\ pc[p] = "login" => consumed[r] /\ answers[r] = 0
    /\ pc[p] \in Linking => answers[r] = 1 /\ who[p] \in Users
    /\ pc[p] = "linkUser" /\ saw[p] = "own" => nationalId[who[p]] = nid[r]
    /\ pc[p] = "saveProfile" => who[p] \in Users

ProcsOK == \A p \in Procs : ProcOK(p)

\* No two processes start, or answer, one request.
Alone(p, q) ==
    job[p] = job[q] => /\ ~(pc[p] \in Starting /\ pc[q] \in Starting)
                       /\ ~(pc[p] = "login" /\ pc[q] = "login")

AllAlone == \A p, q \in Procs : p # q => Alone(p, q)

IInv == TypeOK /\ RowsOK /\ UsersOK /\ ProcsOK /\ AllAlone

-----------------------------------------------------------------------------

ProcTypes ==
    /\ pc \in [Procs -> Steps]
    /\ job \in [Procs -> RequestIds \cup {NoRequest}]
    /\ who \in [Procs -> NationalIds \cup Users \cup {NoUser}]
    /\ saw \in [Procs -> {"nothing", "own", "unowned", "verified", "unverified"} \cup Decisions]

\* Only p moves.
Others(p) ==
    \A q \in Procs \ {p} : /\ pc'[q] = pc[q] /\ job'[q] = job[q]
                           /\ who'[q] = who[q] /\ saw'[q] = saw[q]

\* What no step takes back.
Grows ==
    /\ \A r \in RequestIds :
          /\ status[r] # "none" => status'[r] # "none" /\ nid'[r] = nid[r]
          /\ upstream[r] = "COMPLETED" => upstream'[r] = "COMPLETED"
          /\ consumed[r] => consumed'[r]
          /\ answers[r] = 1 => answers'[r] = 1
    /\ \A u \in Users : nationalId[u] # NoId => nationalId'[u] = nationalId[u]

\* What q counts on for its row alone.
Spared(q) ==
    /\ pc[q] \in Starting => job[q] \notin told'
    /\ pc[q] = "send" => upstream'[job[q]] = upstream[job[q]]
    /\ pc[q] = "login" => answers'[job[q]] = answers[job[q]]

LEMMA InitIInv == Init => IInv
<1> SUFFICES ASSUME Init PROVE IInv
  OBVIOUS
<1>1. TypeOK
  BY DEF Init, TypeOK, Statuses, Steps, Final, Decisions
<1>2. RowsOK /\ UsersOK
  BY NullAssumption DEF Init, RowsOK, RowOK, UsersOK, OneAccountPerIdentity
<1>3. ProcsOK /\ AllAlone
  BY DEF Init, ProcsOK, ProcOK, AllAlone, Alone, Starting, Linking, OnRow
<1> QED
  BY <1>1, <1>2, <1>3 DEF IInv

\* The four moves of a process leave the others where they are.
LEMMA MoveTypes ==
    ASSUME ProcTypes, NEW p \in Procs, NEW s \in Steps,
           NEW r \in RequestIds \cup {NoRequest}, NEW w \in NationalIds \cup Users \cup {NoUser},
           NEW v \in {"nothing", "own", "unowned", "verified", "unverified"} \cup Decisions,
           \/ Begin(p, s, r, w, v) \/ GoTo(p, s) \/ GoWith(p, s, v) \/ Finish(p)
    PROVE  ProcTypes' /\ Others(p)
BY DEF ProcTypes, Others, Begin, GoTo, GoWith, Finish, Steps

LEMMA BeginMove ==
    ASSUME ProcTypes, NEW p \in Procs, NEW s, NEW r, NEW w, NEW v, Begin(p, s, r, w, v)
    PROVE  /\ pc[p] = "idle"
           /\ pc'[p] = s /\ job'[p] = r /\ who'[p] = w /\ saw'[p] = v
BY DEF ProcTypes, Begin

LEMMA GoToMove ==
    ASSUME ProcTypes, NEW p \in Procs, NEW s, GoTo(p, s)
    PROVE  pc'[p] = s /\ job'[p] = job[p] /\ who'[p] = who[p] /\ saw'[p] = saw[p]
BY DEF ProcTypes, GoTo

LEMMA GoWithMove ==
    ASSUME ProcTypes, NEW p \in Procs, NEW s, NEW v, GoWith(p, s, v)
    PROVE  pc'[p] = s /\ job'[p] = job[p] /\ who'[p] = who[p] /\ saw'[p] = v
BY DEF ProcTypes, GoWith

LEMMA FinishMove ==
    ASSUME ProcTypes, NEW p \in Procs, Finish(p)
    PROVE  pc'[p] = "idle"
BY DEF ProcTypes, Finish

\* A process that stands still keeps what it knows.
LEMMA StandsStill ==
    ASSUME IInv, NEW q \in Procs, Grows, Spared(q),
           pc'[q] = pc[q], job'[q] = job[q], who'[q] = who[q], saw'[q] = saw[q]
    PROVE  ProcOK(q)'
<1>1. ProcOK(q) /\ (job[q] \in RequestIds => RowOK(job[q]))
  BY DEF IInv, ProcsOK, RowsOK
<1>2. who[q] \in Users /\ job[q] \in RequestIds /\ nationalId[who[q]] = nid[job[q]]
        /\ status[job[q]] # "none" => nationalId'[who[q]] = nationalId[who[q]]
  BY <1>1 DEF Grows, RowOK
<1> QED
  BY <1>1, <1>2 DEF ProcOK, Grows, Spared, Starting, Linking, OnRow

\* So a step of p that takes nothing back only has to see to p itself.
LEMMA OthersKeep ==
    ASSUME IInv, NEW p \in Procs, Grows, Others(p), ProcOK(p)',
           \A q \in Procs \ {p} : Spared(q) /\ Alone(p, q)'
    PROVE  ProcsOK' /\ AllAlone'
<1>1. \A q \in Procs : ProcOK(q)'
  BY StandsStill DEF Others
<1>2. AllAlone'
  BY DEF IInv, AllAlone, Alone, Others
<1> QED
  BY <1>1, <1>2 DEF ProcsOK

\* p takes on no row that another process starts or answers.
TakesNone(p) ==
    /\ pc'[p] \in Starting => pc[p] \in Starting /\ job'[p] = job[p]
    /\ pc'[p] # "login"

LEMMA StaysAlone ==
    ASSUME IInv, NEW p \in Procs, Others(p), TakesNone(p)
    PROVE  \A q \in Procs \ {p} : Alone(p, q)'
BY DEF IInv, AllAlone, Alone, Others, TakesNone

-----------------------------------------------------------------------------
(* Steps that only move one process.                                       *)

Quiet == UNCHANGED <<rowVars, userVars, clientVars, upstream>>

LEMMA QuietStep ==
    ASSUME IInv, NEW p \in Procs, Quiet, now' \in Nat, upsets' \in Nat,
           ProcTypes', Others(p), TakesNone(p), ProcOK(p)'
    PROVE  IInv'
<1>1. TypeOK'
  BY DEF IInv, TypeOK, ProcTypes, Quiet, rowVars, userVars, clientVars
<1>2. RowsOK' /\ UsersOK'
  BY DEF IInv, RowsOK, RowOK, UsersOK, OneAccountPerIdentity, Quiet, rowVars, userVars,
         clientVars
<1>3. Grows /\ \A q \in Procs \ {p} : Spared(q)
  BY DEF IInv, ProcsOK, ProcOK, Grows, Spared, Quiet, rowVars, userVars, clientVars
<1>4. ProcsOK' /\ AllAlone'
  BY <1>3, OthersKeep, StaysAlone
<1> QED
  BY <1>1, <1>2, <1>4 DEF IInv

LEMMA TypeParts == IInv => /\ ProcTypes /\ now \in Nat /\ upsets \in Nat
                           /\ \A p \in Procs : ProcOK(p)
BY DEF IInv, TypeOK, ProcTypes, ProcsOK

LEMMA QuietFinish ==
    ASSUME IInv, NEW p \in Procs, Finish(p), Quiet, now' \in Nat, upsets' \in Nat
    PROVE  IInv'
<1>1. ProcTypes' /\ Others(p) /\ pc'[p] = "idle"
  BY TypeParts, FinishMove, MoveTypes DEF Steps
<1>2. ProcOK(p)' /\ TakesNone(p)
  BY <1>1 DEF ProcOK, TakesNone, Starting, Linking, OnRow
<1> QED
  BY <1>1, <1>2, QuietStep

LEMMA QuietGoTo ==
    ASSUME IInv, NEW p \in Procs, NEW s \in Steps, GoTo(p, s), Unwritten,
           s \notin Starting \cup {"login"}, ProcOK(p)'
    PROVE  IInv'
<1>1. ProcTypes' /\ Others(p) /\ pc'[p] = s
  BY TypeParts, GoToMove, MoveTypes DEF Steps
<1> QED
  BY <1>1, QuietStep, TypeParts DEF TakesNone, Unwritten, Quiet

LEMMA QuietBegin ==
    ASSUME IInv, NEW p \in Procs, NEW s \in Steps \ (Starting \cup {"login"}),
           NEW r \in RequestIds \cup {NoRequest}, NEW w \in NationalIds \cup Users \cup {NoUser},
           NEW v \in {"nothing", "own", "unowned", "verified", "unverified"} \cup Decisions,
           Begin(p, s, r, w, v), Unwritten, ProcOK(p)'
    PROVE  IInv'
<1>1. ProcTypes' /\ Others(p) /\ pc'[p] = s
  BY TypeParts, BeginMove, MoveTypes
<1> QED
  BY <1>1, QuietStep, TypeParts DEF TakesNone, Unwritten, Quiet

\* Requests that begin with a look at the database.
LEMMA BeginSteps ==
    ASSUME IInv, NEW p \in Procs,
           \/ \E n \in NationalIds : Start(p, n)
           \/ \E r \in RequestIds : GetStatus(p, r)
           \/ \E u \in Users, t \in linkTokens : Link(p, u, t)
           \/ \E u \in Users : CompleteProfile(p, u)
    PROVE  IInv'
<1> USE DEF Starting, Linking, OnRow
<1>1. ASSUME NEW n \in NationalIds, Start(p, n) PROVE IInv'
  <2>1. Begin(p, "count", NoRequest, n, "nothing") /\ Unwritten
    BY <1>1 DEF Start
  <2>2. ProcOK(p)'
    BY <2>1, TypeParts, BeginMove DEF ProcOK
  <2> QED
    BY <2>1, <2>2, QuietBegin DEF Steps
<1>2. ASSUME NEW r \in RequestIds, GetStatus(p, r) PROVE IInv'
  <2> DEFINE s == AfterReading(r, TRUE)
  <2>1. Begin(p, s, r, NoUser, "EXPIRED") /\ Unwritten /\ s # "idle" /\ r \in told
    BY <1>2 DEF GetStatus
  <2>2. s \in {"expire", "poll", "redeem", "idle"} /\ (s = "redeem" => status[r] = "COMPLETED")
    BY DEF AfterReading
  <2>3. RowOK(r)
    BY DEF IInv, RowsOK
  <2> HIDE DEF s
  <2>4. ProcOK(p)'
    BY <2>1, <2>2, <2>3, TypeParts, BeginMove
    DEF ProcOK, RowOK, Unwritten, rowVars, Decisions
  <2> QED
    BY <2>1, <2>2, <2>4, QuietBegin DEF Steps, Decisions
<1>3. ASSUME NEW u \in Users, NEW t \in linkTokens, Link(p, u, t) PROVE IInv'
  <2>1. Begin(p, "lockRow", t.request, u, "nothing") /\ Unwritten
    BY <1>3 DEF Link
  <2>2. t.request \in RequestIds /\ answers[t.request] = 1 /\ RowOK(t.request)
    BY DEF IInv, TypeOK, LinkTokens, UsersOK, RowsOK
  <2>3. ProcOK(p)'
    BY <2>1, <2>2, TypeParts, BeginMove DEF ProcOK, RowOK, Unwritten, rowVars, clientVars
  <2> QED
    BY <2>1, <2>2, <2>3, QuietBegin DEF Steps
<1>4. ASSUME NEW u \in Users, CompleteProfile(p, u) PROVE IInv'
  <2> DEFINE v == IF verified[u] THEN "verified" ELSE "unverified"
  <2>1. Begin(p, "saveProfile", NoRequest, u, v) /\ Unwritten
    BY <1>4 DEF CompleteProfile
  <2> HIDE DEF v
  <2>2. ProcOK(p)'
    BY <2>1, TypeParts, BeginMove DEF ProcOK
  <2> QED
    BY <2>1, <2>2, QuietBegin DEF Steps, v
<1> QED
  BY <1>1, <1>2, <1>3, <1>4

\* Statements that read.
LEMMA ReadSteps ==
    ASSUME IInv, NEW p \in Procs,
           \/ CountRecent(p) \/ PollUpstream(p) \/ Reload(p) \/ LockRow(p) \/ FindOwner(p)
           \/ Crash(p)
    PROVE  IInv'
<1> DEFINE r == job[p]
<1>1. ProcTypes /\ ProcOK(p) /\ now \in Nat /\ upsets \in Nat
  BY TypeParts
<1>2. CASE Finish(p) /\ (Unwritten \/ Crash(p))
  BY <1>1, <1>2, QuietFinish DEF Crash, Unwritten, Quiet
<1> USE DEF Starting, Linking, OnRow
<1>3. CASE CountRecent(p) /\ GoTo(p, "insert")
  <2>1. ProcOK(p)'
    BY <1>1, <1>3, GoToMove DEF ProcOK, CountRecent
  <2> QED
    BY <1>3, <2>1, QuietGoTo DEF CountRecent, Steps
<1>4. ASSUME NEW answer \in Decisions, pc[p] = "poll", Unwritten, GoWith(p, "finish", answer),
             answer = "COMPLETED" => upstream[r] = "COMPLETED"
      PROVE  IInv'
  <2>1. pc'[p] = "finish" /\ job'[p] = r /\ who'[p] = who[p] /\ saw'[p] = answer
    BY <1>1, <1>4, GoWithMove
  <2>2. ProcOK(p)'
    BY <1>1, <1>4, <2>1 DEF ProcOK, Unwritten, rowVars
  <2>3. ProcTypes' /\ Others(p)
    BY <1>1, <1>4, MoveTypes DEF Steps
  <2> QED
    BY <1>1, <1>4, <2>1, <2>2, <2>3, QuietStep DEF TakesNone, Unwritten, Quiet
<1>5. CASE PollUpstream(p)
  BY <1>2, <1>4, <1>5 DEF PollUpstream, Decisions
<1>6. CASE Reload(p) /\ GoTo(p, "redeem") /\ AfterReading(r, FALSE) = "redeem"
  <2>1. r \in RequestIds /\ RowOK(r) /\ status[r] = "COMPLETED"
    BY <1>1, <1>6 DEF IInv, RowsOK, ProcOK, Reload, AfterReading
  <2>2. ProcOK(p)'
    BY <1>1, <1>6, <2>1, GoToMove DEF ProcOK, RowOK, Reload, Unwritten, rowVars
  <2> QED
    BY <1>6, <2>2, QuietGoTo DEF Reload, Steps
<1>7. CASE LockRow(p) /\ GoTo(p, "findOwner")
  <2>1. ProcOK(p)'
    BY <1>1, <1>7, GoToMove DEF ProcOK, LockRow, Unwritten, rowVars, clientVars
  <2> QED
    BY <1>7, <2>1, QuietGoTo DEF LockRow, Steps
<1>8. ASSUME NEW v \in {"own", "unowned"}, FindOwner(p), GoWith(p, "linkUser", v),
             v = "own" => nationalId[who[p]] = nid[r]
      PROVE  IInv'
  <2>1. pc'[p] = "linkUser" /\ job'[p] = r /\ who'[p] = who[p] /\ saw'[p] = v
    BY <1>1, <1>8, GoWithMove
  <2>2. ProcOK(p)'
    BY <1>1, <1>8, <2>1
    DEF ProcOK, FindOwner, Unwritten, rowVars, userVars, clientVars
  <2>3. ProcTypes' /\ Others(p)
    BY <1>1, <1>8, MoveTypes DEF Steps
  <2> QED
    BY <1>1, <1>8, <2>1, <2>2, <2>3, QuietStep DEF FindOwner, TakesNone, Unwritten, Quiet
<1>9. CASE FindOwner(p)
  <2> DEFINE owners == {u \in Users : nationalId[u] = nid[r]}
  <2>1. CASE owners = {who[p]}
    BY <1>2, <1>8, <1>9, <2>1 DEF FindOwner
  <2> QED
    BY <1>2, <1>8, <1>9, <2>1 DEF FindOwner
<1> QED
  BY <1>2, <1>3, <1>5, <1>6, <1>7, <1>9 DEF CountRecent, Reload, LockRow, Crash
-----------------------------------------------------------------------------
(* Steps that write rows.                                                  *)

\* Rows, accounts and types, without the processes.
DataTypes ==
    /\ nid \in [RequestIds -> NationalIds \cup {NoId}]
    /\ status \in [RequestIds -> Statuses]
    /\ hasTrans \in [RequestIds -> BOOLEAN]
    /\ claims \in [RequestIds -> BOOLEAN]
    /\ createdAt \in [RequestIds -> Nat] /\ completedAt \in [RequestIds -> Nat]
    /\ consumed \in [RequestIds -> BOOLEAN]
    /\ linkedUser \in [RequestIds -> Users \cup {NoUser}]
    /\ nationalId \in [Users -> NationalIds \cup {NoId}]
    /\ verified \in [Users -> BOOLEAN]
    /\ active \subseteq Users
    /\ upstream \in [RequestIds -> {"none", "WAITING"} \cup Decisions]
    /\ told \subseteq RequestIds
    /\ answers \in [RequestIds -> Nat]
    /\ linkTokens \subseteq LinkTokens
    /\ now \in Nat
    /\ upsets \in Nat

DataOK == DataTypes /\ RowsOK /\ UsersOK

LEMMA IInvParts == IInv <=> DataOK /\ ProcTypes /\ ProcsOK /\ AllAlone
BY DEF IInv, TypeOK, DataTypes, ProcTypes, DataOK

LEMMA WriteStep ==
    ASSUME IInv, NEW p \in Procs, DataOK', Grows, ProcTypes', Others(p), ProcOK(p)',
           \A q \in Procs \ {p} : Spared(q) /\ Alone(p, q)'
    PROVE  IInv'
<1>1. ProcsOK' /\ AllAlone'
  BY OthersKeep
<1> QED
  BY <1>1 DEF IInv, TypeOK, DataTypes, ProcTypes, DataOK

\* A step of nobody's, such as Nafath's or the clock's.
LEMMA OutsideStep ==
    ASSUME IInv, DataOK', Grows, UNCHANGED procVars, \A q \in Procs : Spared(q)
    PROVE  IInv'
<1>1. ProcsOK'
  BY StandsStill DEF ProcsOK, procVars
<1>2. AllAlone' /\ ProcTypes'
  BY DEF IInv, TypeOK, AllAlone, Alone, ProcTypes, procVars
<1> QED
  BY <1>1, <1>2 DEF IInv, TypeOK, DataTypes, ProcTypes, DataOK

\* A write whose process then ends.
LEMMA WriteFinish ==
    ASSUME IInv, NEW p \in Procs, Finish(p), DataOK', Grows,
           \A q \in Procs \ {p} : Spared(q)
    PROVE  IInv'
<1>1. ProcTypes' /\ Others(p) /\ pc'[p] = "idle"
  BY TypeParts, FinishMove, MoveTypes DEF Steps
<1>2. ProcOK(p)' /\ TakesNone(p)
  BY <1>1 DEF ProcOK, TakesNone, Starting, Linking, OnRow
<1> QED
  BY <1>1, <1>2, WriteStep, StaysAlone

\* A write whose process goes on.
LEMMA WriteGoTo ==
    ASSUME IInv, NEW p \in Procs, NEW s \in Steps, GoTo(p, s), DataOK', Grows, ProcOK(p)',
           \A q \in Procs \ {p} : Spared(q) /\ Alone(p, q)'
    PROVE  IInv'
<1>1. ProcTypes' /\ Others(p)
  BY TypeParts, GoToMove, MoveTypes DEF Steps
<1> QED
  BY <1>1, WriteStep

\* Nothing that q counts on changes.
LEMMA SparedSame ==
    ASSUME IInv, NEW q \in Procs, UNCHANGED <<told, upstream, answers>>
    PROVE  Spared(q)
BY DEF IInv, ProcsOK, ProcOK, Spared

\* The recording of an end, of a failed start, of an expiry or of a purge:
\* COMPLETED is recorded only of what was approved.
LEMMA StatusWrite ==
    ASSUME IInv, status' \in [RequestIds -> Statuses], completedAt' \in [RequestIds -> Nat],
           claims' \in [RequestIds -> BOOLEAN],
           \A r \in RequestIds : (status'[r] = "none") <=> (status[r] = "none"),
           \A r \in RequestIds : status'[r] = "COMPLETED" \/ claims'[r] =>
                                     upstream[r] = "COMPLETED",
           UNCHANGED <<nid, hasTrans, createdAt, consumed, linkedUser, userVars, clientVars,
                       upstream, now>>,
           upsets' \in Nat
    PROVE  DataOK' /\ Grows /\ \A q \in Procs : Spared(q)
<1>1. DataTypes'
  BY IInvParts DEF DataOK, DataTypes, userVars, clientVars
<1>2. RowsOK' /\ UsersOK'
  BY DEF IInv, RowsOK, RowOK, UsersOK, OneAccountPerIdentity, userVars, clientVars
<1>3. Grows
  BY DEF IInv, RowsOK, RowOK, Grows, userVars, clientVars
<1> QED
  BY <1>1, <1>2, <1>3, SparedSame DEF DataOK, clientVars

LEMMA MarkFailedStep ==
    ASSUME IInv, NEW p \in Procs, MarkFailed(p)
    PROVE  IInv'
<1> DEFINE r == job[p]
<1>1. r \in RequestIds /\ DataTypes /\ RowsOK
  BY TypeParts, IInvParts DEF MarkFailed, ProcOK, OnRow, Starting, DataOK
<1>2. DataOK' /\ Grows /\ \A q \in Procs : Spared(q)
  BY <1>1, StatusWrite, TypeParts
  DEF MarkFailed, DataTypes, RowsOK, RowOK, Exists, Statuses, Final
<1> QED
  BY <1>2, WriteFinish DEF MarkFailed

\* finish's UPDATE, whoever calls it.
LEMMA FinishRowOK ==
    ASSUME IInv, NEW r \in RequestIds, NEW s \in Decisions, NEW signed \in BOOLEAN,
           s = "COMPLETED" \/ signed => upstream[r] = "COMPLETED",
           FinishRow(r, s, signed),
           UNCHANGED <<nid, hasTrans, createdAt, consumed, linkedUser, userVars, clientVars,
                       upstream, now, upsets>>
    PROVE  DataOK' /\ Grows /\ \A q \in Procs : Spared(q)
<1>1. DataTypes /\ RowsOK
  BY IInvParts DEF DataOK
<1>2. CASE status[r] = "WAITING"
  BY <1>1, <1>2, StatusWrite
  DEF FinishRow, DataTypes, RowsOK, RowOK, Statuses, Final, Decisions
<1>3. CASE status[r] # "WAITING"
  BY <1>1, <1>3, StatusWrite DEF FinishRow, DataTypes, RowsOK, RowOK
<1> QED
  BY <1>2, <1>3

LEMMA HandleCallbackStep ==
    ASSUME IInv, NEW p \in Procs, NEW r \in RequestIds, HandleCallback(p, r)
    PROVE  IInv'
<1>1. DataOK' /\ Grows /\ \A q \in Procs : Spared(q)
  BY FinishRowOK DEF HandleCallback
<1>2. CASE Begin(p, "keepClaims", r, NoUser, "nothing")
  <2>1. ProcTypes' /\ Others(p) /\ pc'[p] = "keepClaims" /\ job'[p] = r
    BY <1>2, TypeParts, BeginMove, MoveTypes DEF Steps
  <2>2. status[r] # "none"
    BY DEF HandleCallback, Exists
  <2>3. ProcOK(p)' /\ TakesNone(p)
    BY <1>1, <2>1, <2>2 DEF ProcOK, TakesNone, Grows, Starting, Linking, OnRow
  <2> QED
    BY <1>1, <2>1, <2>3, WriteStep, StaysAlone
<1>3. CASE UNCHANGED procVars
  BY <1>1, <1>3, OutsideStep
<1> QED
  BY <1>2, <1>3 DEF HandleCallback

LEMMA RecordStatusStep ==
    ASSUME IInv, NEW p \in Procs, RecordStatus(p)
    PROVE  IInv'
<1> DEFINE r == job[p]
<1>1. /\ r \in RequestIds /\ status[r] # "none" /\ saw[p] \in Decisions
      /\ saw[p] = "COMPLETED" => upstream[r] = "COMPLETED"
  BY TypeParts DEF RecordStatus, ProcOK, OnRow
<1>2. DataOK' /\ Grows /\ \A q \in Procs : Spared(q)
  BY <1>1, FinishRowOK DEF RecordStatus
<1>3. CASE Finish(p)
  BY <1>2, <1>3, WriteFinish
<1>4. CASE GoTo(p, "reload")
  <2>1. pc'[p] = "reload" /\ job'[p] = r /\ Others(p)
    BY <1>4, TypeParts, GoToMove, MoveTypes DEF Steps
  <2>2. ProcOK(p)' /\ TakesNone(p)
    BY <1>1, <1>2, <2>1 DEF ProcOK, TakesNone, Grows, Starting, Linking, OnRow
  <2> QED
    BY <1>2, <1>4, <2>1, <2>2, WriteGoTo, StaysAlone DEF Steps
<1> QED
  BY <1>3, <1>4 DEF RecordStatus

LEMMA KeepClaimsStep ==
    ASSUME IInv, NEW p \in Procs, KeepClaims(p)
    PROVE  IInv'
<1>1. job[p] \in RequestIds /\ DataTypes /\ RowsOK
  BY TypeParts, IInvParts DEF KeepClaims, ProcOK, OnRow, DataOK
<1>2. DataOK' /\ Grows /\ \A q \in Procs : Spared(q)
  BY <1>1, StatusWrite DEF KeepClaims, DataTypes, RowsOK, RowOK
<1> QED
  BY <1>2, WriteFinish DEF KeepClaims

LEMMA ExpireStaleStep ==
    ASSUME IInv, NEW p \in Procs, ExpireStale(p)
    PROVE  IInv'
<1>1. DataTypes /\ RowsOK
  BY IInvParts DEF DataOK
<1>2. DataOK' /\ Grows /\ \A q \in Procs : Spared(q)
  BY <1>1, StatusWrite DEF ExpireStale, DataTypes, RowsOK, RowOK, Statuses, Final, Decisions
<1>3. /\ ProcTypes' /\ Others(p) /\ pc'[p] = "expireUnredeemed"
  BY TypeParts, BeginMove, MoveTypes DEF ExpireStale, Steps
<1>4. ProcOK(p)' /\ TakesNone(p)
  BY <1>3 DEF ProcOK, TakesNone, Starting, Linking, OnRow
<1> QED
  BY <1>2, <1>3, <1>4, WriteStep, StaysAlone

LEMMA ExpireUnredeemedStep ==
    ASSUME IInv, NEW p \in Procs, ExpireUnredeemed(p)
    PROVE  IInv'
<1>1. DataTypes /\ RowsOK
  BY IInvParts DEF DataOK
<1>2. DataOK' /\ Grows /\ \A q \in Procs : Spared(q)
  BY <1>1, StatusWrite
  DEF ExpireUnredeemed, Unredeemed, DataTypes, RowsOK, RowOK, Statuses, Final, Decisions
<1> QED
  BY <1>2, WriteFinish DEF ExpireUnredeemed

LEMMA PurgeOldStep == IInv /\ PurgeOld => IInv'
<1> SUFFICES ASSUME IInv, PurgeOld PROVE IInv'
  OBVIOUS
<1>1. DataTypes /\ RowsOK
  BY IInvParts DEF DataOK
<1>2. DataOK' /\ Grows /\ \A q \in Procs : Spared(q)
  BY <1>1, StatusWrite
  DEF PurgeOld, Exists, DataTypes, RowsOK, RowOK, Statuses, Final, Decisions
<1> QED
  BY <1>2, OutsideStep DEF PurgeOld

-----------------------------------------------------------------------------
(* Steps that start, send, decide, redeem and link.                        *)

LEMMA InsertRequestStep ==
    ASSUME IInv, NEW p \in Procs, InsertRequest(p)
    PROVE  IInv'
<1>1. /\ DataTypes /\ RowsOK /\ UsersOK /\ ProcTypes /\ who[p] \in NationalIds
      /\ UNCHANGED <<hasTrans, claims, completedAt, consumed, linkedUser, userVars,
                     clientVars, upstream, now, upsets>>
  BY TypeParts, IInvParts DEF DataOK, InsertRequest, ProcOK
<1>2. CASE Finish(p) /\ UNCHANGED <<nid, status, createdAt>>
  BY <1>1, <1>2, QuietFinish DEF Quiet, rowVars, DataTypes
<1>3. ASSUME NEW r \in RequestIds, status[r] = "none",
             nid' = [nid EXCEPT ![r] = who[p]], status' = [status EXCEPT ![r] = "WAITING"],
             createdAt' = [createdAt EXCEPT ![r] = now], job' = [job EXCEPT ![p] = r],
             pc' = [pc EXCEPT ![p] = "send"], UNCHANGED <<who, saw>>
      PROVE  IInv'
  <2>1. DataTypes'
    BY <1>1, <1>3 DEF DataTypes, userVars, clientVars, Statuses
  <2>2. who[p] # NoId /\ RowOK(r)
    BY <1>1, NullAssumption DEF RowsOK
  <2>3. RowsOK'
    BY <1>1, <1>3, <2>2 DEF DataTypes, RowsOK, RowOK, userVars, clientVars
  <2>4. Grows
    BY <1>1, <1>3 DEF DataTypes, Grows, userVars, clientVars
  <2>5. UsersOK'
    BY <1>1, <1>3, <2>2 DEF UsersOK, OneAccountPerIdentity, RowOK, DataTypes, userVars,
                            clientVars
  <2>6. ProcTypes' /\ Others(p) /\ pc'[p] = "send" /\ job'[p] = r
    BY <1>1, <1>3 DEF ProcTypes, Others, Steps
  <2>7. ProcOK(p)'
    BY <1>1, <1>3, <2>2, <2>6
    DEF ProcOK, RowOK, DataTypes, clientVars, Starting, Linking, OnRow
  <2>8. ASSUME NEW q \in Procs \ {p} PROVE Spared(q) /\ Alone(p, q)'
    <3>1. ProcOK(q)
      BY TypeParts
    <3>2. Alone(p, q)'
      BY <1>3, <2>6, <3>1 DEF ProcOK, Alone, Others, Starting, Linking, OnRow
    <3> QED
      BY <1>1, <3>2, SparedSame DEF clientVars
  <2> QED
    BY <2>1, <2>3, <2>4, <2>5, <2>6, <2>7, <2>8, WriteStep DEF DataOK
<1> QED
  BY <1>2, <1>3 DEF InsertRequest

\* A request that gets to Nafath, which did not know of it.
LEMMA Sent ==
    ASSUME IInv, NEW p \in Procs, pc[p] = "send",
           upstream' = [upstream EXCEPT ![job[p]] = "WAITING"],
           UNCHANGED <<rowVars, userVars, clientVars, now>>, upsets' \in Nat
    PROVE  DataOK' /\ Grows /\ \A q \in Procs \ {p} : Spared(q)
<1>1. /\ DataTypes /\ RowsOK /\ UsersOK
      /\ job[p] \in RequestIds /\ status[job[p]] # "none" /\ upstream[job[p]] = "none"
  BY TypeParts, IInvParts DEF DataOK, ProcOK, Starting, OnRow
<1>2. DataTypes' /\ Grows
  BY <1>1 DEF DataTypes, Grows, rowVars, userVars, clientVars
<1>3. RowsOK' /\ UsersOK'
  BY <1>1 DEF DataTypes, RowsOK, RowOK, UsersOK, OneAccountPerIdentity, rowVars, userVars,
              clientVars
<1>4. ASSUME NEW q \in Procs \ {p} PROVE Spared(q)
  <2>1. ProcOK(q) /\ Alone(p, q)
    BY DEF IInv, ProcsOK, AllAlone
  <2> QED
    BY <1>1, <2>1 DEF DataTypes, ProcOK, Alone, Spared, Starting, clientVars
<1> QED
  BY <1>2, <1>3, <1>4 DEF DataOK

\* start goes on with its own row.
LEMMA StartGoesOn ==
    ASSUME IInv, NEW p \in Procs, NEW s \in {"storeTrans", "markFailed"}, GoTo(p, s),
           pc[p] \in Starting, DataOK', Grows, UNCHANGED told,
           \A q \in Procs \ {p} : Spared(q)
    PROVE  IInv'
<1>1. pc'[p] = s /\ job'[p] = job[p] /\ Others(p)
  BY TypeParts, GoToMove, MoveTypes DEF Steps
<1>2. ProcOK(p)' /\ TakesNone(p)
  BY <1>1, TypeParts DEF ProcOK, TakesNone, Grows, Starting, Linking, OnRow
<1> QED
  BY <1>1, <1>2, WriteGoTo, StaysAlone DEF Steps

LEMMA SendStep ==
    ASSUME IInv, NEW p \in Procs, SendRequest(p) \/ SendFails(p)
    PROVE  IInv'
<1>1. /\ pc[p] \in Starting /\ UNCHANGED <<rowVars, userVars, clientVars, now>>
      /\ upsets' \in Nat
      /\ GoTo(p, "storeTrans") \/ GoTo(p, "markFailed")
  BY TypeParts DEF SendRequest, SendFails, Starting
<1>2. CASE UNCHANGED upstream
  <2>1. DataOK' /\ Grows /\ \A q \in Procs : Spared(q)
    BY <1>1, <1>2, StatusWrite, IInvParts DEF DataOK, DataTypes, RowsOK, RowOK, rowVars
  <2> QED
    BY <1>1, <2>1, StartGoesOn DEF clientVars
<1>3. CASE upstream' = [upstream EXCEPT ![job[p]] = "WAITING"]
  <2>1. pc[p] = "send"
    BY DEF SendRequest, SendFails
  <2>2. DataOK' /\ Grows /\ \A q \in Procs \ {p} : Spared(q)
    BY <1>1, <1>3, <2>1, Sent
  <2> QED
    BY <1>1, <2>2, StartGoesOn DEF clientVars
<1> QED
  BY <1>2, <1>3 DEF SendRequest, SendFails

LEMMA StoreTransStep ==
    ASSUME IInv, NEW p \in Procs, StoreTrans(p) \/ StoreTransFails(p)
    PROVE  IInv'
<1> DEFINE Rest == UNCHANGED <<nid, status, claims, createdAt, completedAt, consumed,
                               linkedUser, userVars, answers, linkTokens, upstream, now>>
<1>1. /\ DataTypes /\ RowsOK /\ UsersOK
      /\ pc[p] = "storeTrans" => job[p] \in RequestIds /\ status[job[p]] # "none"
  BY TypeParts, IInvParts DEF DataOK, ProcOK, Starting, OnRow
<1>2. ASSUME StoreTransFails(p)
      PROVE  hasTrans' \in [RequestIds -> BOOLEAN] /\ upsets' \in Nat /\ Rest
  BY <1>1, <1>2 DEF StoreTransFails, DataTypes, clientVars
<1>3. /\ DataTypes /\ RowsOK /\ UsersOK /\ pc[p] = "storeTrans"
      /\ job[p] \in RequestIds /\ status[job[p]] # "none"
      /\ hasTrans' \in [RequestIds -> BOOLEAN] /\ upsets' \in Nat /\ Rest
  BY <1>1, <1>2 DEF StoreTrans, StoreTransFails, DataTypes
<1>4. Grows
  BY <1>3 DEF Grows, userVars
<1>5. CASE UNCHANGED told /\ GoTo(p, "markFailed")
  <2>1. DataOK'
    BY <1>3, <1>5 DEF DataOK, DataTypes, RowsOK, RowOK, UsersOK, OneAccountPerIdentity,
                      userVars
  <2> QED
    BY <1>3, <1>4, <1>5, <2>1, SparedSame, StartGoesOn DEF Starting
<1>6. CASE told' = told \cup {job[p]} /\ Finish(p)
  <2>1. DataOK'
    BY <1>3, <1>6 DEF DataOK, DataTypes, RowsOK, RowOK, UsersOK, OneAccountPerIdentity,
                      userVars
  <2>2. ASSUME NEW q \in Procs \ {p} PROVE Spared(q)
    <3>1. ProcOK(q) /\ Alone(p, q)
      BY DEF IInv, ProcsOK, AllAlone
    <3> QED
      BY <1>3, <1>6, <3>1 DEF ProcOK, Alone, Spared, Starting
  <2> QED
    BY <1>4, <1>6, <2>1, <2>2, WriteFinish
<1> QED
  BY <1>5, <1>6 DEF StoreTrans, StoreTransFails, clientVars

LEMMA DecideStep ==
    ASSUME IInv, NEW r \in RequestIds, Decide(r)
    PROVE  IInv'
<1>1. DataTypes /\ RowsOK /\ UsersOK
  BY IInvParts DEF DataOK
<1>2. DataOK' /\ Grows
  BY <1>1 DEF Decide, DataOK, DataTypes, RowsOK, RowOK, UsersOK, OneAccountPerIdentity,
              Grows, rowVars, userVars, clientVars
<1>3. \A q \in Procs : Spared(q)
  BY <1>1, TypeParts DEF Decide, DataTypes, ProcOK, Spared, Starting, OnRow, clientVars
<1> QED
  BY <1>2, <1>3, OutsideStep DEF Decide

LEMMA RedeemStep ==
    ASSUME IInv, NEW p \in Procs, Redeem(p)
    PROVE  IInv'
<1> DEFINE r == job[p]
<1>1. /\ DataTypes /\ RowsOK /\ UsersOK
      /\ r \in RequestIds /\ status[r] # "none" /\ upstream[r] = "COMPLETED" /\ RowOK(r)
      /\ UNCHANGED <<nid, status, hasTrans, claims, createdAt, completedAt, linkedUser,
                     userVars, clientVars, upstream, now, upsets>>
  BY TypeParts, IInvParts DEF Redeem, DataOK, RowsOK, ProcOK, OnRow
<1>2. CASE Finish(p) /\ UNCHANGED consumed
  BY <1>1, <1>2, QuietFinish DEF Quiet, rowVars, DataTypes
<1>3. CASE ~consumed[r] /\ consumed' = [consumed EXCEPT ![r] = TRUE] /\ GoTo(p, "login")
  <2>1. DataOK' /\ Grows
    BY <1>1, <1>3 DEF DataOK, DataTypes, RowsOK, RowOK, UsersOK, OneAccountPerIdentity,
                      Grows, userVars, clientVars
  <2>2. pc'[p] = "login" /\ job'[p] = r /\ Others(p)
    BY <1>3, TypeParts, GoToMove, MoveTypes DEF Steps
  <2>3. ProcOK(p)'
    BY <1>1, <1>3, <2>2 DEF DataTypes, RowOK, ProcOK, clientVars, Starting, Linking, OnRow
  <2>4. ASSUME NEW q \in Procs \ {p} PROVE Spared(q) /\ Alone(p, q)'
    <3>1. ProcOK(q)
      BY TypeParts
    <3>2. Alone(p, q)'
      BY <1>3, <2>2, <3>1 DEF ProcOK, Alone, Others, Starting
    <3> QED
      BY <1>1, <3>2, SparedSame DEF clientVars
  <2> QED
    BY <1>3, <2>1, <2>3, <2>4, WriteGoTo DEF Steps
<1> QED
  BY <1>2, <1>3 DEF Redeem

LEMMA WebLoginStep ==
    ASSUME IInv, NEW p \in Procs, NEW n \in NationalIds, WebLogin(p, n)
    PROVE  IInv'
<1>1. PICK r \in RequestIds :
          /\ status[r] = "none"
          /\ nid' = [nid EXCEPT ![r] = n]
          /\ status' = [status EXCEPT ![r] = "COMPLETED"]
          /\ claims' = [claims EXCEPT ![r] = TRUE]
          /\ createdAt' = [createdAt EXCEPT ![r] = now]
          /\ completedAt' = [completedAt EXCEPT ![r] = now]
          /\ consumed' = [consumed EXCEPT ![r] = TRUE]
          /\ upstream' = [upstream EXCEPT ![r] = "COMPLETED"]
          /\ Begin(p, "login", r, NoUser, "nothing")
  BY DEF WebLogin
<1>2. /\ DataTypes /\ RowsOK /\ UsersOK /\ RowOK(r) /\ n # NoId
      /\ UNCHANGED <<hasTrans, linkedUser, userVars, clientVars, now, upsets>>
  BY IInvParts, NullAssumption DEF DataOK, RowsOK, WebLogin
<1>3. DataTypes'
  BY <1>1, <1>2 DEF DataTypes, userVars, clientVars, Statuses, Final, Decisions
<1>4. RowsOK' /\ UsersOK'
  BY <1>1, <1>2 DEF DataTypes, RowsOK, RowOK, UsersOK, OneAccountPerIdentity, userVars,
                    clientVars
<1>5. Grows
  BY <1>1, <1>2 DEF DataTypes, Grows, userVars, clientVars
<1>6. ProcTypes' /\ Others(p) /\ pc'[p] = "login" /\ job'[p] = r
  BY <1>1, TypeParts, BeginMove, MoveTypes DEF Steps
<1>7. ProcOK(p)'
  BY <1>1, <1>2, <1>6
  DEF DataTypes, RowOK, ProcOK, clientVars, Starting, Linking, OnRow
<1>8. ASSUME NEW q \in Procs \ {p} PROVE Spared(q) /\ Alone(p, q)'
  <2>1. ProcOK(q)
    BY TypeParts
  <2>2. Alone(p, q)'
    BY <1>1, <1>6, <2>1 DEF ProcOK, Alone, Others, Starting, Linking, OnRow
  <2>3. Spared(q)
    BY <1>1, <1>2, <2>1 DEF DataTypes, ProcOK, Spared, Starting, OnRow, clientVars
  <2> QED
    BY <2>2, <2>3
<1> QED
  BY <1>3, <1>4, <1>5, <1>6, <1>7, <1>8, WriteStep DEF DataOK

LEMMA LoginOrLinkStep ==
    ASSUME IInv, NEW p \in Procs, LoginOrLink(p)
    PROVE  IInv'
<1> DEFINE r == job[p]
           owners == {u \in Users : nationalId[u] = nid[r]}
<1>1. /\ DataTypes /\ RowsOK /\ UsersOK
      /\ r \in RequestIds /\ consumed[r] /\ answers[r] = 0
      /\ Finish(p)
      /\ UNCHANGED <<rowVars, userVars, told, upstream, now, upsets>>
  BY TypeParts, IInvParts DEF LoginOrLink, DataOK, ProcOK, OnRow
<1>2. \/ UNCHANGED answers /\ UNCHANGED linkTokens
      \/ /\ answers' = [answers EXCEPT ![r] = 1]
         /\ linkTokens' \in {linkTokens, linkTokens \cup {[request |-> r, issuedAt |-> now]}}
  <2> HIDE DEF owners
  <2>1. /\ answers' = [answers EXCEPT ![r] = IF owners \subseteq active THEN answers[r] + 1
                                             ELSE answers[r]]
        /\ linkTokens' = linkTokens \cup
              (IF owners = {} THEN {[request |-> r, issuedAt |-> now]} ELSE {})
    BY DEF LoginOrLink, owners
  <2>2. CASE owners \subseteq active
    <3>1. answers' = [answers EXCEPT ![r] = 1]
      BY <1>1, <2>1, <2>2
    <3>2. linkTokens' \in {linkTokens, linkTokens \cup {[request |-> r, issuedAt |-> now]}}
      BY <2>1
    <3> QED
      BY <3>1, <3>2
  <2>3. CASE ~(owners \subseteq active)
    <3>1. linkTokens' = linkTokens
      BY <2>1, <2>3
    <3>2. answers' = answers
      BY <1>1, <2>1, <2>3 DEF DataTypes
    <3> QED
      BY <3>1, <3>2
  <2> QED
    BY <2>2, <2>3
<1>3. DataTypes'
  BY <1>1, <1>2 DEF DataTypes, rowVars, userVars, LinkTokens
<1>4. RowsOK'
  BY <1>1, <1>2 DEF DataTypes, RowsOK, RowOK, rowVars, userVars
<1>5. Grows
  BY <1>1, <1>2 DEF DataTypes, Grows, rowVars, userVars
<1>6. UsersOK'
  BY <1>1, <1>2, <1>5 DEF DataTypes, UsersOK, OneAccountPerIdentity, Grows, rowVars, userVars,
                          LinkTokens
<1>7. ASSUME NEW q \in Procs \ {p} PROVE Spared(q)
  <2>1. ProcOK(q) /\ Alone(p, q) /\ pc[p] = "login"
    BY DEF IInv, ProcsOK, AllAlone, LoginOrLink
  <2>2. \A s \in RequestIds \ {r} : answers'[s] = answers[s]
    BY <1>1, <1>2 DEF DataTypes
  <2> QED
    BY <1>1, <2>1, <2>2 DEF ProcOK, Alone, Spared, OnRow, Starting
<1> QED
  BY <1>1, <1>3, <1>4, <1>5, <1>6, <1>7, WriteFinish DEF DataOK

LEMMA LinkUserStep ==
    ASSUME IInv, NEW p \in Procs, LinkUser(p)
    PROVE  IInv'
<1> DEFINE r == job[p]
           u == who[p]
<1>1. /\ DataTypes /\ RowsOK /\ UsersOK /\ RowOK(r)
      /\ r \in RequestIds /\ u \in Users /\ status[r] # "none" /\ answers[r] = 1
      /\ saw[p] = "own" => nationalId[u] = nid[r]
      /\ Finish(p)
      /\ UNCHANGED <<nid, status, hasTrans, claims, createdAt, completedAt, consumed, active,
                     clientVars, upstream, now, upsets>>
  BY TypeParts, IInvParts DEF LinkUser, DataOK, RowsOK, ProcOK, OnRow, Linking
<1>2. \A q \in Procs : Spared(q)
  BY <1>1, SparedSame DEF clientVars
<1>3. CASE UNCHANGED <<nationalId, verified, linkedUser>>
  BY <1>1, <1>3, QuietFinish DEF Quiet, rowVars, userVars, DataTypes
<1>4. CASE /\ FreeFor(u, nid[r]) /\ (saw[p] = "own" \/ nationalId[u] = NoId)
           /\ nationalId' = [nationalId EXCEPT ![u] = nid[r]]
           /\ verified' = [verified EXCEPT ![u] = TRUE]
           /\ linkedUser' = [linkedUser EXCEPT ![r] = u]
  <2>1. DataTypes'
    BY <1>1, <1>4 DEF DataTypes, clientVars
  <2>2. Grows
    BY <1>1, <1>4 DEF DataTypes, Grows, clientVars
  <2>3. RowsOK'
    <3>1. ASSUME NEW s \in RequestIds, linkedUser'[s] # NoUser
          PROVE  nationalId'[linkedUser'[s]] = nid[s]
      <4>1. CASE s = r
        BY <1>1, <1>4, <4>1 DEF DataTypes
      <4>2. CASE s # r
        <5>1. linkedUser'[s] = linkedUser[s] /\ RowOK(s) /\ linkedUser[s] \in Users
          BY <1>1, <1>4, <3>1, <4>2 DEF DataTypes, RowsOK
        <5>2. nid[s] # NoId /\ nationalId[linkedUser[s]] = nid[s]
          BY <3>1, <5>1 DEF RowOK
        <5> QED
          BY <2>2, <5>1, <5>2 DEF Grows
      <4> QED
        BY <4>1, <4>2
    <3> QED
      BY <1>1, <1>4, <3>1 DEF DataTypes, RowsOK, RowOK, clientVars
  <2>4. UsersOK'
    <3>1. OneAccountPerIdentity'
      BY <1>1, <1>4 DEF DataTypes, UsersOK, OneAccountPerIdentity, FreeFor
    <3> QED
      BY <1>1, <1>4, <3>1 DEF DataTypes, UsersOK, clientVars
  <2> QED
    BY <1>1, <1>2, <2>1, <2>2, <2>3, <2>4, WriteFinish DEF DataOK
<1> QED
  BY <1>3, <1>4 DEF LinkUser

\* Accounts and the clock: nothing the rows or the processes count on.
LEMMA AccountSteps ==
    ASSUME IInv,
           Tick \/ (\E u \in Users : Deactivate(u)) \/ \E p \in Procs : SaveProfile(p)
    PROVE  IInv'
<1>1. DataTypes /\ RowsOK /\ UsersOK /\ ProcTypes
  BY IInvParts DEF DataOK
<1>2. CASE Tick \/ \E u \in Users : Deactivate(u)
  <2>1. /\ UNCHANGED <<rowVars, nationalId, verified, clientVars, upstream, procVars>>
        /\ active' \subseteq Users /\ now' \in Nat /\ upsets' \in Nat
    BY <1>1, <1>2 DEF Tick, Deactivate, DataTypes, userVars
  <2>2. DataOK' /\ Grows
    BY <1>1, <2>1 DEF DataOK, DataTypes, RowsOK, RowOK, UsersOK, OneAccountPerIdentity,
                      Grows, rowVars, clientVars
  <2>3. \A q \in Procs : Spared(q)
    BY <2>1, SparedSame DEF clientVars
  <2> QED
    BY <2>1, <2>2, <2>3, OutsideStep
<1>3. ASSUME NEW p \in Procs, SaveProfile(p) PROVE IInv'
  <2>1. /\ verified' \in [Users -> BOOLEAN]
        /\ UNCHANGED <<rowVars, nationalId, active, clientVars, upstream, now, upsets>>
    <3>1. (saw[p] = "verified") \in BOOLEAN
      OBVIOUS
    <3> QED
      BY <1>1, <1>3, <3>1 DEF SaveProfile, DataTypes
  <2>2. DataOK' /\ Grows
    BY <1>1, <2>1 DEF DataOK, DataTypes, RowsOK, RowOK, UsersOK, OneAccountPerIdentity,
                      Grows, rowVars, clientVars
  <2>3. \A q \in Procs : Spared(q)
    BY <1>3, SparedSame DEF SaveProfile, clientVars
  <2> QED
    BY <1>3, <2>2, <2>3, WriteFinish DEF SaveProfile
<1> QED
  BY <1>2, <1>3

-----------------------------------------------------------------------------
(* The theorems.                                                           *)

LEMMA NextIInv == IInv /\ [Next]_vars => IInv'
<1> SUFFICES ASSUME IInv, [Next]_vars PROVE IInv'
  OBVIOUS
<1>1. CASE Tick \/ \E u \in Users : Deactivate(u)
  BY <1>1, AccountSteps
<1>2. CASE PurgeOld
  BY <1>2, PurgeOldStep
<1>3. CASE \E r \in RequestIds : Decide(r)
  BY <1>3, DecideStep
<1>4. ASSUME NEW p \in Handlers,
             \/ \E n \in NationalIds : Start(p, n) \/ WebLogin(p, n)
             \/ \E r \in RequestIds : GetStatus(p, r) \/ HandleCallback(p, r)
             \/ \E u \in Users, t \in linkTokens : Link(p, u, t)
             \/ \E u \in Users : CompleteProfile(p, u)
      PROVE  IInv'
  <2>1. p \in Procs
    BY DEF Procs
  <2> QED
    BY <1>4, <2>1, BeginSteps, WebLoginStep, HandleCallbackStep
<1>5. CASE \E p \in CronRuns : ExpireStale(p)
  BY <1>5, ExpireStaleStep DEF Procs
<1>6. ASSUME NEW p \in Procs, HandlerStep(p) PROVE IInv'
  BY <1>6, ReadSteps, InsertRequestStep, SendStep, StoreTransStep, MarkFailedStep,
     KeepClaimsStep, RecordStatusStep, RedeemStep, LoginOrLinkStep, LinkUserStep,
     AccountSteps, ExpireUnredeemedStep
  DEF HandlerStep
<1>7. ASSUME NEW p \in Procs, SendFails(p) \/ StoreTransFails(p) \/ Crash(p) PROVE IInv'
  BY <1>7, SendStep, StoreTransStep, ReadSteps
<1>8. CASE UNCHANGED vars
  <2>1. Quiet /\ UNCHANGED procVars /\ now' = now /\ upsets' = upsets
    BY <1>8 DEF vars, Quiet
  <2> QED
    BY <2>1 DEF IInv, TypeOK, RowsOK, RowOK, UsersOK, OneAccountPerIdentity, ProcsOK, ProcOK,
                AllAlone, Alone, Quiet, rowVars, userVars, clientVars, procVars
<1> QED
  BY <1>1, <1>2, <1>3, <1>4, <1>5, <1>6, <1>7, <1>8 DEF Next

\* What the rows, the accounts and the processes in flight know of each
\* other holds in every state, however the statements interleave.
THEOREM LoginInvariance == Spec => []IInv
  BY InitIInv, NextIInv, PTL DEF Spec

\* Every variable keeps its type.
THEOREM LoginTypes == Spec => []TypeOK
<1>1. IInv => TypeOK
  BY DEF IInv
<1> QED
  BY <1>1, LoginInvariance, PTL

\* An approval is exchanged at most once, whatever polls, callbacks and
\* retries race for it.
THEOREM SingleUse == Spec => []OneAnswerPerRequest
<1>1. IInv => OneAnswerPerRequest
  BY DEF IInv, RowsOK, RowOK, OneAnswerPerRequest
<1> QED
  BY <1>1, LoginInvariance, PTL

\* Nothing is recorded, given out or linked that was not approved.
THEOREM NothingUnapproved == Spec => []OnlyApproved
<1>1. IInv => OnlyApproved
  BY DEF IInv, RowsOK, RowOK, UsersOK, OnlyApproved
<1> QED
  BY <1>1, LoginInvariance, PTL

\* One identity, one account; and a row that says it linked one is right.
THEOREM IdentitySafety == Spec => []IdentitiesAgree
<1>1. IInv => IdentitiesAgree
  BY DEF IInv, RowsOK, RowOK, UsersOK, LinkedRowsMatch, IdentitiesAgree
<1> QED
  BY <1>1, LoginInvariance, PTL

-----------------------------------------------------------------------------
(* What a step may never do, and the refinement.                           *)

\* The end of r stays, or r expires unredeemed, or r is purged.
EndStays(r) ==
    r \in told /\ status[r] \in Final =>
        \/ status'[r] \in {status[r], "purged"}
        \/ status[r] = "COMPLETED" /\ ~consumed[r] /\ status'[r] = "EXPIRED"

LEMMA EndsStay ==
    ASSUME IInv, [Next]_vars, NEW r \in RequestIds
    PROVE  EndStays(r)
<1>1. DataTypes /\ RowOK(r)
  BY IInvParts DEF DataOK, RowsOK
<1> USE DEF EndStays, Final, Decisions
<1>2. CASE UNCHANGED status
  BY <1>2
<1>3. CASE UNCHANGED rowVars
  BY <1>2, <1>3 DEF rowVars
<1>4. CASE Unwritten
  BY <1>3, <1>4 DEF Unwritten
<1>5. CASE PurgeOld
  BY <1>1, <1>5 DEF PurgeOld, DataTypes
<1>6. ASSUME NEW p \in Handlers, NEW n \in NationalIds, WebLogin(p, n)
      PROVE  EndStays(r)
  BY <1>1, <1>6 DEF WebLogin, DataTypes
<1>7. ASSUME NEW p \in Handlers, NEW s \in RequestIds, HandleCallback(p, s)
      PROVE  EndStays(r)
  BY <1>1, <1>7 DEF HandleCallback, FinishRow, DataTypes
<1>8. ASSUME NEW p \in CronRuns, ExpireStale(p)
      PROVE  EndStays(r)
  BY <1>1, <1>8 DEF ExpireStale, DataTypes
<1>9. ASSUME NEW p \in Procs, HandlerStep(p)
      PROVE  EndStays(r)
  <2>1. CASE InsertRequest(p)
    BY <1>1, <2>1 DEF InsertRequest, DataTypes
  <2>2. CASE MarkFailed(p)
    <3>1. job[p] \in RequestIds /\ job[p] \notin told
      BY <2>2, TypeParts DEF MarkFailed, ProcOK, Starting, OnRow
    <3> QED
      BY <1>1, <2>2, <3>1 DEF MarkFailed, DataTypes
  <2>3. CASE RecordStatus(p)
    BY <1>1, <2>3 DEF RecordStatus, FinishRow, DataTypes
  <2>4. CASE ExpireUnredeemed(p)
    BY <1>1, <2>4 DEF ExpireUnredeemed, Unredeemed, DataTypes
  <2>5. CASE CountRecent(p) \/ PollUpstream(p) \/ Reload(p) \/ LockRow(p) \/ FindOwner(p)
    BY <1>4, <2>5 DEF CountRecent, PollUpstream, Reload, LockRow, FindOwner
  <2>6. CASE \/ SendRequest(p) \/ StoreTrans(p) \/ KeepClaims(p) \/ Redeem(p)
             \/ LoginOrLink(p) \/ LinkUser(p) \/ SaveProfile(p)
    BY <1>2, <2>6
    DEF SendRequest, StoreTrans, KeepClaims, Redeem, LoginOrLink, LinkUser, SaveProfile,
        rowVars
  <2> QED
    BY <1>9, <2>1, <2>2, <2>3, <2>4, <2>5, <2>6 DEF HandlerStep
<1>10. ASSUME NEW p \in Procs, SendFails(p) \/ StoreTransFails(p) \/ Crash(p)
       PROVE  EndStays(r)
  BY <1>2, <1>3, <1>10 DEF SendFails, StoreTransFails, Crash, rowVars
<1>11. CASE Tick \/ (\E s \in RequestIds : Decide(s)) \/ \E u \in Users : Deactivate(u)
  BY <1>3, <1>11 DEF Tick, Decide, Deactivate
<1>12. ASSUME NEW p \in Handlers,
              \/ \E n \in NationalIds : Start(p, n)
              \/ \E s \in RequestIds : GetStatus(p, s)
              \/ \E u \in Users, t \in linkTokens : Link(p, u, t)
              \/ \E u \in Users : CompleteProfile(p, u)
       PROVE  EndStays(r)
  BY <1>4, <1>12 DEF Start, GetStatus, Link, CompleteProfile
<1>13. CASE UNCHANGED vars
  BY <1>3, <1>13 DEF vars
<1> QED
  BY <1>5, <1>6, <1>7, <1>8, <1>9, <1>10, <1>11, <1>12, <1>13 DEF Next

\* What a client was told of the end of its request is not taken back by a
\* callback, a poll, a cron or the error path of start.
THEOREM EndsAreFinal == Spec => ToldStatusIsFinal
<1>1. IInv /\ [Next]_vars => [\A r \in told : status[r] \in Final =>
          \/ status'[r] \in {status[r], "purged"}
          \/ status[r] = "COMPLETED" /\ ~consumed[r] /\ status'[r] = "EXPIRED"]_vars
  <2> SUFFICES ASSUME IInv, [Next]_vars, NEW r \in told, status[r] \in Final
               PROVE  \/ status'[r] \in {status[r], "purged"}
                      \/ status[r] = "COMPLETED" /\ ~consumed[r] /\ status'[r] = "EXPIRED"
    OBVIOUS
  <2>1. r \in RequestIds
    BY DEF IInv, TypeOK
  <2> QED
    BY <2>1, EndsStay DEF EndStays
<1> QED
  BY <1>1, LoginInvariance, PTL DEF Spec, ToldStatusIsFinal

\* The identities and approvals that Identity speaks of.
approvedRequests == {r \in RequestIds : upstream[r] = "COMPLETED"}
identityVars == <<nid, approvedRequests, answers, nationalId>>

LEMMA InitIdentity == Init => Abstract!Init
BY DEF Init, Abstract!Init

LEMMA InsertIdentity ==
    ASSUME IInv, NEW p \in Procs, InsertRequest(p)
    PROVE  Abstract!Next \/ UNCHANGED identityVars
<1>1. DataTypes /\ RowsOK /\ who[p] \in NationalIds
  BY TypeParts, IInvParts DEF DataOK, InsertRequest, ProcOK
<1>2. CASE UNCHANGED nid
  BY <1>2 DEF InsertRequest, identityVars, approvedRequests, userVars, clientVars
<1>3. ASSUME NEW r \in RequestIds, status[r] = "none", nid' = [nid EXCEPT ![r] = who[p]]
      PROVE  Abstract!Next
  <2>1. nid[r] = NoId
    BY <1>1, <1>3 DEF RowsOK, RowOK
  <2>2. PICK n \in NationalIds : n = who[p]
    BY <1>1
  <2>3. Abstract!Ask(r, n)
    BY <1>3, <2>1, <2>2 DEF InsertRequest, Abstract!Ask, userVars, clientVars
  <2> QED
    BY <2>3 DEF Abstract!Next
<1> QED
  BY <1>2, <1>3 DEF InsertRequest

LEMMA WebLoginIdentity ==
    ASSUME IInv, NEW p \in Procs, NEW n \in NationalIds, WebLogin(p, n)
    PROVE  \E r \in RequestIds : Abstract!Ask(r, n)
<1>1. DataTypes /\ RowsOK
  BY IInvParts DEF DataOK
<1>2. PICK r \in RequestIds : /\ status[r] = "none" /\ nid' = [nid EXCEPT ![r] = n]
                              /\ upstream' = [upstream EXCEPT ![r] = "COMPLETED"]
  BY DEF WebLogin
<1>3. nid[r] = NoId
  BY <1>1, <1>2 DEF RowsOK, RowOK
<1>4. approvedRequests' = approvedRequests \cup {r}
  BY <1>1, <1>2 DEF DataTypes, approvedRequests
<1> QED
  BY <1>2, <1>3, <1>4
  DEF WebLogin, Abstract!Ask, approvedRequests, userVars, clientVars

LEMMA SendIdentity ==
    ASSUME IInv, NEW p \in Procs, SendRequest(p) \/ SendFails(p)
    PROVE  UNCHANGED identityVars
<1>1. /\ DataTypes /\ job[p] \in RequestIds /\ upstream[job[p]] = "none"
      /\ UNCHANGED <<rowVars, userVars, clientVars>>
      /\ UNCHANGED upstream \/ upstream' = [upstream EXCEPT ![job[p]] = "WAITING"]
  BY TypeParts, IInvParts DEF DataOK, SendRequest, SendFails, ProcOK, Starting, OnRow
<1>2. approvedRequests' = approvedRequests
  BY <1>1 DEF DataTypes, approvedRequests
<1> QED
  BY <1>1, <1>2 DEF identityVars, rowVars, userVars, clientVars

LEMMA DecideIdentity ==
    ASSUME IInv, NEW r \in RequestIds, Decide(r)
    PROVE  Abstract!Approve(r) \/ UNCHANGED identityVars
<1>1. /\ DataTypes /\ nid[r] # NoId /\ upstream[r] = "WAITING"
      /\ UNCHANGED <<rowVars, userVars, clientVars>>
  BY IInvParts DEF DataOK, RowsOK, RowOK, Decide
<1>2. PICK d \in Decisions : upstream' = [upstream EXCEPT ![r] = d]
  BY DEF Decide
<1>3. CASE d = "COMPLETED"
  <2>1. approvedRequests' = approvedRequests \cup {r}
    BY <1>1, <1>2, <1>3 DEF DataTypes, approvedRequests
  <2> QED
    BY <1>1, <2>1 DEF Abstract!Approve, approvedRequests, rowVars, userVars, clientVars
<1>4. CASE d # "COMPLETED"
  <2>1. approvedRequests' = approvedRequests
    BY <1>1, <1>2, <1>4 DEF DataTypes, approvedRequests
  <2> QED
    BY <1>1, <2>1 DEF identityVars, rowVars, userVars, clientVars
<1> QED
  BY <1>3, <1>4

\* A redeemed approval is answered, or the account is closed.
LEMMA LoginIdentity ==
    ASSUME IInv, NEW p \in Procs, LoginOrLink(p)
    PROVE  Abstract!Next \/ UNCHANGED identityVars
<1> DEFINE r == job[p]
           owners == {u \in Users : nationalId[u] = nid[r]}
<1>1. /\ DataTypes /\ r \in RequestIds /\ answers[r] = 0 /\ r \in approvedRequests
      /\ UNCHANGED <<rowVars, userVars, upstream>>
  BY TypeParts, IInvParts
  DEF LoginOrLink, DataOK, RowsOK, RowOK, ProcOK, OnRow, approvedRequests
<1> HIDE DEF owners
<1>2. answers' = [answers EXCEPT ![r] = IF owners \subseteq active THEN answers[r] + 1
                                       ELSE answers[r]]
  BY DEF LoginOrLink, owners
<1>3. CASE owners \subseteq active
  <2>1. answers' = [answers EXCEPT ![r] = 1]
    BY <1>1, <1>2, <1>3
  <2>2. Abstract!Answer(r)
    BY <1>1, <2>1 DEF Abstract!Answer, approvedRequests, rowVars, userVars
  <2> QED
    BY <1>1, <2>2 DEF Abstract!Next
<1>4. CASE ~(owners \subseteq active)
  <2>1. answers' = answers
    BY <1>1, <1>2, <1>4 DEF DataTypes
  <2> QED
    BY <1>1, <2>1 DEF identityVars, approvedRequests, rowVars, userVars
<1> QED
  BY <1>3, <1>4

\* The link transaction, with the unlocked look for an owner it starts with,
\* is one link, or none when the account has that identity already.
LEMMA LinkIdentity ==
    ASSUME IInv, NEW p \in Procs, LinkUser(p)
    PROVE  Abstract!Next \/ UNCHANGED identityVars
<1> DEFINE r == job[p]
           u == who[p]
<1>1. /\ DataTypes /\ r \in RequestIds /\ u \in Users /\ answers[r] = 1 /\ nid[r] # NoId
      /\ saw[p] = "own" => nationalId[u] = nid[r]
      /\ UNCHANGED <<nid, upstream, clientVars>>
  BY TypeParts, IInvParts
  DEF LinkUser, DataOK, RowsOK, RowOK, ProcOK, OnRow, Linking
<1>2. CASE UNCHANGED nationalId
  BY <1>1, <1>2 DEF identityVars, approvedRequests, clientVars
<1>3. CASE /\ FreeFor(u, nid[r]) /\ (saw[p] = "own" \/ nationalId[u] = NoId)
           /\ nationalId' = [nationalId EXCEPT ![u] = nid[r]]
  <2>1. CASE nationalId[u] = nid[r]
    BY <1>1, <1>2, <1>3, <2>1 DEF DataTypes
  <2>2. CASE nationalId[u] # nid[r]
    <3>1. nationalId[u] = NoId /\ \A v \in Users : nationalId[v] # nid[r]
      BY <1>1, <1>3, <2>2 DEF FreeFor
    <3>2. Abstract!Link(r, u)
      BY <1>1, <1>3, <3>1 DEF Abstract!Link, clientVars
    <3> QED
      BY <1>1, <3>2 DEF Abstract!Next
  <2> QED
    BY <2>1, <2>2
<1> QED
  BY <1>2, <1>3 DEF LinkUser

LEMMA StepIdentity ==
    ASSUME IInv, [Next]_vars
    PROVE  [Abstract!Next]_(Abstract!vars)
<1>1. CASE Abstract!Next \/ UNCHANGED identityVars
  BY <1>1 DEF identityVars, approvedRequests, Abstract!vars
<1>2. CASE UNCHANGED <<nid, upstream, answers, nationalId>>
  BY <1>1, <1>2 DEF identityVars, approvedRequests
<1>3. CASE Unwritten
  BY <1>2, <1>3 DEF Unwritten, rowVars, userVars, clientVars
<1>4. ASSUME NEW p \in Handlers, NEW n \in NationalIds, WebLogin(p, n)
      PROVE  [Abstract!Next]_(Abstract!vars)
  BY <1>4, WebLoginIdentity DEF Abstract!Next, Procs
<1>5. CASE \E r \in RequestIds : Decide(r)
  BY <1>1, <1>5, DecideIdentity DEF Abstract!Next
<1>6. ASSUME NEW p \in Procs, HandlerStep(p)
      PROVE  [Abstract!Next]_(Abstract!vars)
  <2>1. CASE InsertRequest(p) \/ SendRequest(p) \/ LoginOrLink(p) \/ LinkUser(p)
    BY <1>1, <2>1, InsertIdentity, SendIdentity, LoginIdentity, LinkIdentity
  <2>2. CASE CountRecent(p) \/ PollUpstream(p) \/ Reload(p) \/ LockRow(p) \/ FindOwner(p)
    BY <1>3, <2>2 DEF CountRecent, PollUpstream, Reload, LockRow, FindOwner
  <2>3. CASE \/ StoreTrans(p) \/ MarkFailed(p) \/ KeepClaims(p) \/ RecordStatus(p)
             \/ Redeem(p) \/ SaveProfile(p) \/ ExpireUnredeemed(p)
    BY <1>2, <2>3
    DEF StoreTrans, MarkFailed, KeepClaims, RecordStatus, Redeem, SaveProfile,
        ExpireUnredeemed, rowVars, userVars, clientVars
  <2> QED
    BY <1>6, <2>1, <2>2, <2>3 DEF HandlerStep
<1>7. ASSUME NEW p \in Procs, SendFails(p) \/ StoreTransFails(p) \/ Crash(p)
      PROVE  [Abstract!Next]_(Abstract!vars)
  BY <1>1, <1>2, <1>7, SendIdentity DEF StoreTransFails, Crash, rowVars, userVars, clientVars
<1>8. CASE Tick \/ PurgeOld \/ \E u \in Users : Deactivate(u)
  BY <1>2, <1>8 DEF Tick, PurgeOld, Deactivate, rowVars, userVars, clientVars
<1>9. ASSUME NEW p \in Handlers,
             \/ \E n \in NationalIds : Start(p, n)
             \/ \E r \in RequestIds : GetStatus(p, r) \/ HandleCallback(p, r)
             \/ \E u \in Users, t \in linkTokens : Link(p, u, t)
             \/ \E u \in Users : CompleteProfile(p, u)
      PROVE  [Abstract!Next]_(Abstract!vars)
  BY <1>2, <1>3, <1>9
  DEF Start, GetStatus, HandleCallback, Link, CompleteProfile, userVars, clientVars
<1>10. CASE \E p \in CronRuns : ExpireStale(p)
  BY <1>2, <1>10 DEF ExpireStale, userVars, clientVars
<1>11. CASE UNCHANGED vars
  BY <1>2, <1>11 DEF vars, rowVars, userVars, clientVars
<1> QED
  BY <1>4, <1>5, <1>6, <1>7, <1>8, <1>9, <1>10, <1>11 DEF Next

\* Logins, with their polls, callbacks, crons, crashes and lost replies, do
\* what Identity does in single steps.
THEOREM IdentityRefinement == Spec => ImplementsIdentity
<1>1. Init => Abstract!Init
  BY InitIdentity
<1>2. IInv /\ [Next]_vars => [Abstract!Next]_(Abstract!vars)
  BY StepIdentity
<1> QED
  BY <1>1, <1>2, LoginInvariance, PTL DEF Spec, ImplementsIdentity, Abstract!Spec
-----------------------------------------------------------------------------
(* How many requests of a person can be open.  start looks for an open one *)
(* and inserts in different statements, so concurrent starts pass the      *)
(* check together: as many as there are handlers, and no more, ever.       *)

Open(n) == {r \in RequestIds : nid[r] = n /\ status[r] = "WAITING" /\ now < StaleAt(r)}

\* The handlers that have found nothing open for n, and may still insert.
Checked(n) == {p \in Handlers : pc[p] \in {"count", "insert"} /\ who[p] = n}

OpenInv ==
    /\ \A p \in Procs : pc[p] \in {"count", "insert"} => p \in Handlers
    /\ \A n \in NationalIds :
          /\ IsFiniteSet(Open(n))
          /\ Cardinality(Open(n)) + Cardinality(Checked(n)) <= Cardinality(Handlers)

\* What no step does but a start: opening a request, or checking for one.
NoneOpened ==
    /\ \A r \in RequestIds : status'[r] = "WAITING" =>
          status[r] = "WAITING" /\ nid'[r] = nid[r] /\ createdAt'[r] = createdAt[r]
    /\ now' \in Nat /\ now <= now'
NoneChecked ==
    \A p \in Procs : pc'[p] \in {"count", "insert"} =>
        pc[p] \in {"count", "insert"} /\ who'[p] = who[p]

LEMMA OpenShrinks ==
    ASSUME TypeOK, NoneOpened, NEW n
    PROVE  Open(n)' \subseteq Open(n)
<1> SUFFICES ASSUME NEW r \in RequestIds, nid'[r] = n, status'[r] = "WAITING",
                    now' < StaleAt(r)'
             PROVE  nid[r] = n /\ status[r] = "WAITING" /\ now < StaleAt(r)
  BY DEF Open
<1>1. nid[r] = n /\ status[r] = "WAITING" /\ StaleAt(r)' = StaleAt(r) /\ now <= now'
  BY DEF NoneOpened, StaleAt, ExpiresAt
<1>2. now \in Nat /\ now' \in Nat /\ StaleAt(r) \in Nat
  BY BoundsAssumption DEF TypeOK, NoneOpened, StaleAt, ExpiresAt
<1> QED
  BY <1>1, <1>2

LEMMA CheckedShrinks ==
    ASSUME NoneChecked, NEW n
    PROVE  Checked(n)' \subseteq Checked(n)
BY DEF NoneChecked, Checked, Procs

\* Fewer open, and fewer that checked, keep the bound.
LEMMA BoundKept ==
    ASSUME IsFiniteSet(Handlers), OpenInv, NEW n \in NationalIds,
           Open(n)' \subseteq Open(n), Checked(n)' \subseteq Checked(n)
    PROVE  /\ IsFiniteSet(Open(n)')
           /\ Cardinality(Open(n)') + Cardinality(Checked(n)') <= Cardinality(Handlers)
<1>1. IsFiniteSet(Open(n)) /\ IsFiniteSet(Checked(n))
  BY FS_Subset DEF OpenInv, Checked
<1>2. /\ IsFiniteSet(Open(n)') /\ IsFiniteSet(Checked(n)')
      /\ Cardinality(Open(n)') <= Cardinality(Open(n))
      /\ Cardinality(Checked(n)') <= Cardinality(Checked(n))
  BY <1>1, FS_Subset
<1>3. /\ Cardinality(Open(n)) \in Nat /\ Cardinality(Open(n)') \in Nat
      /\ Cardinality(Checked(n)) \in Nat /\ Cardinality(Checked(n)') \in Nat
      /\ Cardinality(Handlers) \in Nat
  BY <1>1, <1>2, FS_CardinalityType
<1> QED
  BY <1>2, <1>3 DEF OpenInv

LEMMA QuietKeepsBound ==
    ASSUME IsFiniteSet(Handlers), TypeOK, OpenInv, NoneOpened, NoneChecked
    PROVE  OpenInv'
<1>1. \A p \in Procs : pc'[p] \in {"count", "insert"} => p \in Handlers
  BY DEF NoneChecked, OpenInv
<1>2. ASSUME NEW n \in NationalIds
      PROVE  /\ IsFiniteSet(Open(n)')
             /\ Cardinality(Open(n)') + Cardinality(Checked(n)') <= Cardinality(Handlers)
  BY OpenShrinks, CheckedShrinks, BoundKept
<1> QED
  BY <1>1, <1>2 DEF OpenInv

\* A start that finds nothing open has all handlers but itself for company.
LEMMA StartKeepsBound ==
    ASSUME IsFiniteSet(Handlers), IInv, OpenInv, NEW p \in Handlers, NEW m \in NationalIds,
           Start(p, m)
    PROVE  OpenInv'
<1>1. ProcTypes /\ TypeOK
  BY TypeParts DEF IInv
<1>2. /\ pc'[p] = "count" /\ who'[p] = m
      /\ \A q \in Procs \ {p} : pc'[q] = pc[q] /\ who'[q] = who[q]
      /\ UNCHANGED <<nid, status, createdAt, now>>
  BY <1>1 DEF ProcTypes, Start, Begin, Unwritten, rowVars, Procs
<1>3. \A q \in Procs : pc'[q] \in {"count", "insert"} => q \in Handlers
  BY <1>2 DEF OpenInv
<1>4. \A n : Open(n)' = Open(n)
  BY <1>2 DEF Open, StaleAt, ExpiresAt
<1>5. ASSUME NEW n \in NationalIds
      PROVE  /\ IsFiniteSet(Open(n)')
             /\ Cardinality(Open(n)') + Cardinality(Checked(n)') <= Cardinality(Handlers)
  <2>1. CASE n # m
    <3>1. Checked(n)' \subseteq Checked(n)
      BY <1>2, <2>1 DEF Checked, Procs
    <3> QED
      BY <1>4, <3>1, BoundKept
  <2>2. CASE n = m
    <3>1. Open(n) = {}
      <4>1. \A r \in RequestIds : now \in Nat /\ StaleAt(r) \in Nat
        BY <1>1, BoundsAssumption DEF TypeOK, StaleAt, ExpiresAt
      <4> QED
        BY <2>2, <4>1 DEF Start, Open
    <3>2. Checked(n)' \subseteq Handlers
      BY DEF Checked
    <3>3. /\ Cardinality(Checked(n)') <= Cardinality(Handlers)
          /\ IsFiniteSet(Checked(n)')
      BY <3>2, FS_Subset
    <3>4. IsFiniteSet(Open(n)') /\ Cardinality(Open(n)') = 0
      BY <1>4, <3>1, FS_EmptySet
    <3> QED
      BY <3>3, <3>4, FS_CardinalityType
  <2> QED
    BY <2>1, <2>2
<1> QED
  BY <1>3, <1>5 DEF OpenInv

\* The row that is inserted takes the place of the handler that had checked.
LEMMA InsertKeepsBound ==
    ASSUME IsFiniteSet(Handlers), IInv, OpenInv, NEW p \in Procs, InsertRequest(p)
    PROVE  OpenInv'
<1>1. ProcTypes /\ TypeOK
  BY TypeParts DEF IInv
<1>2. /\ pc[p] = "insert" /\ pc'[p] \notin {"count", "insert"} /\ now' = now
      /\ \A q \in Procs \ {p} : pc'[q] = pc[q] /\ who'[q] = who[q]
  BY <1>1 DEF ProcTypes, InsertRequest, Finish
<1>3. NoneChecked
  BY <1>2 DEF NoneChecked
<1>4. CASE UNCHANGED <<nid, status, createdAt>>
  <2>1. NoneOpened
    BY <1>1, <1>2, <1>4 DEF NoneOpened, TypeOK
  <2> QED
    BY <1>1, <1>3, <2>1, QuietKeepsBound
<1>5. ASSUME NEW r \in RequestIds, status[r] = "none",
             nid' = [nid EXCEPT ![r] = who[p]], status' = [status EXCEPT ![r] = "WAITING"],
             createdAt' = [createdAt EXCEPT ![r] = now]
      PROVE  OpenInv'
  <2>1. \A q \in Procs : pc'[q] \in {"count", "insert"} => q \in Handlers
    BY <1>3 DEF NoneChecked, OpenInv
  <2>2. p \in Handlers
    BY <1>2 DEF OpenInv
  <2>3. ASSUME NEW n \in NationalIds
        PROVE  /\ IsFiniteSet(Open(n)')
               /\ Cardinality(Open(n)') + Cardinality(Checked(n)') <= Cardinality(Handlers)
    <3>1. Open(n)' \subseteq Open(n) \cup (IF n = who[p] THEN {r} ELSE {})
      BY <1>1, <1>2, <1>5 DEF TypeOK, Open, StaleAt, ExpiresAt
    <3>2. CASE n # who[p]
      BY <1>3, <3>1, <3>2, CheckedShrinks, BoundKept
    <3>3. CASE n = who[p]
      <4>1. p \in Checked(n) /\ Checked(n)' \subseteq Checked(n) \ {p}
        BY <1>2, <1>3, <2>2, <3>3, CheckedShrinks DEF Checked
      <4>2. IsFiniteSet(Open(n)) /\ IsFiniteSet(Checked(n)) /\ r \notin Open(n)
        BY <1>5, FS_Subset DEF OpenInv, Checked, Open
      <4>3. /\ IsFiniteSet(Open(n) \cup {r}) /\ IsFiniteSet(Checked(n) \ {p})
            /\ Cardinality(Open(n) \cup {r}) = Cardinality(Open(n)) + 1
            /\ Cardinality(Checked(n) \ {p}) = Cardinality(Checked(n)) - 1
        BY <4>1, <4>2, FS_AddElement, FS_RemoveElement
      <4>4. /\ IsFiniteSet(Open(n)') /\ IsFiniteSet(Checked(n)')
            /\ Cardinality(Open(n)') <= Cardinality(Open(n) \cup {r})
            /\ Cardinality(Checked(n)') <= Cardinality(Checked(n) \ {p})
        <5>1. Open(n)' \subseteq Open(n) \cup {r}
          BY <3>1, <3>3
        <5> QED
          BY <4>1, <4>3, <5>1, FS_Subset
      <4>5. /\ Cardinality(Open(n)) \in Nat /\ Cardinality(Open(n)') \in Nat
            /\ Cardinality(Checked(n)) \in Nat /\ Cardinality(Checked(n)') \in Nat
            /\ Cardinality(Handlers) \in Nat
        BY <4>2, <4>4, FS_CardinalityType
      <4>6. Cardinality(Open(n)) + Cardinality(Checked(n)) <= Cardinality(Handlers)
        BY DEF OpenInv
      <4> QED
        BY <4>3, <4>4, <4>5, <4>6
    <3> QED
      BY <3>2, <3>3
  <2> QED
    BY <2>1, <2>3 DEF OpenInv
<1> QED
  BY <1>4, <1>5 DEF InsertRequest

\* No other step opens a request ...
LEMMA OthersOpenNone ==
    ASSUME IInv, [Next]_vars,
           ~ \E p \in Procs : InsertRequest(p)
    PROVE  NoneOpened
<1>1. TypeOK
  BY DEF IInv
<1>2. CASE UNCHANGED <<nid, status, createdAt, now>>
  BY <1>1, <1>2 DEF NoneOpened, TypeOK
<1>3. CASE UNCHANGED vars
  BY <1>2, <1>3 DEF vars, rowVars
<1>4. CASE Unwritten
  BY <1>2, <1>4 DEF Unwritten, rowVars
<1>5. CASE Tick
  BY <1>1, <1>5 DEF Tick, rowVars, NoneOpened, TypeOK
<1>6. CASE /\ UNCHANGED <<nid, createdAt, now>>
           /\ \A r \in RequestIds : status'[r] = "WAITING" => status[r] = "WAITING"
  BY <1>1, <1>6 DEF NoneOpened, TypeOK
<1>7. CASE PurgeOld
  BY <1>1, <1>6, <1>7 DEF PurgeOld, TypeOK
<1>8. CASE (\E r \in RequestIds : Decide(r)) \/ \E u \in Users : Deactivate(u)
  BY <1>2, <1>8 DEF Decide, Deactivate, rowVars
<1>9. ASSUME NEW p \in Handlers, NEW n \in NationalIds, Start(p, n) \/ WebLogin(p, n)
      PROVE  NoneOpened
  <2>1. CASE WebLogin(p, n)
    BY <1>1, <2>1 DEF WebLogin, NoneOpened, TypeOK
  <2> QED
    BY <1>4, <1>9, <2>1 DEF Start
<1>10. ASSUME NEW p \in Handlers, NEW r \in RequestIds, GetStatus(p, r) \/ HandleCallback(p, r)
       PROVE  NoneOpened
  <2>1. CASE HandleCallback(p, r)
    BY <1>1, <1>6, <2>1 DEF HandleCallback, FinishRow, TypeOK, Decisions
  <2> QED
    BY <1>4, <1>10, <2>1 DEF GetStatus
<1>11. ASSUME NEW p \in Handlers, NEW u \in Users,
              (\E t \in linkTokens : Link(p, u, t)) \/ CompleteProfile(p, u)
       PROVE  NoneOpened
  BY <1>4, <1>11 DEF Link, CompleteProfile
<1>12. ASSUME NEW p \in CronRuns, ExpireStale(p)
       PROVE  NoneOpened
  BY <1>1, <1>6, <1>12 DEF ExpireStale, TypeOK
<1>13. ASSUME NEW p \in Procs, HandlerStep(p), ~InsertRequest(p)
       PROVE  NoneOpened
  <2>1. CASE MarkFailed(p)
    BY <1>1, <1>6, <2>1 DEF MarkFailed, TypeOK
  <2>2. CASE RecordStatus(p)
    <3>1. pc[p] \in {"finish", "expire"} => saw[p] # "WAITING"
      BY DEF IInv, ProcsOK, ProcOK, Decisions
    <3> QED
      BY <1>1, <1>6, <2>2, <3>1 DEF RecordStatus, FinishRow, TypeOK
  <2>3. CASE ExpireUnredeemed(p)
    BY <1>1, <1>6, <2>3 DEF ExpireUnredeemed, TypeOK
  <2>4. CASE \/ StoreTrans(p) \/ SendRequest(p) \/ KeepClaims(p) \/ Redeem(p)
             \/ LoginOrLink(p) \/ LinkUser(p) \/ SaveProfile(p)
    BY <1>2, <2>4 DEF StoreTrans, SendRequest, KeepClaims, Redeem, LoginOrLink, LinkUser,
                      SaveProfile, rowVars
  <2>5. CASE CountRecent(p) \/ PollUpstream(p) \/ Reload(p) \/ LockRow(p) \/ FindOwner(p)
    BY <1>4, <2>5 DEF CountRecent, PollUpstream, Reload, LockRow, FindOwner
  <2> QED
    BY <1>13, <2>1, <2>2, <2>3, <2>4, <2>5 DEF HandlerStep
<1>14. ASSUME NEW p \in Procs, SendFails(p) \/ StoreTransFails(p) \/ Crash(p)
       PROVE  NoneOpened
  BY <1>2, <1>14 DEF SendFails, StoreTransFails, Crash, rowVars
<1> QED
  BY <1>3, <1>5, <1>7, <1>8, <1>9, <1>10, <1>11, <1>12, <1>13, <1>14 DEF Next

\* ... and no step but a start checks for one.
LEMMA OthersCheckNone ==
    ASSUME IInv, [Next]_vars,
           ~ \E p \in Handlers, n \in NationalIds : Start(p, n)
    PROVE  NoneChecked
<1>1. ProcTypes
  BY TypeParts
<1>2. CASE UNCHANGED procVars
  BY <1>2 DEF NoneChecked, procVars
<1>3. ASSUME NEW p \in Procs, Finish(p)
      PROVE  NoneChecked
  BY <1>1, <1>3 DEF ProcTypes, Finish, NoneChecked
<1>4. ASSUME NEW p \in Procs, NEW s, NEW r, NEW w, NEW v, s \notin {"count", "insert"},
             Begin(p, s, r, w, v)
      PROVE  NoneChecked
  BY <1>1, <1>4 DEF ProcTypes, Begin, NoneChecked
<1>5. ASSUME NEW p \in Procs, NEW s, GoTo(p, s),
             s \notin {"count", "insert"} \/ pc[p] \in {"count", "insert"}
      PROVE  NoneChecked
  BY <1>1, <1>5 DEF ProcTypes, GoTo, NoneChecked
<1>6. ASSUME NEW p \in Procs, NEW s, NEW v, GoWith(p, s, v), s \notin {"count", "insert"}
      PROVE  NoneChecked
  BY <1>1, <1>6 DEF ProcTypes, GoWith, NoneChecked
<1>7. CASE UNCHANGED vars
  BY <1>2, <1>7 DEF vars
<1>8. CASE \/ Tick \/ PurgeOld \/ (\E r \in RequestIds : Decide(r))
           \/ \E u \in Users : Deactivate(u)
  BY <1>2, <1>8 DEF Tick, PurgeOld, Decide, Deactivate
<1>9. ASSUME NEW p \in Handlers, NEW n \in NationalIds, WebLogin(p, n)
      PROVE  NoneChecked
  BY <1>4, <1>9 DEF WebLogin, Procs
<1>10. ASSUME NEW p \in Handlers, NEW r \in RequestIds, GetStatus(p, r) \/ HandleCallback(p, r)
       PROVE  NoneChecked
  <2>1. p \in Procs
    BY DEF Procs
  <2>2. CASE GetStatus(p, r)
    <3>1. AfterReading(r, TRUE) \notin {"count", "insert"}
      BY DEF AfterReading
    <3> QED
      BY <1>4, <2>1, <2>2, <3>1 DEF GetStatus
  <2>3. CASE HandleCallback(p, r)
    BY <1>2, <1>4, <2>1, <2>3 DEF HandleCallback
  <2> QED
    BY <1>10, <2>2, <2>3
<1>11. ASSUME NEW p \in Handlers, NEW u \in Users,
              (\E t \in linkTokens : Link(p, u, t)) \/ CompleteProfile(p, u)
       PROVE  NoneChecked
  BY <1>4, <1>11 DEF Link, CompleteProfile, Procs
<1>12. ASSUME NEW p \in CronRuns, ExpireStale(p)
       PROVE  NoneChecked
  BY <1>4, <1>12 DEF ExpireStale, Procs
<1>13. ASSUME NEW p \in Procs, HandlerStep(p)
       PROVE  NoneChecked
  <2>1. CASE CountRecent(p)
    BY <1>3, <1>5, <2>1 DEF CountRecent
  <2>2. CASE InsertRequest(p)
    BY <1>1, <1>3, <2>2 DEF InsertRequest, ProcTypes, NoneChecked
  <2>3. CASE \/ SendRequest(p) \/ Redeem(p) \/ Reload(p) \/ LockRow(p) \/ RecordStatus(p)
    BY <1>3, <1>5, <2>3 DEF SendRequest, Redeem, Reload, LockRow, RecordStatus
  <2>4. CASE PollUpstream(p)
    BY <1>3, <1>6, <2>4 DEF PollUpstream
  <2>5. CASE FindOwner(p)
    BY <1>3, <1>6, <2>5 DEF FindOwner
  <2>6. CASE \/ StoreTrans(p) \/ MarkFailed(p) \/ KeepClaims(p) \/ LoginOrLink(p)
             \/ LinkUser(p) \/ SaveProfile(p) \/ ExpireUnredeemed(p)
    BY <1>3, <2>6 DEF StoreTrans, MarkFailed, KeepClaims, LoginOrLink, LinkUser, SaveProfile,
                      ExpireUnredeemed
  <2> QED
    BY <1>13, <2>1, <2>2, <2>3, <2>4, <2>5, <2>6 DEF HandlerStep
<1>14. ASSUME NEW p \in Procs, SendFails(p) \/ StoreTransFails(p) \/ Crash(p)
       PROVE  NoneChecked
  BY <1>3, <1>5, <1>14 DEF SendFails, StoreTransFails, Crash
<1> QED
  BY <1>7, <1>8, <1>9, <1>10, <1>11, <1>12, <1>13, <1>14 DEF Next

LEMMA OpenNext == ASSUME IsFiniteSet(Handlers) PROVE IInv /\ OpenInv /\ [Next]_vars => OpenInv'
<1> SUFFICES ASSUME IInv, OpenInv, [Next]_vars PROVE OpenInv'
  OBVIOUS
<1>1. CASE \E p \in Procs : InsertRequest(p)
  BY <1>1, InsertKeepsBound
<1>2. CASE \E p \in Handlers, n \in NationalIds : Start(p, n)
  BY <1>2, StartKeepsBound
<1>3. CASE /\ ~ \E p \in Procs : InsertRequest(p)
           /\ ~ \E p \in Handlers, n \in NationalIds : Start(p, n)
  BY <1>3, OthersOpenNone, OthersCheckNone, QuietKeepsBound DEF IInv
<1> QED
  BY <1>1, <1>2, <1>3

LEMMA OpenInit == ASSUME IsFiniteSet(Handlers) PROVE Init => OpenInv
<1> SUFFICES ASSUME Init PROVE OpenInv
  OBVIOUS
<1>1. \A n : Open(n) = {} /\ Checked(n) = {}
  BY DEF Init, Open, Checked, Procs
<1>2. \A n : /\ IsFiniteSet(Open(n)) /\ Cardinality(Open(n)) = 0
             /\ Cardinality(Checked(n)) = 0
  BY <1>1, FS_EmptySet
<1>3. Cardinality(Handlers) \in Nat
  BY FS_CardinalityType
<1> QED
  BY <1>2, <1>3 DEF OpenInv, Init

\* However many starts of a person pass start's check (nafath.service.ts:122)
\* together, a person never has more requests open than handlers run at once.
OpenBounded == \A n \in NationalIds : Cardinality(Open(n)) <= Cardinality(Handlers)

THEOREM OpenRequestsBounded == ASSUME IsFiniteSet(Handlers) PROVE Spec => []OpenBounded
<1>1. OpenInv => OpenBounded
  <2> SUFFICES ASSUME OpenInv, NEW n \in NationalIds
               PROVE  Cardinality(Open(n)) <= Cardinality(Handlers)
    BY DEF OpenBounded
  <2>1. IsFiniteSet(Open(n)) /\ IsFiniteSet(Checked(n))
    BY FS_Subset DEF OpenInv, Checked
  <2> QED
    BY <2>1, FS_CardinalityType DEF OpenInv
<1> QED
  BY <1>1, InitIInv, NextIInv, OpenInit, OpenNext, PTL DEF Spec
=============================================================================
