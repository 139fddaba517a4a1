----------------------------- MODULE Complaints -----------------------------
(***************************************************************************)
(* The reference numbers of complaints (complaints.service.ts): AQ, the    *)
(* year, and a sequence number padded to Width digits.  The next one is    *)
(* one more than the greatest of the year, which the database finds by     *)
(* comparing them as text.  An advisory lock of the year, held until the   *)
(* transaction ends, makes submissions take turns.                         *)
(*                                                                         *)
(* A sequence number stands for its text.  Full is the first that has more *)
(* than Width digits (10^4); numbers beyond Base * Full, with yet another  *)
(* digit, would be compared like those, but none is ever given out.  What  *)
(* becomes of a complaint (updateStatus) does not touch its number.        *)
(***************************************************************************)
EXTENDS Integers

CONSTANTS
    Submissions,    \* concurrent POSTs of a complaint
    Years,          \* the years of the model, consecutive
    Base,           \* 10
    Full,           \* Base ^ Width
    MaxFailures     \* bound on crashed or rolled back transactions

ASSUME YearsAssumption == Years \subseteq Nat /\ \E y \in Years : \A z \in Years : y <= z
ASSUME WidthAssumption == /\ Base \in Nat \ {0} /\ Full \in Nat \ {0, 1}
                          /\ Full \div Base < Full - 1
ASSUME BoundsAssumption == MaxFailures \in Nat

VARIABLES
    complaints,     \* complaints[y]: the sequence numbers of the rows of year y
    year,           \* the year it is
    pc,             \* each submission: the statement it is at, or its outcome
    my,             \* each submission: the year it read when it began
    latest,         \* each submission: the greatest number it found, 0 if none
    failures

procVars == <<pc, my, latest>>
vars == <<complaints, year, procVars, failures>>

Numbers == 1 .. Full

\* The order of the numbers' texts: as numbers while they are equally long;
\* a longer one is compared by as many of its digits as the other has.
TextLess(m, n) ==
    CASE m < Full /\ n >= Full -> m <= n \div Base
      [] m >= Full /\ n < Full -> m \div Base < n
      [] OTHER -> m < n

\* The first row of ORDER BY number DESC, 0 where there is none.
IsLatest(n, y) ==
    IF complaints[y] = {} THEN n = 0
    ELSE n \in complaints[y] /\ \A m \in complaints[y] : ~TextLess(n, m)

Holding == {"findLatest", "insert"}
Free(y) == \A p \in Submissions : pc[p] \in Holding => my[p] # y

Init ==
    /\ complaints = [y \in Years |-> {}]
    /\ year \in {y \in Years : \A z \in Years : y <= z}
    /\ pc = [p \in Submissions |-> "idle"]
    /\ my = [p \in Submissions |-> year]
    /\ latest = [p \in Submissions |-> 0]
    /\ failures = 0

-----------------------------------------------------------------------------

NewYear ==
    /\ year + 1 \in Years
    /\ year' = year + 1
    /\ UNCHANGED <<complaints, procVars, failures>>

\* A transaction begins, and asks for the lock of what is the year now.
Create(p) ==
    /\ pc[p] \in {"idle", "done", "refused", "failed"}
    /\ pc' = [pc EXCEPT ![p] = "lock"]
    /\ my' = [my EXCEPT ![p] = year]
    /\ UNCHANGED <<complaints, year, latest, failures>>

\* Mutant: submissions do not take turns.
LockNothing(p) ==
    /\ pc[p] = "lock"
    /\ pc' = [pc EXCEPT ![p] = "findLatest"]
    /\ UNCHANGED <<complaints, year, my, latest, failures>>

\* pg_advisory_xact_lock(hashtext(...)).
Lock(p) ==
    /\ pc[p] = "lock"
    /\ Free(my[p])
    /\ pc' = [pc EXCEPT ![p] = "findLatest"]
    /\ UNCHANGED <<complaints, year, my, latest, failures>>

\* A statement of its own, so it sees what the lock's last holder committed.
FindLatest(p) ==
    /\ pc[p] = "findLatest"
    /\ \E n \in Numbers \cup {0} :
          /\ IsLatest(n, my[p])
          /\ latest' = [latest EXCEPT ![p] = n]
    /\ pc' = [pc EXCEPT ![p] = "insert"]
    /\ UNCHANGED <<complaints, year, my, failures>>

\* Mutant: a transaction that cannot commit keeps its lock.
InsertOrHang(p) ==
    LET n == latest[p] + 1 IN
    /\ pc[p] = "insert"
    /\ n \notin complaints[my[p]]
    /\ complaints' = [complaints EXCEPT ![my[p]] = @ \cup {n}]
    /\ pc' = [pc EXCEPT ![p] = "done"]
    /\ latest' = [latest EXCEPT ![p] = 0]
    /\ UNCHANGED <<year, my, failures>>

\* Mutant: the year is taken from the clock again to name the row.
InsertThisYear(p) ==
    LET n == latest[p] + 1 IN
    /\ pc[p] = "insert"
    /\ IF n \in complaints[year]
       THEN pc' = [pc EXCEPT ![p] = "refused"] /\ UNCHANGED complaints
       ELSE /\ pc' = [pc EXCEPT ![p] = "done"]
            /\ complaints' = [complaints EXCEPT ![year] = @ \cup {n}]
    /\ latest' = [latest EXCEPT ![p] = 0]
    /\ UNCHANGED <<year, my, failures>>

\* The row is inserted and committed, unless the unique index on number has
\* it already; either way the lock is released.
Insert(p) ==
    LET n == latest[p] + 1 IN
    /\ pc[p] = "insert"
    /\ IF n \in complaints[my[p]]
       THEN pc' = [pc EXCEPT ![p] = "refused"] /\ UNCHANGED complaints
       ELSE /\ pc' = [pc EXCEPT ![p] = "done"]
            /\ complaints' = [complaints EXCEPT ![my[p]] = @ \cup {n}]
    /\ latest' = [latest EXCEPT ![p] = 0]
    /\ UNCHANGED <<year, my, failures>>

\* A lost connection, a dead server: the transaction is rolled back.
Fail(p) ==
    /\ pc[p] \in {"lock"} \cup Holding
    /\ failures < MaxFailures
    /\ failures' = failures + 1
    /\ pc' = [pc EXCEPT ![p] = "failed"]
    /\ latest' = [latest EXCEPT ![p] = 0]
    /\ UNCHANGED <<complaints, year, my>>

-----------------------------------------------------------------------------

Next ==
    \/ NewYear
    \/ \E p \in Submissions :
          Create(p) \/ Lock(p) \/ FindLatest(p) \/ Insert(p) \/ Fail(p)

Spec == Init /\ [][Next]_vars

\* PostgreSQL grants an advisory lock in the order it was asked for.
Fairness == \A p \in Submissions : SF_vars(Lock(p)) /\ WF_vars(FindLatest(p) \/ Insert(p))

FairSpec == Spec /\ Fairness

-----------------------------------------------------------------------------
(* Properties.                                                             *)

TypeOK ==
    /\ complaints \in [Years -> SUBSET Numbers]
    /\ year \in Years
    /\ pc \in [Submissions -> {"idle", "lock", "done", "refused", "failed"} \cup Holding]
    /\ my \in [Submissions -> Years]
    /\ latest \in [Submissions -> Numbers \cup {0}]
    /\ failures \in Nat

\* A year's numbers have no gap and no end but Full, in spite of failed
\* submissions and of those that straddle the new year.
NumbersConsecutive ==
    \A y \in Years : \A n \in complaints[y] : \A m \in 1 .. n : m \in complaints[y]

\* "simultaneous submissions cannot receive the same reference number"
\* (create), and so none is refused for a number another one took, until the
\* year's numbers outgrow their Width digits: from then on the greatest text
\* is no longer the greatest number, and every submission of the year fails.
RefusedOnlyWhenFull ==
    [][\A p \in Submissions :
          pc[p] # "refused" /\ pc'[p] = "refused" => Full \in complaints[my[p]]]_vars

\* Every submission ends, also behind others, and behind one that fails.
SubmissionsEnd ==
    \A p \in Submissions :
        pc[p] = "lock" ~> pc[p] \in {"done", "refused", "failed"}
=============================================================================
