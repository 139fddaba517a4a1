------------------------------ MODULE Projects ------------------------------
(***************************************************************************)
(* A developer's project, its units, and the index projects are found in   *)
(* (projects.service.ts, projects-algolia.service.ts).  Every statement is *)
(* a transaction of its own; calls to the index are not awaited, arrive in *)
(* any order, and may fail.  What only describes a project is left out.    *)
(***************************************************************************)
EXTENDS Naturals, FiniteSets

CONSTANTS
    Requests,       \* concurrent requests
    MaxUnits,       \* bound on the units
    MaxCalls,       \* bound on the index calls under way
    Gone            \* no object in the index

VARIABLES
    status,         \* the projects row: whether it is there, and isActive
    totalUnits,     \* its column
    units,          \* project_units rows
    index,          \* totalUnits of the object in the index, or Gone
    calls,          \* index calls under way
    at, count,      \* each request: where it is, what it has counted
    disturbed       \* whether requests met or an index call failed

vars == <<status, totalUnits, units, index, calls, at, count, disturbed>>

Calls == {"index", "update"} \X (0..MaxUnits) \cup {<<"delete", 0>>}

TypeOK ==
    /\ status \in {"none", "active", "inactive", "removed"}
    /\ {totalUnits, units} \subseteq 0..MaxUnits
    /\ index \in 0..MaxUnits \cup {Gone}
    /\ calls \subseteq Calls
    /\ at \in [Requests -> {"idle", "update", "addUnit", "count", "store"}]
    /\ count \in [Requests -> 0..MaxUnits]
    /\ disturbed \in BOOLEAN

Init ==
    /\ status = "none" /\ totalUnits = 0 /\ units = 0
    /\ index = Gone /\ calls = {}
    /\ at = [p \in Requests |-> "idle"]
    /\ count = [p \in Requests |-> 0]
    /\ disturbed = FALSE

Exists == status \in {"active", "inactive"}
Quiet == calls = {} /\ \A p \in Requests : at[p] = "idle"

Begin(p, step) ==
    /\ at[p] = "idle"
    /\ at' = [at EXCEPT ![p] = step]
    /\ disturbed' = (disturbed \/ ~Quiet)

Continue(p, step) == at' = [at EXCEPT ![p] = step] /\ UNCHANGED disturbed

Send(call) == Cardinality(calls) < MaxCalls /\ calls' = calls \cup {call}

-----------------------------------------------------------------------------
Create(p) ==
    /\ status = "none" /\ at[p] = "idle" /\ Send(<<"index", 0>>)
    /\ status' = "active"
    /\ UNCHANGED <<totalUnits, units, index, at, count, disturbed>>

\* update, updateStatus, remove and addUnit look for the developer's project ...
Find(p) ==
    /\ Exists
    /\ \/ Begin(p, "update") \/ Begin(p, "addUnit")
    /\ UNCHANGED <<status, totalUnits, units, index, calls, count>>

\* Mutant of UpdateStatus: the object is only updated, not made again.
UpdateStatusPartly(p, active) ==
    /\ at[p] = "update"
    /\ status' = IF status = "removed" THEN status ELSE IF active THEN "active" ELSE "inactive"
    /\ IF status = "removed" THEN UNCHANGED calls
       ELSE Send(IF active THEN <<"update", totalUnits>> ELSE <<"delete", 0>>)
    /\ Continue(p, "idle")
    /\ UNCHANGED <<totalUnits, units, index, count>>

\* ... and write to the row they found by its id: isActive ...
UpdateStatus(p, active) ==
    /\ at[p] = "update"
    /\ status' = IF status = "removed" THEN status ELSE IF active THEN "active" ELSE "inactive"
    /\ IF status = "removed" THEN UNCHANGED calls
       ELSE Send(IF active THEN <<"index", totalUnits>> ELSE <<"delete", 0>>)
    /\ Continue(p, "idle")
    /\ UNCHANGED <<totalUnits, units, index, count>>

\* ... or its description (it then is indexed, active or not) ...
Update(p) ==
    /\ at[p] = "update"
    /\ IF status = "removed" THEN UNCHANGED calls ELSE Send(<<"index", totalUnits>>)
    /\ Continue(p, "idle")
    /\ UNCHANGED <<status, totalUnits, units, index, count>>

\* ... or remove it (softDelete).
Remove(p) ==
    /\ at[p] = "update"
    /\ status' = "removed"
    /\ Send(<<"delete", 0>>)
    /\ Continue(p, "idle")
    /\ UNCHANGED <<totalUnits, units, index, count>>

\* addUnit: the unit is inserted, the units are counted ...
AddUnit(p) ==
    /\ at[p] = "addUnit" /\ units < MaxUnits
    /\ units' = units + 1
    /\ Continue(p, "count")
    /\ UNCHANGED <<status, totalUnits, index, calls, count>>

CountUnits(p) ==
    /\ at[p] = "count"
    /\ count' = [count EXCEPT ![p] = units]
    /\ Continue(p, "store")
    /\ UNCHANGED <<status, totalUnits, units, index, calls>>

\* Mutant of StoreTotal: the count is added to the column.
AddTotal(p) ==
    /\ at[p] = "store"
    /\ totalUnits' = totalUnits + count[p]
    /\ Send(<<"update", count[p]>>)
    /\ count' = [count EXCEPT ![p] = 0]
    /\ Continue(p, "idle")
    /\ UNCHANGED <<status, units, index>>

\* ... and the count is written to the project and to its object, if any.
StoreTotal(p) ==
    /\ at[p] = "store"
    /\ totalUnits' = count[p]
    /\ Send(<<"update", count[p]>>)
    /\ count' = [count EXCEPT ![p] = 0]
    /\ Continue(p, "idle")
    /\ UNCHANGED <<status, units, index>>

\* Algolia takes a call (createIfNotExists is FALSE) ...
Deliver ==
    \E c \in calls :
        /\ calls' = calls \ {c}
        /\ index' = IF c[1] = "delete" \/ (c[1] = "update" /\ index = Gone) THEN Gone ELSE c[2]
        /\ UNCHANGED <<status, totalUnits, units, at, count, disturbed>>

\* ... or not.
Lose ==
    \E c \in calls :
        /\ calls' = calls \ {c} /\ disturbed' = TRUE
        /\ UNCHANGED <<status, totalUnits, units, index, at, count>>

\* The server dies.
Crash(p) ==
    /\ at[p] # "idle"
    /\ at' = [at EXCEPT ![p] = "idle"] /\ count' = [count EXCEPT ![p] = 0]
    /\ disturbed' = TRUE
    /\ UNCHANGED <<status, totalUnits, units, index, calls>>

Next ==
    \/ \E p \in Requests :
          \/ Create(p) \/ Find(p) \/ Update(p) \/ Remove(p)
          \/ \E active \in BOOLEAN : UpdateStatus(p, active)
          \/ AddUnit(p) \/ CountUnits(p) \/ StoreTotal(p) \/ Crash(p)
    \/ Deliver \/ Lose

Spec == Init /\ [][Next]_vars

-----------------------------------------------------------------------------
\* No project, and no object of one, is said to have more units than it has,
\* in whatever order units are added, counted and written (addUnit).
TotalsNeverAbove == totalUnits <= units /\ (index # Gone => index <= units)

\* A removed project stays removed, though its developer updates it at the
\* same time (update and updateStatus write by id).
RemovedStays == [][status = "removed" => status' = "removed"]_vars

\* As long as requests take turns and calls arrive, an active project can be
\* found, with all its units, and a removed one cannot.
IndexFollows ==
    ~disturbed /\ Quiet =>
        /\ status = "active" => index = units /\ totalUnits = units
        /\ status = "removed" => index = Gone

\* What is said of a project follows its units and its status.
ProjectShows == TotalsNeverAbove /\ IndexFollows
=============================================================================
