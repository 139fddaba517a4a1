-------------------------------- MODULE Crm ---------------------------------
(***************************************************************************)
(* A broker's clients, reminders about them, and deals (crm.service.ts).   *)
(* Clients and deals are only marked as removed; a reminder's row is       *)
(* deleted.  Each statement is a transaction of its own, and requests read *)
(* a row before they write to it.                                          *)
(***************************************************************************)
EXTENDS Integers

CONSTANTS
    Brokers,
    ClientIds, ReminderIds, DealIds,
    Requests,       \* concurrent requests
    Times, Window,  \* moments, and how long before a reminder is due it is shown
    NoRow

VARIABLES
    clients, reminders, deals,      \* the rows
    at, what,       \* each request: where it is, what it is about
    crossed         \* reminders deleted while they were being marked as done

vars == <<clients, reminders, deals, at, what, crossed>>

Owned == [broker: Brokers, removed: BOOLEAN]
Reminders == [client: ClientIds, broker: Brokers, reminderAt: Times, done: BOOLEAN]
Steps == {"idle", "firstReminder", "update", "delete", "remind", "done", "drop", "deleteDeal"}

TypeOK ==
    /\ clients \in [ClientIds -> Owned \cup {NoRow}]
    /\ deals \in [DealIds -> Owned \cup {NoRow}]
    /\ reminders \in [ReminderIds -> Reminders \cup {NoRow}]
    /\ at \in [Requests -> Steps]
    /\ crossed \subseteq ReminderIds

Init ==
    /\ clients = [c \in ClientIds |-> NoRow]
    /\ deals = [d \in DealIds |-> NoRow]
    /\ reminders = [r \in ReminderIds |-> NoRow]
    /\ at = [p \in Requests |-> "idle"]
    /\ what = [p \in Requests |-> NoRow]
    /\ crossed = {}

Goto(p, step, w) == at' = [at EXCEPT ![p] = step] /\ what' = [what EXCEPT ![p] = w]
Done(p) == Goto(p, "idle", NoRow)

\* findOne sees no removed row; then its broker must be the caller.
IsOwn(row, b) == row # NoRow /\ ~row.removed /\ row.broker = b

\* getClients: what is counted as upcoming of a client is what is not done,
\* whoever's it is and however long it is overdue or away.
Upcoming(c) == {r \in ReminderIds : reminders[r] # NoRow /\ reminders[r].client = c /\ ~reminders[r].done}

\* getUpcomingReminders, at a moment: what the broker has for the next 48 hours.
Soon(r, now) == reminders[r].reminderAt \in now .. now + Window
UpcomingReminders(b, now) ==
    {r \in ReminderIds : reminders[r] # NoRow /\ reminders[r].broker = b /\ ~reminders[r].done
                          /\ Soon(r, now)}

-----------------------------------------------------------------------------
\* createClient: the client, and then a first reminder or none.
CreateClient(p, b, c) ==
    /\ at[p] = "idle" /\ clients[c] = NoRow
    /\ clients' = [clients EXCEPT ![c] = [broker |-> b, removed |-> FALSE]]
    /\ \/ Goto(p, "firstReminder", <<c, b>>)
       \/ UNCHANGED <<at, what>>
    /\ UNCHANGED <<reminders, deals, crossed>>

\* updateClient, deleteClient and createReminder look for the client ...
FindClient(p, b, c) ==
    /\ at[p] = "idle"
    /\ IsOwn(clients[c], b)
    /\ \E step \in {"update", "delete", "remind"} : Goto(p, step, <<c, b>>)
    /\ UNCHANGED <<clients, reminders, deals, crossed>>

\* Mutant of UpdateClient: the row that was read is saved.
SaveClient(p) ==
    /\ at[p] = "update"
    /\ clients' = [clients EXCEPT ![what[p][1]].removed = FALSE]
    /\ Done(p)
    /\ UNCHANGED <<reminders, deals, crossed>>

\* ... and write to it by its id: what describes it, which is left out here ...
UpdateClient(p) ==
    /\ at[p] = "update"
    /\ Done(p)
    /\ UNCHANGED <<clients, reminders, deals, crossed>>

\* ... or remove it, not its reminders ...
DeleteClient(p) ==
    /\ at[p] = "delete"
    /\ clients' = [clients EXCEPT ![what[p][1]].removed = TRUE]
    /\ Done(p)
    /\ UNCHANGED <<reminders, deals, crossed>>

\* ... or add a reminder, though the client may be removed by now.
CreateReminder(p, r) ==
    /\ at[p] \in {"firstReminder", "remind"} /\ reminders[r] = NoRow
    /\ r \notin {what[q][1] : q \in {x \in Requests : at[x] \in {"done", "drop"}}}    \* a new id
    /\ \E t \in Times : reminders' = [reminders EXCEPT ![r] =
          [client |-> what[p][1], broker |-> what[p][2], reminderAt |-> t, done |-> FALSE]]
    /\ Done(p)
    /\ UNCHANGED <<clients, deals, crossed>>

\* markReminderDone and deleteReminder look for the reminder ...
FindReminder(p, b, r) ==
    /\ at[p] = "idle"
    /\ reminders[r] # NoRow /\ reminders[r].broker = b
    /\ \E step \in {"done", "drop"} : Goto(p, step, <<r, reminders[r]>>)
    /\ UNCHANGED <<clients, reminders, deals, crossed>>

\* ... and save what was read, done: it is inserted if it is gone by now ...
MarkReminderDone(p) ==
    /\ at[p] = "done"
    /\ reminders' = [reminders EXCEPT ![what[p][1]] = [what[p][2] EXCEPT !.done = TRUE]]
    /\ Done(p)
    /\ UNCHANGED <<clients, deals, crossed>>

\* ... or delete it.
DeleteReminder(p) ==
    LET r == what[p][1] IN
    /\ at[p] = "drop"
    /\ reminders' = [reminders EXCEPT ![r] = NoRow]
    /\ crossed' = IF \E q \in Requests : at[q] = "done" /\ what[q][1] = r
                  THEN crossed \cup {r} ELSE crossed
    /\ Done(p)
    /\ UNCHANGED <<clients, deals>>

CreateDeal(b, d) ==
    /\ deals[d] = NoRow
    /\ deals' = [deals EXCEPT ![d] = [broker |-> b, removed |-> FALSE]]
    /\ UNCHANGED <<clients, reminders, at, what, crossed>>

FindDeal(p, b, d) ==
    /\ at[p] = "idle" /\ IsOwn(deals[d], b)
    /\ Goto(p, "deleteDeal", <<d, b>>)
    /\ UNCHANGED <<clients, reminders, deals, crossed>>

DeleteDeal(p) ==
    /\ at[p] = "deleteDeal"
    /\ deals' = [deals EXCEPT ![what[p][1]].removed = TRUE]
    /\ Done(p)
    /\ UNCHANGED <<clients, reminders, crossed>>

\* The server dies.
Crash(p) ==
    /\ at[p] # "idle"
    /\ Done(p)
    /\ UNCHANGED <<clients, reminders, deals, crossed>>

Next ==
    \/ \E p \in Requests, b \in Brokers, c \in ClientIds : CreateClient(p, b, c) \/ FindClient(p, b, c)
    \/ \E p \in Requests, b \in Brokers, r \in ReminderIds : FindReminder(p, b, r)
    \/ \E p \in Requests, r \in ReminderIds : CreateReminder(p, r)
    \/ \E b \in Brokers, d \in DealIds : CreateDeal(b, d) \/ \E p \in Requests : FindDeal(p, b, d)
    \/ \E p \in Requests :
          \/ UpdateClient(p) \/ DeleteClient(p) \/ MarkReminderDone(p) \/ DeleteReminder(p)
          \/ DeleteDeal(p) \/ Crash(p)

Spec == Init /\ [][Next]_vars

-----------------------------------------------------------------------------
\* Of the reminders counted for a client, its broker is at any moment reminded
\* of just those that are due in the next 48 hours, though they are counted
\* without a look at whose they are, and marking one as done may insert it
\* anew (getClients, getUpcomingReminders).
UpcomingAgree ==
    \A c \in ClientIds, now \in Times : clients[c] # NoRow =>
        {r \in Upcoming(c) : Soon(r, now)}
            = {r \in UpcomingReminders(clients[c].broker, now) : reminders[r].client = c}

\* A client that is deleted stays deleted, also while it is being updated;
\* so does its reminder, unless it was being marked as done (deleteClient,
\* deleteReminder).
DeletedStays ==
    [][/\ \A c \in ClientIds : clients[c] # NoRow /\ clients[c].removed => clients'[c].removed
       /\ \A p \in Requests : at[p] = "done" /\ what[p][1] \notin crossed
             => reminders[what[p][1]] # NoRow]_vars
=============================================================================
