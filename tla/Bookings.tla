------------------------------ MODULE Bookings ------------------------------
(***************************************************************************)
(* Daily-rental bookings, the wallet hold taken when a host confirms one,  *)
(* and the cron job that pays the host after the stay                      *)
(* (bookings.service.ts, wallet.service.ts).                               *)
(*                                                                         *)
(* The variables other than procVars and crashes are the committed         *)
(* rows of the database.  Every request and every cron release is a        *)
(* process that runs one READ COMMITTED transaction statement by           *)
(* statement: it waits for row locks (SELECT ... FOR UPDATE, or the lock   *)
(* an UPDATE needs), reads what is committed at that moment, and publishes *)
(* all its writes in the step that commits.  Locks go at commit or         *)
(* rollback.  Statements of one transaction between which no other         *)
(* transaction can change or see anything they touch are one step.         *)
(***************************************************************************)
EXTENDS Integers, FiniteSetsExt

CONSTANTS
    Users,          \* people with an account: guests and hosts
    Listings,       \* daily-rental listings (rent_short, not event halls)
    BookingIds,     \* identities of bookings
    Requests,       \* concurrent API requests
    CronRuns,       \* concurrent releases, of one or of overlapping cron passes
    Owner,          \* Owner[l]: the user who owns listing l
    Price,          \* Price[l]: price of a night; 0 also stands for an unusable one
    LastDay,        \* stays lie in the days 1 .. LastDay
    HoldDays,       \* days between checkout and payout (7 in the code)
    LastToday,      \* bound on the clock
    Amounts,        \* sums a user tops up or spends elsewhere
    MaxFunds,       \* bound on what a user has put in, net of what was spent
    MaxCrashes,     \* bound on lost connections and crashes
    NoBooking, NoStay

Procs == Requests \cup CronRuns
Days == 1 .. LastDay
Stays == [listing: Listings, guest: Users, checkIn: Days, checkOut: Days, total: Nat]

ASSUME ProcsAssumption == Requests \cap CronRuns = {}
ASSUME ListingsAssumption == Owner \in [Listings -> Users] /\ Price \in [Listings -> Nat]
ASSUME BoundsAssumption == /\ {LastDay, HoldDays, LastToday, MaxFunds, MaxCrashes} \subseteq Nat
                           /\ Amounts \subseteq Nat \ {0}
ASSUME NullAssumption == NoBooking \notin BookingIds /\ NoStay \notin Stays

VARIABLES
    status,         \* bookings.status, "none" before the row exists
    stay,           \* the rest of the bookings row, set once
    listing,        \* what the listings row says of being booked
    availability,   \* rows of listing_availability
    wallets,        \* users who have a wallets row
    balance,        \* wallets.balance
    hold,           \* booking_holds.status, "none" before the row exists
    debits,         \* DEBIT rows of transactions, by the booking they refer to
    credits,        \* CREDIT rows of transactions, by the booking they refer to
    funded,         \* top-ups less spending of each user, by their transactions rows
    today,          \* the clock, in days
    pc, job,        \* each process: the statement it is at, the booking it is about
    held,           \* each process: the rows its open transaction has locked
    seen,           \* each process: the wallet balance it read, to compute a new one from
    crashes         \* crashes so far

bookingVars == <<status, stay, listing, availability>>
moneyVars == <<wallets, balance, hold, debits, credits, funded>>
procVars == <<pc, job, held, seen>>
vars == <<bookingVars, moneyVars, procVars, today, crashes>>

Statuses == {"none", "pending", "confirmed", "cancelled", "completed"}
HoldStatuses == {"none", "held", "released", "refunded", "disputed"}
Steps == {"idle", "lockBooking", "checkDates", "lockGuest", "lockHost", "insertHost",
          "writeConfirm", "saveCancelled", "lockHold", "lockStay", "lockPayee",
          "writeRelease"}

BookingRow(b) == <<"booking", b>>
HoldRow(b) == <<"hold", b>>
WalletRow(u) == <<"wallet", u>>
Rows == ({"booking", "hold"} \X BookingIds) \cup ({"wallet"} \X Users)

Guest(b) == stay[b].guest
Host(b) == Owner[stay[b].listing]
Total(b) == stay[b].total

\* The nights from check-in up to but not including checkout.
GetDatesBetween(first, last) == first .. (last - 1)
Nights(b) == GetDatesBetween(stay[b].checkIn, stay[b].checkOut)

\* The rows buildAvailabilityRecords makes for a daily rental.
AvailabilityRecords(b) ==
    {[listing |-> stay[b].listing, date |-> d, booking |-> b] : d \in Nights(b)}

\* Mutant: only the first night is looked up.
FirstNightBlocked(l, nights) ==
    \E r \in availability : r.listing = l /\ r.date = Min(nights)

\* Some of these nights of listing l have a row in listing_availability.
Blocked(l, nights) == \E r \in availability : r.listing = l /\ r.date \in nights

\* Mutant: the waiting time runs from check-in.
DueFromCheckIn(b) == stay[b].checkIn + HoldDays <= today

\* releaseAt <= now, with releaseAt computed as calculateReleaseAt does.
Due(b) == stay[b].checkOut + HoldDays <= today

\* No open transaction has row r locked.
Free(r) == \A p \in Procs : r \notin held[p]

Init ==
    /\ status = [b \in BookingIds |-> "none"]
    /\ stay = [b \in BookingIds |-> NoStay]
    /\ listing = [l \in Listings |-> "published"]
    /\ availability = {}
    /\ wallets = {}
    /\ balance = [u \in Users |-> 0]
    /\ hold = [b \in BookingIds |-> "none"]
    /\ debits = [b \in BookingIds |-> 0]
    /\ credits = [b \in BookingIds |-> 0]
    /\ funded = [u \in Users |-> 0]
    /\ today = 0
    /\ pc = [p \in Procs |-> "idle"]
    /\ job = [p \in Procs |-> NoBooking]
    /\ held = [p \in Procs |-> {}]
    /\ seen = [p \in Procs |-> 0]
    /\ crashes = 0

-----------------------------------------------------------------------------
(* Moves of a process.                                                     *)

\* p's transaction, or its request, begins at statement s for booking b.
Begin(p, s, b) ==
    /\ pc[p] = "idle"
    /\ pc' = [pc EXCEPT ![p] = s]
    /\ job' = [job EXCEPT ![p] = b]
    /\ UNCHANGED <<held, seen>>

\* p goes on to statement s, having locked the given rows; v is the balance
\* it has in memory.
Advance(p, s, rows, v) ==
    /\ pc' = [pc EXCEPT ![p] = s]
    /\ held' = [held EXCEPT ![p] = @ \cup rows]
    /\ seen' = [seen EXCEPT ![p] = v]
    /\ UNCHANGED job

\* p's transaction ends, by commit or rollback, and its locks go.
Finish(p) ==
    /\ pc' = [pc EXCEPT ![p] = "idle"]
    /\ job' = [job EXCEPT ![p] = NoBooking]
    /\ held' = [held EXCEPT ![p] = {}]
    /\ seen' = [seen EXCEPT ![p] = 0]

Unwritten == UNCHANGED <<bookingVars, moneyVars, today, crashes>>

-----------------------------------------------------------------------------
(* The listing, the clock and the wallets.                                 *)

\* The owner takes a listing down ("unlisted"), or deletes it or stops
\* renting it by the day ("unbookable"), or puts it back.
ListingChanges(l) ==
    /\ \E s \in {"published", "unlisted", "unbookable"} \ {listing[l]} :
          listing' = [listing EXCEPT ![l] = s]
    /\ UNCHANGED <<status, stay, availability, moneyVars, procVars, today, crashes>>

Tick ==
    /\ today < LastToday
    /\ today' = today + 1
    /\ UNCHANGED <<bookingVars, moneyVars, procVars, crashes>>

\* A wallet comes into being the first time anyone looks at it.  An insert
\* waits for another transaction's uncommitted insert of the same userId.
GetOrCreateWallet(u) ==
    /\ u \notin wallets
    /\ Free(WalletRow(u))
    /\ wallets' = wallets \cup {u}
    /\ UNCHANGED <<bookingVars, balance, hold, debits, credits, funded, procVars, today, crashes>>

\* Mutant: the balance is read and written without the row lock.
DeductUnlocked(u, amount) ==
    /\ u \in wallets
    /\ balance[u] >= amount
    /\ balance' = [balance EXCEPT ![u] = @ - amount]
    /\ funded' = [funded EXCEPT ![u] = @ - amount]
    /\ UNCHANGED <<bookingVars, wallets, hold, debits, credits, procVars, today, crashes>>

\* topUp is one transaction over one row: locked, credited, committed.
TopUp(u, amount) ==
    /\ Free(WalletRow(u))
    /\ funded[u] + amount <= MaxFunds
    /\ wallets' = wallets \cup {u}
    /\ balance' = [balance EXCEPT ![u] = @ + amount]
    /\ funded' = [funded EXCEPT ![u] = @ + amount]
    /\ UNCHANGED <<bookingVars, hold, debits, credits, procVars, today, crashes>>

\* deduct pays for a promotion out of the wallet, unless the balance is short.
Deduct(u, amount) ==
    /\ Free(WalletRow(u))
    /\ u \in wallets
    /\ balance[u] >= amount
    /\ balance' = [balance EXCEPT ![u] = @ - amount]
    /\ funded' = [funded EXCEPT ![u] = @ - amount]
    /\ UNCHANGED <<bookingVars, wallets, hold, debits, credits, procVars, today, crashes>>

-----------------------------------------------------------------------------
(* Requests of guests and hosts.                                           *)

\* The availability check and the insert are two statements of no common
\* transaction; a pending row blocks nothing, so what happens between them
\* only makes a request that is refused later, at confirmation.
CreateBooking(b, l, guest, first, last) ==
    /\ status[b] = "none"
    /\ listing[l] = "published"
    /\ Owner[l] # guest
    /\ first < last
    /\ ~Blocked(l, GetDatesBetween(first, last))
    /\ status' = [status EXCEPT ![b] = "pending"]
    /\ stay' = [stay EXCEPT ![b] = [listing |-> l, guest |-> guest,
                                   checkIn |-> first, checkOut |-> last,
                                   total |-> Price[l] * (last - first)]]
    /\ UNCHANGED <<listing, availability, moneyVars, procVars, today, crashes>>

\* The host asks to confirm booking b: the transaction queues for its row.
ConfirmBooking(p, b) ==
    /\ status[b] # "none"
    /\ Begin(p, "lockBooking", b)
    /\ Unwritten

\* Mutant: the host's wallet is locked up front, with the booking's row.
LockBookingAndHost(p) ==
    LET b == job[p]
        rows == {BookingRow(b), WalletRow(Host(b))}
    IN
    /\ pc[p] = "lockBooking"
    /\ \A r \in rows : Free(r)
    /\ IF status[b] = "pending" THEN Advance(p, "checkDates", rows, seen[p]) ELSE Finish(p)
    /\ Unwritten

\* The row is locked, and only then is its status read.
LockBooking(p) ==
    LET b == job[p] IN
    /\ pc[p] = "lockBooking"
    /\ Free(BookingRow(b))
    /\ IF status[b] = "pending"
       THEN Advance(p, "checkDates", {BookingRow(b)}, seen[p])
       ELSE Finish(p)
    /\ Unwritten

\* Mutant: a refusal leaves the transaction open.
EnsureAvailableNoRollback(p) ==
    LET b == job[p]
        bookable == /\ listing[stay[b].listing] # "unbookable"
                    /\ ~Blocked(stay[b].listing, Nights(b))
                    /\ Total(b) > 0
    IN
    /\ pc[p] = "checkDates"
    /\ bookable
    /\ Advance(p, "lockGuest", {}, seen[p])
    /\ Unwritten

\* The listing, the nights and the amount are checked with plain reads.
EnsureAvailableForConfirmation(p) ==
    LET b == job[p]
        bookable == /\ listing[stay[b].listing] # "unbookable"
                    /\ ~Blocked(stay[b].listing, Nights(b))
                    /\ Total(b) > 0
    IN
    /\ pc[p] = "checkDates"
    /\ IF bookable THEN Advance(p, "lockGuest", {}, seen[p]) ELSE Finish(p)
    /\ Unwritten

\* Mutant: the guest's balance is read without FOR UPDATE.
ReadGuestWallet(p) ==
    LET b == job[p] IN
    /\ pc[p] = "lockGuest"
    /\ IF Guest(b) \in wallets /\ balance[Guest(b)] >= Total(b)
       THEN Advance(p, "lockHost", {}, balance[Guest(b)])
       ELSE Finish(p)
    /\ Unwritten

\* The balance that decides, and that the debit is computed from, is read
\* with the row locked.
LockGuestWallet(p) ==
    LET b == job[p] IN
    /\ pc[p] = "lockGuest"
    /\ Guest(b) \in wallets => Free(WalletRow(Guest(b)))
    /\ IF Guest(b) \in wallets /\ balance[Guest(b)] >= Total(b)
       THEN Advance(p, "lockHost", {WalletRow(Guest(b))}, balance[Guest(b)])
       ELSE Finish(p)
    /\ Unwritten

LockHostWallet(p) ==
    LET b == job[p] IN
    /\ pc[p] = "lockHost"
    /\ IF Host(b) \in wallets
       THEN /\ Free(WalletRow(Host(b)))
            /\ Advance(p, "writeConfirm", {WalletRow(Host(b))}, seen[p])
       ELSE Advance(p, "insertHost", {}, seen[p])
    /\ Unwritten

\* No wallet was found: one is inserted, and the unique index on userId
\* makes the insert wait for, or fail after, somebody else's.
InsertHostWallet(p) ==
    LET b == job[p] IN
    /\ pc[p] = "insertHost"
    /\ IF Host(b) \in wallets
       THEN Finish(p)
       ELSE /\ Free(WalletRow(Host(b)))
            /\ Advance(p, "writeConfirm", {WalletRow(Host(b))}, seen[p])
    /\ Unwritten

\* The row InsertHostWallet made, if it had to, is there from the commit on.
CreateHostWallet(b) == wallets' = wallets \cup {Host(b)}

\* Debit, hold, availability rows and status are written and committed
\* together; a night that meanwhile got a row breaks the unique index.
CommitConfirmation(p) ==
    LET b == job[p] IN
    /\ pc[p] = "writeConfirm"
    /\ IF Blocked(stay[b].listing, Nights(b))
       THEN UNCHANGED <<bookingVars, moneyVars>>
       ELSE /\ CreateHostWallet(b)
            /\ balance' = [balance EXCEPT ![Guest(b)] = seen[p] - Total(b)]
            /\ debits' = [debits EXCEPT ![b] = @ + 1]
            /\ hold' = [hold EXCEPT ![b] = "held"]
            /\ availability' = availability \cup AvailabilityRecords(b)
            /\ status' = [status EXCEPT ![b] = "confirmed"]
            /\ UNCHANGED <<stay, listing, credits, funded>>
    /\ Finish(p)
    /\ UNCHANGED <<today, crashes>>

\* The host declines: a plain read of a pending row ...
DeclineBooking(p, b) ==
    /\ status[b] = "pending"
    /\ Begin(p, "saveCancelled", b)
    /\ Unwritten

\* ... and so does the guest who cancels.
CancelBooking(p, b) ==
    /\ status[b] = "pending"
    /\ Begin(p, "saveCancelled", b)
    /\ Unwritten

\* Mutant: a status outside the column's documented values.
SaveDeclined(p) ==
    /\ pc[p] = "saveCancelled"
    /\ Free(BookingRow(job[p]))
    /\ status' = [status EXCEPT ![job[p]] = "declined"]
    /\ Finish(p)
    /\ UNCHANGED <<stay, listing, availability, moneyVars, today, crashes>>

\* ... and then an UPDATE by id, which waits for the row's lock and looks
\* at nothing.
SaveCancelled(p) ==
    /\ pc[p] = "saveCancelled"
    /\ Free(BookingRow(job[p]))
    /\ status' = [status EXCEPT ![job[p]] = "cancelled"]
    /\ Finish(p)
    /\ UNCHANGED <<stay, listing, availability, moneyVars, today, crashes>>

-----------------------------------------------------------------------------
(* The cron job: every minute, each hold that is due in a transaction of   *)
(* its own.  A pass reads the due holds without a lock, so two passes, or  *)
(* two servers, may both set out to release one.                           *)

\* Mutant: the query joins the listing, and misses those that were deleted.
ReleaseHoldsOfLiveListings(p, b) ==
    /\ hold[b] = "held"
    /\ Due(b)
    /\ listing[stay[b].listing] # "unbookable"
    /\ Begin(p, "lockHold", b)
    /\ Unwritten

ReleaseDueBookingHolds(p, b) ==
    /\ hold[b] = "held"
    /\ Due(b)
    /\ Begin(p, "lockHold", b)
    /\ Unwritten

\* Mutant: the hold's status is not read again under the lock.
LockHoldUnchecked(p) ==
    LET b == job[p] IN
    /\ pc[p] = "lockHold"
    /\ Free(HoldRow(b))
    /\ Advance(p, "lockStay", {HoldRow(b)}, seen[p])
    /\ Unwritten

LockHold(p) ==
    LET b == job[p] IN
    /\ pc[p] = "lockHold"
    /\ Free(HoldRow(b))
    /\ IF hold[b] = "held"
       THEN Advance(p, "lockStay", {HoldRow(b)}, seen[p])
       ELSE Finish(p)
    /\ Unwritten

LockBookingOfHold(p) ==
    /\ pc[p] = "lockStay"
    /\ Free(BookingRow(job[p]))
    /\ Advance(p, "lockPayee", {BookingRow(job[p])}, seen[p])
    /\ Unwritten

\* A host without a wallet row would make the hold disputed.
LockPayeeWallet(p) ==
    LET b == job[p] IN
    /\ pc[p] = "lockPayee"
    /\ IF Host(b) \in wallets
       THEN /\ Free(WalletRow(Host(b)))
            /\ Advance(p, "writeRelease", {WalletRow(Host(b))}, balance[Host(b)])
            /\ UNCHANGED moneyVars
       ELSE /\ hold' = [hold EXCEPT ![b] = "disputed"]
            /\ Finish(p)
            /\ UNCHANGED <<wallets, balance, debits, credits, funded>>
    /\ UNCHANGED <<bookingVars, today, crashes>>

\* Mutant: the booking is not marked completed.
CommitReleaseOnly(p) ==
    LET b == job[p] IN
    /\ pc[p] = "writeRelease"
    /\ balance' = [balance EXCEPT ![Host(b)] = seen[p] + Total(b)]
    /\ credits' = [credits EXCEPT ![b] = @ + 1]
    /\ hold' = [hold EXCEPT ![b] = "released"]
    /\ Finish(p)
    /\ UNCHANGED <<bookingVars, wallets, debits, funded, today, crashes>>

\* The payout, its transaction row, the hold and the status commit together.
CommitRelease(p) ==
    LET b == job[p] IN
    /\ pc[p] = "writeRelease"
    /\ balance' = [balance EXCEPT ![Host(b)] = seen[p] + Total(b)]
    /\ credits' = [credits EXCEPT ![b] = @ + 1]
    /\ hold' = [hold EXCEPT ![b] = "released"]
    /\ status' = [status EXCEPT ![b] = "completed"]
    /\ Finish(p)
    /\ UNCHANGED <<stay, listing, availability, wallets, debits, funded, today, crashes>>

-----------------------------------------------------------------------------
(* Failures.                                                               *)

\* A lost connection or a server crash: the database rolls back.
Crash(p) ==
    /\ pc[p] # "idle"
    /\ crashes < MaxCrashes
    /\ crashes' = crashes + 1
    /\ Finish(p)
    /\ UNCHANGED <<bookingVars, moneyVars, today>>

\* The row p's next statement waits for, if it is one that waits.
Wanted(p) ==
    LET b == job[p] IN
    CASE pc[p] \in {"lockBooking", "saveCancelled", "lockStay"} -> {BookingRow(b)}
      [] pc[p] = "lockHold" -> {HoldRow(b)}
      [] pc[p] = "lockGuest" -> {WalletRow(u) : u \in {Guest(b)} \cap wallets}
      [] pc[p] \in {"lockHost", "lockPayee"} -> {WalletRow(u) : u \in {Host(b)} \cap wallets}
      [] pc[p] = "insertHost" -> {WalletRow(u) : u \in {Host(b)} \ wallets}
      [] OTHER -> {}

BlockedOn(p, q) == Wanted(p) \cap held[q] # {}

\* p is on a cycle of transactions each waiting for the next.  A transaction
\* waits for one row and a row has one holder, so a set each of whose members
\* waits for one and is waited for by one is a union of cycles.
Deadlocked(p) ==
    \E S \in SUBSET Procs :
        /\ p \in S
        /\ \A q \in S : /\ \E r \in S : BlockedOn(q, r)
                        /\ \E r \in S : BlockedOn(r, q)

\* PostgreSQL breaks a deadlock by rolling one of its transactions back.
AbortDeadlocked(p) ==
    /\ Deadlocked(p)
    /\ Finish(p)
    /\ Unwritten

-----------------------------------------------------------------------------

\* A step of the transaction p has open.
TransactionStep(p) ==
    \/ LockBooking(p)
    \/ EnsureAvailableForConfirmation(p)
    \/ LockGuestWallet(p)
    \/ LockHostWallet(p)
    \/ InsertHostWallet(p)
    \/ CommitConfirmation(p)
    \/ SaveCancelled(p)
    \/ LockHold(p)
    \/ LockBookingOfHold(p)
    \/ LockPayeeWallet(p)
    \/ CommitRelease(p)

Next ==
    \/ Tick
    \/ \E l \in Listings : ListingChanges(l)
    \/ \E u \in Users : GetOrCreateWallet(u)
    \/ \E u \in Users, a \in Amounts : TopUp(u, a) \/ Deduct(u, a)
    \/ \E b \in BookingIds, l \in Listings, u \in Users, first \in Days, last \in Days :
          CreateBooking(b, l, u, first, last)
    \/ \E p \in Requests, b \in BookingIds :
          ConfirmBooking(p, b) \/ DeclineBooking(p, b) \/ CancelBooking(p, b)
    \/ \E p \in CronRuns, b \in BookingIds : ReleaseDueBookingHolds(p, b)
    \/ \E p \in Procs : TransactionStep(p) \/ Crash(p) \/ AbortDeadlocked(p)

Spec == Init /\ [][Next]_vars

\* Postgres queues the waiters of a lock in order, so a step that is enabled
\* again and again is taken (strong fairness); its deadlock detector and the
\* cron timer keep running (weak fairness).  Users owe nothing.
Fairness ==
    /\ \A p \in Procs : SF_vars(TransactionStep(p))
    /\ \A p \in Procs : WF_vars(AbortDeadlocked(p))
    /\ \A b \in BookingIds : WF_vars(\E p \in CronRuns : ReleaseDueBookingHolds(p, b))

FairSpec == Spec /\ Fairness

-----------------------------------------------------------------------------
(* Properties.                                                             *)

TypeOK ==
    /\ status \in [BookingIds -> Statuses]
    /\ stay \in [BookingIds -> Stays \cup {NoStay}]
    /\ listing \in [Listings -> {"published", "unlisted", "unbookable"}]
    /\ availability \subseteq [listing: Listings, date: Days, booking: BookingIds]
    /\ wallets \subseteq Users
    /\ balance \in [Users -> Int]
    /\ hold \in [BookingIds -> HoldStatuses]
    /\ debits \in [BookingIds -> Nat] /\ credits \in [BookingIds -> Nat]
    /\ funded \in [Users -> Int]
    /\ today \in Nat
    /\ pc \in [Procs -> Steps]
    /\ job \in [Procs -> BookingIds \cup {NoBooking}]
    /\ held \in [Procs -> SUBSET Rows]
    /\ seen \in [Procs -> Int]
    /\ crashes \in Nat

PaidFor(b) == hold[b] # "none"

\* No night of a listing is paid for twice, however confirmations of
\* overlapping bookings interleave: ensureAvailableForConfirmation looks
\* before it locks anything the other confirmation needs, so what it saw may
\* be stale when the rows are inserted ("UNIQUE constraint prevents
\* double-booking", listing-availability.entity.ts).
NoDoubleBooking ==
    \A b, c \in BookingIds :
        /\ b # c /\ PaidFor(b) /\ PaidFor(c)
        /\ stay[b].listing = stay[c].listing
        => Nights(b) \cap Nights(c) = {}

\* The calendar blocks exactly the nights that are paid for: a confirmation
\* that fails, loses a deadlock or dies half-way leaves no row behind, and
\* none that committed lacks one.
CalendarMatchesHolds ==
    availability = UNION {AvailabilityRecords(b) : b \in {c \in BookingIds : PaidFor(c)}}

\* The status a user sees and the money agree: nothing is held for a pending
\* booking, the money of a confirmed one is in escrow, and a completed one
\* has been paid out.  (A cancelled one is another matter: see
\* CancelledMovedNoMoney.)
StatusMatchesHold ==
    \A b \in BookingIds :
        /\ status[b] \in {"none", "pending"} => hold[b] = "none"
        /\ status[b] = "confirmed" => hold[b] = "held"
        /\ status[b] = "completed" => hold[b] = "released"

\* The guest is charged once for a booking and the host paid once, however
\* many confirmations race and cron passes overlap.
MoneyMovesOnce ==
    \A b \in BookingIds :
        /\ debits[b] = IF hold[b] = "none" THEN 0 ELSE 1
        /\ credits[b] = IF hold[b] = "released" THEN 1 ELSE 0

\* Every wallet's balance is what its transactions add up to, though each
\* balance is written as a value computed from an earlier read.
LedgerReconciles ==
    LET spent(u) == MapThenSumSet(LAMBDA b : debits[b] * Total(b),
                                  {b \in BookingIds : stay[b] # NoStay /\ Guest(b) = u})
        earned(u) == MapThenSumSet(LAMBDA b : credits[b] * Total(b),
                                   {b \in BookingIds : stay[b] # NoStay /\ Host(b) = u})
    IN \A u \in Users : balance[u] = funded[u] - spent(u) + earned(u)

\* The branch of releaseBookingHold for a host without a wallet is never
\* needed: confirmation sees to it that the host has one.
NoHoldDisputed == \A b \in BookingIds : hold[b] # "disputed"

\* The tables a confirmation and a release write in one transaction agree at
\* all times: calendar, holds, statuses and wallets.
TablesAgree == CalendarMatchesHolds /\ StatusMatchesHold /\ NoHoldDisputed

\* What a transaction has read under its locks is still so when it commits:
\* a confirmation's booking is pending and its guest can pay, a release's
\* hold is held, its stay is over and its host has a wallet, and the balance
\* each is about to replace is the one it read.
Confirming == {"checkDates", "lockGuest", "lockHost", "insertHost", "writeConfirm"}
Charging == {"lockHost", "insertHost", "writeConfirm"}
Releasing == {"lockStay", "lockPayee", "writeRelease"}

LockedReadsHold ==
    \A p \in Procs :
        LET b == job[p] IN
        /\ pc[p] \in Confirming => BookingRow(b) \in held[p] /\ status[b] = "pending"
        /\ pc[p] \in Charging => /\ WalletRow(Guest(b)) \in held[p]
                                 /\ seen[p] = balance[Guest(b)]
                                 /\ 0 < Total(b) /\ Total(b) <= seen[p]
        /\ pc[p] \in Releasing => HoldRow(b) \in held[p] /\ hold[b] = "held" /\ Due(b)
        /\ pc[p] = "writeRelease" => /\ WalletRow(Host(b)) \in held[p]
                                     /\ Host(b) \in wallets /\ seen[p] = balance[Host(b)]

\* Each step of the code is one step, or none, of the abstract escrow.
Abstract == INSTANCE Escrow
ImplementsEscrow == Abstract!Spec

\* Every request and every release ends, in spite of lock queues, deadlocks
\* between hosts who are each other's guests, and crashes.
TransactionsEnd == \A p \in Procs : pc[p] # "idle" ~> pc[p] = "idle"

\* Transactions lock rows in an order that leaves one way to deadlock: a ring
\* of confirmations, each waiting for the wallet of a host who is the guest
\* of the next.  A release, a decline or a cancellation is never on a cycle,
\* so PostgreSQL never picks the cron job as a victim.
OnlyHostsDeadlock ==
    \A p \in Procs : Deadlocked(p) =>
        /\ pc[p] = "lockHost"
        /\ \E q \in Procs : /\ q # p /\ pc[q] = "lockHost" /\ Deadlocked(q)
                            /\ Guest(job[q]) = Host(job[p])

\* A hold that is due is paid out, in spite of crashed and competing passes.
DueHoldsReleased ==
    \A b \in BookingIds : (hold[b] = "held" /\ Due(b)) ~> hold[b] = "released"

\* What declineBooking's comment says: "No money was moved so nothing to
\* reverse" (bookings.service.ts:300), of any booking that ends up cancelled.
CancelledMovedNoMoney ==
    \A b \in BookingIds : status[b] = "cancelled" => hold[b] = "none"
=============================================================================
