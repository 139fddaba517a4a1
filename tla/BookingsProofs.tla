--------------------------- MODULE BookingsProofs ---------------------------
(***************************************************************************)
(* Proofs about Bookings, for every number of users, listings, bookings    *)
(* and processes.                                                          *)
(***************************************************************************)
EXTENDS Bookings, FiniteSetTheorems, WellFoundedInduction, TLAPS

\* No row is locked by two transactions.
LocksExclusive == \A p, q \in Procs : p # q => held[p] \cap held[q] = {}

\* A row of bookings has all its columns, and they are those of a request
\* createBooking accepts.
StaysValid ==
    \A b \in BookingIds :
        /\ status[b] = "none" <=> stay[b] = NoStay
        /\ stay[b] # NoStay => Guest(b) # Host(b)

\* A process at work is at work on a booking that exists; a release that has
\* been scheduled is for a hold that is due.
JobsValid ==
    \A p \in Procs :
        /\ pc[p] # "idle" => job[p] \in BookingIds /\ status[job[p]] # "none"
        /\ pc[p] = "lockGuest" => 0 < Total(job[p])
        /\ pc[p] = "lockHold" => Due(job[p])

\* Only a host with a wallet has money held for them.
HoldsValid ==
    \A b \in BookingIds : hold[b] # "none" => status[b] # "none" /\ Host(b) \in wallets

\* No wallet is overdrawn.
NoOverdraft == \A u \in Users : balance[u] >= 0

IInv ==
    /\ TypeOK
    /\ LocksExclusive
    /\ StaysValid
    /\ JobsValid
    /\ HoldsValid
    /\ LockedReadsHold
    /\ StatusMatchesHold
    /\ MoneyMovesOnce
    /\ NoHoldDisputed
    /\ CalendarMatchesHolds
    /\ NoDoubleBooking
    /\ NoOverdraft

-----------------------------------------------------------------------------
(* Facts about one booking, and about a process at work.                   *)

LEMMA StayFacts ==
    ASSUME TypeOK, StaysValid, NEW b \in BookingIds, status[b] # "none"
    PROVE  /\ stay[b] # NoStay /\ stay[b] \in Stays
           /\ stay[b].listing \in Listings
           /\ Guest(b) \in Users /\ Host(b) \in Users /\ Guest(b) # Host(b)
           /\ Total(b) \in Nat
           /\ stay[b].checkIn \in Days /\ stay[b].checkOut \in Days
BY ListingsAssumption DEF TypeOK, StaysValid, Stays, Guest, Host, Total

LEMMA RowFacts ==
    /\ \A b \in BookingIds : BookingRow(b) \in Rows /\ HoldRow(b) \in Rows
    /\ \A u \in Users : WalletRow(u) \in Rows
    /\ \A b, u : WalletRow(u) # BookingRow(b) /\ WalletRow(u) # HoldRow(b)
    /\ \A b, c : BookingRow(b) # HoldRow(c)
    /\ \A b, c : BookingRow(b) = BookingRow(c) => b = c
    /\ \A b, c : HoldRow(b) = HoldRow(c) => b = c
    /\ \A u, v : WalletRow(u) = WalletRow(v) => u = v
BY DEF BookingRow, HoldRow, WalletRow, Rows

LEMMA NightsFacts ==
    ASSUME TypeOK, StaysValid, NEW b \in BookingIds, status[b] # "none"
    PROVE  /\ Nights(b) \subseteq Days
           /\ AvailabilityRecords(b) \subseteq
                 [listing: Listings, date: Days, booking: BookingIds]
<1>1. /\ stay[b].listing \in Listings
      /\ stay[b].checkIn \in Days /\ stay[b].checkOut \in Days
  BY StayFacts
<1>2. LastDay \in Nat
  BY BoundsAssumption
<1>3. Nights(b) \subseteq Days
  BY <1>1, <1>2 DEF Nights, GetDatesBetween, Days
<1> QED
  BY <1>1, <1>3 DEF AvailabilityRecords

-----------------------------------------------------------------------------
(* The invariant holds at the start.                                       *)

LEMMA InitIInv == Init => IInv
<1> SUFFICES ASSUME Init PROVE IInv
  OBVIOUS
<1>1. TypeOK
  BY BoundsAssumption DEF Init, TypeOK, Statuses, HoldStatuses, Steps
<1>2. LocksExclusive /\ StaysValid /\ JobsValid /\ HoldsValid /\ LockedReadsHold
  BY NullAssumption
  DEF Init, LocksExclusive, StaysValid, JobsValid, HoldsValid, LockedReadsHold,
      Confirming, Charging, Releasing
<1>3. StatusMatchesHold /\ MoneyMovesOnce /\ NoHoldDisputed
  BY DEF Init, StatusMatchesHold, MoneyMovesOnce, NoHoldDisputed
<1>4. CalendarMatchesHolds /\ NoDoubleBooking /\ NoOverdraft
  BY DEF Init, CalendarMatchesHolds, NoDoubleBooking, NoOverdraft, PaidFor
<1> QED
  BY <1>1, <1>2, <1>3, <1>4 DEF IInv
-----------------------------------------------------------------------------
(* What the three moves of a process do to types and to locks.             *)

LEMMA JobFacts ==
    ASSUME TypeOK, StaysValid, JobsValid, NEW p \in Procs, pc[p] # "idle"
    PROVE  /\ job[p] \in BookingIds /\ status[job[p]] # "none"
           /\ stay[job[p]] # NoStay /\ stay[job[p]] \in Stays
           /\ stay[job[p]].listing \in Listings
           /\ Guest(job[p]) \in Users /\ Host(job[p]) \in Users
           /\ Guest(job[p]) # Host(job[p])
           /\ Total(job[p]) \in Nat
           /\ BookingRow(job[p]) \in Rows /\ HoldRow(job[p]) \in Rows
           /\ WalletRow(Guest(job[p])) \in Rows /\ WalletRow(Host(job[p])) \in Rows
BY StayFacts, RowFacts DEF JobsValid

ProcTypes == /\ pc \in [Procs -> Steps]
             /\ job \in [Procs -> BookingIds \cup {NoBooking}]
             /\ held \in [Procs -> SUBSET Rows]
             /\ seen \in [Procs -> Int]

LEMMA BeginMove ==
    ASSUME ProcTypes, LocksExclusive, NEW p \in Procs, NEW s \in Steps,
           NEW b \in BookingIds, Begin(p, s, b)
    PROVE  ProcTypes' /\ LocksExclusive'
BY DEF ProcTypes, LocksExclusive, Begin

LEMMA AdvanceMove ==
    ASSUME ProcTypes, LocksExclusive, NEW p \in Procs, NEW s \in Steps,
           NEW rows \in SUBSET Rows, NEW v \in Int, \A r \in rows : Free(r),
           Advance(p, s, rows, v)
    PROVE  ProcTypes' /\ LocksExclusive'
BY DEF ProcTypes, LocksExclusive, Advance, Free

LEMMA FinishMove ==
    ASSUME ProcTypes, LocksExclusive, NEW p \in Procs, Finish(p)
    PROVE  ProcTypes' /\ LocksExclusive'
BY DEF ProcTypes, LocksExclusive, Finish, Steps

\* Every step moves at most one process, to a known statement, and a process
\* that goes on locks only rows that were free.
LEMMA ProcStep ==
    ASSUME IInv, [Next]_vars
    PROVE  ProcTypes' /\ LocksExclusive'
<1>1. ProcTypes /\ LocksExclusive /\ TypeOK /\ StaysValid /\ JobsValid
  BY DEF IInv, TypeOK, ProcTypes
<1>2. CASE UNCHANGED procVars
  BY <1>1, <1>2 DEF ProcTypes, LocksExclusive, procVars
<1>3. ASSUME NEW p \in Procs, NEW b \in BookingIds, NEW s \in Steps, Begin(p, s, b)
      PROVE  ProcTypes' /\ LocksExclusive'
  BY <1>1, <1>3, BeginMove
<1>4. ASSUME NEW p \in Procs, Finish(p)
      PROVE  ProcTypes' /\ LocksExclusive'
  BY <1>1, <1>4, FinishMove
<1>5. ASSUME NEW p \in Procs, TransactionStep(p)
      PROVE  ProcTypes' /\ LocksExclusive'
  <2> DEFINE b == job[p]
  <2>1. ASSUME NEW s \in Steps, NEW rows \in SUBSET Rows, NEW v \in Int,
               \A r \in rows : Free(r), Advance(p, s, rows, v)
        PROVE  ProcTypes' /\ LocksExclusive'
    BY <1>1, <2>1, AdvanceMove
  <2>2. pc[p] # "idle" => /\ BookingRow(b) \in Rows /\ HoldRow(b) \in Rows
                          /\ WalletRow(Guest(b)) \in Rows /\ WalletRow(Host(b)) \in Rows
                          /\ balance[Guest(b)] \in Int /\ balance[Host(b)] \in Int
                          /\ seen[p] \in Int
    BY <1>1, JobFacts DEF TypeOK
  <2>3. CASE LockBooking(p)
    BY <1>4, <2>1, <2>2, <2>3 DEF LockBooking, Steps
  <2>4. CASE EnsureAvailableForConfirmation(p)
    BY <1>4, <2>1, <2>2, <2>4 DEF EnsureAvailableForConfirmation, Steps
  <2>5. CASE LockGuestWallet(p)
    BY <1>4, <2>1, <2>2, <2>5 DEF LockGuestWallet, Steps
  <2>6. CASE LockHostWallet(p)
    BY <1>4, <2>1, <2>2, <2>6 DEF LockHostWallet, Steps
  <2>7. CASE InsertHostWallet(p)
    BY <1>4, <2>1, <2>2, <2>7 DEF InsertHostWallet, Steps
  <2>8. CASE CommitConfirmation(p)
    BY <1>4, <2>8 DEF CommitConfirmation
  <2>9. CASE SaveCancelled(p)
    BY <1>4, <2>9 DEF SaveCancelled
  <2>10. CASE LockHold(p)
    BY <1>4, <2>1, <2>2, <2>10 DEF LockHold, Steps
  <2>11. CASE LockBookingOfHold(p)
    BY <2>1, <2>2, <2>11 DEF LockBookingOfHold, Steps
  <2>12. CASE LockPayeeWallet(p)
    BY <1>4, <2>1, <2>2, <2>12 DEF LockPayeeWallet, Steps
  <2>13. CASE CommitRelease(p)
    BY <1>4, <2>13 DEF CommitRelease
  <2> QED
    BY <1>5, <2>3, <2>4, <2>5, <2>6, <2>7, <2>8, <2>9, <2>10, <2>11, <2>12, <2>13
    DEF TransactionStep
<1>6. CASE Tick \/ (\E l \in Listings : ListingChanges(l))
  BY <1>2, <1>6 DEF Tick, ListingChanges
<1>7. CASE \/ \E u \in Users : GetOrCreateWallet(u)
           \/ \E u \in Users, a \in Amounts : TopUp(u, a) \/ Deduct(u, a)
  BY <1>2, <1>7 DEF GetOrCreateWallet, TopUp, Deduct
<1>8. CASE \E b \in BookingIds, l \in Listings, u \in Users, first \in Days, last \in Days :
              CreateBooking(b, l, u, first, last)
  BY <1>2, <1>8 DEF CreateBooking
<1>9. CASE \E p \in Requests, b \in BookingIds :
              ConfirmBooking(p, b) \/ DeclineBooking(p, b) \/ CancelBooking(p, b)
  BY <1>3, <1>9 DEF ConfirmBooking, DeclineBooking, CancelBooking, Procs, Steps
<1>10. CASE \E p \in CronRuns, b \in BookingIds : ReleaseDueBookingHolds(p, b)
  BY <1>3, <1>10 DEF ReleaseDueBookingHolds, Procs, Steps
<1>11. CASE \E p \in Procs : TransactionStep(p) \/ Crash(p) \/ AbortDeadlocked(p)
  BY <1>4, <1>5, <1>11 DEF Crash, AbortDeadlocked
<1>12. CASE UNCHANGED vars
  BY <1>2, <1>12 DEF vars
<1> QED
  BY <1>6, <1>7, <1>8, <1>9, <1>10, <1>11, <1>12 DEF Next
-----------------------------------------------------------------------------
(* The rows: their types, and the invariants that speak of rows alone.     *)

RowTypes ==
    /\ status \in [BookingIds -> Statuses]
    /\ stay \in [BookingIds -> Stays \cup {NoStay}]
    /\ listing \in [Listings -> {"published", "unlisted", "unbookable"}]
    /\ availability \subseteq [listing: Listings, date: Days, booking: BookingIds]
    /\ wallets \subseteq Users
    /\ balance \in [Users -> Int]
    /\ hold \in [BookingIds -> HoldStatuses]
    /\ debits \in [BookingIds -> Nat] /\ credits \in [BookingIds -> Nat]
    /\ funded \in [Users -> Int]
    /\ today \in Nat
    /\ crashes \in Nat

BookingInv == StaysValid /\ HoldsValid /\ StatusMatchesHold /\ MoneyMovesOnce /\ NoHoldDisputed

CalendarInv == CalendarMatchesHolds /\ NoDoubleBooking

RowInv == RowTypes /\ BookingInv /\ CalendarInv /\ NoOverdraft

LEMMA IInvParts == IInv => RowInv /\ ProcTypes /\ JobsValid /\ LockedReadsHold
BY DEF IInv, TypeOK, RowInv, RowTypes, BookingInv, CalendarInv, ProcTypes

\* A step that writes none of these rows keeps what is said of them.
LEMMA QuietRows ==
    ASSUME RowInv, UNCHANGED <<status, stay, availability, moneyVars>>, RowTypes'
    PROVE  RowInv'
BY DEF RowInv, BookingInv, CalendarInv, moneyVars, StaysValid, HoldsValid, StatusMatchesHold,
       MoneyMovesOnce, NoHoldDisputed, CalendarMatchesHolds, NoDoubleBooking, NoOverdraft,
       Guest, Host, PaidFor, AvailabilityRecords, Nights

\* What a wallet gains or loses outside of bookings.
LEMMA WalletRows ==
    ASSUME IInv, NEW u \in Users,
           GetOrCreateWallet(u) \/ \E a \in Amounts : TopUp(u, a) \/ Deduct(u, a)
    PROVE  RowInv'
<1> USE IInvParts
<1>1. /\ UNCHANGED <<status, stay, listing, availability, hold, debits, credits, today, crashes>>
      /\ wallets \subseteq wallets' /\ wallets' \subseteq Users
  BY DEF GetOrCreateWallet, TopUp, Deduct, bookingVars, RowInv, RowTypes
<1>2. /\ balance' \in [Users -> Int] /\ funded' \in [Users -> Int]
      /\ \A v \in Users : balance'[v] >= 0
  <2>1. CASE GetOrCreateWallet(u)
    BY <2>1 DEF GetOrCreateWallet, RowInv, RowTypes, NoOverdraft
  <2>2. ASSUME NEW a \in Amounts, TopUp(u, a) \/ Deduct(u, a)
        PROVE  /\ balance' \in [Users -> Int] /\ funded' \in [Users -> Int]
               /\ \A v \in Users : balance'[v] >= 0
    <3>1. a \in Nat
      BY BoundsAssumption
    <3>2. \A v \in Users : balance[v] \in Int /\ balance[v] >= 0
      BY DEF RowInv, RowTypes, NoOverdraft
    <3> QED
      BY <2>2, <3>1, <3>2 DEF TopUp, Deduct, RowInv, RowTypes
  <2> QED
    BY <2>1, <2>2
<1>3. RowTypes' /\ NoOverdraft'
  BY <1>1, <1>2 DEF RowInv, RowTypes, NoOverdraft
<1>4. BookingInv'
  BY <1>1 DEF RowInv, BookingInv, StaysValid, HoldsValid, StatusMatchesHold, MoneyMovesOnce,
              NoHoldDisputed, Guest, Host
<1>5. CalendarInv'
  BY <1>1 DEF RowInv, CalendarInv, CalendarMatchesHolds, NoDoubleBooking, PaidFor,
              AvailabilityRecords, Nights
<1> QED
  BY <1>3, <1>4, <1>5 DEF RowInv

LEMMA CreateBookingRows ==
    ASSUME IInv, NEW b \in BookingIds, NEW l \in Listings, NEW u \in Users,
           NEW first \in Days, NEW last \in Days, CreateBooking(b, l, u, first, last)
    PROVE  RowInv'
<1> DEFINE s == [listing |-> l, guest |-> u, checkIn |-> first, checkOut |-> last,
                 total |-> Price[l] * (last - first)]
<1> USE IInvParts
<1>1. s \in Stays
  <2>1. Price[l] \in Nat /\ last - first \in Nat
    BY ListingsAssumption, BoundsAssumption DEF CreateBooking, Days
  <2>2. \A m, n \in Nat : m * n \in Nat
    OBVIOUS
  <2> HIDE DEF s
  <2>3. s.total \in Nat /\ s = [listing |-> l, guest |-> u, checkIn |-> first,
                                checkOut |-> last, total |-> s.total]
    BY <2>1, <2>2 DEF s
  <2> QED
    BY <2>3 DEF Stays
<1>2. /\ status[b] = "none" /\ hold[b] = "none" /\ stay[b] = NoStay
      /\ \A c \in BookingIds : hold[c] # "none" => c # b
  BY DEF CreateBooking, RowInv, BookingInv, StaysValid, StatusMatchesHold
<1>3. /\ stay' = [stay EXCEPT ![b] = s]
      /\ status' = [status EXCEPT ![b] = "pending"]
      /\ s.listing = l /\ s.guest = u /\ Owner[l] # u
      /\ UNCHANGED <<listing, availability, wallets, balance, hold, debits, credits, funded,
                     today, crashes>>
  BY DEF CreateBooking, moneyVars
<1> HIDE DEF s
<1>4. RowTypes' /\ NoOverdraft'
  BY <1>1, <1>3 DEF RowInv, RowTypes, Statuses, NoOverdraft
<1>5. BookingInv'
  <2>1. StaysValid'
    BY <1>1, <1>3, NullAssumption DEF RowInv, RowTypes, BookingInv, StaysValid, Guest, Host
  <2>2. HoldsValid' /\ StatusMatchesHold' /\ MoneyMovesOnce' /\ NoHoldDisputed'
    BY <1>2, <1>3
    DEF RowInv, RowTypes, BookingInv, HoldsValid, StatusMatchesHold, MoneyMovesOnce,
        NoHoldDisputed, Host
  <2> QED
    BY <2>1, <2>2 DEF BookingInv
<1>6. \A c \in BookingIds : hold[c] # "none" => stay'[c] = stay[c]
  BY <1>2, <1>3 DEF RowInv, RowTypes
<1>7. \A c \in BookingIds :
         /\ PaidFor(c)' <=> PaidFor(c)
         /\ PaidFor(c) => /\ AvailabilityRecords(c)' = AvailabilityRecords(c)
                          /\ Nights(c)' = Nights(c)
                          /\ stay'[c].listing = stay[c].listing
  BY <1>3, <1>6 DEF PaidFor, AvailabilityRecords, Nights
<1>8. CalendarMatchesHolds'
  BY <1>3, <1>7 DEF RowInv, CalendarInv, CalendarMatchesHolds
<1>9. NoDoubleBooking'
  BY <1>7 DEF RowInv, CalendarInv, NoDoubleBooking
<1> QED
  BY <1>4, <1>5, <1>8, <1>9 DEF RowInv, CalendarInv

LEMMA SaveCancelledRows ==
    ASSUME IInv, NEW p \in Procs, SaveCancelled(p)
    PROVE  RowInv'
<1> USE IInvParts
<1>1. job[p] \in BookingIds /\ status[job[p]] # "none"
  BY DEF SaveCancelled, JobsValid
<1>2. /\ status' = [status EXCEPT ![job[p]] = "cancelled"]
      /\ UNCHANGED <<stay, listing, availability, wallets, balance, hold, debits, credits,
                     funded, today, crashes>>
  BY DEF SaveCancelled, moneyVars
<1>3. RowTypes' /\ NoOverdraft'
  BY <1>2 DEF RowInv, RowTypes, Statuses, NoOverdraft
<1>4. BookingInv'
  BY <1>1, <1>2 DEF RowInv, RowTypes, BookingInv, StaysValid, HoldsValid, StatusMatchesHold,
                    MoneyMovesOnce, NoHoldDisputed, Guest, Host
<1>5. CalendarInv'
  BY <1>2 DEF RowInv, CalendarInv, CalendarMatchesHolds, NoDoubleBooking, PaidFor,
              AvailabilityRecords, Nights
<1> QED
  BY <1>3, <1>4, <1>5 DEF RowInv

\* A confirmation that gets as far as its writes takes money that is there,
\* for a booking that had taken none, and nights that nobody has paid for.
LEMMA CommitConfirmationRows ==
    ASSUME IInv, NEW p \in Procs, CommitConfirmation(p)
    PROVE  RowInv'
<1> DEFINE b == job[p]
<1> USE IInvParts
<1>1. /\ b \in BookingIds /\ status[b] = "pending" /\ hold[b] = "none"
      /\ debits[b] = 0 /\ credits[b] = 0
      /\ stay[b] \in Stays /\ Guest(b) \in Users /\ Host(b) \in Users /\ Total(b) \in Nat
      /\ seen[p] = balance[Guest(b)] /\ Total(b) <= balance[Guest(b)]
  BY JobFacts DEF CommitConfirmation, IInv, LockedReadsHold, Confirming, Charging,
                  StatusMatchesHold, MoneyMovesOnce
<1>2. CASE Blocked(stay[b].listing, Nights(b))
  BY <1>2, QuietRows DEF CommitConfirmation, bookingVars, RowInv, RowTypes, moneyVars
<1>3. CASE ~Blocked(stay[b].listing, Nights(b))
  <2>1. /\ wallets' = wallets \cup {Host(b)}
        /\ balance' = [balance EXCEPT ![Guest(b)] = balance[Guest(b)] - Total(b)]
        /\ debits' = [debits EXCEPT ![b] = @ + 1]
        /\ hold' = [hold EXCEPT ![b] = "held"]
        /\ availability' = availability \cup AvailabilityRecords(b)
        /\ status' = [status EXCEPT ![b] = "confirmed"]
        /\ UNCHANGED <<stay, listing, credits, funded, today, crashes>>
    BY <1>1, <1>3 DEF CommitConfirmation, CreateHostWallet
  <2>2. AvailabilityRecords(b) \subseteq [listing: Listings, date: Days, booking: BookingIds]
    BY <1>1, NightsFacts DEF IInv
  <2>3. balance' \in [Users -> Int] /\ \A v \in Users : balance'[v] >= 0
    BY <1>1, <2>1 DEF RowInv, RowTypes, NoOverdraft
  <2>4. RowTypes' /\ NoOverdraft'
    BY <1>1, <2>1, <2>2, <2>3 DEF RowInv, RowTypes, Statuses, HoldStatuses, NoOverdraft
  <2>5. BookingInv'
    BY <1>1, <2>1 DEF RowInv, RowTypes, BookingInv, StaysValid, HoldsValid, StatusMatchesHold,
                      MoneyMovesOnce, NoHoldDisputed, Guest, Host
  <2>6. \A c \in BookingIds : PaidFor(c)' <=> PaidFor(c) \/ c = b
    BY <1>1, <2>1 DEF RowInv, RowTypes, PaidFor
  <2>7. \A c \in BookingIds : /\ AvailabilityRecords(c)' = AvailabilityRecords(c)
                              /\ Nights(c)' = Nights(c)
    BY <2>1 DEF AvailabilityRecords, Nights
  <2>8. CalendarMatchesHolds'
    BY <1>1, <2>1, <2>6, <2>7 DEF RowInv, CalendarInv, CalendarMatchesHolds
  <2>9. ASSUME NEW c \in BookingIds, PaidFor(c), stay[c].listing = stay[b].listing
        PROVE  Nights(b) \cap Nights(c) = {}
    <3>1. AvailabilityRecords(c) \subseteq availability
      BY <2>9 DEF RowInv, CalendarInv, CalendarMatchesHolds
    <3>2. ASSUME NEW d \in Nights(c)
          PROVE  \E r \in availability : r.listing = stay[b].listing /\ r.date = d
      <4> DEFINE r == [listing |-> stay[c].listing, date |-> d, booking |-> c]
      <4>1. r \in availability
        BY <3>1 DEF AvailabilityRecords
      <4> QED
        BY <4>1, <2>9
    <3> QED
      BY <1>3, <3>2 DEF Blocked
  <2>10. NoDoubleBooking'
    BY <2>1, <2>6, <2>7, <2>9 DEF RowInv, CalendarInv, NoDoubleBooking
  <2> QED
    BY <2>4, <2>5, <2>8, <2>10 DEF RowInv, CalendarInv
<1> QED
  BY <1>2, <1>3

\* A release pays what is held, and leaves it marked as paid.
LEMMA CommitReleaseRows ==
    ASSUME IInv, NEW p \in Procs, CommitRelease(p)
    PROVE  RowInv'
<1> DEFINE b == job[p]
<1> USE IInvParts
<1>1. /\ b \in BookingIds /\ status[b] # "none" /\ hold[b] = "held"
      /\ debits[b] = 1 /\ credits[b] = 0
      /\ Host(b) \in Users /\ Total(b) \in Nat /\ seen[p] = balance[Host(b)]
  BY JobFacts DEF CommitRelease, IInv, LockedReadsHold, Releasing, MoneyMovesOnce
<1>2. /\ balance' = [balance EXCEPT ![Host(b)] = balance[Host(b)] + Total(b)]
      /\ credits' = [credits EXCEPT ![b] = @ + 1]
      /\ hold' = [hold EXCEPT ![b] = "released"]
      /\ status' = [status EXCEPT ![b] = "completed"]
      /\ UNCHANGED <<stay, listing, availability, wallets, debits, funded, today, crashes>>
  BY <1>1 DEF CommitRelease
<1>3. balance' \in [Users -> Int] /\ \A v \in Users : balance'[v] >= 0
  BY <1>1, <1>2 DEF RowInv, RowTypes, NoOverdraft
<1>4. RowTypes' /\ NoOverdraft'
  BY <1>1, <1>2, <1>3 DEF RowInv, RowTypes, Statuses, HoldStatuses, NoOverdraft
<1>5. BookingInv'
  BY <1>1, <1>2 DEF RowInv, RowTypes, BookingInv, StaysValid, HoldsValid, StatusMatchesHold,
                    MoneyMovesOnce, NoHoldDisputed, Guest, Host
<1>6. \A c \in BookingIds : PaidFor(c)' <=> PaidFor(c)
  BY <1>1, <1>2 DEF RowInv, RowTypes, PaidFor
<1>7. CalendarInv'
  BY <1>2, <1>6 DEF RowInv, CalendarInv, CalendarMatchesHolds, NoDoubleBooking,
                    AvailabilityRecords, Nights
<1> QED
  BY <1>4, <1>5, <1>7 DEF RowInv
\* The steps that wait, look or roll back write no row that matters here; a
\* hold is never disputed, because its host has a wallet.
LEMMA RowStep ==
    ASSUME IInv, [Next]_vars
    PROVE  RowInv'
<1> USE IInvParts
<1>1. CASE /\ UNCHANGED <<status, stay, availability, moneyVars>>
           /\ listing' \in [Listings -> {"published", "unlisted", "unbookable"}]
           /\ today' \in Nat /\ crashes' \in Nat
  BY <1>1, QuietRows DEF RowInv, RowTypes, moneyVars
<1>2. CASE Unwritten
  BY <1>1, <1>2 DEF Unwritten, bookingVars, RowInv, RowTypes
<1>3. CASE Tick
  BY <1>1, <1>3 DEF Tick, bookingVars, RowInv, RowTypes
<1>4. CASE \E l \in Listings : ListingChanges(l)
  BY <1>1, <1>4 DEF ListingChanges, RowInv, RowTypes
<1>5. CASE \/ \E u \in Users : GetOrCreateWallet(u)
           \/ \E u \in Users, a \in Amounts : TopUp(u, a) \/ Deduct(u, a)
  BY <1>5, WalletRows
<1>6. CASE \E b \in BookingIds, l \in Listings, u \in Users, first \in Days, last \in Days :
              CreateBooking(b, l, u, first, last)
  BY <1>6, CreateBookingRows
<1>7. CASE \E p \in Requests, b \in BookingIds :
              ConfirmBooking(p, b) \/ DeclineBooking(p, b) \/ CancelBooking(p, b)
  BY <1>2, <1>7 DEF ConfirmBooking, DeclineBooking, CancelBooking
<1>8. CASE \E p \in CronRuns, b \in BookingIds : ReleaseDueBookingHolds(p, b)
  BY <1>2, <1>8 DEF ReleaseDueBookingHolds
<1>9. ASSUME NEW p \in Procs, TransactionStep(p)
      PROVE  RowInv'
  <2>1. CASE \/ LockBooking(p) \/ EnsureAvailableForConfirmation(p) \/ LockGuestWallet(p)
             \/ LockHostWallet(p) \/ InsertHostWallet(p) \/ LockHold(p) \/ LockBookingOfHold(p)
    BY <1>2, <2>1
    DEF LockBooking, EnsureAvailableForConfirmation, LockGuestWallet, LockHostWallet,
        InsertHostWallet, LockHold, LockBookingOfHold
  <2>2. CASE LockPayeeWallet(p)
    <3>1. job[p] \in BookingIds /\ hold[job[p]] = "held" /\ Host(job[p]) \in wallets
      BY <2>2 DEF LockPayeeWallet, JobsValid, LockedReadsHold, Releasing, RowInv, BookingInv,
                  HoldsValid
    <3> QED
      BY <1>1, <2>2, <3>1 DEF LockPayeeWallet, bookingVars, RowInv, RowTypes
  <2> QED
    BY <1>9, <2>1, <2>2, CommitConfirmationRows, SaveCancelledRows, CommitReleaseRows
    DEF TransactionStep
<1>10. CASE \E p \in Procs : TransactionStep(p) \/ Crash(p) \/ AbortDeadlocked(p)
  BY <1>1, <1>2, <1>9, <1>10
  DEF Crash, AbortDeadlocked, bookingVars, RowInv, RowTypes
<1>11. CASE UNCHANGED vars
  BY <1>2, <1>11 DEF vars, Unwritten
<1> QED
  BY <1>3, <1>4, <1>5, <1>6, <1>7, <1>8, <1>10, <1>11 DEF Next

-----------------------------------------------------------------------------
(* What each process knows.                                                *)

ProcOK(q) ==
    LET b == job[q] IN
    /\ pc[q] # "idle" => b \in BookingIds /\ status[b] # "none"
    /\ pc[q] = "lockGuest" => 0 < Total(b)
    /\ pc[q] = "lockHold" => Due(b)
    /\ pc[q] \in Confirming => BookingRow(b) \in held[q] /\ status[b] = "pending"
    /\ pc[q] \in Charging => /\ WalletRow(Guest(b)) \in held[q]
                             /\ seen[q] = balance[Guest(b)]
                             /\ 0 < Total(b) /\ Total(b) <= seen[q]
    /\ pc[q] \in Releasing => HoldRow(b) \in held[q] /\ hold[b] = "held" /\ Due(b)
    /\ pc[q] = "writeRelease" => /\ WalletRow(Host(b)) \in held[q]
                                 /\ Host(b) \in wallets /\ seen[q] = balance[Host(b)]

LEMMA ProcOKDef == (\A q \in Procs : ProcOK(q)) <=> JobsValid /\ LockedReadsHold
BY DEF ProcOK, JobsValid, LockedReadsHold

\* What no other process may take from q while q stands still.
Undisturbed(q) ==
    LET b == job[q] IN
    /\ pc'[q] = pc[q] /\ job'[q] = job[q] /\ held'[q] = held[q] /\ seen'[q] = seen[q]
    /\ pc[q] # "idle" => status'[b] # "none" /\ stay'[b] = stay[b]
    /\ pc[q] \in Confirming => status'[b] = "pending"
    /\ pc[q] \in Charging => balance'[Guest(b)] = balance[Guest(b)]
    /\ pc[q] = "writeRelease" => balance'[Host(b)] = balance[Host(b)]
    /\ pc[q] \in Releasing => hold'[b] = "held"
    /\ wallets \subseteq wallets'
    /\ today' \in Nat /\ today <= today'

LEMMA UndisturbedOK ==
    ASSUME IInv, NEW q \in Procs, Undisturbed(q)
    PROVE  ProcOK(q)'
<1>1. ProcOK(q)
  BY ProcOKDef DEF IInv
<1>2. pc[q] # "idle" => stay[job[q]].checkOut \in Nat
  BY JobFacts, BoundsAssumption DEF IInv, Stays, Days
<1>3. today \in Nat /\ HoldDays \in Nat
  BY BoundsAssumption DEF IInv, TypeOK
<1> QED
  BY <1>1, <1>2, <1>3
  DEF ProcOK, Undisturbed, Total, Guest, Host, Due, Confirming, Charging, Releasing

\* A step that only moves process p leaves the others undisturbed.
LEMMA OthersUndisturbed ==
    ASSUME IInv, NEW p \in Procs, NEW q \in Procs, q # p, Unwritten,
           \/ \E s \in Steps, b \in BookingIds : Begin(p, s, b)
           \/ \E s \in Steps, rows \in SUBSET Rows, v \in Int : Advance(p, s, rows, v)
           \/ Finish(p)
    PROVE  Undisturbed(q)
<1>1. ProcOK(q) /\ ProcTypes /\ today \in Nat
  BY ProcOKDef, IInvParts DEF IInv, TypeOK
<1>2. pc'[q] = pc[q] /\ job'[q] = job[q] /\ held'[q] = held[q] /\ seen'[q] = seen[q]
  BY <1>1 DEF ProcTypes, Begin, Advance, Finish
<1>3. UNCHANGED <<status, stay, balance, hold, wallets, today>>
  BY DEF Unwritten, bookingVars, moneyVars
<1> QED
  BY <1>1, <1>2, <1>3 DEF Undisturbed, ProcOK, Confirming, Charging, Releasing

\* A finished process knows, and needs, nothing.
LEMMA FinishedOK ==
    ASSUME ProcTypes, NEW p \in Procs, Finish(p)
    PROVE  ProcOK(p)'
BY DEF ProcTypes, Finish, ProcOK, Confirming, Charging, Releasing
-----------------------------------------------------------------------------
(* Every step leaves every process with what it knows.                     *)

\* Steps that only move p, to statement s with more locks.
LEMMA AdvanceOK ==
    ASSUME IInv, NEW p \in Procs, NEW s \in Steps, NEW rows \in SUBSET Rows, NEW v \in Int,
           Advance(p, s, rows, v), Unwritten, ProcOK(p)'
    PROVE  \A q \in Procs : ProcOK(q)'
BY OthersUndisturbed, UndisturbedOK

LEMMA FinishOK ==
    ASSUME IInv, NEW p \in Procs, Finish(p), Unwritten
    PROVE  \A q \in Procs : ProcOK(q)'
<1>1. ProcOK(p)'
  BY IInvParts, FinishedOK
<1> QED
  BY <1>1, OthersUndisturbed, UndisturbedOK

\* A process that begins its work knows only that its booking exists.
LEMMA BeginOK ==
    ASSUME IInv, NEW p \in Procs, NEW b \in BookingIds,
           NEW s \in {"lockBooking", "saveCancelled", "lockHold"},
           status[b] # "none", s = "lockHold" => Due(b), Begin(p, s, b), Unwritten
    PROVE  \A q \in Procs : ProcOK(q)'
<1>1. ProcTypes
  BY IInvParts
<1>2. UNCHANGED <<status, stay, today>>
  BY DEF Unwritten, bookingVars
<1>3. ProcOK(p)'
  BY <1>1, <1>2 DEF ProcTypes, Begin, ProcOK, Confirming, Charging, Releasing, Due
<1> QED
  BY <1>3, OthersUndisturbed, UndisturbedOK DEF Steps

\* The steps of a transaction up to its last.
LEMMA WaitStepOK ==
    ASSUME IInv, NEW p \in Procs,
           \/ LockBooking(p) \/ EnsureAvailableForConfirmation(p) \/ LockGuestWallet(p)
           \/ LockHostWallet(p) \/ InsertHostWallet(p) \/ LockHold(p) \/ LockBookingOfHold(p)
    PROVE  \A q \in Procs : ProcOK(q)'
<1> DEFINE b == job[p]
<1>1. ProcOK(p) /\ ProcTypes /\ pc[p] # "idle" /\ Unwritten
  BY ProcOKDef, IInvParts
  DEF IInv, LockBooking, EnsureAvailableForConfirmation, LockGuestWallet, LockHostWallet,
      InsertHostWallet, LockHold, LockBookingOfHold
<1>2. /\ b \in BookingIds /\ status[b] # "none"
      /\ BookingRow(b) \in Rows /\ HoldRow(b) \in Rows
      /\ WalletRow(Guest(b)) \in Rows /\ WalletRow(Host(b)) \in Rows
      /\ seen[p] \in Int /\ balance[Guest(b)] \in Int /\ Total(b) \in Nat
  BY <1>1, JobFacts DEF IInv, TypeOK
<1>3. UNCHANGED <<status, stay, balance, hold, wallets, today>>
  BY <1>1 DEF Unwritten, bookingVars, moneyVars
<1>4. ASSUME NEW s \in Steps, NEW rows \in SUBSET Rows, NEW v \in Int,
             Advance(p, s, rows, v), ProcOK(p)'
      PROVE  \A q \in Procs : ProcOK(q)'
  BY <1>1, <1>4, AdvanceOK
<1>5. ASSUME Finish(p)
      PROVE  \A q \in Procs : ProcOK(q)'
  BY <1>1, <1>5, FinishOK
<1>6. ASSUME NEW s \in Steps, NEW rows \in SUBSET Rows, NEW v \in Int, Advance(p, s, rows, v)
      PROVE  /\ pc'[p] = s /\ job'[p] = b /\ held'[p] = held[p] \cup rows /\ seen'[p] = v
             /\ Guest(b)' = Guest(b) /\ Host(b)' = Host(b) /\ Total(b)' = Total(b)
             /\ Due(b)' <=> Due(b)
  BY <1>1, <1>3, <1>6 DEF ProcTypes, Advance, Guest, Host, Total, Due
<1> HIDE DEF b
<1> USE DEF Steps, ProcOK, Confirming, Charging, Releasing
<1>7. CASE LockBooking(p)
  <2>1. CASE status[b] = "pending"
    <3>1. Advance(p, "checkDates", {BookingRow(b)}, seen[p])
      BY <1>7, <2>1 DEF LockBooking, b
    <3>2. ProcOK(p)'
      BY <1>2, <1>3, <1>6, <2>1, <3>1
    <3> QED
      BY <1>2, <1>4, <3>1, <3>2
  <2> QED
    BY <1>5, <1>7, <2>1 DEF LockBooking, b
<1>8. CASE EnsureAvailableForConfirmation(p)
  <2>1. CASE Advance(p, "lockGuest", {}, seen[p]) /\ Total(b) > 0
    <3>1. ProcOK(p)'
      BY <1>1, <1>2, <1>3, <1>6, <1>8, <2>1 DEF EnsureAvailableForConfirmation, b
    <3> QED
      BY <1>2, <1>4, <2>1, <3>1
  <2> QED
    BY <1>5, <1>8, <2>1 DEF EnsureAvailableForConfirmation, b
<1>9. CASE LockGuestWallet(p)
  <2>1. CASE Guest(b) \in wallets /\ balance[Guest(b)] >= Total(b)
    <3>1. Advance(p, "lockHost", {WalletRow(Guest(b))}, balance[Guest(b)])
      BY <1>9, <2>1 DEF LockGuestWallet, b
    <3>2. /\ pc'[p] = "lockHost" /\ job'[p] = b /\ seen'[p] = balance[Guest(b)]
          /\ held'[p] = held[p] \cup {WalletRow(Guest(b))}
          /\ Guest(b)' = Guest(b) /\ Total(b)' = Total(b)
      BY <1>2, <1>6, <3>1
    <3>3. pc[p] = "lockGuest" /\ 0 < Total(b) /\ BookingRow(b) \in held[p]
          /\ status[b] = "pending"
      BY <1>1, <1>9 DEF LockGuestWallet, b
    <3>4. ProcOK(p)'
      BY <1>2, <1>3, <2>1, <3>2, <3>3 DEF Guest, Total, WalletRow, BookingRow
    <3> QED
      BY <1>2, <1>4, <3>1, <3>4
  <2> QED
    BY <1>5, <1>9, <2>1 DEF LockGuestWallet, b
<1>10. CASE LockHostWallet(p) \/ InsertHostWallet(p)
  <2>1. CASE Advance(p, "writeConfirm", {WalletRow(Host(b))}, seen[p])
    <3>1. /\ pc'[p] = "writeConfirm" /\ job'[p] = b /\ seen'[p] = seen[p]
          /\ held'[p] = held[p] \cup {WalletRow(Host(b))}
          /\ Guest(b)' = Guest(b) /\ Total(b)' = Total(b)
      BY <1>2, <1>6, <2>1
    <3>2. /\ BookingRow(b) \in held[p] /\ status[b] = "pending"
          /\ WalletRow(Guest(b)) \in held[p] /\ seen[p] = balance[Guest(b)]
          /\ 0 < Total(b) /\ Total(b) <= seen[p]
      BY <1>1, <1>10 DEF LockHostWallet, InsertHostWallet, b
    <3>3. ProcOK(p)'
      BY <1>2, <1>3, <3>1, <3>2 DEF Guest, Total, WalletRow, BookingRow
    <3> QED
      BY <1>2, <1>4, <2>1, <3>3
  <2>2. CASE LockHostWallet(p) /\ Advance(p, "insertHost", {}, seen[p])
    <3>1. ProcOK(p)'
      BY <1>1, <1>2, <1>3, <1>6, <2>2 DEF LockHostWallet, b
    <3> QED
      BY <1>2, <1>4, <2>2, <3>1
  <2> QED
    BY <1>5, <1>10, <2>1, <2>2 DEF LockHostWallet, InsertHostWallet, b
<1>11. CASE LockHold(p)
  <2>1. CASE hold[b] = "held"
    <3>1. Advance(p, "lockStay", {HoldRow(b)}, seen[p])
      BY <1>11, <2>1 DEF LockHold, b
    <3>2. ProcOK(p)'
      BY <1>1, <1>2, <1>3, <1>6, <1>11, <2>1, <3>1 DEF LockHold, b
    <3> QED
      BY <1>2, <1>4, <3>1, <3>2
  <2> QED
    BY <1>5, <1>11, <2>1 DEF LockHold, b
<1>12. CASE LockBookingOfHold(p)
  <2>1. Advance(p, "lockPayee", {BookingRow(b)}, seen[p])
    BY <1>12 DEF LockBookingOfHold, b
  <2>2. ProcOK(p)'
    BY <1>1, <1>2, <1>3, <1>6, <1>12, <2>1 DEF LockBookingOfHold, b
  <2> QED
    BY <1>2, <1>4, <2>1, <2>2
<1> QED
  BY <1>7, <1>8, <1>9, <1>10, <1>11, <1>12
\* Steps of users and of the clock, which move no process.
LEMMA UserStepOK ==
    ASSUME IInv, UNCHANGED procVars,
           \/ Tick \/ (\E l \in Listings : ListingChanges(l))
           \/ (\E u \in Users : GetOrCreateWallet(u))
           \/ (\E u \in Users, a \in Amounts : TopUp(u, a) \/ Deduct(u, a))
           \/ \E b \in BookingIds, l \in Listings, u \in Users, first \in Days, last \in Days :
                 CreateBooking(b, l, u, first, last)
    PROVE  \A q \in Procs : ProcOK(q)'
<1> SUFFICES ASSUME NEW q \in Procs PROVE Undisturbed(q)
  BY UndisturbedOK
<1> DEFINE c == job[q]
<1>1. ProcOK(q) /\ ProcTypes /\ TypeOK
  BY ProcOKDef, IInvParts DEF IInv
<1>2. pc'[q] = pc[q] /\ job'[q] = job[q] /\ held'[q] = held[q] /\ seen'[q] = seen[q]
  BY DEF procVars
<1>3. today \in Nat /\ wallets \subseteq wallets
  BY <1>1 DEF TypeOK
<1>4. CASE Tick \/ \E l \in Listings : ListingChanges(l)
  <2>1. UNCHANGED <<status, stay, balance, hold, wallets>> /\ today' \in {today, today + 1}
    BY <1>4 DEF Tick, ListingChanges, bookingVars, moneyVars
  <2> QED
    BY <1>1, <1>2, <1>3, <2>1 DEF Undisturbed, ProcOK, Confirming, Charging, Releasing
<1>5. ASSUME NEW u \in Users,
             GetOrCreateWallet(u) \/ \E a \in Amounts : TopUp(u, a) \/ Deduct(u, a)
      PROVE  Undisturbed(q)
  <2>1. UNCHANGED <<status, stay, hold, today>> /\ wallets \subseteq wallets'
    BY <1>5 DEF GetOrCreateWallet, TopUp, Deduct, bookingVars
  <2>2. ASSUME NEW v \in Users, WalletRow(v) \in held[q]
        PROVE  balance'[v] = balance[v]
    <3>1. v # u
      BY <1>5, <2>2 DEF GetOrCreateWallet, TopUp, Deduct, Free
    <3> QED
      BY <1>1, <1>5, <3>1 DEF GetOrCreateWallet, TopUp, Deduct, TypeOK
  <2>3. pc[q] # "idle" => Guest(c) \in Users /\ Host(c) \in Users
    BY JobFacts DEF IInv
  <2> QED
    BY <1>1, <1>2, <1>3, <2>1, <2>2, <2>3
    DEF Undisturbed, ProcOK, Confirming, Charging, Releasing
<1>6. ASSUME NEW b \in BookingIds, NEW l \in Listings, NEW u \in Users,
             NEW first \in Days, NEW last \in Days, CreateBooking(b, l, u, first, last)
      PROVE  Undisturbed(q)
  <2>1. /\ status[b] = "none"
        /\ \A d \in BookingIds : d # b => status'[d] = status[d] /\ stay'[d] = stay[d]
        /\ UNCHANGED <<wallets, balance, hold, today>>
    BY <1>1, <1>6 DEF CreateBooking, moneyVars, TypeOK
  <2>2. pc[q] # "idle" => c # b
    BY <1>1, <2>1 DEF ProcOK
  <2> QED
    BY <1>1, <1>2, <1>3, <2>1, <2>2 DEF Undisturbed, ProcOK, Confirming, Charging, Releasing
<1> QED
  BY <1>4, <1>5, <1>6

\* Steps in which p writes rows and ends: they leave alone what the others
\* have locked.
LEMMA WriteStepOK ==
    ASSUME IInv, NEW p \in Procs,
           \/ CommitConfirmation(p) \/ SaveCancelled(p)
           \/ LockPayeeWallet(p) \/ CommitRelease(p)
    PROVE  \A q \in Procs : ProcOK(q)'
<1> DEFINE b == job[p]
<1>1. /\ ProcOK(p) /\ ProcTypes /\ TypeOK /\ LocksExclusive
      /\ pc[p] # "idle" /\ b \in BookingIds
  BY ProcOKDef, IInvParts, JobFacts
  DEF IInv, CommitConfirmation, SaveCancelled, LockPayeeWallet, CommitRelease
<1>2. /\ Guest(b) \in Users /\ Host(b) \in Users /\ Total(b) \in Nat
      /\ WalletRow(Host(b)) \in Rows
  BY <1>1, JobFacts DEF IInv
<1>3. CASE Finish(p) /\ Unwritten
  BY <1>3, FinishOK
<1>4. ASSUME Finish(p), NEW q \in Procs, q # p
      PROVE  pc'[q] = pc[q] /\ job'[q] = job[q] /\ held'[q] = held[q] /\ seen'[q] = seen[q]
  BY <1>1, <1>4 DEF ProcTypes, Finish
<1>5. ASSUME Finish(p), \A q \in Procs : q # p => Undisturbed(q)
      PROVE  \A q \in Procs : ProcOK(q)'
  BY <1>1, <1>5, FinishedOK, UndisturbedOK
<1>6. ASSUME NEW q \in Procs
      PROVE  /\ ProcOK(q)
             /\ pc[q] \in Confirming => hold[job[q]] = "none"
             /\ pc[q] \in Confirming \cup Charging \cup Releasing => job[q] \in BookingIds
             /\ pc[q] # "idle" => Guest(job[q]) \in Users /\ Host(job[q]) \in Users
  <2>1. ProcOK(q)
    BY ProcOKDef DEF IInv
  <2>2. pc[q] # "idle" => /\ job[q] \in BookingIds
                          /\ Guest(job[q]) \in Users /\ Host(job[q]) \in Users
    BY JobFacts DEF IInv
  <2> QED
    BY <2>1, <2>2 DEF IInv, TypeOK, StatusMatchesHold, ProcOK, Confirming, Charging, Releasing
<1>7. ASSUME NEW q \in Procs, q # p
      PROVE  held[q] \cap held[p] = {}
  BY <1>1, <1>7 DEF LocksExclusive
<1>8. CASE SaveCancelled(p)
  <2>1. /\ status' = [status EXCEPT ![b] = "cancelled"] /\ Finish(p)
        /\ \A q \in Procs : BookingRow(b) \notin held[q]
        /\ UNCHANGED <<stay, wallets, balance, hold, today>>
    BY <1>8 DEF SaveCancelled, moneyVars, Free
  <2>2. ASSUME NEW q \in Procs, q # p
        PROVE  Undisturbed(q)
    BY <1>1, <1>4, <1>6, <2>1, <2>2
    DEF TypeOK, Undisturbed, ProcOK, Confirming, Charging, Releasing
  <2> QED
    BY <1>5, <2>1, <2>2
<1>9. CASE CommitConfirmation(p)
  <2>1. CASE Blocked(stay[b].listing, Nights(b))
    BY <1>3, <1>9, <2>1 DEF CommitConfirmation, Unwritten
  <2>2. CASE ~Blocked(stay[b].listing, Nights(b))
    <3>1. /\ wallets \subseteq wallets'
          /\ balance' = [balance EXCEPT ![Guest(b)] = balance[Guest(b)] - Total(b)]
          /\ hold' = [hold EXCEPT ![b] = "held"]
          /\ status' = [status EXCEPT ![b] = "confirmed"]
          /\ UNCHANGED <<stay, today>> /\ Finish(p)
          /\ pc[p] = "writeConfirm"
      BY <1>1, <1>9, <2>2 DEF CommitConfirmation, CreateHostWallet, ProcOK, Charging
    <3>2. BookingRow(b) \in held[p] /\ WalletRow(Guest(b)) \in held[p] /\ hold[b] = "none"
      BY <1>1, <1>6, <3>1 DEF ProcOK, Confirming, Charging
    <3>3. ASSUME NEW q \in Procs, q # p
          PROVE  Undisturbed(q)
      <4> DEFINE c == job[q]
      <4>1. pc[q] \in Confirming \cup Releasing => c # b
        BY <1>6, <1>7, <3>2, <3>3 DEF ProcOK
      <4>2. /\ pc[q] \in Charging => Guest(c) # Guest(b)
            /\ pc[q] = "writeRelease" => Host(c) # Guest(b)
        BY <1>6, <1>7, <3>2, <3>3 DEF ProcOK
      <4>3. /\ pc[q] \in Charging => balance'[Guest(c)] = balance[Guest(c)]
            /\ pc[q] = "writeRelease" => balance'[Host(c)] = balance[Host(c)]
        BY <1>1, <1>6, <3>1, <4>2 DEF TypeOK, Charging
      <4> QED
        BY <1>1, <1>4, <1>6, <3>1, <3>3, <4>1, <4>3
        DEF TypeOK, Undisturbed, ProcOK, Confirming, Charging, Releasing
    <3> QED
      BY <1>5, <3>1, <3>3
  <2> QED
    BY <2>1, <2>2
<1>10. CASE CommitRelease(p)
  <2>1. /\ balance' = [balance EXCEPT ![Host(b)] = balance[Host(b)] + Total(b)]
        /\ hold' = [hold EXCEPT ![b] = "released"]
        /\ status' = [status EXCEPT ![b] = "completed"]
        /\ UNCHANGED <<stay, wallets, today>> /\ Finish(p)
        /\ pc[p] = "writeRelease"
    BY <1>1, <1>10 DEF CommitRelease, ProcOK
  <2>2. HoldRow(b) \in held[p] /\ WalletRow(Host(b)) \in held[p] /\ hold[b] = "held"
    BY <1>1, <2>1 DEF ProcOK, Releasing
  <2>3. ASSUME NEW q \in Procs, q # p
        PROVE  Undisturbed(q)
    <3> DEFINE c == job[q]
    <3>1. pc[q] \in Confirming \cup Releasing => c # b
      BY <1>6, <1>7, <2>2, <2>3 DEF ProcOK
    <3>2. /\ pc[q] \in Charging => Guest(c) # Host(b)
          /\ pc[q] = "writeRelease" => Host(c) # Host(b)
      BY <1>6, <1>7, <2>2, <2>3 DEF ProcOK
    <3>3. /\ pc[q] \in Charging => balance'[Guest(c)] = balance[Guest(c)]
          /\ pc[q] = "writeRelease" => balance'[Host(c)] = balance[Host(c)]
      BY <1>1, <1>6, <2>1, <3>2 DEF TypeOK, Charging
    <3> QED
      BY <1>1, <1>4, <1>6, <2>1, <2>3, <3>1, <3>3
      DEF TypeOK, Undisturbed, ProcOK, Confirming, Charging, Releasing
  <2> QED
    BY <1>5, <2>1, <2>3
<1>11. CASE LockPayeeWallet(p)
  <2>1. pc[p] = "lockPayee" /\ hold[b] = "held" /\ Host(b) \in wallets /\ HoldRow(b) \in held[p]
    BY <1>1, <1>11 DEF LockPayeeWallet, ProcOK, Releasing, IInv, HoldsValid
  <2>2. Advance(p, "writeRelease", {WalletRow(Host(b))}, balance[Host(b)]) /\ Unwritten
    BY <1>11, <2>1 DEF LockPayeeWallet, Unwritten
  <2>3. /\ pc'[p] = "writeRelease" /\ job'[p] = b /\ seen'[p] = balance[Host(b)]
        /\ held'[p] = held[p] \cup {WalletRow(Host(b))}
        /\ UNCHANGED <<status, stay, balance, hold, wallets, today>>
    BY <1>1, <2>2 DEF ProcTypes, Advance, Unwritten, bookingVars, moneyVars
  <2>4. ProcOK(p)'
    BY <1>1, <2>1, <2>3 DEF ProcOK, Confirming, Charging, Releasing, Host, Due
  <2> QED
    BY <1>1, <1>2, <2>2, <2>4, AdvanceOK DEF Steps, TypeOK
<1> QED
  BY <1>8, <1>9, <1>10, <1>11

LEMMA KnowledgeStep ==
    ASSUME IInv, [Next]_vars
    PROVE  (JobsValid /\ LockedReadsHold)'
<1> SUFFICES \A q \in Procs : ProcOK(q)'
  BY ProcOKDef DEF ProcOK, JobsValid, LockedReadsHold
<1>1. CASE \/ Tick \/ (\E l \in Listings : ListingChanges(l))
           \/ (\E u \in Users : GetOrCreateWallet(u))
           \/ (\E u \in Users, a \in Amounts : TopUp(u, a) \/ Deduct(u, a))
           \/ \E b \in BookingIds, l \in Listings, u \in Users, first \in Days, last \in Days :
                 CreateBooking(b, l, u, first, last)
  <2>1. UNCHANGED procVars
    BY <1>1 DEF Tick, ListingChanges, GetOrCreateWallet, TopUp, Deduct, CreateBooking
  <2> QED
    BY <1>1, <2>1, UserStepOK
<1>2. CASE \E p \in Requests, b \in BookingIds :
              ConfirmBooking(p, b) \/ DeclineBooking(p, b) \/ CancelBooking(p, b)
  BY <1>2, BeginOK DEF ConfirmBooking, DeclineBooking, CancelBooking, Procs
<1>3. CASE \E p \in CronRuns, b \in BookingIds : ReleaseDueBookingHolds(p, b)
  <2>1. \A b \in BookingIds : hold[b] = "held" => status[b] # "none"
    BY DEF IInv, HoldsValid
  <2> QED
    BY <1>3, <2>1, BeginOK DEF ReleaseDueBookingHolds, Procs
<1>4. CASE \E p \in Procs : TransactionStep(p)
  BY <1>4, WaitStepOK, WriteStepOK DEF TransactionStep
<1>5. ASSUME NEW p \in Procs, Crash(p) \/ AbortDeadlocked(p)
      PROVE  \A q \in Procs : ProcOK(q)'
  <2>1. Finish(p) /\ UNCHANGED <<status, stay, balance, hold, wallets, today>>
    BY <1>5 DEF Crash, AbortDeadlocked, Unwritten, bookingVars, moneyVars
  <2>2. ASSUME NEW q \in Procs, q # p
        PROVE  Undisturbed(q)
    <3>1. ProcOK(q) /\ ProcTypes /\ today \in Nat
      BY ProcOKDef, IInvParts DEF IInv, TypeOK
    <3> QED
      BY <2>1, <2>2, <3>1
      DEF Finish, ProcTypes, Undisturbed, ProcOK, Confirming, Charging, Releasing
  <2> QED
    BY <2>1, <2>2, FinishedOK, UndisturbedOK, IInvParts
<1>6. CASE UNCHANGED vars
  <2>1. \A q \in Procs : ProcOK(q)
    BY ProcOKDef DEF IInv
  <2> QED
    BY <1>6, <2>1
    DEF vars, bookingVars, moneyVars, procVars, ProcOK, Guest, Host, Total, Due
<1> QED
  BY <1>1, <1>2, <1>3, <1>4, <1>5, <1>6 DEF Next

-----------------------------------------------------------------------------
(* The invariant, and what follows from it.                                *)

LEMMA NextIInv == IInv /\ [Next]_vars => IInv'
<1> SUFFICES ASSUME IInv, [Next]_vars PROVE IInv'
  OBVIOUS
<1>1. RowInv' /\ ProcTypes' /\ LocksExclusive' /\ JobsValid' /\ LockedReadsHold'
  BY RowStep, ProcStep, KnowledgeStep
<1> QED
  BY <1>1
  DEF IInv, TypeOK, RowInv, RowTypes, BookingInv, CalendarInv, ProcTypes

\* The inductive invariant holds of every reachable state.
THEOREM Invariance == Spec => []IInv
BY InitIInv, NextIInv, PTL DEF Spec

\* Every variable keeps the type of the column or the process state it models.
THEOREM TypeCorrectness == Spec => []TypeOK
BY Invariance, PTL DEF IInv

\* No night of a listing is paid for twice: confirmBooking's stale
\* availability check is made good by the unique index its inserts meet.
THEOREM CalendarSafety == Spec => []NoDoubleBooking
<1>1. IInv => NoDoubleBooking
  BY DEF IInv
<1> QED
  BY <1>1, Invariance, PTL

\* The calendar blocks exactly the nights that are paid for, status and hold
\* agree, and no hold is disputed, whatever fails or dies half-way.
THEOREM TableAgreement == Spec => []TablesAgree
<1>1. IInv => TablesAgree
  BY DEF IInv, TablesAgree
<1> QED
  BY <1>1, Invariance, PTL

\* Each booking takes its guest's money at most once and pays its host at most
\* once, and no wallet is overdrawn.
THEOREM MoneySafety == Spec => [](MoneyMovesOnce /\ NoOverdraft)
<1>1. IInv => MoneyMovesOnce /\ NoOverdraft
  BY DEF IInv
<1> QED
  BY <1>1, Invariance, PTL

\* What a transaction of confirmBooking or releaseBookingHold reads under its
\* locks still holds when it writes.
THEOREM ReadsStayTrue == Spec => []LockedReadsHold
<1>1. IInv => LockedReadsHold
  BY DEF IInv
<1> QED
  BY <1>1, Invariance, PTL
-----------------------------------------------------------------------------
(* The ledger.  LedgerReconciles is about sums over all bookings; what is  *)
(* proved is what each step adds to both of its sides.                     *)

\* What booking b has added to, less what it took from, the wallet of u, by
\* the transactions rows that refer to b.
Moved(b, u) ==
    IF b \notin BookingIds \/ stay[b] = NoStay THEN 0
    ELSE IF u = Guest(b) THEN 0 - debits[b] * Total(b)
    ELSE IF u = Host(b) THEN credits[b] * Total(b)
    ELSE 0

\* One booking at most moves money in a step, and every balance changes by
\* just what the rows that are inserted with it say.
LedgerStep ==
    \E b \in BookingIds \cup {NoBooking} :
        /\ \A c \in BookingIds \ {b}, u \in Users : Moved(c, u)' = Moved(c, u)
        /\ \A u \in Users :
              balance'[u] - balance[u] = (funded'[u] - funded[u]) + (Moved(b, u)' - Moved(b, u))

\* A step that inserts no row that refers to a booking.
LEMMA NothingMoved ==
  ASSUME IInv, IInv', UNCHANGED <<stay, debits, credits>>,
         \A u \in Users : balance'[u] - balance[u] = funded'[u] - funded[u]
  PROVE  LedgerStep
<1>1. \A c, u : Moved(c, u)' = Moved(c, u)
  BY DEF Moved, Guest, Host, Total
<1>2. ASSUME NEW u \in Users
      PROVE  balance'[u] - balance[u]
                 = (funded'[u] - funded[u]) + (Moved(NoBooking, u)' - Moved(NoBooking, u))
  <2>1. Moved(NoBooking, u)' = 0 /\ Moved(NoBooking, u) = 0
    BY NullAssumption DEF Moved
  <2>2. funded'[u] \in Int /\ funded[u] \in Int
    BY DEF IInv, TypeOK
  <2> QED
    BY <2>1, <2>2
<1> QED
  BY <1>1, <1>2 DEF LedgerStep

\* A step that writes rows that refer to booking b, and nobody's funds.
LEMMA OneMoves ==
  ASSUME IInv, NEW b \in BookingIds, UNCHANGED funded,
         \A c \in BookingIds : c # b =>
             stay'[c] = stay[c] /\ debits'[c] = debits[c] /\ credits'[c] = credits[c],
         \A u \in Users : \E x \in Int :
             balance'[u] = balance[u] + x /\ Moved(b, u)' = Moved(b, u) + x
  PROVE  LedgerStep
<1>1. ASSUME NEW c \in BookingIds \ {b}, NEW u \in Users PROVE Moved(c, u)' = Moved(c, u)
  BY <1>1 DEF Moved, Guest, Host, Total
<1>2. ASSUME NEW u \in Users
      PROVE  balance'[u] - balance[u] = (funded'[u] - funded[u]) + (Moved(b, u)' - Moved(b, u))
  <2>1. funded'[u] - funded[u] = 0 /\ balance[u] \in Int
    BY DEF IInv, TypeOK
  <2>2. PICK x \in Int : balance'[u] = balance[u] + x /\ Moved(b, u)' = Moved(b, u) + x
    OBVIOUS
  <2>3. Moved(b, u) \in Int
    BY StayFacts DEF Moved, IInv, TypeOK, StaysValid
  <2> QED
    BY <2>1, <2>2, <2>3
<1> QED
  BY <1>1, <1>2 DEF LedgerStep

\* A new booking moves nothing: nothing refers to it yet.
LEMMA CreateBookingMoves ==
  ASSUME IInv, NEW b \in BookingIds, NEW l \in Listings, NEW u \in Users, NEW first \in Days,
         NEW last \in Days, CreateBooking(b, l, u, first, last)
  PROVE  LedgerStep
<1>1. stay[b] = NoStay /\ debits[b] = 0 /\ credits[b] = 0
  BY DEF CreateBooking, IInv, StaysValid, StatusMatchesHold, MoneyMovesOnce
<1>2. /\ UNCHANGED <<balance, debits, credits, funded>>
      /\ \A c \in BookingIds : c # b => stay'[c] = stay[c]
  BY DEF CreateBooking, moneyVars, IInv, TypeOK
<1>3. stay'[b].total \in Int
  <2>1. stay'[b].total = Price[l] * (last - first)
    BY DEF CreateBooking, IInv, TypeOK
  <2>2. Price[l] \in Int /\ last - first \in Int
    BY ListingsAssumption, BoundsAssumption DEF Days
  <2>3. \A m, n \in Int : m * n \in Int
    OBVIOUS
  <2> QED
    BY <2>1, <2>2, <2>3
<1>4. ASSUME NEW v \in Users PROVE Moved(b, v)' = 0 /\ Moved(b, v) = 0
  <2>1. Moved(b, v) = 0
    BY <1>1 DEF Moved
  <2>2. 0 - debits'[b] * Total(b)' = 0 /\ credits'[b] * Total(b)' = 0
    BY <1>1, <1>2, <1>3 DEF Total
  <2> QED
    BY <2>1, <2>2 DEF Moved
<1>5. \A v \in Users : balance'[v] = balance[v] + 0 /\ Moved(b, v)' = Moved(b, v) + 0
  BY <1>2, <1>4 DEF IInv, TypeOK
<1> QED
  BY <1>2, <1>5, OneMoves

LEMMA ConfirmationMoves ==
  ASSUME IInv, IInv', NEW p \in Procs, CommitConfirmation(p)
  PROVE  LedgerStep
<1>0. PICK b : b = job[p]
  OBVIOUS
<1>1. /\ b \in BookingIds /\ stay[b] # NoStay /\ debits[b] = 0 /\ credits[b] = 0
      /\ Guest(b) \in Users /\ Guest(b) # Host(b) /\ Total(b) \in Nat /\ seen[p] = balance[Guest(b)]
  BY <1>0, JobFacts DEF CommitConfirmation, IInv, LockedReadsHold, Confirming, Charging,
                  StatusMatchesHold, MoneyMovesOnce
<1>2. CASE UNCHANGED moneyVars /\ UNCHANGED stay
  BY <1>2, NothingMoved DEF moneyVars, IInv, TypeOK
<1>3. CASE /\ balance' = [balance EXCEPT ![Guest(b)] = balance[Guest(b)] - Total(b)]
           /\ debits' = [debits EXCEPT ![b] = @ + 1]
           /\ UNCHANGED <<stay, credits, funded>>
  <2>1. debits'[b] = 1 /\ credits'[b] = 0 /\ stay'[b] = stay[b]
        /\ \A c \in BookingIds : c # b =>
              stay'[c] = stay[c] /\ debits'[c] = debits[c] /\ credits'[c] = credits[c]
    BY <1>1, <1>3 DEF IInv, TypeOK
  <2>2. Guest(b)' = Guest(b) /\ Host(b)' = Host(b) /\ Total(b)' = Total(b)
    BY <2>1 DEF Guest, Host, Total
  <2>3. ASSUME NEW u \in Users
        PROVE  \E x \in Int : balance'[u] = balance[u] + x /\ Moved(b, u)' = Moved(b, u) + x
    <3>1. CASE u = Guest(b)
      <4>1. Moved(b, u) = 0 /\ Moved(b, u)' = 0 - Total(b)
        BY <1>1, <2>1, <2>2, <3>1 DEF Moved
      <4>2. balance'[u] = balance[u] + (0 - Total(b))
        BY <1>1, <1>3, <3>1 DEF IInv, TypeOK
      <4> QED
        BY <1>1, <4>1, <4>2
    <3>2. CASE u # Guest(b)
      <4>1. Moved(b, u) = 0 /\ Moved(b, u)' = 0
        BY <1>1, <2>1, <2>2, <3>2 DEF Moved
      <4>2. balance'[u] = balance[u] + 0
        BY <1>1, <1>3, <3>2 DEF IInv, TypeOK
      <4> QED
        BY <4>1, <4>2
    <3> QED
      BY <3>1, <3>2
  <2> QED
    BY <1>1, <1>3, <2>1, <2>3, OneMoves
<1> QED
  BY <1>0, <1>1, <1>2, <1>3 DEF CommitConfirmation, bookingVars

LEMMA ReleaseMoves ==
  ASSUME IInv, NEW p \in Procs, CommitRelease(p)
  PROVE  LedgerStep
<1>0. PICK b : b = job[p]
  OBVIOUS
<1>1. /\ b \in BookingIds /\ stay[b] # NoStay /\ debits[b] = 1 /\ credits[b] = 0
      /\ Host(b) \in Users /\ Guest(b) # Host(b) /\ Total(b) \in Nat /\ seen[p] = balance[Host(b)]
  BY <1>0, JobFacts DEF CommitRelease, IInv, LockedReadsHold, Releasing, MoneyMovesOnce
<1>2. /\ balance' = [balance EXCEPT ![Host(b)] = balance[Host(b)] + Total(b)]
      /\ credits' = [credits EXCEPT ![b] = @ + 1]
      /\ UNCHANGED <<stay, debits, funded>>
  BY <1>0, <1>1 DEF CommitRelease
<1>3. debits'[b] = 1 /\ credits'[b] = 1 /\ stay'[b] = stay[b]
      /\ \A c \in BookingIds : c # b =>
            stay'[c] = stay[c] /\ debits'[c] = debits[c] /\ credits'[c] = credits[c]
  BY <1>1, <1>2 DEF IInv, TypeOK
<1>4. Guest(b)' = Guest(b) /\ Host(b)' = Host(b) /\ Total(b)' = Total(b)
  BY <1>3 DEF Guest, Host, Total
<1>5. ASSUME NEW u \in Users
      PROVE  \E x \in Int : balance'[u] = balance[u] + x /\ Moved(b, u)' = Moved(b, u) + x
  <2>1. CASE u = Host(b)
    <3>1. Moved(b, u) = 0 /\ Moved(b, u)' = Total(b)
      BY <1>1, <1>3, <1>4, <2>1 DEF Moved
    <3>2. balance'[u] = balance[u] + Total(b)
      BY <1>1, <1>2, <2>1 DEF IInv, TypeOK
    <3> QED
      BY <1>1, <3>1, <3>2
  <2>2. CASE u # Host(b)
    <3>1. Moved(b, u)' = Moved(b, u) /\ Moved(b, u) \in Int
      BY <1>1, <1>3, <1>4, <2>2 DEF Moved
    <3>2. balance'[u] = balance[u] + 0
      BY <1>1, <1>2, <2>2 DEF IInv, TypeOK
    <3> QED
      BY <3>1, <3>2
  <2> QED
    BY <2>1, <2>2
<1> QED
  BY <1>1, <1>2, <1>3, <1>5, OneMoves

LEMMA LedgerSteps == IInv /\ [Next]_vars => LedgerStep
<1> SUFFICES ASSUME IInv, [Next]_vars PROVE LedgerStep
  OBVIOUS
<1>1. IInv'
  BY NextIInv
<1>2. ASSUME UNCHANGED <<stay, balance, debits, credits, funded>> PROVE LedgerStep
  BY <1>1, <1>2, NothingMoved DEF IInv, TypeOK
<1>3. ASSUME NEW u \in Users, NEW a \in Amounts, TopUp(u, a) \/ Deduct(u, a) PROVE LedgerStep
  <2>1. UNCHANGED <<stay, debits, credits>>
    BY <1>3 DEF TopUp, Deduct, bookingVars
  <2>2. \A v \in Users : balance'[v] - balance[v] = funded'[v] - funded[v]
    <3>1. a \in Nat /\ \A v \in Users : balance[v] \in Int /\ funded[v] \in Int
      BY BoundsAssumption DEF IInv, TypeOK
    <3> QED
      BY <1>3, <3>1 DEF TopUp, Deduct, IInv, TypeOK
  <2> QED
    BY <1>1, <2>1, <2>2, NothingMoved
<1>4. ASSUME NEW p \in Procs, TransactionStep(p) PROVE LedgerStep
  BY <1>1, <1>2, <1>4, ConfirmationMoves, ReleaseMoves
  DEF TransactionStep, LockBooking, EnsureAvailableForConfirmation, LockGuestWallet, LockHostWallet,
      InsertHostWallet, SaveCancelled, LockHold, LockBookingOfHold, LockPayeeWallet,
      Unwritten, bookingVars, moneyVars
<1> QED
  BY <1>2, <1>3, <1>4, CreateBookingMoves
  DEF Next, Tick, ListingChanges, GetOrCreateWallet, ConfirmBooking, DeclineBooking, CancelBooking,
      ReleaseDueBookingHolds, Crash, AbortDeadlocked, Unwritten, bookingVars, moneyVars, vars

\* Every balance changes by what the transactions rows inserted with it say,
\* though it is written as a value computed from an earlier read, and no step
\* moves money for two bookings (confirmBooking, releaseBookingHold, topUp,
\* deduct).
THEOREM BalancesMoveWithRows == Spec => [][LedgerStep]_vars
BY LedgerSteps, Invariance, PTL DEF Spec
-----------------------------------------------------------------------------
(* Sums over finite sets.  The induction theorems of the library take an   *)
(* operator; here the same follows from the least element of a set.        *)

\* A nonempty set of naturals has a least element.
LEMMA LeastNatural ==
  ASSUME NEW T, T \subseteq Nat, T # {}
  PROVE  \E n \in T : \A m \in T : n <= m
<1> DEFINE U == {0 .. n : n \in T}
<1>1. U \subseteq FiniteSubsetsOf(Nat) /\ U # {}
  <2>1. ASSUME NEW n \in T PROVE 0 .. n \in SUBSET Nat /\ IsFiniteSet(0 .. n)
    BY FS_Interval
  <2>2. QED
    BY <2>1 DEF FiniteSubsetsOf
<1>2. PICK u \in U : \A v \in U : <<v, u>> \notin StrictSubsetOrdering(Nat)
  BY <1>1, FS_StrictSubsetOrderingWellFounded, WFMin
<1>3. PICK n \in T : u = 0 .. n
  BY <1>2
<1>4. ASSUME NEW m \in T, m < n PROVE FALSE
  <2>1. 0 .. m \in U /\ 0 .. m \subseteq 0 .. n /\ 0 .. m # 0 .. n
    BY <1>4
  <2>2. <<0 .. m, 0 .. n>> \in StrictSubsetOrdering(Nat)
    BY <1>1, <1>3, <1>4, <2>1, SMT DEF StrictSubsetOrdering, FiniteSubsetsOf
  <2>3. QED
    BY <1>2, <1>3, <2>1, <2>2
<1> QED
  BY <1>4

FirstOf(s) == CHOOSE x \in s : TRUE

\* g is the function that MapThenSumSet computes sums with.
IsSum(g, w, S) ==
    g = [s \in SUBSET S |-> IF s = {} THEN 0 ELSE w[FirstOf(s)] + g[s \ {FirstOf(s)}]]

Small(S, n) == {s \in SUBSET S : Cardinality(s) <= n}

IsSumUpTo(g, w, S, n) ==
    g = [s \in Small(S, n) |-> IF s = {} THEN 0 ELSE w[FirstOf(s)] + g[s \ {FirstOf(s)}]]

LEMMA FirstIsIn == \A s : s # {} => FirstOf(s) \in s
BY DEF FirstOf

LEMMA SumExists ==
  ASSUME NEW S, IsFiniteSet(S), NEW w
  PROVE  \E g : IsSum(g, w, S)
<1> DEFINE T == {n \in Nat : ~ \E g : IsSumUpTo(g, w, S, n)}
<1>1. T = {}
  <2>1. SUFFICES ASSUME T # {} PROVE FALSE
    OBVIOUS
  <2>2. PICK n \in T : \A m \in T : n <= m
    BY <2>1, LeastNatural
  <2>3. CASE n = 0
    <3> DEFINE g == [s \in Small(S, 0) |-> 0]
    <3>1. \A s \in Small(S, 0) : s = {}
      BY FS_EmptySet, FS_Subset, FS_CardinalityType DEF Small
    <3>2. IsSumUpTo(g, w, S, 0)
      BY <3>1 DEF IsSumUpTo
    <3>3. QED
      BY <2>2, <2>3, <3>2
  <2>4. CASE n # 0
    <3>1. n - 1 \in Nat /\ n - 1 \notin T
      BY <2>2, <2>4
    <3>2. PICK g : IsSumUpTo(g, w, S, n - 1)
      BY <3>1
    <3> DEFINE f == [s \in SUBSET S |-> IF s = {} THEN 0 ELSE w[FirstOf(s)] + g[s \ {FirstOf(s)}]]
    <3> DEFINE h == [s \in Small(S, n) |-> f[s]]
    <3>3. ASSUME NEW s \in Small(S, n - 1) PROVE g[s] = f[s]
      BY <3>2, <3>3 DEF IsSumUpTo, Small
    <3>4. ASSUME NEW s \in Small(S, n), s # {} PROVE s \ {FirstOf(s)} \in Small(S, n - 1)
      <4>1. IsFiniteSet(s) /\ FirstOf(s) \in s /\ Cardinality(s) \in Nat
        BY <3>4, FS_Subset, FirstIsIn, FS_CardinalityType DEF Small
      <4>2. Cardinality(s \ {FirstOf(s)}) = Cardinality(s) - 1
        BY <4>1, FS_RemoveElement
      <4>3. QED
        BY <2>2, <3>4, <4>1, <4>2 DEF Small
    <3>5. Small(S, n - 1) \subseteq Small(S, n)
      BY <2>2, FS_Subset, FS_CardinalityType DEF Small
    <3>6. ASSUME NEW s \in Small(S, n), s # {} PROVE h[s] = w[FirstOf(s)] + h[s \ {FirstOf(s)}]
      BY <3>3, <3>4, <3>5, <3>6 DEF Small
    <3>7. ASSUME NEW s \in Small(S, n), s = {} PROVE h[s] = 0
      BY <3>7 DEF Small
    <3>8. IsSumUpTo(h, w, S, n)
      <4> HIDE DEF f
      <4> QED BY <3>6, <3>7 DEF IsSumUpTo
    <3>9. QED
      BY <2>2, <3>8
  <2>5. QED
    BY <2>3, <2>4
<1>2. Cardinality(S) \in Nat /\ Small(S, Cardinality(S)) = SUBSET S
  BY FS_Subset, FS_CardinalityType DEF Small
<1>3. PICK g : IsSumUpTo(g, w, S, Cardinality(S))
  BY <1>1, <1>2
<1>4. IsSum(g, w, S)
  BY <1>2, <1>3 DEF IsSum, IsSumUpTo
<1>5. QED
  BY <1>4


\* What holds of the empty set, and of a set if it holds of the set without
\* any one of its elements, holds of every finite set.
LEMMA SetInduction ==
  ASSUME NEW S, IsFiniteSet(S), NEW G, {} \in G,
         \A s \in SUBSET S : s # {} /\ (\A x \in s : s \ {x} \in G) => s \in G
  PROVE  SUBSET S \subseteq G
<1> DEFINE T == {Cardinality(s) : s \in (SUBSET S) \ G}
<1>1. SUFFICES ASSUME T # {} PROVE FALSE
  OBVIOUS
<1>2. \A s \in SUBSET S : IsFiniteSet(s) /\ Cardinality(s) \in Nat
  BY FS_Subset, FS_CardinalityType
<1>3. T \subseteq Nat
  BY <1>2
<1>4. PICK n \in T : \A m \in T : n <= m
  BY <1>1, <1>3, LeastNatural
<1>5. PICK s \in (SUBSET S) \ G : n = Cardinality(s)
  BY <1>4
<1>6. ASSUME NEW x \in s PROVE s \ {x} \in G
  <2>1. Cardinality(s \ {x}) = Cardinality(s) - 1
    BY <1>2, <1>5, <1>6, FS_RemoveElement
  <2>2. Cardinality(s \ {x}) \notin T
    BY <1>2, <1>4, <1>5, <2>1
  <2>3. QED
    BY <1>5, <2>2
<1>7. QED
  BY <1>5, <1>6


LEMMA SumIsInt ==
  ASSUME NEW S, IsFiniteSet(S), NEW w, \A x \in S : w[x] \in Int, NEW g, IsSum(g, w, S)
  PROVE  \A s \in SUBSET S : g[s] \in Int
<1> DEFINE G == {s \in SUBSET S : g[s] \in Int}
<1>1. {} \in G
  BY DEF IsSum
<1>2. ASSUME NEW s \in SUBSET S, s # {}, \A x \in s : s \ {x} \in G
      PROVE  s \in G
  <2>1. FirstOf(s) \in s /\ g[s] = w[FirstOf(s)] + g[s \ {FirstOf(s)}]
    BY <1>2, FirstIsIn DEF IsSum
  <2>2. w[FirstOf(s)] \in Int /\ g[s \ {FirstOf(s)}] \in Int
    BY <1>2, <2>1
  <2>3. QED
    BY <2>1, <2>2
<1>3. SUBSET S \subseteq G
  <2> HIDE DEF G
  <2> QED BY <1>1, <1>2, SetInduction
<1>4. QED
  BY <1>3

\* The terms of a sum may be added in any order.
LEMMA SumTakesAny ==
  ASSUME NEW S, IsFiniteSet(S), NEW w, \A x \in S : w[x] \in Int, NEW g, IsSum(g, w, S)
  PROVE  \A s \in SUBSET S : \A x \in s : g[s] = w[x] + g[s \ {x}]
<1> DEFINE G == {s \in SUBSET S : \A x \in s : g[s] = w[x] + g[s \ {x}]}
<1>1. \A s \in SUBSET S : g[s] \in Int
  BY SumIsInt
<1>2. ASSUME NEW s \in SUBSET S, s # {}, \A x \in s : s \ {x} \in G
      PROVE  s \in G
  <2> DEFINE y == FirstOf(s)
  <2>1. y \in s /\ g[s] = w[y] + g[s \ {y}]
    BY <1>2, FirstIsIn DEF IsSum
  <2> HIDE DEF y
  <2>2. ASSUME NEW x \in s, x # y PROVE g[s] = w[x] + g[s \ {x}]
    <3>1. g[s \ {y}] = w[x] + g[(s \ {y}) \ {x}]
      BY <1>2, <2>1, <2>2
    <3>2. g[s \ {x}] = w[y] + g[(s \ {x}) \ {y}]
      BY <1>2, <2>1, <2>2
    <3>3. (s \ {y}) \ {x} = (s \ {x}) \ {y}
      OBVIOUS
    <3>4. w[x] \in Int /\ w[y] \in Int /\ g[(s \ {x}) \ {y}] \in Int
      <4>1. (s \ {x}) \ {y} \in SUBSET S /\ x \in S /\ y \in S
        BY <2>1
      <4>2. QED
        BY <1>1, <4>1
    <3>5. g[s] = w[y] + (w[x] + g[(s \ {x}) \ {y}])
      BY <2>1, <3>1, <3>3
    <3>6. QED
      BY <3>2, <3>4, <3>5
  <2>3. QED
    BY <2>1, <2>2
<1>3. SUBSET S \subseteq G
  <2>1. {} \in G
    OBVIOUS
  <2> HIDE DEF G
  <2> QED BY <1>2, <2>1, SetInduction
<1>4. QED
  BY <1>3

\* Two sums whose terms differ in one place at most.
LEMMA SumsDiffer ==
  ASSUME NEW S, IsFiniteSet(S), NEW v, \A x \in S : v[x] \in Int, NEW g, IsSum(g, v, S),
         NEW R, IsFiniteSet(R), NEW w, \A x \in R : w[x] \in Int, NEW h, IsSum(h, w, R),
         S \subseteq R, NEW b, \A x \in S \ {b} : w[x] = v[x]
  PROVE  \A s \in SUBSET S : h[s] = g[s] + (IF b \in s THEN w[b] - v[b] ELSE 0)
<1> DEFINE G == {s \in SUBSET S : h[s] = g[s] + (IF b \in s THEN w[b] - v[b] ELSE 0)}
<1>1. g[{}] = 0 /\ h[{}] = 0
  BY DEF IsSum
<1>2. ASSUME NEW s \in SUBSET S, s # {}, \A x \in s : s \ {x} \in G
      PROVE  s \in G
  <2>1. PICK y \in s : TRUE
    BY <1>2
  <2>2. g[s] = v[y] + g[s \ {y}] /\ h[s] = w[y] + h[s \ {y}]
    <3>1. s \in SUBSET R
      OBVIOUS
    <3>2. QED
      BY <3>1, SumTakesAny
  <2>3. h[s \ {y}] = g[s \ {y}] + (IF b \in s \ {y} THEN w[b] - v[b] ELSE 0)
    BY <1>2
  <2>4. g[s \ {y}] \in Int /\ v[y] \in Int /\ w[y] \in Int
    <3>1. s \ {y} \in SUBSET S
      OBVIOUS
    <3>2. QED
      BY <3>1, SumIsInt
  <2>5. CASE y = b
    BY <2>2, <2>3, <2>4, <2>5
  <2>6. CASE y # b
    <3>1. w[y] = v[y]
      BY <2>6
    <3>2. (b \in s \ {y}) = (b \in s) /\ (b \in s => w[b] \in Int /\ v[b] \in Int)
      BY <2>6
    <3>3. QED
      BY <2>2, <2>3, <2>4, <3>1, <3>2
  <2>7. QED
    BY <2>5, <2>6
<1>3. SUBSET S \subseteq G
  <2>1. {} \in G
    BY <1>1
  <2> HIDE DEF G
  <2> QED BY <1>2, <2>1, SetInduction
<1>4. QED
  BY <1>3

\* A sum of terms that are earned, less what others are spent.
LEMMA SumsSplit ==
  ASSUME NEW S, IsFiniteSet(S), NEW w, \A x \in S : w[x] \in Int, NEW g, IsSum(g, w, S),
         NEW A, A \subseteq S, NEW v, \A x \in A : v[x] \in Int, NEW f, IsSum(f, v, A),
         NEW B, B \subseteq S, NEW u, \A x \in B : u[x] \in Int, NEW h, IsSum(h, u, B),
         A \cap B = {}, \A x \in A : w[x] = 0 - v[x], \A x \in B : w[x] = u[x],
         \A x \in S \ (A \cup B) : w[x] = 0
  PROVE  g[S] = h[B] - f[A]
<1> DEFINE G == {s \in SUBSET S : g[s] = h[s \cap B] - f[s \cap A]}
<1>1. g[{}] = 0 /\ h[{}] = 0 /\ f[{}] = 0
  BY DEF IsSum
<1>2. IsFiniteSet(A) /\ IsFiniteSet(B)
  BY FS_Subset
<1>3. ASSUME NEW s \in SUBSET S, s # {}, \A x \in s : s \ {x} \in G
      PROVE  g[s] = h[s \cap B] - f[s \cap A]
  <2>1. PICK y \in s : TRUE
    BY <1>3
  <2>2. g[s] = w[y] + g[s \ {y}]
    BY SumTakesAny
  <2>3. g[s \ {y}] = h[(s \ {y}) \cap B] - f[(s \ {y}) \cap A]
    BY <1>3
  <2>4. h[(s \ {y}) \cap B] \in Int /\ f[(s \ {y}) \cap A] \in Int
    <3>1. (s \ {y}) \cap B \in SUBSET B /\ (s \ {y}) \cap A \in SUBSET A
      OBVIOUS
    <3>2. QED
      BY <1>2, <3>1, SumIsInt
  <2>5. CASE y \in A
    <3>1. h[(s \ {y}) \cap B] = h[s \cap B] /\ f[(s \ {y}) \cap A] = f[(s \cap A) \ {y}]
      <4>1. (s \ {y}) \cap B = s \cap B /\ (s \ {y}) \cap A = (s \cap A) \ {y}
        BY <2>5
      <4>2. QED
        BY <4>1
    <3>2. f[s \cap A] = v[y] + f[(s \cap A) \ {y}]
      <4>1. s \cap A \in SUBSET A /\ y \in s \cap A
        BY <2>5
      <4>2. QED
        BY <1>2, <4>1, SumTakesAny
    <3>3. v[y] \in Int /\ w[y] = 0 - v[y]
      BY <2>5
    <3>4. QED
      BY <2>2, <2>3, <2>4, <3>1, <3>2, <3>3
  <2>6. CASE y \in B
    <3>1. f[(s \ {y}) \cap A] = f[s \cap A] /\ h[(s \ {y}) \cap B] = h[(s \cap B) \ {y}]
      <4>1. (s \ {y}) \cap A = s \cap A /\ (s \ {y}) \cap B = (s \cap B) \ {y}
        BY <2>6
      <4>2. QED
        BY <4>1
    <3>2. h[s \cap B] = u[y] + h[(s \cap B) \ {y}]
      <4>1. s \cap B \in SUBSET B /\ y \in s \cap B
        BY <2>6
      <4>2. QED
        BY <1>2, <4>1, SumTakesAny
    <3>3. u[y] \in Int /\ w[y] = u[y]
      BY <2>6
    <3>4. QED
      BY <2>2, <2>3, <2>4, <3>1, <3>2, <3>3
  <2>7. CASE y \notin A \cup B
    <3>1. f[(s \ {y}) \cap A] = f[s \cap A] /\ h[(s \ {y}) \cap B] = h[s \cap B] /\ w[y] = 0
      <4>1. (s \ {y}) \cap A = s \cap A /\ (s \ {y}) \cap B = s \cap B /\ y \in S
        BY <2>7
      <4>2. QED
        BY <2>7, <4>1
    <3>2. QED
      BY <2>2, <2>3, <2>4, <3>1
  <2>8. QED
    BY <2>5, <2>6, <2>7
<1>4. SUBSET S \subseteq G
  <2>1. {} \in G
    BY <1>1
  <2>2. \A s \in SUBSET S : s # {} /\ (\A x \in s : s \ {x} \in G) => s \in G
    BY <1>3
  <2> HIDE DEF G
  <2> QED BY <2>1, <2>2, SetInduction
<1>5. S \cap A = A /\ S \cap B = B
  OBVIOUS
<1>6. QED
  BY <1>4, <1>5

\* Terms that are 0 add nothing.
LEMMA SumsGrow ==
  ASSUME NEW S, NEW R, IsFiniteSet(R), S \subseteq R, NEW w, \A x \in R : w[x] \in Int,
         \A x \in R \ S : w[x] = 0, NEW g, IsSum(g, w, S), NEW h, IsSum(h, w, R)
  PROVE  h[R] = g[S]
<1> DEFINE G == {s \in SUBSET R : h[s] = g[s \cap S]}
<1>1. g[{}] = 0 /\ h[{}] = 0
  BY DEF IsSum
<1>2. IsFiniteSet(S)
  BY FS_Subset
<1>3. ASSUME NEW s \in SUBSET R, s # {}, \A x \in s : s \ {x} \in G
      PROVE  h[s] = g[s \cap S]
  <2>1. PICK y \in s : TRUE
    BY <1>3
  <2>2. h[s] = w[y] + h[s \ {y}] /\ h[s \ {y}] = g[(s \ {y}) \cap S]
    <3>1. s \ {y} \in G
      BY <1>3
    <3>2. QED
      BY <3>1, SumTakesAny
  <2>3. CASE y \in S
    <3>1. s \cap S \in SUBSET S /\ y \in s \cap S /\ (s \ {y}) \cap S = (s \cap S) \ {y}
      BY <2>3
    <3>2. g[s \cap S] = w[y] + g[(s \cap S) \ {y}]
      BY <1>2, <3>1, SumTakesAny
    <3>3. QED
      BY <2>2, <3>1, <3>2
  <2>4. CASE y \notin S
    <3>1. (s \ {y}) \cap S = s \cap S /\ s \cap S \in SUBSET S /\ w[y] = 0
      BY <2>4
    <3>2. g[s \cap S] \in Int /\ g[(s \ {y}) \cap S] = g[s \cap S]
      BY <1>2, <3>1, SumIsInt
    <3>3. QED
      BY <2>2, <3>1, <3>2
  <2>5. QED
    BY <2>3, <2>4
<1>4. SUBSET R \subseteq G
  <2>1. {} \in G
    BY <1>1
  <2>2. \A s \in SUBSET R : s # {} /\ (\A x \in s : s \ {x} \in G) => s \in G
    BY <1>3
  <2> HIDE DEF G
  <2> QED BY <2>1, <2>2, SetInduction
<1>5. R \cap S = S
  OBVIOUS
<1>6. QED
  BY <1>4, <1>5

-----------------------------------------------------------------------------
(* The ledger reconciles.                                                  *)

Made == {b \in BookingIds : stay[b] # NoStay}
Moves(u) == [b \in BookingIds |-> Moved(b, u)]

\* Finitely many bookings were made, and each balance is what its owner put
\* in and what these have moved.
LedgerInv ==
    /\ IsFiniteSet(Made)
    /\ \A u \in Users : \E g : IsSum(g, Moves(u), Made) /\ balance[u] = funded[u] + g[Made]

MovesOK == \A b \in BookingIds, u \in Users : Moved(b, u) \in Int /\ Moves(u)[b] = Moved(b, u)

LEMMA MovesAreInts == IInv => MovesOK
BY StayFacts DEF MovesOK, Moved, Moves, IInv, TypeOK, StaysValid

LEMMA MovesStayInts == IInv' => MovesOK'
BY MovesAreInts, PTL

\* A step makes one booking at most.
LEMMA MadeGrows ==
    IInv /\ [Next]_vars => Made' = Made \/ \E b \in BookingIds : Made' = Made \cup {b}
<1> SUFFICES ASSUME IInv, [Next]_vars
             PROVE  Made' = Made \/ \E b \in BookingIds : Made' = Made \cup {b}
  OBVIOUS
<1>1. CASE stay' = stay
  BY <1>1 DEF Made
<1>2. ASSUME NEW b \in BookingIds, NEW l \in Listings, NEW u \in Users, NEW first \in Days,
             NEW last \in Days, CreateBooking(b, l, u, first, last)
      PROVE  Made' = Made \cup {b}
  <2>1. stay'[b] # NoStay
    BY <1>2, NextIInv DEF CreateBooking, IInv, StaysValid, TypeOK
  <2>2. \A c \in BookingIds : c # b => stay'[c] = stay[c]
    BY <1>2 DEF CreateBooking, IInv, TypeOK
  <2>3. QED
    BY <2>1, <2>2 DEF Made
<1>3. QED
  BY <1>1, <1>2
  DEF Next, Tick, ListingChanges, GetOrCreateWallet, TopUp, Deduct, ConfirmBooking, DeclineBooking,
      CancelBooking, ReleaseDueBookingHolds, TransactionStep, LockBooking,
      EnsureAvailableForConfirmation, LockGuestWallet, LockHostWallet, InsertHostWallet,
      CommitConfirmation, SaveCancelled, LockHold, LockBookingOfHold, LockPayeeWallet, CommitRelease,
      Crash, AbortDeadlocked, Unwritten, bookingVars, moneyVars, vars

LEMMA LedgerNext == IInv /\ LedgerInv /\ [Next]_vars => LedgerInv'
<1> SUFFICES ASSUME IInv, LedgerInv, [Next]_vars PROVE LedgerInv'
  OBVIOUS
<1>1. IInv'
  BY NextIInv
<1>2. IsFiniteSet(Made') /\ Made \subseteq Made' /\ IsFiniteSet(Made)
  BY MadeGrows, FS_AddElement DEF LedgerInv
<1>3. \A b \in Made' \ Made : \A u \in Users : Moved(b, u) = 0
  BY DEF Made, Moved
<1>4. PICK b \in BookingIds \cup {NoBooking} :
        /\ \A c \in BookingIds \ {b}, u \in Users : Moved(c, u)' = Moved(c, u)
        /\ \A u \in Users :
              balance'[u] - balance[u] = (funded'[u] - funded[u]) + (Moved(b, u)' - Moved(b, u))
  BY LedgerSteps DEF LedgerStep
<1>5. ASSUME NEW u \in Users
      PROVE  \E h : IsSum(h, Moves(u)', Made') /\ balance'[u] = funded'[u] + h[Made']
  <2>1. PICK g : IsSum(g, Moves(u), Made) /\ balance[u] = funded[u] + g[Made]
    BY DEF LedgerInv
  <2>2. PICK f : IsSum(f, Moves(u), Made')
    BY <1>2, SumExists
  <2>3. PICK h : IsSum(h, Moves(u)', Made')
    BY <1>2, SumExists
  <2>4. Made' \subseteq BookingIds /\ Made \subseteq BookingIds
    BY DEF Made
  <2>5. \A c \in BookingIds : Moves(u)[c] = Moved(c, u) /\ Moved(c, u) \in Int
    BY MovesAreInts DEF MovesOK
  <2>6. \A c \in BookingIds : Moves(u)'[c] = Moved(c, u)' /\ Moved(c, u)' \in Int
    BY <1>1, MovesStayInts DEF MovesOK
  <2>7. f[Made'] = g[Made]
    BY <1>2, <1>3, <2>1, <2>2, <2>4, <2>5, SumsGrow
  <2>8. h[Made'] = f[Made'] + (IF b \in Made' THEN Moved(b, u)' - Moved(b, u) ELSE 0)
    <3>1. \A c \in Made' \ {b} : Moves(u)'[c] = Moves(u)[c]
      BY <1>4, <2>4, <2>5, <2>6
    <3>2. h[Made'] = f[Made'] + (IF b \in Made' THEN Moves(u)'[b] - Moves(u)[b] ELSE 0)
      BY <1>2, <2>2, <2>3, <2>4, <2>5, <2>6, <3>1, SumsDiffer
    <3>3. QED
      BY <2>4, <2>5, <2>6, <3>2
  <2>9. b \notin Made' => Moved(b, u)' = 0 /\ Moved(b, u) = 0
    BY <1>2 DEF Made, Moved
  <2>10. /\ balance[u] \in Int /\ funded[u] \in Int /\ balance'[u] \in Int /\ funded'[u] \in Int
         /\ g[Made] \in Int
    BY <1>1, <1>2, <2>1, <2>4, <2>5, SumIsInt DEF IInv, TypeOK
  <2>11. b \in Made' => Moved(b, u)' \in Int /\ Moved(b, u) \in Int
    BY <2>4, <2>5, <2>6
  <2>12. balance'[u] - balance[u] = (funded'[u] - funded[u]) + (Moved(b, u)' - Moved(b, u))
    BY <1>4
  <2>13. balance'[u] = funded'[u] + h[Made']
    <3>1. CASE b \in Made'
      BY <2>1, <2>7, <2>8, <2>10, <2>11, <2>12, <3>1
    <3>2. CASE b \notin Made'
      BY <2>1, <2>7, <2>8, <2>9, <2>10, <2>12, <3>2
    <3>3. QED
      BY <3>1, <3>2
  <2>14. QED
    BY <2>3, <2>13
<1>6. QED
  BY <1>2, <1>5 DEF LedgerInv

LEMMA LedgerInit == Init => LedgerInv
<1> SUFFICES ASSUME Init PROVE LedgerInv
  OBVIOUS
<1>1. Made = {}
  BY DEF Init, Made
<1>2. IsFiniteSet(Made)
  BY <1>1, FS_EmptySet
<1>3. ASSUME NEW u \in Users
      PROVE  \E g : IsSum(g, Moves(u), Made) /\ balance[u] = funded[u] + g[Made]
  <2>1. PICK g : IsSum(g, Moves(u), Made)
    BY <1>2, SumExists
  <2>2. g[Made] = 0 /\ balance[u] = 0 /\ funded[u] = 0
    BY <1>1, <2>1 DEF IsSum, Init
  <2>3. QED
    BY <2>1, <2>2
<1>4. QED
  BY <1>2, <1>3 DEF LedgerInv

Spent(u) == {b \in BookingIds : stay[b] # NoStay /\ Guest(b) = u}
Earned(u) == {b \in BookingIds : stay[b] # NoStay /\ Host(b) = u}

\* MapThenSumSet computes the sums of LedgerReconciles as IsSum says.
LEMMA SpentSum ==
  ASSUME NEW u, IsFiniteSet(Spent(u))
  PROVE  \E f : /\ IsSum(f, [b \in BookingIds |-> debits[b] * Total(b)], Spent(u))
                /\ MapThenSumSet(LAMBDA b : debits[b] * Total(b), Spent(u)) = f[Spent(u)]
<1> DEFINE S == Spent(u)
<1> DEFINE w == [b \in BookingIds |-> debits[b] * Total(b)]
<1> DEFINE h == CHOOSE f : f = [s \in SUBSET S |->
                    IF s = {} THEN 0 ELSE debits[FirstOf(s)] * Total(FirstOf(s)) + f[s \ {FirstOf(s)}]]
<1>1. \A s \in SUBSET S : s # {} => w[FirstOf(s)] = debits[FirstOf(s)] * Total(FirstOf(s))
  BY FirstIsIn DEF Spent
<1>2. \E f : IsSum(f, w, S)
  BY SumExists
<1>3. \E f : f = [s \in SUBSET S |->
          IF s = {} THEN 0 ELSE debits[FirstOf(s)] * Total(FirstOf(s)) + f[s \ {FirstOf(s)}]]
  <2> HIDE DEF w, S
  <2> QED BY <1>1, <1>2 DEF IsSum
<1>4. h = [s \in SUBSET S |->
          IF s = {} THEN 0 ELSE debits[FirstOf(s)] * Total(FirstOf(s)) + h[s \ {FirstOf(s)}]]
  <2> HIDE DEF w, S
  <2> QED BY <1>3
<1>5. IsSum(h, w, S)
  <2> HIDE DEF w, S, h
  <2> QED BY <1>1, <1>4 DEF IsSum
<1>6. MapThenSumSet(LAMBDA b : debits[b] * Total(b), S) = h[S]
  <2> HIDE DEF S
  <2> QED BY DEF MapThenSumSet, MapThenFoldSet, FirstOf
<1>7. QED
  BY <1>5, <1>6

LEMMA EarnedSum ==
  ASSUME NEW u, IsFiniteSet(Earned(u))
  PROVE  \E f : /\ IsSum(f, [b \in BookingIds |-> credits[b] * Total(b)], Earned(u))
                /\ MapThenSumSet(LAMBDA b : credits[b] * Total(b), Earned(u)) = f[Earned(u)]
<1> DEFINE S == Earned(u)
<1> DEFINE w == [b \in BookingIds |-> credits[b] * Total(b)]
<1> DEFINE h == CHOOSE f : f = [s \in SUBSET S |->
                    IF s = {} THEN 0 ELSE credits[FirstOf(s)] * Total(FirstOf(s)) + f[s \ {FirstOf(s)}]]
<1>1. \A s \in SUBSET S : s # {} => w[FirstOf(s)] = credits[FirstOf(s)] * Total(FirstOf(s))
  BY FirstIsIn DEF Earned
<1>2. \E f : IsSum(f, w, S)
  BY SumExists
<1>3. \E f : f = [s \in SUBSET S |->
          IF s = {} THEN 0 ELSE credits[FirstOf(s)] * Total(FirstOf(s)) + f[s \ {FirstOf(s)}]]
  <2> HIDE DEF w, S
  <2> QED BY <1>1, <1>2 DEF IsSum
<1>4. h = [s \in SUBSET S |->
          IF s = {} THEN 0 ELSE credits[FirstOf(s)] * Total(FirstOf(s)) + h[s \ {FirstOf(s)}]]
  <2> HIDE DEF w, S
  <2> QED BY <1>3
<1>5. IsSum(h, w, S)
  <2> HIDE DEF w, S, h
  <2> QED BY <1>1, <1>4 DEF IsSum
<1>6. MapThenSumSet(LAMBDA b : credits[b] * Total(b), S) = h[S]
  <2> HIDE DEF S
  <2> QED BY DEF MapThenSumSet, MapThenFoldSet, FirstOf
<1>7. QED
  BY <1>5, <1>6

LEMMA LedgerAgrees == IInv /\ LedgerInv => LedgerReconciles
<1> SUFFICES ASSUME IInv, LedgerInv, NEW u \in Users
             PROVE  balance[u] = funded[u]
                                 - MapThenSumSet(LAMBDA b : debits[b] * Total(b), Spent(u))
                                 + MapThenSumSet(LAMBDA b : credits[b] * Total(b), Earned(u))
  BY DEF LedgerReconciles, Spent, Earned
<1> DEFINE v == [b \in BookingIds |-> debits[b] * Total(b)]
<1> DEFINE w == [b \in BookingIds |-> credits[b] * Total(b)]
<1>1. PICK g : IsSum(g, Moves(u), Made) /\ balance[u] = funded[u] + g[Made]
  BY DEF LedgerInv
<1>2. IsFiniteSet(Made) /\ Spent(u) \subseteq Made /\ Earned(u) \subseteq Made
  BY DEF LedgerInv, Spent, Earned, Made
<1>3. IsFiniteSet(Spent(u)) /\ IsFiniteSet(Earned(u))
  BY <1>2, FS_Subset
<1> DEFINE spent == MapThenSumSet(LAMBDA b : debits[b] * Total(b), Spent(u))
<1> DEFINE earned == MapThenSumSet(LAMBDA b : credits[b] * Total(b), Earned(u))
<1>4. PICK f : IsSum(f, v, Spent(u)) /\ spent = f[Spent(u)]
  BY <1>3, SpentSum
<1>5. PICK h : IsSum(h, w, Earned(u)) /\ earned = h[Earned(u)]
  BY <1>3, EarnedSum
<1>6. ASSUME NEW b \in Made
      PROVE  /\ v[b] = debits[b] * Total(b) /\ w[b] = credits[b] * Total(b)
             /\ v[b] \in Int /\ w[b] \in Int /\ Guest(b) # Host(b)
             /\ Moves(u)[b] = Moved(b, u) /\ Moved(b, u) \in Int
  BY <1>6, StayFacts, MovesAreInts DEF MovesOK, IInv, TypeOK, StaysValid, Made
<1>7. \A b \in Spent(u) : v[b] \in Int /\ Moves(u)[b] = 0 - v[b]
  BY <1>2, <1>6 DEF Spent, Made, Moved
<1>8. \A b \in Earned(u) : w[b] \in Int /\ Moves(u)[b] = w[b]
  BY <1>2, <1>6 DEF Earned, Made, Moved
<1>9. \A b \in Made : Moves(u)[b] \in Int /\ (b \notin Spent(u) \cup Earned(u) => Moves(u)[b] = 0)
  BY <1>6 DEF Spent, Earned, Made, Moved
<1>10. Spent(u) \cap Earned(u) = {}
  BY <1>2, <1>6 DEF Spent, Earned
<1>11. g[Made] = h[Earned(u)] - f[Spent(u)]
  <2> HIDE DEF v, w, spent, earned
  <2> QED BY <1>1, <1>2, <1>4, <1>5, <1>7, <1>8, <1>9, <1>10, SumsSplit
<1>12. h[Earned(u)] \in Int /\ f[Spent(u)] \in Int /\ funded[u] \in Int
  <2> HIDE DEF v, w, spent, earned
  <2> QED BY <1>3, <1>4, <1>5, <1>7, <1>8, SumIsInt DEF IInv, TypeOK
<1>13. balance[u] = funded[u] - spent + earned
  <2> HIDE DEF spent, earned
  <2> QED BY <1>1, <1>4, <1>5, <1>11, <1>12
<1>14. QED
  BY <1>13

\* Every wallet's balance is what its transactions rows add up to, however
\* confirmations, releases, top-ups and charges meet, for any number of
\* bookings: confirmBooking, releaseBookingHold, topUp and deduct write a
\* balance that was computed from one they read.
THEOREM BalancesAddUp == Spec => []LedgerReconciles
<1>1. Init => LedgerInv
  BY LedgerInit
<1>2. IInv /\ LedgerInv /\ [Next]_vars => LedgerInv'
  BY LedgerNext
<1>3. IInv /\ LedgerInv => LedgerReconciles
  BY LedgerAgrees
<1>4. QED
  BY <1>1, <1>2, <1>3, Invariance, PTL DEF Spec
-----------------------------------------------------------------------------
(* Money is conserved.                                                     *)

\* A booking that exists stays what it is about, and wallets are kept.
LEMMA RowsRemain ==
    ASSUME IInv, [Next]_vars
    PROVE  /\ \A b \in BookingIds : status[b] # "none" => stay'[b] = stay[b]
           /\ wallets \subseteq wallets'
<1>1. TypeOK
  BY DEF IInv
<1>2. CASE UNCHANGED <<stay, wallets>>
  BY <1>2
<1>3. CASE Unwritten
  BY <1>2, <1>3 DEF Unwritten, bookingVars, moneyVars
<1>4. CASE Tick \/ (\E l \in Listings : ListingChanges(l))
  BY <1>2, <1>4 DEF Tick, ListingChanges, bookingVars, moneyVars
<1>5. CASE \/ \E u \in Users : GetOrCreateWallet(u)
           \/ \E u \in Users, a \in Amounts : TopUp(u, a) \/ Deduct(u, a)
  BY <1>5 DEF GetOrCreateWallet, TopUp, Deduct, bookingVars
<1>6. CASE \E b \in BookingIds, l \in Listings, u \in Users, first \in Days, last \in Days :
              CreateBooking(b, l, u, first, last)
  BY <1>1, <1>6 DEF CreateBooking, moneyVars, TypeOK
<1>7. CASE \E p \in Requests, b \in BookingIds :
              ConfirmBooking(p, b) \/ DeclineBooking(p, b) \/ CancelBooking(p, b)
  BY <1>3, <1>7 DEF ConfirmBooking, DeclineBooking, CancelBooking
<1>8. CASE \E p \in CronRuns, b \in BookingIds : ReleaseDueBookingHolds(p, b)
  BY <1>3, <1>8 DEF ReleaseDueBookingHolds
<1>9. ASSUME NEW p \in Procs, TransactionStep(p)
      PROVE  UNCHANGED stay /\ wallets \subseteq wallets'
  BY <1>9
  DEF TransactionStep, LockBooking, EnsureAvailableForConfirmation, LockGuestWallet,
      LockHostWallet, InsertHostWallet, LockHold, LockBookingOfHold, LockPayeeWallet,
      CommitConfirmation, CreateHostWallet, SaveCancelled, CommitRelease, Unwritten,
      bookingVars, moneyVars
<1>10. CASE \E p \in Procs : TransactionStep(p) \/ Crash(p) \/ AbortDeadlocked(p)
  BY <1>3, <1>9, <1>10 DEF Crash, AbortDeadlocked, bookingVars, moneyVars
<1>11. CASE UNCHANGED vars
  BY <1>3, <1>11 DEF vars, Unwritten
<1> QED
  BY <1>4, <1>5, <1>6, <1>7, <1>8, <1>10, <1>11 DEF Next

\* Nothing in the code sets a hold to REFUNDED.
NothingRefunded == \A b \in BookingIds : hold[b] # "refunded"

LEMMA NoRefunds == IInv /\ NothingRefunded /\ [Next]_vars => NothingRefunded'
<1> SUFFICES ASSUME IInv, NothingRefunded, [Next]_vars PROVE NothingRefunded'
  OBVIOUS
<1>1. hold \in [BookingIds -> HoldStatuses]
  BY DEF IInv, TypeOK
<1>2. CASE hold' = hold
  BY <1>2 DEF NothingRefunded
<1>3. ASSUME NEW p \in Procs, CommitConfirmation(p) \/ LockPayeeWallet(p) \/ CommitRelease(p)
      PROVE  NothingRefunded'
  BY <1>1, <1>2, <1>3
  DEF NothingRefunded, CommitConfirmation, LockPayeeWallet, CommitRelease, moneyVars, Unwritten
<1>4. CASE Unwritten
  BY <1>2, <1>4 DEF Unwritten, moneyVars
<1>5. ASSUME NEW p \in Procs, TransactionStep(p) \/ Crash(p) \/ AbortDeadlocked(p)
      PROVE  NothingRefunded'
  <2>1. CASE InsertHostWallet(p) \/ LockHostWallet(p) \/ SaveCancelled(p) \/ Crash(p)
    BY <1>2, <2>1
    DEF InsertHostWallet, LockHostWallet, CreateHostWallet, SaveCancelled, Crash, Unwritten, moneyVars
  <2>2. CASE \/ LockBooking(p) \/ EnsureAvailableForConfirmation(p) \/ LockGuestWallet(p)
             \/ LockHold(p) \/ LockBookingOfHold(p) \/ AbortDeadlocked(p)
    BY <1>4, <2>2
    DEF LockBooking, EnsureAvailableForConfirmation, LockGuestWallet, LockHold, LockBookingOfHold,
        AbortDeadlocked
  <2> QED
    BY <1>3, <1>5, <2>1, <2>2 DEF TransactionStep
<1>6. CASE Tick \/ \E l \in Listings : ListingChanges(l)
  BY <1>2, <1>6 DEF Tick, ListingChanges, moneyVars
<1>7. CASE \/ \E u \in Users : GetOrCreateWallet(u)
           \/ \E u \in Users, a \in Amounts : TopUp(u, a) \/ Deduct(u, a)
  BY <1>2, <1>7 DEF GetOrCreateWallet, TopUp, Deduct
<1>8. CASE \/ \E b \in BookingIds, l \in Listings, u \in Users, first \in Days, last \in Days :
                 CreateBooking(b, l, u, first, last)
           \/ \E p \in Requests, b \in BookingIds :
                 ConfirmBooking(p, b) \/ DeclineBooking(p, b) \/ CancelBooking(p, b)
           \/ \E p \in CronRuns, b \in BookingIds : ReleaseDueBookingHolds(p, b)
  BY <1>2, <1>4, <1>8
  DEF CreateBooking, ConfirmBooking, DeclineBooking, CancelBooking, ReleaseDueBookingHolds, moneyVars
<1>9. CASE UNCHANGED vars
  BY <1>2, <1>9 DEF vars, moneyVars
<1> QED
  BY <1>5, <1>6, <1>7, <1>8, <1>9 DEF Next

Escrowed(b) == IF hold[b] = "held" THEN Total(b) ELSE 0

\* What a user has paid in and does not have.
Short == [u \in Users |-> funded[u] - balance[u]]
Held == {b \in BookingIds : hold[b] = "held"}
HeldTotals == [b \in BookingIds |-> Escrowed(b)]

\* What a booking holds is what it took from its guest and has not yet given
\* to its host.
EscrowedOK ==
    \A b \in BookingIds :
        /\ Escrowed(b) \in Int
        /\ HeldTotals[b] = Escrowed(b)
        /\ stay[b] = NoStay => Escrowed(b) = 0 /\ \A u \in Users : Moved(b, u) = 0
        /\ stay[b] # NoStay => \E g, h \in Users :
              /\ g # h /\ g = Guest(b) /\ h = Host(b)
              /\ Escrowed(b) = 0 - (Moved(b, g) + Moved(b, h))
              /\ \A u \in Users \ {g, h} : Moved(b, u) = 0

LEMMA EscrowedFacts == IInv /\ NothingRefunded => EscrowedOK
<1> SUFFICES ASSUME IInv, NothingRefunded, NEW b \in BookingIds
             PROVE  /\ Escrowed(b) \in Int
                    /\ stay[b] = NoStay => Escrowed(b) = 0
                    /\ stay[b] # NoStay => \E g, h \in Users :
                          /\ g # h /\ g = Guest(b) /\ h = Host(b)
                          /\ Escrowed(b) = 0 - (Moved(b, g) + Moved(b, h))
                          /\ \A u \in Users \ {g, h} : Moved(b, u) = 0
  BY DEF EscrowedOK, HeldTotals, Moved
<1>1. /\ debits[b] = IF hold[b] = "none" THEN 0 ELSE 1
      /\ credits[b] = IF hold[b] = "released" THEN 1 ELSE 0
      /\ hold[b] \in {"none", "held", "released"}
  <2>1. hold \in [BookingIds -> HoldStatuses]
    BY DEF IInv, TypeOK
  <2>2. MoneyMovesOnce /\ NoHoldDisputed
    BY DEF IInv
  <2> QED
    BY <2>1, <2>2 DEF HoldStatuses, MoneyMovesOnce, NoHoldDisputed, NothingRefunded
<1>2. CASE stay[b] = NoStay
  <2>1. hold[b] = "none"
    BY <1>1, <1>2 DEF IInv, StaysValid, StatusMatchesHold
  <2> QED
    BY <1>2, <2>1 DEF Escrowed
<1>3. CASE stay[b] # NoStay
  <2>1. /\ Guest(b) \in Users /\ Host(b) \in Users /\ Guest(b) # Host(b)
        /\ Total(b) \in Int
    BY <1>3, StayFacts DEF IInv, StaysValid
  <2>2. PICK g \in Users, h \in Users : g # h /\ g = Guest(b) /\ h = Host(b)
    BY <2>1
  <2>3. /\ Moved(b, g) = 0 - debits[b] * Total(b)
        /\ Moved(b, h) = credits[b] * Total(b)
        /\ \A u \in Users \ {g, h} : Moved(b, u) = 0
    BY <1>3, <2>2 DEF Moved
  <2>4. 0 * Total(b) = 0 /\ 1 * Total(b) = Total(b)
    BY <2>1
  <2>5. Escrowed(b) \in Int /\ Escrowed(b) = 0 - (Moved(b, g) + Moved(b, h))
    <3>1. CASE hold[b] = "none"
      BY <1>1, <2>3, <2>4, <3>1 DEF Escrowed
    <3>2. CASE hold[b] = "held"
      BY <1>1, <2>1, <2>3, <2>4, <3>2 DEF Escrowed
    <3>3. CASE hold[b] = "released"
      BY <1>1, <2>1, <2>3, <2>4, <3>3 DEF Escrowed
    <3> QED
      BY <1>1, <3>1, <3>2, <3>3
  <2> QED
    BY <1>3, <2>2, <2>3, <2>5
<1> QED
  BY <1>2, <1>3

LEMMA EscrowedStays == IInv' /\ NothingRefunded' => EscrowedOK'
BY EscrowedFacts, PTL

\* A step leaves what users lack and what is held alone, or moves money
\* between two users and one booking.
ShortStep ==
    \/ Short' = Short /\ \A c \in BookingIds : Escrowed(c)' = Escrowed(c)
    \/ \E b \in BookingIds, g, h \in Users :
          /\ g # h
          /\ \A u \in Users \ {g, h} : Short'[u] = Short[u]
          /\ \A c \in BookingIds \ {b} : Escrowed(c)' = Escrowed(c)
          /\ Escrowed(b)' - Escrowed(b) = (Short'[g] - Short[g]) + (Short'[h] - Short[h])

LEMMA ShortSteps == IInv /\ NothingRefunded /\ [Next]_vars => ShortStep
<1> SUFFICES ASSUME IInv, NothingRefunded, [Next]_vars PROVE ShortStep
  OBVIOUS
<1>1. IInv' /\ NothingRefunded'
  BY NextIInv, NoRefunds
<1>2. EscrowedOK /\ EscrowedOK'
  BY <1>1, EscrowedFacts, EscrowedStays
<1>3. PICK b \in BookingIds \cup {NoBooking} :
        /\ \A c \in BookingIds \ {b}, u \in Users : Moved(c, u)' = Moved(c, u)
        /\ \A u \in Users :
              balance'[u] - balance[u] = (funded'[u] - funded[u]) + (Moved(b, u)' - Moved(b, u))
  BY LedgerSteps DEF LedgerStep
<1>4. ASSUME NEW u \in Users
      PROVE  /\ Short[u] \in Int /\ Short'[u] \in Int
             /\ Moved(b, u) \in Int /\ Moved(b, u)' \in Int
             /\ Short'[u] = Short[u] - (Moved(b, u)' - Moved(b, u))
  <2>1. /\ balance[u] \in Int /\ funded[u] \in Int /\ balance'[u] \in Int /\ funded'[u] \in Int
    BY <1>1 DEF IInv, TypeOK
  <2>2. Moved(b, u) \in Int /\ Moved(b, u)' \in Int
    <3>1. CASE b \in BookingIds
      BY <1>1, <3>1, MovesAreInts, MovesStayInts DEF MovesOK
    <3>2. CASE b \notin BookingIds
      BY <3>2 DEF Moved
    <3> QED
      BY <3>1, <3>2
  <2>3. balance'[u] - balance[u] = (funded'[u] - funded[u]) + (Moved(b, u)' - Moved(b, u))
    BY <1>3
  <2>4. Short[u] = funded[u] - balance[u] /\ Short'[u] = funded'[u] - balance'[u]
    BY DEF Short
  <2> QED
    BY <2>1, <2>2, <2>3, <2>4
<1>5. \A c \in BookingIds : stay[c] # NoStay => stay'[c] = stay[c]
  BY RowsRemain DEF IInv, StaysValid
<1>6. ASSUME NEW c \in BookingIds, \A u \in Users : Moved(c, u)' = Moved(c, u)
      PROVE  Escrowed(c)' = Escrowed(c)
  <2>1. CASE stay'[c] = NoStay
    <3>1. stay[c] = NoStay
      BY <1>5, <2>1
    <3> QED
      BY <1>2, <2>1, <3>1 DEF EscrowedOK
  <2>2. CASE stay'[c] # NoStay /\ stay[c] = NoStay
    <3>1. PICK g \in Users, h \in Users : Escrowed(c)' = 0 - (Moved(c, g)' + Moved(c, h)')
      BY <1>2, <2>2 DEF EscrowedOK
    <3>2. Moved(c, g)' = 0 /\ Moved(c, h)' = 0
      BY <1>2, <1>6, <2>2 DEF EscrowedOK
    <3> QED
      BY <1>2, <2>2, <3>1, <3>2 DEF EscrowedOK
  <2>3. CASE stay'[c] # NoStay /\ stay[c] # NoStay
    <3>1. PICK g \in Users, h \in Users : /\ Escrowed(c)' = 0 - (Moved(c, g)' + Moved(c, h)')
                                          /\ g = Guest(c)' /\ h = Host(c)'
      BY <1>2, <2>3 DEF EscrowedOK
    <3>2. g = Guest(c) /\ h = Host(c)
      BY <1>5, <2>3, <3>1 DEF Guest, Host
    <3> QED
      BY <1>2, <1>6, <2>3, <3>1, <3>2 DEF EscrowedOK
  <2> QED
    BY <2>1, <2>2, <2>3
<1>7. CASE \A u \in Users : Moved(b, u)' = Moved(b, u)
  <2>1. \A u \in Users : Short'[u] = Short[u]
    BY <1>4, <1>7
  <2>2. Short' = Short
    BY <2>1 DEF Short
  <2>3. \A c \in BookingIds : Escrowed(c)' = Escrowed(c)
    BY <1>3, <1>6, <1>7
  <2> QED
    BY <2>2, <2>3 DEF ShortStep
<1>8. ASSUME NEW v \in Users, Moved(b, v)' # Moved(b, v)
      PROVE  ShortStep
  <2>1. b \in BookingIds /\ stay'[b] # NoStay
    <3>1. b \in BookingIds
      BY <1>8 DEF Moved
    <3> QED
      BY <1>2, <1>5, <1>8, <3>1 DEF EscrowedOK
  <2>2. PICK g \in Users, h \in Users :
           /\ g # h /\ g = Guest(b)' /\ h = Host(b)'
           /\ Escrowed(b)' = 0 - (Moved(b, g)' + Moved(b, h)')
           /\ \A u \in Users \ {g, h} : Moved(b, u)' = 0
    BY <1>2, <2>1 DEF EscrowedOK
  <2>3. /\ Escrowed(b) = 0 - (Moved(b, g) + Moved(b, h))
        /\ \A u \in Users \ {g, h} : Moved(b, u) = 0
    <3>1. CASE stay[b] = NoStay
      BY <1>2, <2>1, <3>1 DEF EscrowedOK
    <3>2. CASE stay[b] # NoStay
      <4>1. g = Guest(b) /\ h = Host(b)
        BY <1>5, <2>1, <2>2, <3>2 DEF Guest, Host
      <4> QED
        BY <1>2, <2>1, <3>2, <4>1 DEF EscrowedOK
    <3> QED
      BY <3>1, <3>2
  <2>4. \A u \in Users \ {g, h} : Short'[u] = Short[u]
    BY <1>4, <2>2, <2>3
  <2>5. Escrowed(b)' - Escrowed(b) = (Short'[g] - Short[g]) + (Short'[h] - Short[h])
    BY <1>4, <2>2, <2>3
  <2>6. \A c \in BookingIds \ {b} : Escrowed(c)' = Escrowed(c)
    BY <1>3, <1>6
  <2> QED
    BY <2>1, <2>2, <2>4, <2>5, <2>6 DEF ShortStep
<1> QED
  BY <1>7, <1>8

\* What users lack adds up to what is held.
ConservedInv ==
    /\ NothingRefunded
    /\ \E f, g : /\ IsSum(f, Short, Users) /\ IsSum(g, HeldTotals, Made)
                 /\ f[Users] = g[Made]

ShortOK == \A u \in Users : Short[u] \in Int

LEMMA ShortIsInt == IInv => ShortOK
BY DEF Short, ShortOK, IInv, TypeOK

LEMMA ShortStaysInt == IInv' => ShortOK'
BY ShortIsInt, PTL

LEMMA ConservedNext ==
    ASSUME IsFiniteSet(Users)
    PROVE  IInv /\ LedgerInv /\ ConservedInv /\ [Next]_vars => ConservedInv'
<1> SUFFICES ASSUME IInv, LedgerInv, ConservedInv, [Next]_vars PROVE ConservedInv'
  OBVIOUS
<1>1. IInv' /\ NothingRefunded /\ NothingRefunded'
  BY NextIInv, NoRefunds DEF ConservedInv
<1>2. IsFiniteSet(Made') /\ Made \subseteq Made' /\ IsFiniteSet(Made)
  BY MadeGrows, FS_AddElement DEF LedgerInv
<1>3. Made \subseteq BookingIds /\ Made' \subseteq BookingIds
  BY DEF Made
<1>4. \A u \in Users : Short[u] \in Int /\ Short'[u] \in Int
  BY <1>1, ShortIsInt, ShortStaysInt DEF ShortOK
<1>5. \A b \in BookingIds : /\ HeldTotals[b] = Escrowed(b) /\ HeldTotals'[b] = Escrowed(b)'
                            /\ HeldTotals[b] \in Int /\ HeldTotals'[b] \in Int
  BY <1>1, EscrowedFacts, EscrowedStays DEF EscrowedOK
<1>6. \A b \in Made' \ Made : HeldTotals[b] = 0
  BY <1>1, <1>3, <1>5, EscrowedFacts DEF EscrowedOK, Made
<1>7. PICK f, g : /\ IsSum(f, Short, Users) /\ IsSum(g, HeldTotals, Made)
                  /\ f[Users] = g[Made]
  BY DEF ConservedInv
<1>8. PICK k : IsSum(k, HeldTotals, Made')
  BY <1>2, SumExists
<1>9. PICK f1 : IsSum(f1, Short', Users)
  BY SumExists
<1>10. PICK g1 : IsSum(g1, HeldTotals', Made')
  BY <1>2, SumExists
<1>11. k[Made'] = g[Made]
  BY <1>2, <1>3, <1>5, <1>6, <1>7, <1>8, SumsGrow
<1>12. f[Users] \in Int /\ k[Made'] \in Int
  BY <1>2, <1>3, <1>4, <1>5, <1>7, <1>8, SumIsInt
<1>13. CASE Short' = Short /\ \A c \in BookingIds : Escrowed(c)' = Escrowed(c)
  <2>1. HeldTotals' = HeldTotals
    BY <1>5, <1>13 DEF HeldTotals
  <2> QED
    BY <1>1, <1>7, <1>8, <1>11, <1>13, <2>1 DEF ConservedInv
<1>14. ASSUME NEW b \in BookingIds, NEW u \in Users, NEW h \in Users, u # h,
              \A v \in Users \ {u, h} : Short'[v] = Short[v],
              \A c \in BookingIds \ {b} : Escrowed(c)' = Escrowed(c),
              Escrowed(b)' - Escrowed(b) = (Short'[u] - Short[u]) + (Short'[h] - Short[h])
       PROVE  f1[Users] = g1[Made']
  <2> DEFINE w == [v \in Users |-> IF v = u THEN Short'[v] ELSE Short[v]]
  <2>1. /\ \A v \in Users : w[v] \in Int
        /\ \A v \in Users \ {u} : w[v] = Short[v]
        /\ w[u] = Short'[u] /\ w[h] = Short[h]
        /\ \A v \in Users \ {h} : Short'[v] = w[v]
    BY <1>4, <1>14
  <2> HIDE DEF w
  <2>2. PICK e : IsSum(e, w, Users)
    BY SumExists
  <2>3. e[Users] = f[Users] + (w[u] - Short[u])
    BY <1>4, <1>7, <1>14, <2>1, <2>2, SumsDiffer
  <2>4. f1[Users] = e[Users] + (Short'[h] - w[h])
    BY <1>4, <1>9, <1>14, <2>1, <2>2, SumsDiffer
  <2>5. g1[Made'] = k[Made'] + (IF b \in Made' THEN HeldTotals'[b] - HeldTotals[b] ELSE 0)
    BY <1>2, <1>3, <1>5, <1>8, <1>10, <1>14, SumsDiffer
  <2>6. b \notin Made' => Escrowed(b)' = 0 /\ Escrowed(b) = 0
    BY <1>1, <1>2, EscrowedFacts, EscrowedStays DEF EscrowedOK, Made
  <2>7. g1[Made'] = k[Made'] + (Escrowed(b)' - Escrowed(b))
    BY <1>5, <1>12, <2>5, <2>6
  <2> QED
    BY <1>4, <1>7, <1>11, <1>12, <1>14, <2>1, <2>3, <2>4, <2>7
<1>15. CASE ~(Short' = Short /\ \A c \in BookingIds : Escrowed(c)' = Escrowed(c))
  <2>1. f1[Users] = g1[Made']
    BY <1>1, <1>14, <1>15, ShortSteps DEF ShortStep
  <2> QED
    BY <1>1, <1>9, <1>10, <2>1 DEF ConservedInv
<1> QED
  BY <1>13, <1>15

LEMMA ConservedInit == ASSUME IsFiniteSet(Users) PROVE Init => ConservedInv
<1> SUFFICES ASSUME Init PROVE ConservedInv
  OBVIOUS
<1> DEFINE z == [s \in SUBSET Users |-> 0]
<1>1. IsSum(z, Short, Users)
  <2>1. \A s \in SUBSET Users : s # {} =>
           FirstOf(s) \in Users /\ s \ {FirstOf(s)} \in SUBSET Users
    BY FirstIsIn
  <2>2. \A u \in Users : Short[u] = 0
    BY DEF Init, Short
  <2> QED
    BY <2>1, <2>2 DEF IsSum
<1>2. Made = {} /\ IsFiniteSet(Made)
  BY FS_EmptySet DEF Init, Made
<1>3. PICK g : IsSum(g, HeldTotals, Made)
  BY <1>2, SumExists
<1>4. g[Made] = 0
  BY <1>2, <1>3 DEF IsSum
<1>5. z[Users] = 0
  OBVIOUS
<1>6. NothingRefunded
  BY DEF Init, NothingRefunded
<1> QED
  BY <1>1, <1>3, <1>4, <1>5, <1>6 DEF ConservedInv

\* What all users together have paid in and do not have is what is held for
\* bookings that are confirmed and not yet paid out.
MoneyIsConserved ==
    MapThenSumSet(LAMBDA u : funded[u] - balance[u], Users)
        = MapThenSumSet(LAMBDA b : Total(b), Held)

LEMMA ShortSum ==
  ASSUME IsFiniteSet(Users)
  PROVE  \E f : /\ IsSum(f, Short, Users)
                /\ MapThenSumSet(LAMBDA u : funded[u] - balance[u], Users) = f[Users]
<1> DEFINE h == CHOOSE f : f = [s \in SUBSET Users |->
       IF s = {} THEN 0 ELSE (funded[FirstOf(s)] - balance[FirstOf(s)]) + f[s \ {FirstOf(s)}]]
<1>1. \A s \in SUBSET Users : s # {} => Short[FirstOf(s)] = funded[FirstOf(s)] - balance[FirstOf(s)]
  BY FirstIsIn DEF Short
<1>2. \E f : IsSum(f, Short, Users)
  BY SumExists
<1>3. \E f : f = [s \in SUBSET Users |->
         IF s = {} THEN 0 ELSE (funded[FirstOf(s)] - balance[FirstOf(s)]) + f[s \ {FirstOf(s)}]]
  BY <1>1, <1>2 DEF IsSum
<1>4. h = [s \in SUBSET Users |->
         IF s = {} THEN 0 ELSE (funded[FirstOf(s)] - balance[FirstOf(s)]) + h[s \ {FirstOf(s)}]]
  BY <1>3
<1>5. IsSum(h, Short, Users)
  <2> HIDE DEF h
  <2> QED BY <1>1, <1>4 DEF IsSum
<1>6. MapThenSumSet(LAMBDA u : funded[u] - balance[u], Users) = h[Users]
  BY DEF MapThenSumSet, MapThenFoldSet, FirstOf
<1> QED
  BY <1>5, <1>6

LEMMA HeldSum ==
  ASSUME IsFiniteSet(Held)
  PROVE  \E f : /\ IsSum(f, HeldTotals, Held)
                /\ MapThenSumSet(LAMBDA b : Total(b), Held) = f[Held]
<1> DEFINE h == CHOOSE f : f = [s \in SUBSET Held |->
       IF s = {} THEN 0 ELSE Total(FirstOf(s)) + f[s \ {FirstOf(s)}]]
<1>1. \A s \in SUBSET Held : s # {} => HeldTotals[FirstOf(s)] = Total(FirstOf(s))
  BY FirstIsIn DEF HeldTotals, Held, Escrowed
<1>2. \E f : IsSum(f, HeldTotals, Held)
  BY SumExists
<1>3. \E f : f = [s \in SUBSET Held |->
         IF s = {} THEN 0 ELSE Total(FirstOf(s)) + f[s \ {FirstOf(s)}]]
  BY <1>1, <1>2 DEF IsSum
<1>4. h = [s \in SUBSET Held |->
         IF s = {} THEN 0 ELSE Total(FirstOf(s)) + h[s \ {FirstOf(s)}]]
  BY <1>3
<1>5. IsSum(h, HeldTotals, Held)
  <2> HIDE DEF h
  <2> QED BY <1>1, <1>4 DEF IsSum
<1>6. MapThenSumSet(LAMBDA b : Total(b), Held) = h[Held]
  BY DEF MapThenSumSet, MapThenFoldSet, FirstOf
<1> QED
  BY <1>5, <1>6

LEMMA ConservedAgrees ==
  ASSUME IsFiniteSet(Users), IInv, LedgerInv, ConservedInv
  PROVE  MoneyIsConserved
<1>1. PICK f, g : IsSum(f, Short, Users) /\ IsSum(g, HeldTotals, Made) /\ f[Users] = g[Made]
  BY DEF ConservedInv
<1>2. Held \subseteq Made /\ Made \subseteq BookingIds
  BY DEF Held, Made, IInv, StaysValid, StatusMatchesHold
<1>3. IsFiniteSet(Made) /\ IsFiniteSet(Held)
  BY <1>2, FS_Subset DEF LedgerInv
<1> DEFINE lacking == MapThenSumSet(LAMBDA u : funded[u] - balance[u], Users)
<1> DEFINE escrow == MapThenSumSet(LAMBDA b : Total(b), Held)
<1>4. PICK e : IsSum(e, Short, Users) /\ lacking = e[Users]
  BY ShortSum
<1>5. PICK h : IsSum(h, HeldTotals, Held) /\ escrow = h[Held]
  BY <1>3, HeldSum
<1>6. \A b \in Made : HeldTotals[b] \in Int /\ (b \notin Held => HeldTotals[b] = 0)
  BY <1>2, EscrowedFacts DEF ConservedInv, EscrowedOK, Held, HeldTotals, Escrowed
<1>7. lacking = escrow
  <2> HIDE DEF lacking, escrow
  <2>1. g[Made] = h[Held]
    BY <1>1, <1>2, <1>3, <1>5, <1>6, SumsGrow
  <2>2. e[Users] = f[Users]
    BY <1>1, <1>4, ShortIsInt, SumsGrow DEF ShortOK
  <2> QED
    BY <1>1, <1>4, <1>5, <2>1, <2>2
<1> QED
  BY <1>7 DEF MoneyIsConserved

\* No interleaving of confirmations, releases, top-ups and charges, and no
\* crash or deadlock, makes money or loses any: what is not in a wallet is in
\* the hold of a booking (wallet.service.ts, booking-hold.entity.ts).
THEOREM MoneyConserved == ASSUME IsFiniteSet(Users) PROVE Spec => []MoneyIsConserved
<1>1. Init => ConservedInv
  BY ConservedInit
<1>2. IInv /\ LedgerInv /\ ConservedInv /\ [Next]_vars => ConservedInv'
  BY ConservedNext
<1>3. IInv /\ LedgerInv /\ ConservedInv => MoneyIsConserved
  BY ConservedAgrees
<1>4. Spec => [](IInv /\ LedgerInv)
  BY LedgerInit, LedgerNext, InitIInv, NextIInv, PTL DEF Spec
<1> QED
  BY <1>1, <1>2, <1>3, <1>4, Invariance, PTL DEF Spec
-----------------------------------------------------------------------------
(* Bookings implements the escrow.                                         *)

LEMMA InitEscrow == Init => Abstract!Init
BY DEF Init, Abstract!Init

\* The transaction that confirms is one reservation: the rows of a booking
\* already paid for would have stopped it.
LEMMA ReserveEscrow ==
    ASSUME IInv, NEW p \in Procs, CommitConfirmation(p),
           ~Blocked(stay[job[p]].listing, Nights(job[p]))
    PROVE  Abstract!Reserve(job[p])
<1> DEFINE b == job[p]
<1>1. /\ b \in BookingIds /\ stay[b] # NoStay /\ hold[b] = "none"
      /\ 0 < Total(b) /\ Total(b) <= balance[Guest(b)] /\ seen[p] = balance[Guest(b)]
  BY JobFacts DEF CommitConfirmation, IInv, LockedReadsHold, Confirming, Charging,
                  StatusMatchesHold
<1>2. ASSUME NEW c \in BookingIds, hold[c] # "none", stay[b].listing = stay[c].listing,
             NEW d \in Nights(b), d \in Nights(c)
      PROVE  FALSE
  <2> DEFINE r == [listing |-> stay[c].listing, date |-> d, booking |-> c]
  <2>1. r \in availability
    BY <1>2 DEF IInv, CalendarMatchesHolds, PaidFor, AvailabilityRecords
  <2> QED
    BY <1>2, <2>1 DEF Blocked
<1>3. \A c \in BookingIds : hold[c] # "none" => ~Abstract!Conflict(b, c)
  BY <1>2 DEF Abstract!Conflict, Abstract!Nights, Nights, GetDatesBetween
<1> QED
  BY <1>1, <1>3 DEF CommitConfirmation, Abstract!Reserve, Guest, Total

\* The transaction that releases a hold is one payout.
LEMMA PayOutEscrow ==
    ASSUME IInv, NEW p \in Procs, CommitRelease(p)
    PROVE  job[p] \in BookingIds /\ Abstract!PayOut(job[p])
<1>1. /\ job[p] \in BookingIds /\ hold[job[p]] = "held" /\ Due(job[p])
      /\ seen[p] = balance[Host(job[p])]
  BY DEF CommitRelease, IInv, JobsValid, LockedReadsHold, Releasing
<1> QED
  BY <1>1 DEF CommitRelease, Abstract!PayOut, Due, Host, Total

LEMMA FundEscrow ==
    ASSUME IInv, NEW u \in Users, NEW a \in Amounts, TopUp(u, a) \/ Deduct(u, a)
    PROVE  Abstract!Fund(u)
<1>1. a \in Nat /\ balance \in [Users -> Int] /\ balance[u] >= 0
  BY BoundsAssumption DEF IInv, TypeOK, NoOverdraft
<1>2. balance'[u] \in Nat /\ balance' = [balance EXCEPT ![u] = balance'[u]]
  BY <1>1 DEF TopUp, Deduct
<1> QED
  BY <1>2 DEF TopUp, Deduct, Abstract!Fund, bookingVars

LEMMA AskEscrow ==
    ASSUME IInv, NEW b \in BookingIds, NEW l \in Listings, NEW u \in Users,
           NEW first \in Days, NEW last \in Days, CreateBooking(b, l, u, first, last)
    PROVE  Abstract!Ask(b)
<1>1. stay[b] = NoStay /\ stay \in [BookingIds -> Stays \cup {NoStay}]
  BY DEF CreateBooking, IInv, StaysValid, TypeOK
<1>2. /\ stay'[b].listing = l /\ stay'[b].guest = u /\ stay'[b] # NoStay
      /\ stay' = [stay EXCEPT ![b] = stay'[b]]
      /\ Owner[l] # u
  <2>1. RowInv' /\ status'[b] # "none"
    BY CreateBookingRows DEF CreateBooking, IInv, TypeOK
  <2> QED
    BY <1>1, <2>1 DEF CreateBooking, RowInv, BookingInv, StaysValid
<1>3. stay'[b] \in Abstract!Stays
  BY <1>2, CreateBookingRows DEF RowInv, RowTypes, Stays, Days, Abstract!Stays, Abstract!Days
<1> QED
  BY <1>1, <1>2, <1>3 DEF CreateBooking, Abstract!Ask, moneyVars

\* Every step of the code's transactions is a step of the escrow or none.
LEMMA StepEscrow ==
    ASSUME IInv, [Next]_vars
    PROVE  [Abstract!Next]_(Abstract!vars)
<1>1. CASE UNCHANGED <<stay, balance, hold, today>>
  BY <1>1 DEF Abstract!vars
<1>2. CASE Unwritten
  BY <1>1, <1>2 DEF Unwritten, bookingVars, moneyVars
<1>3. CASE Tick
  BY <1>3 DEF Tick, bookingVars, moneyVars, Abstract!Next, Abstract!Tick
<1>4. CASE \/ \E l \in Listings : ListingChanges(l)
           \/ \E u \in Users : GetOrCreateWallet(u)
  BY <1>1, <1>4 DEF ListingChanges, GetOrCreateWallet, bookingVars, moneyVars
<1>5. CASE \E u \in Users, a \in Amounts : TopUp(u, a) \/ Deduct(u, a)
  BY <1>5, FundEscrow DEF Abstract!Next
<1>6. CASE \E b \in BookingIds, l \in Listings, u \in Users, first \in Days, last \in Days :
              CreateBooking(b, l, u, first, last)
  BY <1>6, AskEscrow DEF Abstract!Next
<1>7. CASE \/ \E p \in Requests, b \in BookingIds :
                 ConfirmBooking(p, b) \/ DeclineBooking(p, b) \/ CancelBooking(p, b)
           \/ \E p \in CronRuns, b \in BookingIds : ReleaseDueBookingHolds(p, b)
  BY <1>2, <1>7 DEF ConfirmBooking, DeclineBooking, CancelBooking, ReleaseDueBookingHolds
<1>8. ASSUME NEW p \in Procs, TransactionStep(p)
      PROVE  [Abstract!Next]_(Abstract!vars)
  <2>1. CASE \/ LockBooking(p) \/ EnsureAvailableForConfirmation(p) \/ LockGuestWallet(p)
             \/ LockHostWallet(p) \/ InsertHostWallet(p) \/ LockHold(p) \/ LockBookingOfHold(p)
    BY <1>2, <2>1
    DEF LockBooking, EnsureAvailableForConfirmation, LockGuestWallet, LockHostWallet,
        InsertHostWallet, LockHold, LockBookingOfHold
  <2>2. CASE SaveCancelled(p)
    BY <1>1, <2>2 DEF SaveCancelled, moneyVars
  <2>3. CASE LockPayeeWallet(p)
    <3>1. Host(job[p]) \in wallets
      BY <2>3 DEF LockPayeeWallet, IInv, JobsValid, LockedReadsHold, Releasing, HoldsValid
    <3> QED
      BY <1>1, <2>3, <3>1 DEF LockPayeeWallet, bookingVars, moneyVars
  <2>4. CASE CommitConfirmation(p)
    <3>1. CASE Blocked(stay[job[p]].listing, Nights(job[p]))
      BY <1>1, <2>4, <3>1 DEF CommitConfirmation, bookingVars, moneyVars
    <3>2. CASE ~Blocked(stay[job[p]].listing, Nights(job[p]))
      <4>1. job[p] \in BookingIds
        BY <2>4 DEF CommitConfirmation, IInv, JobsValid
      <4> QED
        BY <2>4, <3>2, <4>1, ReserveEscrow DEF Abstract!Next
    <3> QED
      BY <3>1, <3>2
  <2>5. CASE CommitRelease(p)
    BY <2>5, PayOutEscrow DEF Abstract!Next
  <2> QED
    BY <1>8, <2>1, <2>2, <2>3, <2>4, <2>5 DEF TransactionStep
<1>9. CASE \E p \in Procs : TransactionStep(p) \/ Crash(p) \/ AbortDeadlocked(p)
  BY <1>1, <1>2, <1>8, <1>9 DEF Crash, AbortDeadlocked, bookingVars, moneyVars
<1>10. CASE UNCHANGED vars
  BY <1>1, <1>10 DEF vars, bookingVars, moneyVars
<1> QED
  BY <1>3, <1>4, <1>5, <1>6, <1>7, <1>9, <1>10 DEF Next

\* confirmBooking and releaseBookingHold, with their locks, stale reads,
\* deadlocks and crashes, do what the escrow does in single steps.
THEOREM EscrowRefinement == Spec => ImplementsEscrow
<1>1. Init => Abstract!Init
  BY InitEscrow
<1>2. IInv /\ [Next]_vars => [Abstract!Next]_(Abstract!vars)
  BY StepEscrow
<1> QED
  BY <1>1, <1>2, Invariance, PTL DEF Spec, ImplementsEscrow, Abstract!Spec
-----------------------------------------------------------------------------
(* Deadlocks.  The order in which each kind of transaction locks its rows, *)
(* and why only one kind can end up on a cycle.                            *)

\* The most process p has locked when it is about to lock a row.
LocksOK(p) ==
    LET b == job[p] IN
    /\ pc[p] \in {"idle", "lockBooking", "saveCancelled", "lockHold"} => held[p] = {}
    /\ pc[p] \in {"checkDates", "lockGuest"} => held[p] \subseteq {BookingRow(b)}
    /\ pc[p] \in {"lockHost", "insertHost"} =>
          /\ held[p] \subseteq {BookingRow(b), WalletRow(Guest(b))}
          /\ Guest(b) \in wallets
    /\ pc[p] = "lockStay" => held[p] \subseteq {HoldRow(b)}
    /\ pc[p] = "lockPayee" => held[p] \subseteq {HoldRow(b), BookingRow(b)}

LocksOfSteps == \A p \in Procs : LocksOK(p)

\* A process that stands still has locked what it had.
LEMMA StandingLocks ==
    ASSUME IInv, [Next]_vars, NEW q \in Procs, LocksOK(q),
           pc'[q] = pc[q], job'[q] = job[q], held'[q] = held[q]
    PROVE  LocksOK(q)'
<1>1. /\ pc[q] # "idle" => stay'[job[q]] = stay[job[q]]
      /\ wallets \subseteq wallets'
  BY RowsRemain DEF IInv, JobsValid
<1> QED
  BY <1>1 DEF LocksOK, Guest

\* The moves of a process keep the order of its locks.
LEMMA MovingLocks ==
    ASSUME IInv, LocksOfSteps, [Next]_vars, NEW p \in Procs,
           \/ \E s \in {"lockBooking", "saveCancelled", "lockHold"}, b \in BookingIds :
                 Begin(p, s, b)
           \/ Finish(p)
           \/ \E s \in Steps, rows \in SUBSET Rows, v \in Int :
                 /\ Advance(p, s, rows, v)
                 /\ LocksOK(p)'
    PROVE  LocksOfSteps'
<1>1. ProcTypes
  BY IInvParts
<1>2. ASSUME NEW q \in Procs, q # p
      PROVE  LocksOK(q)'
  <2>1. pc'[q] = pc[q] /\ job'[q] = job[q] /\ held'[q] = held[q]
    BY <1>1, <1>2 DEF ProcTypes, Begin, Finish, Advance
  <2> QED
    BY <2>1, StandingLocks DEF LocksOfSteps
<1>3. CASE \E s \in {"lockBooking", "saveCancelled", "lockHold"}, b \in BookingIds :
              Begin(p, s, b)
  <2>1. pc'[p] \in {"lockBooking", "saveCancelled", "lockHold"} /\ held'[p] = held[p]
    BY <1>1, <1>3 DEF ProcTypes, Begin
  <2>2. held[p] = {}
    BY <1>3 DEF Begin, LocksOfSteps, LocksOK
  <2> QED
    BY <1>2, <2>1, <2>2 DEF LocksOfSteps, LocksOK
<1>4. CASE Finish(p)
  <2>1. pc'[p] = "idle" /\ held'[p] = {}
    BY <1>1, <1>4 DEF ProcTypes, Finish
  <2> QED
    BY <1>2, <2>1 DEF LocksOfSteps, LocksOK
<1> QED
  BY <1>2, <1>3, <1>4 DEF LocksOfSteps

\* A transaction locks its rows in the order of its statements.
LEMMA LocksNext == IInv /\ LocksOfSteps /\ [Next]_vars => LocksOfSteps'
<1> SUFFICES ASSUME IInv, LocksOfSteps, [Next]_vars PROVE LocksOfSteps'
  OBVIOUS
<1>1. CASE UNCHANGED procVars
  BY <1>1, StandingLocks DEF procVars, LocksOfSteps
<1>2. CASE \/ Tick \/ (\E l \in Listings : ListingChanges(l))
           \/ (\E u \in Users : GetOrCreateWallet(u))
           \/ (\E u \in Users, a \in Amounts : TopUp(u, a) \/ Deduct(u, a))
           \/ \E b \in BookingIds, l \in Listings, u \in Users, first \in Days, last \in Days :
                 CreateBooking(b, l, u, first, last)
  BY <1>1, <1>2 DEF Tick, ListingChanges, GetOrCreateWallet, TopUp, Deduct, CreateBooking
<1>3. CASE \E p \in Requests, b \in BookingIds :
              ConfirmBooking(p, b) \/ DeclineBooking(p, b) \/ CancelBooking(p, b)
  BY <1>3, MovingLocks DEF ConfirmBooking, DeclineBooking, CancelBooking, Procs
<1>4. CASE \E p \in CronRuns, b \in BookingIds : ReleaseDueBookingHolds(p, b)
  BY <1>4, MovingLocks DEF ReleaseDueBookingHolds, Procs
<1>5. ASSUME NEW p \in Procs, Finish(p)
      PROVE  LocksOfSteps'
  BY <1>5, MovingLocks
<1>6. ASSUME NEW p \in Procs, TransactionStep(p)
      PROVE  LocksOfSteps'
  <2> PICK b : b = job[p]
    OBVIOUS
  <2>1. ProcTypes /\ LocksOK(p)
    BY IInvParts DEF LocksOfSteps
  <2>2. pc[p] # "idle" => /\ BookingRow(b) \in Rows /\ HoldRow(b) \in Rows
                          /\ WalletRow(Guest(b)) \in Rows /\ WalletRow(Host(b)) \in Rows
                          /\ balance[Guest(b)] \in Int /\ balance[Host(b)] \in Int
                          /\ seen[p] \in Int /\ stay'[b] = stay[b]
    BY JobFacts, RowsRemain DEF IInv, TypeOK, JobsValid
  <2>3. wallets \subseteq wallets'
    BY RowsRemain
  <2>4. ASSUME NEW s \in Steps, NEW rows \in SUBSET Rows, NEW v \in Int,
               Advance(p, s, rows, v), LocksOK(p)'
        PROVE  LocksOfSteps'
    BY <2>4, MovingLocks
  <2>5. ASSUME NEW s, NEW rows, NEW v, Advance(p, s, rows, v)
        PROVE  pc'[p] = s /\ job'[p] = b /\ held'[p] = held[p] \cup rows
    BY <2>1, <2>5 DEF ProcTypes, Advance
  <2>6. CASE LockBooking(p)
    <3>1. CASE status[b] = "pending"
      <4>1. pc[p] = "lockBooking" /\ Advance(p, "checkDates", {BookingRow(b)}, seen[p])
        BY <2>6, <3>1 DEF LockBooking
      <4>2. LocksOK(p)'
        BY <2>1, <2>2, <2>5, <4>1 DEF LocksOK, Steps
      <4> QED
        BY <2>2, <2>4, <4>1, <4>2 DEF Steps
    <3> QED
      BY <1>5, <2>6, <3>1 DEF LockBooking
  <2>7. CASE EnsureAvailableForConfirmation(p)
    <3>1. CASE Advance(p, "lockGuest", {}, seen[p])
      <4>1. pc[p] = "checkDates"
        BY <2>7 DEF EnsureAvailableForConfirmation
      <4>2. LocksOK(p)'
        BY <2>1, <2>2, <2>5, <3>1, <4>1 DEF LocksOK, Steps
      <4> QED
        BY <2>2, <2>4, <3>1, <4>1, <4>2 DEF Steps
    <3> QED
      BY <1>5, <2>7, <3>1 DEF EnsureAvailableForConfirmation
  <2>8. CASE LockGuestWallet(p)
    <3>1. CASE Guest(b) \in wallets /\ balance[Guest(b)] >= Total(b)
      <4>1. /\ pc[p] = "lockGuest"
            /\ Advance(p, "lockHost", {WalletRow(Guest(b))}, balance[Guest(b)])
        BY <2>8, <3>1 DEF LockGuestWallet
      <4>2. pc'[p] = "lockHost" /\ job'[p] = b /\ held'[p] = held[p] \cup {WalletRow(Guest(b))}
        BY <2>2, <2>5, <4>1 DEF Steps
      <4>3. held[p] \subseteq {BookingRow(b)} /\ stay'[b] = stay[b]
        BY <2>1, <2>2, <4>1 DEF LocksOK
      <4>4. LocksOK(p)'
        BY <2>3, <3>1, <4>2, <4>3 DEF LocksOK, Guest
      <4> QED
        BY <2>2, <2>4, <4>1, <4>4 DEF Steps
    <3> QED
      BY <1>5, <2>8, <3>1 DEF LockGuestWallet
  <2>9. CASE LockHostWallet(p)
    <3>1. CASE Advance(p, "writeConfirm", {WalletRow(Host(b))}, seen[p])
      <4>1. pc[p] = "lockHost"
        BY <2>9 DEF LockHostWallet
      <4>2. LocksOK(p)'
        BY <2>2, <2>5, <3>1, <4>1 DEF LocksOK, Steps
      <4> QED
        BY <2>2, <2>4, <3>1, <4>1, <4>2 DEF Steps
    <3>2. CASE Advance(p, "insertHost", {}, seen[p])
      <4>1. pc[p] = "lockHost"
        BY <2>9 DEF LockHostWallet
      <4>2. /\ pc'[p] = "insertHost" /\ job'[p] = b /\ held'[p] = held[p] \cup {}
            /\ stay'[b] = stay[b]
        BY <2>2, <2>5, <3>2, <4>1
      <4>3. held[p] \subseteq {BookingRow(b), WalletRow(Guest(b))} /\ Guest(b) \in wallets
        BY <2>1, <4>1 DEF LocksOK
      <4>4. LocksOK(p)'
        BY <2>3, <4>2, <4>3 DEF LocksOK, Guest
      <4> QED
        BY <2>2, <2>4, <3>2, <4>1, <4>4 DEF Steps
    <3> QED
      BY <2>9, <3>1, <3>2 DEF LockHostWallet
  <2>10. CASE InsertHostWallet(p)
    <3>1. CASE Advance(p, "writeConfirm", {WalletRow(Host(b))}, seen[p])
      <4>1. pc[p] = "insertHost"
        BY <2>10 DEF InsertHostWallet
      <4>2. LocksOK(p)'
        BY <2>2, <2>5, <3>1, <4>1 DEF LocksOK, Steps
      <4> QED
        BY <2>2, <2>4, <3>1, <4>1, <4>2 DEF Steps
    <3> QED
      BY <1>5, <2>10, <3>1 DEF InsertHostWallet
  <2>11. CASE LockHold(p)
    <3>1. CASE Advance(p, "lockStay", {HoldRow(b)}, seen[p])
      <4>1. pc[p] = "lockHold"
        BY <2>11 DEF LockHold
      <4>2. LocksOK(p)'
        BY <2>1, <2>2, <2>5, <3>1, <4>1 DEF LocksOK, Steps
      <4> QED
        BY <2>2, <2>4, <3>1, <4>1, <4>2 DEF Steps
    <3> QED
      BY <1>5, <2>11, <3>1 DEF LockHold
  <2>12. CASE LockBookingOfHold(p)
    <3>1. pc[p] = "lockStay" /\ Advance(p, "lockPayee", {BookingRow(b)}, seen[p])
      BY <2>12 DEF LockBookingOfHold
    <3>2. LocksOK(p)'
      BY <2>1, <2>2, <2>5, <3>1 DEF LocksOK, Steps
    <3> QED
      BY <2>2, <2>4, <3>1, <3>2 DEF Steps
  <2>13. CASE LockPayeeWallet(p)
    <3>1. CASE Advance(p, "writeRelease", {WalletRow(Host(b))}, balance[Host(b)])
      <4>1. pc[p] = "lockPayee"
        BY <2>13 DEF LockPayeeWallet
      <4>2. LocksOK(p)'
        BY <2>2, <2>5, <3>1, <4>1 DEF LocksOK, Steps
      <4> QED
        BY <2>2, <2>4, <3>1, <4>1, <4>2 DEF Steps
    <3> QED
      BY <1>5, <2>13, <3>1 DEF LockPayeeWallet
  <2> QED
    BY <1>5, <1>6, <2>6, <2>7, <2>8, <2>9, <2>10, <2>11, <2>12, <2>13
    DEF TransactionStep, CommitConfirmation, SaveCancelled, CommitRelease
<1>7. CASE \E p \in Procs : TransactionStep(p) \/ Crash(p) \/ AbortDeadlocked(p)
  BY <1>5, <1>6, <1>7 DEF Crash, AbortDeadlocked
<1>8. CASE UNCHANGED vars
  BY <1>1, <1>8 DEF vars
<1> QED
  BY <1>2, <1>3, <1>4, <1>7, <1>8 DEF Next

LEMMA LocksInit == Init => LocksOfSteps
BY DEF Init, LocksOfSteps, LocksOK

\* The row a process waits for.
LEMMA WantedFacts ==
    ASSUME NEW q \in Procs, NEW row \in Wanted(q)
    PROVE  \/ pc[q] \in {"lockBooking", "saveCancelled", "lockStay"} /\ row = BookingRow(job[q])
           \/ pc[q] = "lockHold" /\ row = HoldRow(job[q])
           \/ pc[q] = "lockGuest" /\ row = WalletRow(Guest(job[q]))
           \/ pc[q] \in {"lockHost", "lockPayee"} /\ row = WalletRow(Host(job[q]))
           \/ /\ pc[q] = "insertHost" /\ row = WalletRow(Host(job[q]))
              /\ Host(job[q]) \notin wallets
BY DEF Wanted

\* Each of S waits for one of S, and one of S waits for it.
Ring(S) == \A q \in S : (\E r \in S : BlockedOn(q, r)) /\ (\E r \in S : BlockedOn(r, q))

\* Whatever is waited for in a ring is held by one who waits.  Nobody who holds
\* a hold's row, or only a booking's, waits for what such a one could have; what
\* is left are the confirmations at the host's wallet.
LEMMA RingsAreOfHosts ==
    ASSUME IInv, LocksOfSteps, NEW S \in SUBSET Procs, Ring(S)
    PROVE  /\ \A q \in S : pc[q] = "lockHost"
           /\ \A q, r \in S : BlockedOn(q, r) => Host(job[q]) = Guest(job[r])
<1>1. ASSUME NEW q \in S
      PROVE  /\ \E row \in Wanted(q), r \in S : row \in held[r]
             /\ \E row \in held[q], r \in S : row \in Wanted(r)
  BY DEF Ring, BlockedOn
<1>2. ASSUME NEW q \in S
      PROVE  pc[q] \in {"lockGuest", "lockHost", "insertHost", "lockStay", "lockPayee"}
  <2>1. held[q] # {} /\ LocksOK(q)
    BY <1>1 DEF LocksOfSteps
  <2> QED
    BY <1>1, <2>1, WantedFacts DEF LocksOK
<1>3. ASSUME NEW q \in S
      PROVE  pc[q] # "lockStay"
  <2> SUFFICES ASSUME pc[q] = "lockStay" PROVE FALSE
    OBVIOUS
  <2>1. PICK row \in held[q], r \in S : row \in Wanted(r)
    BY <1>1
  <2>2. row = HoldRow(job[q])
    BY <2>1 DEF LocksOfSteps, LocksOK
  <2>3. pc[r] = "lockHold"
    BY <2>1, <2>2, WantedFacts, RowFacts
  <2> QED
    BY <1>2, <2>3
<1>4. ASSUME NEW q \in S
      PROVE  pc[q] \in {"lockHost", "insertHost"}
  <2> SUFFICES ASSUME pc[q] \in {"lockGuest", "lockPayee"} PROVE FALSE
    BY <1>2, <1>3
  <2>1. PICK row \in held[q], r \in S : row \in Wanted(r)
    BY <1>1
  <2>2. row \in {BookingRow(job[q]), HoldRow(job[q])}
    BY <2>1 DEF LocksOfSteps, LocksOK
  <2>3. pc[r] \in {"lockBooking", "saveCancelled", "lockStay", "lockHold"}
    BY <2>1, <2>2, WantedFacts, RowFacts
  <2> QED
    BY <1>2, <1>3, <2>3
<1>5. ASSUME NEW q \in S, NEW r \in S, BlockedOn(q, r)
      PROVE  pc[q] = "lockHost" /\ Host(job[q]) = Guest(job[r])
  <2>1. PICK row \in Wanted(q) : row \in held[r]
    BY <1>5 DEF BlockedOn
  <2>2. row = WalletRow(Host(job[q])) /\ (pc[q] = "insertHost" => Host(job[q]) \notin wallets)
    BY <1>4, <2>1, WantedFacts
  <2>3. row \in {BookingRow(job[r]), WalletRow(Guest(job[r]))} /\ Guest(job[r]) \in wallets
    BY <1>4, <2>1 DEF LocksOfSteps, LocksOK
  <2>4. Host(job[q]) = Guest(job[r])
    BY <2>2, <2>3, RowFacts
  <2> QED
    BY <1>4, <2>2, <2>3, <2>4
<1> QED
  BY <1>5 DEF Ring

LEMMA DeadlockRing == ASSUME NEW p \in Procs
                      PROVE  Deadlocked(p) <=> \E S \in SUBSET Procs : p \in S /\ Ring(S)
BY DEF Deadlocked, Ring

LEMMA DeadlocksExplained == IInv /\ LocksOfSteps => OnlyHostsDeadlock
<1> SUFFICES ASSUME IInv, LocksOfSteps, NEW p \in Procs, Deadlocked(p)
             PROVE  /\ pc[p] = "lockHost"
                    /\ \E q \in Procs : /\ q # p /\ pc[q] = "lockHost" /\ Deadlocked(q)
                                        /\ Guest(job[q]) = Host(job[p])
  BY DEF OnlyHostsDeadlock
<1>1. PICK S \in SUBSET Procs : p \in S /\ Ring(S)
  BY DeadlockRing
<1>2. PICK q \in S : BlockedOn(p, q)
  BY <1>1 DEF Ring
<1>3. /\ pc[p] = "lockHost" /\ pc[q] = "lockHost"
      /\ Guest(job[q]) = Host(job[p])
  BY <1>1, <1>2, RingsAreOfHosts
<1>4. Guest(job[p]) # Host(job[p])
  BY <1>3, JobFacts DEF IInv
<1>5. Deadlocked(q)
  BY <1>1, DeadlockRing
<1> QED
  BY <1>3, <1>4, <1>5

\* A transaction holds what the statements before its next one lock, and no more.
LEMMA LocksInvariant == Spec => [](IInv /\ LocksOfSteps)
BY InitIInv, NextIInv, LocksInit, LocksNext, PTL DEF Spec

\* The locks of bookings.service.ts and wallet.service.ts deadlock in one way
\* only: confirmations that each wait for a host who is the guest of the next.
\* The cron job's releases, declines and cancellations never lose a deadlock.
THEOREM DeadlocksAreOfHosts == Spec => []OnlyHostsDeadlock
BY LocksInvariant, DeadlocksExplained, PTL

\* Where nobody who hosts has booked a stay, nothing ever deadlocks.
HostsStayHome == \A b \in BookingIds : status[b] # "none" => \A l \in Listings : Owner[l] # Guest(b)

THEOREM NoDeadlockAtHome == Spec => [](HostsStayHome => \A p \in Procs : ~Deadlocked(p))
<1>1. IInv /\ LocksOfSteps /\ HostsStayHome => \A p \in Procs : ~Deadlocked(p)
  <2> SUFFICES ASSUME IInv, LocksOfSteps, HostsStayHome, NEW p \in Procs, Deadlocked(p)
               PROVE  FALSE
    OBVIOUS
  <2>1. PICK q \in Procs : pc[p] = "lockHost" /\ pc[q] = "lockHost" /\ Guest(job[q]) = Host(job[p])
    BY DeadlocksExplained DEF OnlyHostsDeadlock
  <2>2. /\ job[p] \in BookingIds /\ stay[job[p]].listing \in Listings
        /\ job[q] \in BookingIds /\ status[job[q]] # "none"
    BY <2>1, JobFacts DEF IInv
  <2> QED
    BY <2>1, <2>2 DEF HostsStayHome, Host
<1> QED
  BY <1>1, LocksInvariant, PTL
-----------------------------------------------------------------------------
(* Progress.  That transactions end takes fairness, and is left to TLC;    *)
(* what it rests on is proved: nobody waits for ever without a deadlock    *)
(* the database sees, and a transaction has only so many statements.       *)

\* Waiting that leads nowhere else contains a ring.
LEMMA WaitersHaveRing ==
    ASSUME IsFiniteSet(Procs), NEW T \in SUBSET Procs, T # {},
           \A q \in T : \E r \in T : BlockedOn(q, r)
    PROVE  \E S \in SUBSET T : S # {} /\ Ring(S)
<1> DEFINE Closed == {S \in SUBSET T : S # {} /\ \A q \in S : \E r \in S : BlockedOn(q, r)}
           Sizes == {Cardinality(S) : S \in Closed}
<1>1. \A S \in SUBSET Procs : IsFiniteSet(S) /\ Cardinality(S) \in Nat
  BY FS_Subset, FS_CardinalityType
<1>2. Sizes \subseteq Nat /\ Sizes # {}
  BY <1>1
<1>3. PICK n \in Sizes : \A m \in Sizes : n <= m
  <2> HIDE DEF Sizes
  <2> QED
    BY <1>2, LeastNatural
<1>4. PICK S \in Closed : n = Cardinality(S)
  BY <1>3
<1>5. ASSUME NEW q \in S, \A r \in S : ~BlockedOn(r, q)
      PROVE  FALSE
  <2>1. S \ {q} \in Closed
    BY <1>4, <1>5
  <2>2. Cardinality(S \ {q}) = Cardinality(S) - 1
    BY <1>1, <1>4, FS_RemoveElement
  <2>3. Cardinality(S) <= Cardinality(S \ {q}) /\ Cardinality(S) \in Nat
    BY <1>1, <1>3, <1>4, <2>1
  <2> QED
    BY <2>2, <2>3
<1> QED
  BY <1>4, <1>5 DEF Ring

\* The set T of transactions has, with each of its members, those it waits for.
Awaited(T) == \A q \in T, r \in Procs : BlockedOn(q, r) => r \in T

\* Whoever is at work can go on, or waits, directly or through others, for
\* one who can, or for a deadlock the database is about to break.
NobodyWaitsInVain ==
    \A p \in Procs, T \in SUBSET Procs :
        pc[p] # "idle" /\ p \in T /\ Awaited(T) =>
            \E q \in T : /\ pc[q] # "idle"
                         /\ Deadlocked(q) \/ \A row \in Wanted(q) : Free(row)

LEMMA WaitsExplained ==
    ASSUME IsFiniteSet(Procs), IInv, LocksOfSteps
    PROVE  NobodyWaitsInVain
<1> SUFFICES ASSUME NEW p \in Procs, NEW T \in SUBSET Procs,
                    pc[p] # "idle", p \in T, Awaited(T)
             PROVE  \E q \in T : /\ pc[q] # "idle"
                                 /\ Deadlocked(q) \/ \A row \in Wanted(q) : Free(row)
  BY DEF NobodyWaitsInVain
<1> DEFINE W == {q \in T : pc[q] # "idle"}
<1>1. CASE \E q \in W : \A row \in Wanted(q) : Free(row)
  BY <1>1
<1>2. CASE \A q \in W : \E row \in Wanted(q) : ~Free(row)
  <2>1. ASSUME NEW q \in W
        PROVE  \E r \in W : BlockedOn(q, r)
    <3>1. PICK r \in Procs : BlockedOn(q, r)
      BY <1>2 DEF Free, BlockedOn
    <3>2. r \in T
      BY <3>1 DEF Awaited
    <3>3. pc[r] # "idle"
      BY <3>1 DEF BlockedOn, LocksOfSteps, LocksOK
    <3> QED
      BY <3>1, <3>2, <3>3
  <2>2. PICK S \in SUBSET W : S # {} /\ Ring(S)
    <3> HIDE DEF W
    <3>1. W # {} /\ W \in SUBSET Procs
      BY DEF W
    <3> QED
      BY <2>1, <3>1, WaitersHaveRing
  <2>3. PICK q \in S : TRUE
    BY <2>2
  <2>4. Deadlocked(q)
    BY <2>2, <2>3, DeadlockRing
  <2> QED
    BY <2>3, <2>4
<1> QED
  BY <1>1, <1>2

\* With finitely many transactions open at once, waiting for a lock always
\* leads to one who can go on or to a deadlock: the cycles AbortDeadlocked
\* breaks are all that can keep a request or a release from its locks.
THEOREM LocksAreGranted == ASSUME IsFiniteSet(Procs) PROVE Spec => []NobodyWaitsInVain
<1>1. IInv /\ LocksOfSteps => NobodyWaitsInVain
  BY WaitsExplained
<1> QED
  BY <1>1, LocksInvariant, PTL

\* How many statements a transaction has before it, at most.
Left ==
    [s \in Steps |->
        CASE s = "lockBooking" -> 6
          [] s = "checkDates" -> 5
          [] s \in {"lockGuest", "lockHold"} -> 4
          [] s \in {"lockHost", "lockStay"} -> 3
          [] s \in {"insertHost", "lockPayee"} -> 2
          [] s \in {"writeConfirm", "saveCancelled", "writeRelease"} -> 1
          [] s = "idle" -> 0]

\* A step moves a transaction nearer to its end, or does not move it.
StatementsRunOut ==
    \A p \in Procs : pc[p] # "idle" => pc'[p] = pc[p] \/ Left[pc'[p]] < Left[pc[p]]

LEMMA GoesOn ==
    ASSUME IInv, NEW p \in Procs, NEW q \in Procs,
           NEW s, NEW rows, NEW v, Advance(p, s, rows, v), Left[s] < Left[pc[p]]
    PROVE  pc'[q] = pc[q] \/ Left[pc'[q]] < Left[pc[q]]
BY IInvParts DEF ProcTypes, Advance

LEMMA BeginsOrEnds ==
    ASSUME IInv, NEW p \in Procs, NEW q \in Procs, pc[q] # "idle",
           Finish(p) \/ \E s \in Steps, b \in BookingIds : Begin(p, s, b)
    PROVE  pc'[q] = pc[q] \/ Left[pc'[q]] < Left[pc[q]]
BY IInvParts DEF ProcTypes, Begin, Finish, Left, Steps

LEMMA StatementsStep == IInv /\ [Next]_vars => StatementsRunOut
<1> SUFFICES ASSUME IInv, [Next]_vars, NEW q \in Procs, pc[q] # "idle"
             PROVE  pc'[q] = pc[q] \/ Left[pc'[q]] < Left[pc[q]]
  BY DEF StatementsRunOut
<1>1. CASE UNCHANGED procVars
  BY <1>1 DEF procVars
<1>2. CASE \/ Tick \/ (\E l \in Listings : ListingChanges(l))
           \/ (\E u \in Users : GetOrCreateWallet(u))
           \/ (\E u \in Users, a \in Amounts : TopUp(u, a) \/ Deduct(u, a))
           \/ \E b \in BookingIds, l \in Listings, u \in Users, first \in Days, last \in Days :
                 CreateBooking(b, l, u, first, last)
  BY <1>1, <1>2 DEF Tick, ListingChanges, GetOrCreateWallet, TopUp, Deduct, CreateBooking
<1>3. CASE \E p \in Requests, b \in BookingIds :
              ConfirmBooking(p, b) \/ DeclineBooking(p, b) \/ CancelBooking(p, b)
  BY <1>3, BeginsOrEnds DEF ConfirmBooking, DeclineBooking, CancelBooking, Procs, Steps
<1>4. CASE \E p \in CronRuns, b \in BookingIds : ReleaseDueBookingHolds(p, b)
  BY <1>4, BeginsOrEnds DEF ReleaseDueBookingHolds, Procs, Steps
<1>5. ASSUME NEW p \in Procs, TransactionStep(p)
      PROVE  pc'[q] = pc[q] \/ Left[pc'[q]] < Left[pc[q]]
  <2>1. /\ Left["checkDates"] < Left["lockBooking"] /\ Left["lockGuest"] < Left["checkDates"]
        /\ Left["lockHost"] < Left["lockGuest"] /\ Left["insertHost"] < Left["lockHost"]
        /\ Left["writeConfirm"] < Left["lockHost"] /\ Left["writeConfirm"] < Left["insertHost"]
        /\ Left["lockStay"] < Left["lockHold"] /\ Left["lockPayee"] < Left["lockStay"]
        /\ Left["writeRelease"] < Left["lockPayee"]
    BY DEF Left, Steps
  <2>2. CASE Finish(p)
    BY <2>2, BeginsOrEnds
  <2>3. CASE LockBooking(p)
    BY <2>1, <2>2, <2>3, GoesOn DEF LockBooking
  <2>4. CASE EnsureAvailableForConfirmation(p)
    BY <2>1, <2>2, <2>4, GoesOn DEF EnsureAvailableForConfirmation
  <2>5. CASE LockGuestWallet(p)
    BY <2>1, <2>2, <2>5, GoesOn DEF LockGuestWallet
  <2>6. CASE LockHostWallet(p)
    BY <2>1, <2>2, <2>6, GoesOn DEF LockHostWallet
  <2>7. CASE InsertHostWallet(p)
    BY <2>1, <2>2, <2>7, GoesOn DEF InsertHostWallet
  <2>8. CASE LockHold(p)
    BY <2>1, <2>2, <2>8, GoesOn DEF LockHold
  <2>9. CASE LockBookingOfHold(p)
    BY <2>1, <2>2, <2>9, GoesOn DEF LockBookingOfHold
  <2>10. CASE LockPayeeWallet(p)
    BY <2>1, <2>2, <2>10, GoesOn DEF LockPayeeWallet
  <2> QED
    BY <1>5, <2>2, <2>3, <2>4, <2>5, <2>6, <2>7, <2>8, <2>9, <2>10
    DEF TransactionStep, CommitConfirmation, SaveCancelled, CommitRelease
<1>6. ASSUME NEW p \in Procs, Crash(p) \/ AbortDeadlocked(p)
      PROVE  pc'[q] = pc[q] \/ Left[pc'[q]] < Left[pc[q]]
  BY <1>6, BeginsOrEnds DEF Crash, AbortDeadlocked
<1>7. CASE UNCHANGED vars
  BY <1>1, <1>7 DEF vars
<1> QED
  BY <1>2, <1>3, <1>4, <1>5, <1>6, <1>7 DEF Next

\* No request and no release goes back to an earlier statement, or starts over
\* by itself: each takes six steps at most, and then it has ended.
THEOREM TransactionsRunOut == Spec => [][StatementsRunOut]_vars
BY StatementsStep, Invariance, PTL DEF Spec
=============================================================================
