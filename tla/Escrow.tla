------------------------------- MODULE Escrow -------------------------------
(***************************************************************************)
(* What bookings promise about money and nights, without the transactions, *)
(* the locks and the processes: a guest's money goes into escrow in one    *)
(* step, for nights nobody else has paid for, and leaves it in one step,   *)
(* for the host, once, and not before it is due.                           *)
(***************************************************************************)
EXTENDS Integers

CONSTANTS Users, Listings, BookingIds, Owner, LastDay, HoldDays, NoStay

VARIABLES
    stay,       \* what each booking is for, NoStay before it is asked for
    balance,    \* what each user can spend
    hold,       \* the escrow of each booking: "none", "held" or "released"
    today

vars == <<stay, balance, hold, today>>

Days == 1 .. LastDay
Stays == [listing: Listings, guest: Users, checkIn: Days, checkOut: Days, total: Nat]

Nights(b) == stay[b].checkIn .. (stay[b].checkOut - 1)

Conflict(b, c) == /\ stay[b].listing = stay[c].listing
                  /\ Nights(b) \cap Nights(c) # {}

Init ==
    /\ stay = [b \in BookingIds |-> NoStay]
    /\ balance = [u \in Users |-> 0]
    /\ hold = [b \in BookingIds |-> "none"]
    /\ today = 0

\* A user pays money in, or spends some of what is theirs.
Fund(u) ==
    /\ balance'[u] \in Nat
    /\ balance' = [balance EXCEPT ![u] = balance'[u]]
    /\ UNCHANGED <<stay, hold, today>>

Ask(b) ==
    /\ stay[b] = NoStay
    /\ stay'[b] \in Stays
    /\ stay'[b].guest # Owner[stay'[b].listing]
    /\ stay' = [stay EXCEPT ![b] = stay'[b]]
    /\ UNCHANGED <<balance, hold, today>>

Reserve(b) ==
    /\ stay[b] # NoStay
    /\ hold[b] = "none"
    /\ 0 < stay[b].total /\ stay[b].total <= balance[stay[b].guest]
    /\ \A c \in BookingIds : hold[c] # "none" => ~Conflict(b, c)
    /\ balance' = [balance EXCEPT ![stay[b].guest] = @ - stay[b].total]
    /\ hold' = [hold EXCEPT ![b] = "held"]
    /\ UNCHANGED <<stay, today>>

PayOut(b) ==
    /\ hold[b] = "held"
    /\ stay[b].checkOut + HoldDays <= today
    /\ balance' = [balance EXCEPT ![Owner[stay[b].listing]] = @ + stay[b].total]
    /\ hold' = [hold EXCEPT ![b] = "released"]
    /\ UNCHANGED <<stay, today>>

Tick ==
    /\ today' = today + 1
    /\ UNCHANGED <<stay, balance, hold>>

Next ==
    \/ Tick
    \/ \E u \in Users : Fund(u)
    \/ \E b \in BookingIds : Ask(b) \/ Reserve(b) \/ PayOut(b)

Spec == Init /\ [][Next]_vars
=============================================================================
