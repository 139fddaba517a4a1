----------------------------- MODULE MCBookings -----------------------------
(* Instances of Bookings for model checking.                               *)
EXTENDS Bookings, TLC

CONSTANTS host, guest1, guest2, flat, villa

\* One listing and two guests who want its nights.
OneOwner == flat :> host
OnePrice == flat :> 1

\* Two hosts who are each other's guests.
TwoOwners == flat :> guest1 @@ villa :> guest2
TwoPrices == flat :> 1 @@ villa :> 1

Symmetry == Permutations(Requests) \cup Permutations(CronRuns) \cup Permutations(BookingIds)

\* With one owner the guests own nothing, and can be exchanged too.
GuestSymmetry == Symmetry \cup Permutations({guest1, guest2})
=============================================================================
