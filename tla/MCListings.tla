----------------------------- MODULE MCListings -----------------------------
(* Instances of Listings for model checking.                               *)
EXTENDS Listings, TLC

CONSTANT u1

\* All listings are one user's, who may hand in a license for any of them.
OneOwner == [l \in ListingIds |-> u1]

Symmetry == Permutations(Requests)
=============================================================================
