---------------------------- MODULE MCPromotions ----------------------------
(* Instances of Promotions for model checking.                             *)
EXTENDS Promotions, TLC

CONSTANT u1

OneOwner == [l \in ListingIds |-> u1]

DaysOfKind == "golden" :> 1 @@ "featured" :> 1 @@ "notice" :> 1

Symmetry == Permutations(Requests) \cup Permutations(PromoIds)

OffersUntil == {"golden", "featured"} \X (0..LastNow)
=============================================================================
