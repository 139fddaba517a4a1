----------------------------- MODULE Promotions -----------------------------
(***************************************************************************)
(* Promotions of listings: bought from the wallet, cancelled by their      *)
(* buyer, ended by an hourly job (promotions.service.ts), on top of        *)
(* Listings, whose promotion columns and index they write.                 *)
(*                                                                         *)
(* A purchase inserts the promotion, then pays for it, then sets the       *)
(* columns; each is a transaction of its own, and a server may die between *)
(* any two.  A wallet deduction is atomic (Bookings models it): here it    *)
(* commits or is refused.  A pass of the job handles every promotion it    *)
(* found at the same time, so each is a process of its own.                *)
(***************************************************************************)
EXTENDS Listings

CONSTANTS
    PromoIds,
    Days,           \* Days[kind]: what durationDays a promotion type has
    LastNow         \* bound on time

ASSUME PromotionsAssumption ==
    /\ NoOffer \notin PromoIds /\ LastNow \in Nat
    /\ DOMAIN Days = {"golden", "featured", "notice"}
    /\ \A kind \in DOMAIN Days : Days[kind] \in Nat \ {0}
    /\ {"golden", "featured"} \X (0..LastNow) \subseteq Offers

VARIABLES
    promo,          \* promotions rows
    debited,        \* promotions whose price was taken from the wallet
    now

promoVars == <<promo, debited, now>>
marketVars == <<vars, promoVars>>

Kinds == DOMAIN Days            \* "notice": buyers_alert and social_media
Promos == [status: {"none", "active", "cancelled", "expired", "deleted"},
           listing: ListingIds \cup {NoListing}, kind: Kinds, ends: 0..LastNow]

\* What a promotion writes to its listing, if its kind does.
OfferOf(m) == <<promo[m].kind, promo[m].ends>>
Shown(m) == promo[m].kind \in {"golden", "featured"}

\* getGoldenListings
GoldenListings ==
    {l \in ListingIds : /\ Exists(l) /\ listing[l].status = "published"
                        /\ listing[l].offer # NoOffer
                        /\ listing[l].offer[1] = "golden" /\ listing[l].offer[2] > now}

MarketInit ==
    /\ Init
    /\ promo = [m \in PromoIds |->
                  CHOOSE row \in Promos : row.status = "none" /\ row.listing = NoListing /\ row.ends = 0]
    /\ debited = {}
    /\ now = 0

SetStatus(m, s) == promo' = [promo EXCEPT ![m].status = s]
NoListingsWrite == NoListingWrite /\ NoLicenseWrite /\ NoCall

-----------------------------------------------------------------------------

\* purchasePromotion, by the listing's owner: the row is ACTIVE at once ...
Purchase(p, l, m, kind) ==
    /\ promo[m].status = "none" /\ now + Days[kind] < LastNow
    /\ Exists(l)
    /\ promo' = [promo EXCEPT ![m] = [status |-> "active", listing |-> l, kind |-> kind,
                                      ends |-> now + Days[kind]]]
    /\ Begin(p, "deduct", l, NoLicense, m)
    /\ NoListingsWrite /\ UNCHANGED <<debited, now>>

\* Mutant of Deduct: the columns are set whether the wallet could pay or not.
DeductOrNot(p) ==
    LET m == job[p][3] IN
    /\ pc[p] = "deduct"
    /\ Continue(p, IF Shown(m) THEN "activate" ELSE "idle")
    /\ \/ debited' = debited \cup {m}
       \/ UNCHANGED debited
    /\ NoListingsWrite /\ UNCHANGED <<promo, now>>

\* ... and paid for ...
Deduct(p) ==
    LET m == job[p][3] IN
    /\ pc[p] = "deduct"
    /\ \/ /\ debited' = debited \cup {m}
          /\ Continue(p, IF Shown(m) THEN "activate" ELSE "idle")
       \/ /\ UNCHANGED debited
          /\ Continue(p, "undo")
    /\ NoListingsWrite /\ UNCHANGED <<promo, now>>

\* ... or deleted ...
Undo(p) ==
    /\ pc[p] = "undo"
    /\ SetStatus(job[p][3], "deleted")
    /\ Continue(p, "idle")
    /\ NoListingsWrite /\ UNCHANGED <<debited, now>>

\* ... before the listing is shown as promoted (activatePromotion).
Activate(p) ==
    /\ pc[p] = "activate"
    /\ SetOffer(p, OfferOf(job[p][3]))
    /\ UNCHANGED promoVars

\* cancelPromotion, by its buyer, and what the job does to each promotion
\* that is over: the row that was ACTIVE is saved ...
Cancel(p, m) ==
    /\ promo[m].status = "active"
    /\ Begin(p, "saveCancelled", promo[m].listing, NoLicense, m)
    /\ NoListingsWrite /\ UNCHANGED promoVars

Expire(p, m) ==
    /\ promo[m].status = "active" /\ promo[m].ends < now
    /\ Begin(p, "saveExpired", promo[m].listing, NoLicense, m)
    /\ NoListingsWrite /\ UNCHANGED promoVars

\* Mutant of SaveEnd: the listing stays as it is.
SaveEndOnly(p) ==
    LET m == job[p][3] IN
    /\ pc[p] \in {"saveCancelled", "saveExpired"}
    /\ SetStatus(m, IF pc[p] = "saveExpired" THEN "expired" ELSE "cancelled")
    /\ Continue(p, "idle")
    /\ NoListingsWrite /\ UNCHANGED <<debited, now>>

SaveEnd(p) ==
    LET m == job[p][3] IN
    /\ pc[p] \in {"saveCancelled", "saveExpired"}
    /\ SetStatus(m, IF pc[p] = "saveExpired" THEN "expired" ELSE "cancelled")
    /\ Continue(p, IF Shown(m) THEN "deactivate" ELSE "idle")
    /\ NoListingsWrite /\ UNCHANGED <<debited, now>>

\* ... and the listing's columns are cleared (deactivatePromotion), whoever
\* set them.
Deactivate(p) ==
    /\ pc[p] = "deactivate"
    /\ SetOffer(p, NoOffer)
    /\ UNCHANGED promoVars

Tick ==
    /\ now < LastNow
    /\ now' = now + 1
    /\ NoListingsWrite /\ UNCHANGED <<procVars, disturbed, promo, debited>>

\* The server p runs on dies.
Crash(p) ==
    /\ ~Idle(p)
    /\ Goto(p, "idle", job[p], copyL[p], copyK[p])
    /\ disturbed' = TRUE
    /\ NoListingsWrite /\ UNCHANGED promoVars

PromotionStep(p) == Deduct(p) \/ Undo(p) \/ Activate(p) \/ SaveEnd(p) \/ Deactivate(p)

MarketNext ==
    \/ Next /\ UNCHANGED promoVars
    \/ \E p \in Requests, m \in PromoIds :
          \/ \E l \in ListingIds, kind \in Kinds : Purchase(p, l, m, kind)
          \/ Cancel(p, m)
    \/ \E p \in Passes, m \in PromoIds : Expire(p, m)
    \/ \E p \in Processes : PromotionStep(p) \/ Crash(p)
    \/ Tick

MarketSpec == MarketInit /\ [][MarketNext]_marketVars

-----------------------------------------------------------------------------
(* Properties.                                                             *)

\* Nobody is in the golden section who has not paid to be: whatever writes
\* the listing's columns, and however late, the listing has a golden
\* promotion with this end that was paid for (getGoldenListings,
\* purchasePromotion).
GoldenIsPaidFor ==
    \A l \in GoldenListings : \E m \in debited :
        promo[m].listing = l /\ OfferOf(m) = listing[l].offer

\* As long as requests take turns, whoever is in the golden section has an
\* active golden promotion: a cancelled one does not show the listing any
\* longer (cancelPromotion).
GoldenIsActive ==
    ~disturbed /\ Quiet => \A l \in GoldenListings :
        \E m \in PromoIds : promo[m].listing = l /\ promo[m].kind = "golden"
                            /\ promo[m].status = "active"

\* No other promotion that was paid for writes the columns of m's listing.
Sole(m) == \A k \in debited \ {m} : promo[k].listing = promo[m].listing => ~Shown(k)

\* As long as requests take turns, an active promotion that was paid for shows
\* on its listing, whatever else is saved of the listing, unless the listing
\* has had another one: the end of either clears the columns (expirePromotions,
\* deactivatePromotion).
PaidIsShown ==
    ~disturbed /\ Quiet => \A m \in debited :
        promo[m].status = "active" /\ Shown(m) /\ Sole(m) =>
            listing[promo[m].listing].offer = OfferOf(m)

\* As long as requests take turns, nobody pays for nothing, and nothing is
\* shown that the promotions and listings no longer say, in the golden section
\* or in the index.
ShownFollows == GoldenIsActive /\ PaidIsShown /\ SearchFollows
=============================================================================
