----------------------------- MODULE MarketProofs -----------------------------
(***************************************************************************)
(* Proofs about Promotions: nobody is in the golden section who has not    *)
(* paid to be, whatever is saved of what was read long ago; and, as long   *)
(* as requests take turns, only whose promotion is active, while the index *)
(* follows the listings' rows, whose promotion columns it shows too.       *)
(***************************************************************************)
EXTENDS Promotions, ListingsProofs

\* The statements a promotion's request or the job may be at.
PromotionSteps == {"deduct", "undo", "activate", "saveCancelled", "saveExpired", "deactivate"}

LEMMA StepsDiffer ==
  /\ "idle" \notin PromotionSteps
  /\ \A s \in PromotionSteps \cup {"idle"} :
        s \notin {"link", "unlink", "saveReview", "applyReview", "index", "saveStatus", "softDelete"}
BY DEF PromotionSteps

-----------------------------------------------------------------------------
(* What Listings says, of the steps that promotions add.                   *)

\* A process goes on, or begins, and writes neither listing nor license.
LEMMA QuietStepRows ==
  ASSUME IInv, HandedIn, NoListingsWrite, NEW p \in Processes, Others(p), ProcTypes',
         pc'[p] \in PromotionSteps \cup {"idle"}
  PROVE  IInv' /\ HandedIn'
<1>1. RowsOK' /\ Kept /\ CallsOK' /\ HandedIn'
  BY NothingWritten, NoCallFacts DEF NoListingsWrite, NoLicenseWrite, HandedIn
<1>2. ProcOK(p)'
  BY StepsDiffer DEF ProcOK
<1>3. QED
  BY <1>1, <1>2, ProcsKept DEF IInv

LEMMA BeginPromotion ==
  ASSUME IInv, HandedIn, TurnInv, NoListingsWrite, NEW p \in Processes, NEW s \in PromotionSteps, NEW l,
         NEW k, NEW m, Begin(p, s, l, k, m)
  PROVE  IInv' /\ HandedIn' /\ TurnInv' /\ Others(p) /\ pc'[p] = s /\ job'[p] = <<l, k, m>>
<1>1. ProcTypes' /\ Others(p) /\ pc'[p] = s /\ job'[p] = <<l, k, m>>
  BY BeginFacts, StepsDiffer
<1>2. IInv' /\ HandedIn'
  BY <1>1, QuietStepRows
<1>3. ReadIsSo(p)' /\ s # "link"
  BY <1>1, StepsDiffer DEF ReadIsSo
<1>4. TurnInv'
  BY <1>3, BeginTurn DEF TurnInv, NoListingsWrite
<1>5. QED
  BY <1>1, <1>2, <1>4

LEMMA ContinuePromotion ==
  ASSUME IInv, HandedIn, TurnInv, NoListingsWrite, NEW p \in Processes, pc[p] \in PromotionSteps,
         NEW s \in PromotionSteps \cup {"idle"}, Continue(p, s)
  PROVE  IInv' /\ HandedIn' /\ TurnInv' /\ Others(p) /\ pc'[p] = s /\ (s # "idle" => job'[p] = job[p])
<1>1. ProcTypes' /\ Others(p) /\ pc'[p] = s /\ (s # "idle" => job'[p] = job[p])
  BY ContinueFacts
<1>2. IInv' /\ HandedIn'
  BY <1>1, QuietStepRows
<1>3. ASSUME ~disturbed' PROVE InTurn'
  <2>0. ~disturbed /\ ~Idle(p)
    BY <1>3, StepsDiffer DEF Continue, Idle
  <2>1. InTurn /\ Alone(p)
    BY <2>0, MovesOn
  <2>2. ReadIsSo(p)'
    BY <1>1, StepsDiffer DEF ReadIsSo
  <2>3. UNCHANGED <<listing, license, index, calls, cleared, early>> /\ calls' = {}
    BY <2>1 DEF NoListingsWrite, NoListingWrite, NoLicenseWrite, NoCall, Alone
  <2>4. Turns' /\ \A q \in Processes : ReadIsSo(q)'
    BY <1>1, <2>1, <2>2, <2>3, TurnsAfter
  <2>5. \A q \in Processes : pc[q] \in PromotionSteps \cup {"idle"}
    BY <2>1 DEF Alone, Idle
  <2>6. IndexFollows'
    BY <2>1, <2>3, <2>5, StepsDiffer
       DEF InTurn, IndexFollows, Alone, ToIndex, Stays, Says, Findable, Exists, BuildObject
  <2>7. \A c \in LicenseIds : ClearsOne(c)' /\ UnusedIsShown(c)'
    BY <2>1, <2>3, <2>5, StepsDiffer, LicensesSame
  <2>8. PendingFollows'
    BY <2>1, <2>3, <2>5, StepsDiffer DEF InTurn, PendingFollows, LedTo, PendingLicenses, Exists
  <2>9. QED
    BY <2>4, <2>6, <2>7, <2>8 DEF InTurn
<1>4. QED
  BY <1>1, <1>2, <1>3 DEF TurnInv

\* The columns of a listing are set, or cleared.
LEMMA SetOfferStep ==
  ASSUME IInv, HandedIn, TurnInv, NEW p \in Processes, pc[p] \in PromotionSteps,
         NEW offer \in Offers \cup {NoOffer}, job[p][1] \in ListingIds, SetOffer(p, offer)
  PROVE  /\ IInv' /\ HandedIn' /\ TurnInv' /\ Others(p) /\ pc'[p] = "index" /\ job'[p] = job[p]
         /\ listing'[job[p][1]].offer = offer
         /\ \A m \in ListingIds : m # job[p][1] => listing'[m] = listing[m]
<1>0. PICK l : l = job[p][1]
  OBVIOUS
<1> DEFINE row == [listing[l] EXCEPT !.offer = offer]
<1>1. WriteListing(l, row) /\ Continue(p, "index") /\ NoCall /\ NoLicenseWrite /\ l \in ListingIds
  BY <1>0 DEF SetOffer
<1>2. row \in ListingRows /\ row.status = listing[l].status /\ row.removed = listing[l].removed
      /\ row.offer = offer
  BY <1>1 DEF IInv, RowsOK, ListingRows
<1> HIDE DEF row
<1>3. ProcTypes' /\ Others(p) /\ pc'[p] = "index" /\ job'[p] = job[p]
  BY <1>1, ContinueFacts
<1>4. /\ listing' \in [ListingIds -> ListingRows] /\ wasPublished' \subseteq ListingIds
      /\ \A m \in ListingIds : listing'[m].status = "published" => m \in wasPublished'
      /\ Kept /\ listing'[l] = row
  BY <1>1, <1>2, WriteListingFacts
<1>5. \A m \in ListingIds : m # l => listing'[m] = listing[m]
  BY <1>1 DEF WriteListing, IInv, RowsOK
<1>6. IInv'
  BY <1>0, <1>1, <1>4, LicensesKept, NoCallFacts, GoOnStep DEF IInv, NoLicenseWrite
<1>7. HandedIn'
  BY <1>1 DEF NoLicenseWrite, HandedIn
<1>8. ASSUME ~disturbed' PROVE InTurn'
  <2>0. ~disturbed /\ ~Idle(p) /\ pc[p] # "link"
    BY <1>1, <1>8, StepsDiffer DEF Continue, Idle
  <2>1. InTurn /\ Alone(p)
    BY <1>1, <2>0, MovesOn
  <2>2. ReadIsSo(p)' /\ calls' = {} /\ ToIndex(l)' /\ UNCHANGED index
    BY <1>0, <1>1, <1>3, <2>1 DEF ReadIsSo, NoCall, Alone, ToIndex
  <2>3. ~SetBack => Stays(l)'
    BY <1>1, <1>2, <1>4, <2>1, <2>2 DEF InTurn, IndexFollows, Alone, Stays, Findable, Exists
  <2>4. ~SetBack => (Exists(l)' /\ listing'[l].status = "pending" => LedTo(l)')
    <3>1. UNCHANGED <<license, early>> /\ ~\E q \in Processes : pc[q] \in {"link", "applyReview"}
      BY <1>1, <2>1, StepsDiffer DEF NoLicenseWrite, Alone, Idle
    <3>2. QED
      BY <1>1, <1>2, <1>4, <2>1, <3>1 DEF InTurn, PendingFollows, LedTo, PendingLicenses, Exists
  <2>5. QED
    BY <1>0, <1>1, <1>3, <1>5, <2>1, <2>2, <2>0, <2>3, <2>4, ListingTurn
<1>9. QED
  BY <1>0, <1>2, <1>3, <1>4, <1>5, <1>6, <1>7, <1>8 DEF TurnInv
-----------------------------------------------------------------------------
(* What steps of Listings do to the promotion columns.                     *)

\* A request goes on undisturbed, or neither starts nor leaves a statement of
\* a promotion's; the copy it may save is what it has just read.
Moves(p) ==
    \/ pc'[p] = pc[p] /\ job'[p] = job[p] /\ copyL'[p] = copyL[p]
    \/ /\ pc[p] \notin PromotionSteps /\ pc'[p] \notin PromotionSteps
       /\ pc'[p] = "saveStatus" => job'[p][1] \in ListingIds /\ copyL'[p] = listing[job'[p][1]]

\* The columns of listing l stay, or are a copy's.
Columns(l) ==
    \/ listing'[l].offer = listing[l].offer
    \/ \E p \in Processes : /\ pc[p] = "saveStatus" /\ job[p][1] = l
                            /\ listing'[l].offer = copyL[p].offer

OffersKept ==
    /\ \A l \in ListingIds : Columns(l)
    /\ \A p \in Processes : Moves(p)
    /\ disturbed => disturbed'

LEMMA BeginMoves ==
  ASSUME IInv, NEW p \in Processes, NEW s, s \notin PromotionSteps, NEW l, NEW k, NEW to,
         Begin(p, s, l, k, to), s = "saveStatus" => l \in ListingIds
  PROVE  (\A q \in Processes : Moves(q)) /\ (disturbed => disturbed')
<1>1. Others(p) /\ pc'[p] = s /\ (s # "idle" => job'[p] = <<l, k, to>>)
  BY BeginFacts
<1>2. pc[p] \notin PromotionSteps /\ (disturbed => disturbed')
  BY StepsDiffer DEF Begin, Idle
<1>3. s = "saveStatus" => copyL'[p] = listing[l]
  BY DEF Begin, Goto, IInv, ProcsOK, ProcTypes
<1>4. Moves(p)
  BY <1>1, <1>2, <1>3 DEF Moves
<1>5. QED
  BY <1>1, <1>2, <1>4 DEF Others, Moves

LEMMA ContinueMoves ==
  ASSUME IInv, NEW p \in Processes, pc[p] \notin PromotionSteps, NEW s, s \notin PromotionSteps,
         s # "saveStatus", Continue(p, s)
  PROVE  (\A q \in Processes : Moves(q)) /\ (disturbed => disturbed')
<1>1. Others(p) /\ pc'[p] = s /\ UNCHANGED disturbed
  BY ContinueFacts DEF Continue
<1>2. QED
  BY <1>1 DEF Others, Moves

LEMMA StayMoves ==
  UNCHANGED procVars => \A q \in Processes : Moves(q)
BY DEF procVars, Moves

LEMMA StatementMoves ==
  ASSUME IInv, NEW p \in Processes, RequestStep(p)
  PROVE  (\A q \in Processes : Moves(q)) /\ (disturbed => disturbed')
<1>1. pc[p] \notin PromotionSteps
  BY StepsDiffer DEF RequestStep, LinkLicense, RemoveLicense, SaveReview, ApplyReview, IndexListing,
                     SaveStatus, SoftDelete
<1>2. PICK s \in {"idle", "unlink", "index", "applyReview"} : Continue(p, s)
  BY DEF RequestStep, LinkLicense, RemoveLicense, SaveReview, ApplyReview, IndexListing, SaveStatus,
         SoftDelete
<1>3. s \notin PromotionSteps /\ s # "saveStatus"
  BY DEF PromotionSteps
<1>4. QED
  BY <1>1, <1>2, <1>3, ContinueMoves

LEMMA StatementColumns ==
  ASSUME IInv, NEW p \in Processes, RequestStep(p), NEW l \in ListingIds
  PROVE  Columns(l)
<1>0. PICK m : m = job[p][1]
  OBVIOUS
<1>1. CASE NoListingWrite
  BY <1>1 DEF NoListingWrite, Columns
<1>2. CASE ApplyReview(p) \/ SoftDelete(p)
  <2>1. PICK row : listing' = [listing EXCEPT ![m] = row] /\ row.offer = listing[m].offer
    <3>1. [listing[m] EXCEPT !.status = "published"].offer = listing[m].offer
          /\ [listing[m] EXCEPT !.status = "paused"].offer = listing[m].offer
          /\ [listing[m] EXCEPT !.removed = TRUE].offer = listing[m].offer
      BY <1>0, <1>2 DEF ApplyReview, SoftDelete, IInv, RowsOK, ProcsOK, ProcOK, ListingRows
    <3>2. QED
      BY <1>0, <1>2, <3>1 DEF ApplyReview, SoftDelete, WriteListing
  <2>2. QED
    BY <2>1 DEF IInv, RowsOK, Columns
<1>3. CASE SaveStatus(p)
  <2>1. PICK row : listing' = [listing EXCEPT ![m] = row] /\ row.offer = copyL[p].offer
    <3>1. [copyL[p] EXCEPT !.status = job[p][3]].offer = copyL[p].offer
      BY DEF IInv, ProcsOK, ProcTypes, ListingRows
    <3>2. QED
      BY <1>0, <1>3, <3>1 DEF SaveStatus, WriteListing
  <2>2. pc[p] = "saveStatus"
    BY <1>3 DEF SaveStatus
  <2>3. QED
    BY <1>0, <2>1, <2>2 DEF IInv, RowsOK, Columns
<1>4. QED
  BY <1>1, <1>2, <1>3 DEF RequestStep, LinkLicense, RemoveLicense, SaveReview, IndexListing

LEMMA OfferSteps == IInv /\ [Next]_vars => OffersKept
<1> SUFFICES ASSUME IInv, [Next]_vars PROVE OffersKept
  OBVIOUS
<1>1. ASSUME NoListingWrite PROVE \A l \in ListingIds : Columns(l)
  BY <1>1 DEF NoListingWrite, Columns
<1>2. ASSUME NEW p \in Requests, NEW l \in ListingIds, NEW k \in LicenseIds \cup {NoLicense},
             CreateListing(p, l, k)
      PROVE  OffersKept
  <2>1. \A m \in ListingIds : Columns(m)
    BY <1>2 DEF CreateListing, WriteListing, IInv, RowsOK, Columns, Row
  <2>2. CASE k = NoLicense
    BY <1>2, <2>1, <2>2, StayMoves DEF CreateListing, OffersKept
  <2>3. CASE k # NoLicense
    <3>1. Begin(p, "link", l, k, "none") /\ p \in Processes
      BY <1>2, <2>3 DEF CreateListing, Processes
    <3>2. "link" \notin PromotionSteps
      BY DEF PromotionSteps
    <3>3. QED
      BY <2>1, <3>1, <3>2, BeginMoves DEF OffersKept
  <2>4. QED
    BY <2>2, <2>3
<1>3. ASSUME NEW p \in Requests, NEW s, s \in {"index", "saveStatus", "softDelete", "saveReview"},
             NEW l, NEW k, NEW to, Begin(p, s, l, k, to), s = "saveStatus" => l \in ListingIds, NoListingWrite
      PROVE  OffersKept
  <2>1. p \in Processes /\ s \notin PromotionSteps
    BY <1>3 DEF Processes, PromotionSteps
  <2>2. QED
    BY <1>1, <1>3, <2>1, BeginMoves DEF OffersKept
<1>4. ASSUME NEW p \in Requests, NEW l \in ListingIds, NEW u \in Users, NEW k \in LicenseIds,
             CompleteDraft(p, u, l, k)
      PROVE  OffersKept
  BY <1>3, <1>4 DEF CompleteDraft
<1>5. ASSUME NEW p \in Requests, NEW l \in Attended,
             (\E s \in Targets : UpdateStatus(p, l, s)) \/ Update(p, l) \/ Remove(p, l)
      PROVE  OffersKept
  <2>1. l \in ListingIds
    BY BoundsAssumption
  <2>2. QED
    BY <1>3, <1>5, <2>1 DEF UpdateStatus, Update, Remove
<1>6. ASSUME NEW p \in Requests, NEW k \in LicenseIds, NEW v \in {"approved", "rejected"}, Review(p, k, v)
      PROVE  OffersKept
  BY <1>3, <1>6 DEF Review
<1>7. ASSUME NEW p \in Processes, RequestStep(p) PROVE OffersKept
  BY <1>7, StatementMoves, StatementColumns DEF OffersKept
<1>8. ASSUME NoListingWrite, UNCHANGED procVars, disturbed => disturbed' PROVE OffersKept
  BY <1>1, <1>8, StayMoves DEF OffersKept
<1>9. CASE UNCHANGED vars
  BY <1>8, <1>9 DEF vars, NoListingWrite
<1>10. CASE Deliver \/ Lose
  BY <1>8, <1>10 DEF Deliver, Lose
<1>11. ASSUME NEW u \in Users, NEW k \in LicenseIds, NEW external \in BOOLEAN, SubmitLicense(u, k, external)
       PROVE  OffersKept
  BY <1>8, <1>11 DEF SubmitLicense
<1>12. QED
  BY <1>2, <1>4, <1>5, <1>6, <1>7, <1>9, <1>10, <1>11 DEF Next
-----------------------------------------------------------------------------
(* The golden section is paid for.                                         *)

PromosOK ==
    /\ promo \in [PromoIds -> Promos] /\ debited \subseteq PromoIds /\ now \in 0..LastNow
    /\ \A m \in debited : promo[m].status # "none"
    /\ \A m \in PromoIds : promo[m].status # "none" => promo[m].listing \in ListingIds

\* What a promotion's request, or the job, knows of the promotion it is about.
Handles(p) ==
    pc[p] \in PromotionSteps =>
        /\ job[p][3] \in PromoIds /\ promo[job[p][3]].status # "none"
        /\ job[p][1] = promo[job[p][3]].listing
        /\ pc[p] = "activate" => job[p][3] \in debited /\ Shown(job[p][3])

PaidOffer(l, offer) ==
    offer # NoOffer /\ offer[1] = "golden" =>
        \E m \in debited : promo[m].listing = l /\ OfferOf(m) = offer

\* What a listing's row says, or a copy that may be saved, is paid for.
OffersPaid ==
    /\ \A l \in ListingIds : PaidOffer(l, listing[l].offer)
    /\ \A p \in Processes : pc[p] = "saveStatus" => PaidOffer(job[p][1], copyL[p].offer)

PaidInv == PromosOK /\ OffersPaid /\ \A p \in Processes : Handles(p)

\* A promotion keeps what was bought, and stays paid for.
PromosKept ==
    /\ \A m \in PromoIds : promo[m].status # "none" =>
          /\ promo'[m].status # "none" /\ promo'[m].listing = promo[m].listing
          /\ promo'[m].kind = promo[m].kind /\ promo'[m].ends = promo[m].ends
    /\ debited \subseteq debited'

LEMMA PaidStays ==
  ASSUME PromosOK, PromosKept, NEW l, NEW offer, PaidOffer(l, offer)
  PROVE  offer # NoOffer /\ offer[1] = "golden" =>
            \E m \in debited' : promo'[m].listing = l /\ <<promo'[m].kind, promo'[m].ends>> = offer
<1> SUFFICES ASSUME offer # NoOffer, offer[1] = "golden"
             PROVE  \E m \in debited' : promo'[m].listing = l /\ <<promo'[m].kind, promo'[m].ends>> = offer
  OBVIOUS
<1>1. PICK m \in debited : promo[m].listing = l /\ OfferOf(m) = offer
  BY DEF PaidOffer
<1>2. m \in debited' /\ promo'[m].listing = promo[m].listing /\ promo'[m].kind = promo[m].kind
      /\ promo'[m].ends = promo[m].ends
  BY DEF PromosOK, PromosKept
<1>3. QED
  BY <1>1, <1>2 DEF OfferOf

\* What the offers are after a step that only takes them from rows and copies,
\* or from a promotion that is paid for.
LEMMA PaidAfter ==
  ASSUME PaidInv, PromosKept, PromosOK',
         \A l \in ListingIds : Columns(l) \/ PaidOffer(l, listing'[l].offer),
         \A p \in Processes :
            \/ pc'[p] = pc[p] /\ job'[p] = job[p] /\ copyL'[p] = copyL[p]
            \/ /\ Handles(p)'
               /\ pc'[p] = "saveStatus" => job'[p][1] \in ListingIds /\ copyL'[p] = listing[job'[p][1]]
  PROVE  PaidInv'
<1>1. ASSUME NEW l \in ListingIds PROVE PaidOffer(l, listing[l].offer)'
  <2>1. PaidOffer(l, listing'[l].offer)
    BY <1>1 DEF PaidInv, OffersPaid, Columns, PaidOffer
  <2>2. listing'[l].offer # NoOffer /\ listing'[l].offer[1] = "golden" =>
           \E m \in debited' : promo'[m].listing = l /\ <<promo'[m].kind, promo'[m].ends>> = listing'[l].offer
    BY <2>1, PaidStays DEF PaidInv
  <2>3. QED
    BY <2>2 DEF PaidOffer, OfferOf
<1>2. ASSUME NEW p \in Processes, pc'[p] = "saveStatus" PROVE PaidOffer(job[p][1], copyL[p].offer)'
  <2>1. PaidOffer(job'[p][1], copyL'[p].offer)
    BY <1>2 DEF PaidInv, OffersPaid
  <2>2. copyL'[p].offer # NoOffer /\ copyL'[p].offer[1] = "golden" =>
           \E m \in debited' : promo'[m].listing = job'[p][1] /\ <<promo'[m].kind, promo'[m].ends>> = copyL'[p].offer
    BY <2>1, PaidStays DEF PaidInv
  <2>3. QED
    BY <2>2 DEF PaidOffer, OfferOf
<1>3. ASSUME NEW p \in Processes PROVE Handles(p)'
  <2>1. CASE Handles(p)'
    BY <2>1
  <2>2. CASE pc'[p] = pc[p] /\ job'[p] = job[p]
    BY <2>2 DEF PaidInv, Handles, PromosKept, Shown
  <2>3. QED
    BY <2>1, <2>2
<1>4. QED
  BY <1>1, <1>2, <1>3 DEF PaidInv, OffersPaid

LEMMA PaidInit == MarketInit => PaidInv
<1> SUFFICES ASSUME MarketInit PROVE PaidInv
  OBVIOUS
<1> DEFINE Is(row) == row.status = "none" /\ row.listing = NoListing /\ row.ends = 0
<1>1. \E row \in Promos : Is(row)
  <2>1. [status |-> "none", listing |-> NoListing, kind |-> "golden", ends |-> 0] \in Promos
    BY PromotionsAssumption DEF Promos, Kinds
  <2>2. QED
    BY <2>1
<1>2. PICK row \in Promos : Is(row) /\ promo = [m \in PromoIds |-> row]
  <2>1. (CHOOSE row \in Promos : Is(row)) \in Promos /\ Is(CHOOSE row \in Promos : Is(row))
    BY <1>1
  <2>2. QED
    BY <2>1 DEF MarketInit
<1>3. PromosOK
  BY <1>2, PromotionsAssumption DEF MarketInit, PromosOK
<1>4. QED
  BY <1>3, StepsDiffer DEF MarketInit, Init, PaidInv, OffersPaid, PaidOffer, Handles, Row
\* The rest of what is so all the time.
RowsInv == IInv /\ HandedIn /\ TurnInv

LEMMA RowsInit == MarketInit => RowsInv
BY InitIInv, TurnInit DEF MarketInit, Init, HandedIn, RowsInv

LEMMA ListingPaid ==
  ASSUME RowsInv, PaidInv, [Next]_vars, UNCHANGED promoVars
  PROVE  RowsInv' /\ PaidInv' /\ OffersKept
<1>1. RowsInv' /\ OffersKept
  BY NextIInv, HandedInStep, TurnNext, OfferSteps DEF RowsInv
<1>2. PromosKept /\ PromosOK'
  BY DEF PaidInv, PromosOK, PromosKept, promoVars
<1>3. ASSUME NEW p \in Processes
      PROVE  \/ pc'[p] = pc[p] /\ job'[p] = job[p] /\ copyL'[p] = copyL[p]
             \/ /\ Handles(p)'
                /\ pc'[p] = "saveStatus" => job'[p][1] \in ListingIds /\ copyL'[p] = listing[job'[p][1]]
  BY <1>1 DEF OffersKept, Moves, Handles
<1>4. PaidInv'
  BY <1>1, <1>2, <1>3, PaidAfter DEF OffersKept
<1>5. QED
  BY <1>1, <1>4

\* A step of a promotion's that writes no listing.
LEMMA QuietPaid ==
  ASSUME PaidInv, NoListingsWrite, PromosKept, PromosOK', NEW p \in Processes, Others(p),
         pc'[p] \in PromotionSteps \cup {"idle"}, Handles(p)'
  PROVE  PaidInv'
<1>1. \A l \in ListingIds : Columns(l)
  BY DEF NoListingsWrite, NoListingWrite, Columns
<1>2. \A q \in Processes :
            \/ pc'[q] = pc[q] /\ job'[q] = job[q] /\ copyL'[q] = copyL[q]
            \/ /\ Handles(q)'
               /\ pc'[q] = "saveStatus" => job'[q][1] \in ListingIds /\ copyL'[q] = listing[job'[q][1]]
  BY StepsDiffer DEF Others
<1>3. QED
  BY <1>1, <1>2, PaidAfter

LEMMA PurchasePaid ==
  ASSUME RowsInv, PaidInv, NEW p \in Processes, NEW l \in ListingIds, NEW m \in PromoIds, NEW kind \in Kinds,
         Purchase(p, l, m, kind)
  PROVE  RowsInv' /\ PaidInv'
<1>1. Begin(p, "deduct", l, NoLicense, m) /\ NoListingsWrite /\ "deduct" \in PromotionSteps
      /\ promo[m].status = "none" /\ UNCHANGED <<debited, now>>
  BY DEF Purchase, PromotionSteps
<1>2. RowsInv' /\ Others(p) /\ pc'[p] = "deduct" /\ job'[p] = <<l, NoLicense, m>>
  BY <1>1, BeginPromotion DEF RowsInv
<1> DEFINE row == [status |-> "active", listing |-> l, kind |-> kind, ends |-> now + Days[kind]]
<1>3. row \in Promos /\ row.status = "active" /\ row.listing = l
  <2>1. now \in 0..LastNow /\ Days[kind] \in Nat /\ now + Days[kind] < LastNow /\ LastNow \in Nat
    BY PromotionsAssumption DEF PaidInv, PromosOK, Purchase, Kinds
  <2>2. now + Days[kind] \in 0..LastNow
    BY <2>1
  <2>3. QED
    BY <2>2 DEF Promos
<1>4. promo' = [promo EXCEPT ![m] = row]
  BY DEF Purchase
<1> HIDE DEF row
<1>5. PromosKept /\ PromosOK' /\ promo'[m] = row
  BY <1>1, <1>3, <1>4 DEF PaidInv, PromosOK, PromosKept
<1>6. Handles(p)'
  BY <1>2, <1>3, <1>5 DEF Handles
<1>7. QED
  BY <1>1, <1>2, <1>5, <1>6, QuietPaid

\* Cancel and Expire.
LEMMA EndPaid ==
  ASSUME RowsInv, PaidInv, NEW p \in Processes, NEW m \in PromoIds, Cancel(p, m) \/ Expire(p, m)
  PROVE  RowsInv' /\ PaidInv'
<1>1. PICK s \in {"saveCancelled", "saveExpired"} : Begin(p, s, promo[m].listing, NoLicense, m)
  BY DEF Cancel, Expire
<1>2. NoListingsWrite /\ UNCHANGED promoVars /\ promo[m].status = "active"
      /\ s \in PromotionSteps /\ s # "activate"
  BY DEF Cancel, Expire, PromotionSteps
<1>3. RowsInv' /\ Others(p) /\ pc'[p] = s /\ job'[p] = <<promo[m].listing, NoLicense, m>>
  BY <1>1, <1>2, BeginPromotion DEF RowsInv
<1>4. PromosKept /\ PromosOK'
  BY <1>2 DEF PaidInv, PromosOK, PromosKept, promoVars
<1>5. Handles(p)'
  BY <1>2, <1>3 DEF Handles, promoVars
<1>6. QED
  BY <1>2, <1>3, <1>4, <1>5, QuietPaid

LEMMA DeductPaid ==
  ASSUME RowsInv, PaidInv, NEW p \in Processes, Deduct(p)
  PROVE  RowsInv' /\ PaidInv'
<1>0. PICK m : m = job[p][3]
  OBVIOUS
<1>1. pc[p] = "deduct" /\ NoListingsWrite /\ UNCHANGED <<promo, now>> /\ pc[p] \in PromotionSteps
  BY DEF Deduct, PromotionSteps
<1>2. m \in PromoIds /\ promo[m].status # "none" /\ job[p][1] = promo[m].listing
  BY <1>0, <1>1 DEF PaidInv, Handles
<1>3. PICK s \in {"activate", "idle", "undo"} :
          Continue(p, s) /\ (s = "activate" => Shown(m) /\ debited' = debited \cup {m})
  BY <1>0 DEF Deduct
<1>4. s \in PromotionSteps \cup {"idle"}
  BY DEF PromotionSteps
<1>5. RowsInv' /\ Others(p) /\ pc'[p] = s /\ (s # "idle" => job'[p] = job[p])
  BY <1>1, <1>3, <1>4, ContinuePromotion DEF RowsInv
<1>6. debited' = debited \cup {m} \/ debited' = debited
  BY <1>0 DEF Deduct
<1>7. PromosKept /\ PromosOK'
  BY <1>1, <1>2, <1>6 DEF PaidInv, PromosOK, PromosKept
<1>8. Handles(p)'
  <2>1. CASE s = "idle"
    BY <1>5, <2>1, StepsDiffer DEF Handles
  <2>2. CASE s # "idle"
    BY <1>0, <1>1, <1>2, <1>3, <1>5, <2>2 DEF Handles, Shown
  <2>3. QED
    BY <2>1, <2>2
<1>9. QED
  BY <1>1, <1>4, <1>5, <1>7, <1>8, QuietPaid

\* Undo and SaveEnd give the promotion another status.
LEMMA StatusPaid ==
  ASSUME RowsInv, PaidInv, NEW p \in Processes, Undo(p) \/ SaveEnd(p)
  PROVE  RowsInv' /\ PaidInv'
<1>0. PICK m : m = job[p][3]
  OBVIOUS
<1>1. NoListingsWrite /\ UNCHANGED <<debited, now>> /\ pc[p] \in PromotionSteps
  BY DEF Undo, SaveEnd, PromotionSteps
<1>2. m \in PromoIds /\ promo[m].status # "none" /\ job[p][1] = promo[m].listing
  BY <1>0, <1>1 DEF PaidInv, Handles
<1>3. PICK s \in {"deactivate", "idle"}, status \in {"deleted", "expired", "cancelled"} :
          Continue(p, s) /\ promo' = [promo EXCEPT ![m].status = status]
  BY <1>0 DEF Undo, SaveEnd, SetStatus
<1>4. s \in PromotionSteps \cup {"idle"} /\ s # "activate"
  BY DEF PromotionSteps
<1>5. RowsInv' /\ Others(p) /\ pc'[p] = s /\ (s # "idle" => job'[p] = job[p])
  BY <1>1, <1>3, <1>4, ContinuePromotion DEF RowsInv
<1>6. PromosKept /\ PromosOK'
  BY <1>1, <1>2, <1>3 DEF PaidInv, PromosOK, PromosKept, Promos
<1>7. Handles(p)'
  <2>1. CASE s = "idle"
    BY <1>5, <2>1, StepsDiffer DEF Handles
  <2>2. CASE s # "idle"
    BY <1>0, <1>2, <1>4, <1>5, <1>6, <2>2 DEF Handles, PromosKept
  <2>3. QED
    BY <2>1, <2>2
<1>8. QED
  BY <1>1, <1>4, <1>5, <1>6, <1>7, QuietPaid

\* Activate and Deactivate set the columns.
LEMMA ColumnsPaid ==
  ASSUME RowsInv, PaidInv, NEW p \in Processes, Activate(p) \/ Deactivate(p)
  PROVE  RowsInv' /\ PaidInv'
<1>0. PICK m, l : m = job[p][3] /\ l = job[p][1]
  OBVIOUS
<1>1. UNCHANGED promoVars /\ pc[p] \in PromotionSteps
  BY DEF Activate, Deactivate, PromotionSteps
<1>2. m \in PromoIds /\ l = promo[m].listing /\ l \in ListingIds
      /\ (Activate(p) => m \in debited /\ Shown(m))
  BY <1>0, <1>1 DEF PaidInv, Handles, PromosOK, Activate
<1>3. PICK offer \in Offers \cup {NoOffer} :
          SetOffer(p, offer) /\ (offer # NoOffer => m \in debited /\ offer = OfferOf(m))
  <2>1. CASE Activate(p)
    <3>1. promo[m].kind \in {"golden", "featured"} /\ promo[m].ends \in 0..LastNow
      BY <1>2, <2>1 DEF Shown, PaidInv, PromosOK, Promos
    <3>2. OfferOf(m) \in Offers
      BY <3>1, PromotionsAssumption DEF OfferOf
    <3>3. QED
      BY <1>0, <1>2, <2>1, <3>2 DEF Activate
  <2>2. CASE Deactivate(p)
    BY <2>2 DEF Deactivate
  <2>3. QED
    BY <2>1, <2>2
<1>4. /\ RowsInv' /\ Others(p) /\ pc'[p] = "index" /\ job'[p] = job[p]
      /\ listing'[l].offer = offer
      /\ \A k \in ListingIds : k # l => listing'[k] = listing[k]
  <2>1. job[p][1] \in ListingIds
    BY <1>0, <1>2
  <2>2. QED
    BY <1>0, <1>1, <1>3, <2>1, SetOfferStep DEF RowsInv
<1>5. PromosKept /\ PromosOK'
  BY <1>1 DEF PaidInv, PromosOK, PromosKept, promoVars
<1>6. \A k \in ListingIds : Columns(k) \/ PaidOffer(k, listing'[k].offer)
  BY <1>2, <1>3, <1>4 DEF Columns, PaidOffer
<1>7. \A q \in Processes :
            \/ pc'[q] = pc[q] /\ job'[q] = job[q] /\ copyL'[q] = copyL[q]
            \/ /\ Handles(q)'
               /\ pc'[q] = "saveStatus" => job'[q][1] \in ListingIds /\ copyL'[q] = listing[job'[q][1]]
  BY <1>4 DEF Others, Handles, PromotionSteps
<1>8. QED
  BY <1>4, <1>5, <1>6, <1>7, PaidAfter
LEMMA TickPaid ==
  ASSUME RowsInv, PaidInv, Tick
  PROVE  RowsInv' /\ PaidInv'
<1>1. UNCHANGED vars
  BY DEF Tick, NoListingsWrite, NoListingWrite, NoLicenseWrite, NoCall, vars
<1>2. RowsInv'
  BY <1>1, NextIInv, HandedInStep, TurnNext DEF RowsInv
<1>3. PromosOK' /\ PromosKept
  BY PromotionsAssumption DEF Tick, PaidInv, PromosOK, PromosKept
<1>4. PaidInv'
  BY <1>1, <1>3, PaidAfter DEF vars, procVars, Columns
<1>5. QED
  BY <1>2, <1>4

LEMMA CrashPaid ==
  ASSUME RowsInv, PaidInv, NEW p \in Processes, Crash(p)
  PROVE  RowsInv' /\ PaidInv'
<1>1. copyL[p] \in ListingRows /\ copyK[p] \in Licenses /\ ProcTypes
  BY DEF RowsInv, IInv, ProcsOK, ProcTypes
<1>2. Goto(p, "idle", job[p], copyL[p], copyK[p]) /\ NoListingsWrite /\ disturbed' /\ UNCHANGED promoVars
  BY DEF Crash
<1>3. ProcTypes' /\ Others(p) /\ pc'[p] = "idle"
  BY <1>1, <1>2, GotoFacts
<1>4. RowsInv'
  BY <1>2, <1>3, QuietStepRows DEF RowsInv, TurnInv
<1>5. PromosOK' /\ PromosKept /\ Handles(p)'
  BY <1>2, <1>3, StepsDiffer DEF PaidInv, PromosOK, PromosKept, promoVars, Handles
<1>6. QED
  BY <1>2, <1>3, <1>4, <1>5, QuietPaid

LEMMA PaidNext == RowsInv /\ PaidInv /\ [MarketNext]_marketVars => RowsInv' /\ PaidInv'
<1> SUFFICES ASSUME RowsInv, PaidInv, [MarketNext]_marketVars PROVE RowsInv' /\ PaidInv'
  OBVIOUS
<1>1. CASE (Next \/ UNCHANGED vars) /\ UNCHANGED promoVars
  BY <1>1, ListingPaid
<1>2. ASSUME NEW p \in Processes, PromotionStep(p) \/ Crash(p) PROVE RowsInv' /\ PaidInv'
  BY <1>2, DeductPaid, StatusPaid, ColumnsPaid, CrashPaid DEF PromotionStep
<1>3. Requests \subseteq Processes /\ Passes \subseteq Processes
  BY DEF Processes
<1>4. QED
  BY <1>1, <1>2, <1>3, PurchasePaid, EndPaid, TickPaid DEF MarketNext, marketVars

LEMMA PaidInvariance == MarketSpec => [](RowsInv /\ PaidInv)
BY RowsInit, PaidInit, PaidNext, PTL DEF MarketSpec

\* Nobody is in the golden section who has not paid to be, whatever writes the
\* listing's columns, and however late (getGoldenListings, purchasePromotion).
THEOREM GoldenIsPaid == MarketSpec => []GoldenIsPaidFor
<1>1. PaidInv => GoldenIsPaidFor
  BY DEF PaidInv, OffersPaid, PaidOffer, GoldenIsPaidFor, GoldenListings
<1>2. QED
  BY <1>1, PaidInvariance, PTL

-----------------------------------------------------------------------------
(* The golden section follows the promotions, as long as requests take     *)
(* turns.                                                                  *)

Golden(l) == listing[l].offer # NoOffer /\ listing[l].offer[1] = "golden"

Backed(l) == \E m \in debited :
    promo[m].listing = l /\ OfferOf(m) = listing[l].offer /\ promo[m].status = "active"

Ending(l) == \E p \in Processes : pc[p] = "deactivate" /\ job[p][1] = l

\* The promotion a request pays for, or takes back, is as the request left it.
Bought(p) ==
    /\ pc[p] \in {"deduct", "undo"} => job[p][3] \notin debited
    /\ pc[p] \in {"deduct", "activate"} => promo[job[p][3]].status = "active"

ActiveInv == ~disturbed =>
    /\ \A l \in ListingIds : Golden(l) => Backed(l) \/ Ending(l)
    /\ \A p \in Processes : Bought(p)

LEMMA ActiveInit == MarketInit => ActiveInv
BY DEF MarketInit, Init, ActiveInv, Golden, Row, Bought

\* A request of Listings' takes no promotion's columns elsewhere: the copy it
\* saves is the row.
LEMMA ListingActive ==
  ASSUME RowsInv, PaidInv, ActiveInv, OffersKept, UNCHANGED promoVars
  PROVE  ActiveInv'
<1> SUFFICES ASSUME ~disturbed'
             PROVE  /\ \A l \in ListingIds : Golden(l)' => Backed(l)' \/ Ending(l)'
                    /\ \A p \in Processes : Bought(p)'
  BY DEF ActiveInv
<1>1. ~disturbed /\ InTurn
  BY DEF OffersKept, RowsInv, TurnInv
<1>2. ASSUME NEW l \in ListingIds PROVE listing'[l].offer = listing[l].offer
  BY <1>1 DEF OffersKept, Columns, InTurn, ReadIsSo
<1>3. ASSUME NEW l \in ListingIds, Golden(l)' PROVE Backed(l)' \/ Ending(l)'
  <2>1. listing'[l].offer = listing[l].offer /\ Golden(l)
    BY <1>2, <1>3 DEF Golden
  <2>2. Backed(l) => Backed(l)'
    BY <2>1 DEF Backed, OfferOf, promoVars
  <2>3. Ending(l) => Ending(l)'
    BY DEF Ending, OffersKept, Moves, PromotionSteps
  <2>4. QED
    BY <1>1, <2>1, <2>2, <2>3 DEF ActiveInv
<1>4. ASSUME NEW p \in Processes PROVE Bought(p)'
  <2>1. CASE pc'[p] = pc[p] /\ job'[p] = job[p]
    BY <1>1, <2>1 DEF ActiveInv, Bought, promoVars
  <2>2. CASE pc'[p] \notin PromotionSteps
    BY <2>2 DEF Bought, PromotionSteps
  <2>3. QED
    BY <2>1, <2>2 DEF OffersKept, Moves
<1>5. QED
  BY <1>3, <1>4

\* A step of promotion m's, by the one request that is served.
LEMMA ServedActive ==
  ASSUME ActiveInv, ~disturbed, NEW p \in Processes, Alone(p), Others(p), Bought(p)',
         \A l \in ListingIds : Golden(l)' => Backed(l)' \/ Ending(l)'
  PROVE  ActiveInv'
<1>1. \A q \in Processes : q # p => Bought(q)'
  BY DEF Alone, Idle, Others, Bought
<1>2. QED
  BY <1>1 DEF ActiveInv

LEMMA BeginActive ==
  ASSUME RowsInv, PaidInv, ActiveInv, NEW p \in Processes, NEW s \in {"deduct", "saveCancelled", "saveExpired"},
         NEW l, NEW m, Begin(p, s, l, NoLicense, m), NoListingsWrite, UNCHANGED debited,
         \A x \in debited : promo'[x] = promo[x],
         s = "deduct" => m \notin debited /\ promo'[m].status = "active"
  PROVE  ActiveInv'
<1> SUFFICES ASSUME ~disturbed' PROVE ActiveInv'
  BY DEF ActiveInv
<1>1. s \in PromotionSteps /\ s # "undo" /\ s # "activate"
  BY DEF PromotionSteps
<1>2. Alone(p) /\ ~disturbed /\ Idle(p)
  BY BeginAlone DEF Begin
<1>3. Others(p) /\ pc'[p] = s /\ job'[p] = <<l, NoLicense, m>>
  BY <1>1, BeginPromotion DEF RowsInv
<1>4. Bought(p)'
  BY <1>1, <1>3 DEF Bought
<1>5. ASSUME NEW k \in ListingIds, Golden(k)' PROVE Backed(k)'
  <2>1. Golden(k) /\ listing' = listing
    BY <1>5 DEF NoListingsWrite, NoListingWrite, Golden
  <2>2. Backed(k)
    BY <1>2, <2>1 DEF ActiveInv, Ending, Alone, Idle
  <2>3. QED
    BY <2>1, <2>2 DEF Backed, OfferOf
<1>6. QED
  BY <1>2, <1>3, <1>4, <1>5, ServedActive

LEMMA PurchaseActive ==
  ASSUME RowsInv, PaidInv, ActiveInv, NEW p \in Processes, NEW l \in ListingIds, NEW m \in PromoIds,
         NEW kind \in Kinds, Purchase(p, l, m, kind)
  PROVE  ActiveInv'
<1>1. Begin(p, "deduct", l, NoLicense, m) /\ NoListingsWrite /\ UNCHANGED debited /\ m \notin debited
  BY DEF Purchase, PaidInv, PromosOK
<1>2. promo'[m].status = "active" /\ \A x \in debited : promo'[x] = promo[x]
  BY <1>1 DEF Purchase, PaidInv, PromosOK
<1>3. QED
  BY <1>1, <1>2, BeginActive

LEMMA EndActive ==
  ASSUME RowsInv, PaidInv, ActiveInv, NEW p \in Processes, NEW m \in PromoIds, Cancel(p, m) \/ Expire(p, m)
  PROVE  ActiveInv'
<1>1. NoListingsWrite /\ UNCHANGED <<promo, debited>>
  BY DEF Cancel, Expire, promoVars
<1>2. PICK s \in {"saveCancelled", "saveExpired"} : Begin(p, s, promo[m].listing, NoLicense, m)
  BY DEF Cancel, Expire
<1>3. s \in {"deduct", "saveCancelled", "saveExpired"} /\ s # "deduct"
  OBVIOUS
<1>4. QED
  BY <1>1, <1>2, <1>3, BeginActive

LEMMA DeductActive ==
  ASSUME RowsInv, PaidInv, ActiveInv, NEW p \in Processes, Deduct(p)
  PROVE  ActiveInv'
<1> SUFFICES ASSUME ~disturbed' PROVE ActiveInv'
  BY DEF ActiveInv
<1>0. PICK m : m = job[p][3]
  OBVIOUS
<1>1. pc[p] = "deduct" /\ NoListingsWrite /\ UNCHANGED promo
  BY DEF Deduct
<1>2. PICK s \in {"activate", "idle", "undo"} :
          Continue(p, s) /\ (debited' = debited \cup {m} \/ (debited' = debited /\ s = "undo"))
          /\ (s = "undo" => debited' = debited)
  BY <1>0 DEF Deduct
<1>3. ~disturbed /\ ~Idle(p)
  BY <1>1, <1>2 DEF Continue, Idle
<1>4. Alone(p) /\ Others(p) /\ pc'[p] = s /\ (s # "idle" => job'[p] = job[p])
  BY <1>2, <1>3, MovesOn DEF RowsInv
<1>5. m \notin debited /\ promo[m].status = "active"
  BY <1>0, <1>1, <1>3 DEF ActiveInv, Bought
<1>6. Bought(p)'
  BY <1>0, <1>1, <1>2, <1>4, <1>5 DEF Bought
<1>7. ASSUME NEW l \in ListingIds, Golden(l)' PROVE Backed(l)'
  <2>1. Golden(l) /\ listing' = listing
    BY <1>1, <1>7 DEF NoListingsWrite, NoListingWrite, Golden
  <2>2. Backed(l)
    BY <1>1, <1>3, <1>4, <2>1 DEF ActiveInv, Ending, Alone, Idle
  <2>3. QED
    BY <1>1, <1>2, <2>1, <2>2 DEF Backed, OfferOf
<1>8. QED
  BY <1>3, <1>4, <1>6, <1>7, ServedActive

LEMMA StatusActive ==
  ASSUME RowsInv, PaidInv, ActiveInv, NEW p \in Processes, Undo(p) \/ SaveEnd(p)
  PROVE  ActiveInv'
<1> SUFFICES ASSUME ~disturbed' PROVE ActiveInv'
  BY DEF ActiveInv
<1>0. PICK m : m = job[p][3]
  OBVIOUS
<1>1. NoListingsWrite /\ UNCHANGED debited /\ pc[p] \in {"undo", "saveCancelled", "saveExpired"}
      /\ pc[p] \in PromotionSteps
  BY DEF Undo, SaveEnd, PromotionSteps
<1>2. m \in PromoIds /\ job[p][1] = promo[m].listing
  BY <1>0, <1>1 DEF PaidInv, Handles
<1>3. PICK s \in {"deactivate", "idle"}, status \in {"deleted", "expired", "cancelled"} :
          /\ Continue(p, s) /\ promo' = [promo EXCEPT ![m].status = status]
          /\ pc[p] # "undo" /\ Shown(m) => s = "deactivate"
  BY <1>0 DEF Undo, SaveEnd, SetStatus
<1>4. ~disturbed /\ ~Idle(p)
  BY <1>1, <1>3 DEF Continue, Idle
<1>5. Alone(p) /\ Others(p) /\ pc'[p] = s /\ (s # "idle" => job'[p] = job[p])
  BY <1>3, <1>4, MovesOn DEF RowsInv
<1>6. Bought(p)'
  BY <1>3, <1>5 DEF Bought
<1>7. ASSUME NEW l \in ListingIds, Golden(l)' PROVE Backed(l)' \/ Ending(l)'
  <2>1. Golden(l) /\ listing' = listing
    BY <1>1, <1>7 DEF NoListingsWrite, NoListingWrite, Golden
  <2>2. Backed(l)
    BY <1>1, <1>4, <1>5, <2>1 DEF ActiveInv, Ending, Alone, Idle
  <2>3. PICK x \in debited : promo[x].listing = l /\ OfferOf(x) = listing[l].offer /\ promo[x].status = "active"
    BY <2>2 DEF Backed
  <2>4. x \in PromoIds /\ promo[x].kind = "golden"
    BY <2>1, <2>3 DEF Golden, OfferOf, PaidInv, PromosOK
  <2>5. CASE x = m
    <3>1. pc[p] # "undo"
      BY <1>0, <1>4, <2>3, <2>5 DEF ActiveInv, Bought
    <3>2. s = "deactivate"
      BY <1>3, <2>4, <2>5, <3>1 DEF Shown
    <3>3. QED
      BY <1>2, <1>5, <2>3, <2>5, <3>2 DEF Ending
  <2>6. CASE x # m
    <3>1. x \in debited' /\ promo'[x] = promo[x]
      BY <1>1, <1>3, <2>4, <2>6 DEF PaidInv, PromosOK
    <3>2. QED
      BY <2>1, <2>3, <3>1 DEF Backed, OfferOf
  <2>7. QED
    BY <2>5, <2>6
<1>8. QED
  BY <1>4, <1>5, <1>6, <1>7, ServedActive

LEMMA ColumnsActive ==
  ASSUME RowsInv, PaidInv, ActiveInv, NEW p \in Processes, Activate(p) \/ Deactivate(p)
  PROVE  ActiveInv'
<1> SUFFICES ASSUME ~disturbed' PROVE ActiveInv'
  BY DEF ActiveInv
<1>0. PICK m, l : m = job[p][3] /\ l = job[p][1]
  OBVIOUS
<1>1. UNCHANGED promoVars /\ pc[p] \in PromotionSteps
  BY DEF Activate, Deactivate, PromotionSteps
<1>2. m \in PromoIds /\ l = promo[m].listing /\ l \in ListingIds
      /\ (Activate(p) => m \in debited)
  BY <1>0, <1>1 DEF PaidInv, Handles, PromosOK, Activate
<1>3. PICK offer : SetOffer(p, offer) /\ (offer = NoOffer \/ (Activate(p) /\ offer = OfferOf(m)))
  BY <1>0 DEF Activate, Deactivate
<1>4. Continue(p, "index") /\ ~disturbed /\ ~Idle(p)
  BY <1>1, <1>3, StepsDiffer DEF SetOffer, Continue, Idle
<1>5. Alone(p) /\ Others(p) /\ pc'[p] = "index"
  BY <1>4, MovesOn DEF RowsInv
<1>6. listing'[l].offer = offer /\ \A k \in ListingIds : k # l => listing'[k] = listing[k]
  <2>1. PICK row : row.offer = offer /\ listing' = [listing EXCEPT ![l] = row]
    <3>1. [listing[l] EXCEPT !.offer = offer].offer = offer
      BY <1>2 DEF RowsInv, IInv, RowsOK, ListingRows
    <3>2. QED
      BY <1>0, <1>3, <3>1 DEF SetOffer, WriteListing
  <2>2. QED
    BY <1>2, <2>1 DEF RowsInv, IInv, RowsOK
<1>7. Bought(p)'
  BY <1>5 DEF Bought
<1>8. ASSUME NEW k \in ListingIds, Golden(k)' PROVE Backed(k)'
  <2>1. CASE k = l
    <3>1. Activate(p) /\ offer = OfferOf(m)
      BY <1>3, <1>6, <1>8, <2>1 DEF Golden
    <3>2. promo[m].status = "active" /\ m \in debited
      BY <1>0, <1>2, <1>4, <3>1 DEF ActiveInv, Bought, Activate
    <3>3. QED
      BY <1>1, <1>2, <1>6, <2>1, <3>1, <3>2 DEF Backed, OfferOf, promoVars
  <2>2. CASE k # l
    <3>1. Golden(k) /\ listing'[k] = listing[k]
      BY <1>6, <1>8, <2>2 DEF Golden
    <3>2. ~Ending(k)
      BY <1>0, <1>5, <2>2 DEF Ending, Alone, Idle
    <3>3. QED
      BY <1>1, <1>4, <3>1, <3>2 DEF ActiveInv, Backed, OfferOf, promoVars
  <2>3. QED
    BY <2>1, <2>2
<1>9. QED
  BY <1>4, <1>5, <1>7, <1>8, ServedActive

LEMMA ActiveNext == RowsInv /\ PaidInv /\ ActiveInv /\ [MarketNext]_marketVars => ActiveInv'
<1> SUFFICES ASSUME RowsInv, PaidInv, ActiveInv, [MarketNext]_marketVars PROVE ActiveInv'
  OBVIOUS
<1>1. CASE (Next \/ UNCHANGED vars) /\ UNCHANGED promoVars
  BY <1>1, ListingPaid, ListingActive
<1>2. ASSUME NEW p \in Processes, PromotionStep(p) PROVE ActiveInv'
  BY <1>2, DeductActive, StatusActive, ColumnsActive DEF PromotionStep
<1>3. ASSUME NEW p \in Processes, Crash(p) PROVE ActiveInv'
  BY <1>3 DEF Crash, ActiveInv
<1>4. CASE Tick
  BY <1>4 DEF Tick, NoListingsWrite, NoListingWrite, procVars, ActiveInv, Golden, Backed, Ending, Bought, OfferOf
<1>5. Requests \subseteq Processes /\ Passes \subseteq Processes
  BY DEF Processes
<1>6. QED
  BY <1>1, <1>2, <1>3, <1>4, <1>5, PurchaseActive, EndActive DEF MarketNext, marketVars

LEMMA ActiveInvariance == MarketSpec => []ActiveInv
BY ActiveInit, ActiveNext, PaidInvariance, PTL DEF MarketSpec

-----------------------------------------------------------------------------
(* Whoever paid is shown, as long as requests take turns.                  *)

\* A promotion that is active is paid for, or its request has yet to try.
Payable(m) == \E p \in Processes : pc[p] \in {"deduct", "undo"} /\ job[p][3] = m
Activating(m) == \E p \in Processes : pc[p] = "activate" /\ job[p][3] = m

\* What ends was paid for, and is over before the columns are cleared.
Ended(p) ==
    /\ pc[p] \in {"saveCancelled", "saveExpired", "deactivate"} => job[p][3] \in debited
    /\ pc[p] = "deactivate" => promo[job[p][3]].status # "active" /\ Shown(job[p][3])

OneShown(m) ==
    promo[m].status = "active" /\ Shown(m) /\ Sole(m) =>
        listing[promo[m].listing].offer = OfferOf(m) \/ Activating(m)

ShownInv == ~disturbed =>
    /\ \A m \in PromoIds : promo[m].status = "active" => m \in debited \/ Payable(m)
    /\ \A p \in Processes : Ended(p)
    /\ \A m \in debited : OneShown(m)

LEMMA ShownInit == MarketInit => ShownInv
<1> SUFFICES ASSUME MarketInit PROVE ShownInv
  OBVIOUS
<1>1. /\ \A m \in PromoIds : promo[m].status # "active"
      /\ debited = {} /\ \A p \in Processes : pc[p] = "idle"
  <2> DEFINE Is(row) == row.status = "none" /\ row.listing = NoListing /\ row.ends = 0
  <2>1. \E row \in Promos : Is(row)
    <3>1. [status |-> "none", listing |-> NoListing, kind |-> "golden", ends |-> 0] \in Promos
      BY PromotionsAssumption DEF Promos, Kinds
    <3> QED
      BY <3>1
  <2>2. Is(CHOOSE row \in Promos : Is(row))
    BY <2>1
  <2> QED
    BY <2>2 DEF MarketInit, Init
<1> QED
  BY <1>1 DEF ShownInv, Ended

\* A request of Listings' leaves the columns as they are.
LEMMA ListingShown ==
  ASSUME RowsInv, PaidInv, ShownInv, OffersKept, UNCHANGED promoVars
  PROVE  ShownInv'
<1> SUFFICES ASSUME ~disturbed' PROVE ShownInv'
  BY DEF ShownInv
<1>1. ~disturbed /\ InTurn
  BY DEF OffersKept, RowsInv, TurnInv
<1>2. ASSUME NEW l \in ListingIds PROVE listing'[l].offer = listing[l].offer
  BY <1>1 DEF OffersKept, Columns, InTurn, ReadIsSo
<1>3. \A p \in Processes : pc[p] \in PromotionSteps \/ pc'[p] \in PromotionSteps =>
         pc'[p] = pc[p] /\ job'[p] = job[p]
  BY DEF OffersKept, Moves
<1>4. ASSUME NEW p \in Processes PROVE Ended(p)'
  BY <1>1, <1>3 DEF ShownInv, Ended, PromotionSteps, promoVars, Shown
<1>5. ASSUME NEW m \in PromoIds, promo'[m].status = "active" PROVE m \in debited' \/ Payable(m)'
  BY <1>1, <1>3, <1>5 DEF ShownInv, Payable, PromotionSteps, promoVars
<1>6. ASSUME NEW m \in debited' PROVE OneShown(m)'
  <2>1. m \in debited /\ m \in PromoIds /\ promo[m].listing \in ListingIds
    BY <1>6 DEF promoVars, PaidInv, PromosOK
  <2>2. Sole(m)' = Sole(m) /\ Shown(m)' = Shown(m) /\ OfferOf(m)' = OfferOf(m)
    BY DEF Sole, Shown, OfferOf, promoVars
  <2>3. Activating(m) => Activating(m)'
    BY <1>3 DEF Activating, PromotionSteps
  <2> QED
    BY <1>1, <1>2, <2>1, <2>2, <2>3 DEF ShownInv, OneShown, promoVars
<1> QED
  BY <1>4, <1>5, <1>6 DEF ShownInv

\* A step of a promotion's, by the one request that is served, that writes no
\* listing and ends or begins nothing for the promotions it is not about.
LEMMA ServedShown ==
  ASSUME PaidInv, ShownInv, PromosKept, ~disturbed, NEW p \in Processes, Alone(p), Others(p),
         UNCHANGED listing, Ended(p)', NEW m, debited' \subseteq debited \cup {m},
         \A k \in PromoIds \ {m} : promo'[k] = promo[k],
         job[p][3] = m \/ Idle(p),
         m \in PromoIds /\ promo'[m].status = "active" => m \in debited' \/ Payable(m)',
         m \in debited' => OneShown(m)'
  PROVE  ShownInv'
<1>1. \A q \in Processes : q # p => Idle(q) /\ pc'[q] = pc[q] /\ job'[q] = job[q]
  BY DEF Alone, Others
<1>2. ASSUME NEW q \in Processes PROVE Ended(q)'
  BY <1>1 DEF Ended, Idle
<1>3. ASSUME NEW k \in PromoIds, promo'[k].status = "active" PROVE k \in debited' \/ Payable(k)'
  <2>1. CASE k # m
    <3>1. k \in debited \/ Payable(k)
      BY <1>3, <2>1 DEF ShownInv
    <3>2. ~Payable(k)
      BY <1>1, <2>1 DEF Payable, Idle
    <3> QED
      BY <3>1, <3>2 DEF PromosKept
  <2> QED
    BY <1>3, <2>1
<1>4. ASSUME NEW k \in debited', k # m PROVE OneShown(k)'
  <2>1. k \in debited /\ k \in PromoIds /\ promo'[k] = promo[k]
    BY <1>4 DEF PaidInv, PromosOK
  <2>2. Sole(k)' => Sole(k)
    BY <2>1 DEF Sole, Shown, PromosKept, PaidInv, PromosOK
  <2>3. ~Activating(k)
    BY <1>1, <1>4 DEF Activating, Idle
  <2> QED
    BY <2>1, <2>2, <2>3 DEF ShownInv, OneShown, Shown, OfferOf
<1> QED
  BY <1>2, <1>3, <1>4 DEF ShownInv

LEMMA PurchaseShown ==
  ASSUME RowsInv, PaidInv, ShownInv, NEW p \in Processes, NEW l \in ListingIds, NEW m \in PromoIds,
         NEW kind \in Kinds, Purchase(p, l, m, kind)
  PROVE  ShownInv'
<1> SUFFICES ASSUME ~disturbed' PROVE ShownInv'
  BY DEF ShownInv
<1>1. Begin(p, "deduct", l, NoLicense, m) /\ NoListingsWrite /\ UNCHANGED debited /\ m \notin debited
      /\ "deduct" \in PromotionSteps /\ promo[m].status = "none"
  BY DEF Purchase, PaidInv, PromosOK, PromotionSteps
<1>2. \A x \in PromoIds \ {m} : promo'[x] = promo[x]
  BY DEF Purchase, PaidInv, PromosOK
<1>3. Alone(p) /\ ~disturbed /\ Idle(p)
  BY <1>1, BeginAlone DEF Begin
<1>4. Others(p) /\ pc'[p] = "deduct" /\ job'[p] = <<l, NoLicense, m>>
  BY <1>1, BeginPromotion DEF RowsInv
<1>5. PromosKept
  BY <1>1, <1>2 DEF PromosKept
<1>6. Ended(p)' /\ Payable(m)'
  BY <1>4 DEF Ended, Payable
<1> QED
  BY <1>1, <1>2, <1>3, <1>4, <1>5, <1>6, ServedShown DEF NoListingsWrite, NoListingWrite

LEMMA EndShown ==
  ASSUME RowsInv, PaidInv, ShownInv, NEW p \in Processes, NEW m \in PromoIds, Cancel(p, m) \/ Expire(p, m)
  PROVE  ShownInv'
<1> SUFFICES ASSUME ~disturbed' PROVE ShownInv'
  BY DEF ShownInv
<1>1. PICK s \in {"saveCancelled", "saveExpired"} : Begin(p, s, promo[m].listing, NoLicense, m)
  BY DEF Cancel, Expire
<1>2. NoListingsWrite /\ UNCHANGED promoVars /\ promo[m].status = "active" /\ s \in PromotionSteps
  BY DEF Cancel, Expire, PromotionSteps
<1>3. Alone(p) /\ ~disturbed /\ Idle(p)
  BY <1>1, BeginAlone DEF Begin
<1>4. Others(p) /\ pc'[p] = s /\ job'[p] = <<promo[m].listing, NoLicense, m>>
  BY <1>1, <1>2, BeginPromotion DEF RowsInv
<1>5. PromosKept
  BY <1>2 DEF PromosKept, promoVars
<1>6. m \in debited
  BY <1>2, <1>3 DEF ShownInv, Payable, Alone, Idle
<1>7. Ended(p)'
  BY <1>2, <1>4, <1>6 DEF Ended, promoVars
<1>8. OneShown(m)'
  <2>1. ~Activating(m)
    BY <1>3 DEF Activating, Alone, Idle
  <2> QED
    BY <1>2, <1>3, <1>6, <2>1
    DEF ShownInv, OneShown, Sole, Shown, OfferOf, promoVars, NoListingsWrite, NoListingWrite
<1> QED
  BY <1>2, <1>3, <1>4, <1>5, <1>6, <1>7, <1>8, ServedShown DEF NoListingsWrite, NoListingWrite, promoVars

LEMMA DeductShown ==
  ASSUME RowsInv, PaidInv, ActiveInv, ShownInv, NEW p \in Processes, Deduct(p)
  PROVE  ShownInv'
<1> SUFFICES ASSUME ~disturbed' PROVE ShownInv'
  BY DEF ShownInv
<1>0. PICK m : m = job[p][3]
  OBVIOUS
<1>1. pc[p] = "deduct" /\ NoListingsWrite /\ UNCHANGED promo /\ pc[p] \in PromotionSteps
  BY DEF Deduct, PromotionSteps
<1>2. PICK s \in {"activate", "idle", "undo"} :
          /\ Continue(p, s)
          /\ \/ debited' = debited \cup {m} /\ (Shown(m) => s = "activate")
             \/ debited' = debited /\ s = "undo"
  BY <1>0 DEF Deduct
<1>3. ~disturbed /\ ~Idle(p)
  BY <1>1, <1>2 DEF Continue, Idle
<1>4. Alone(p) /\ Others(p) /\ pc'[p] = s /\ (s # "idle" => job'[p] = job[p])
  BY <1>2, <1>3, MovesOn DEF RowsInv
<1>5. m \notin debited /\ m \in PromoIds
  BY <1>0, <1>1, <1>3 DEF ActiveInv, Bought, PaidInv, Handles
<1>6. PromosKept
  BY <1>1, <1>2 DEF PromosKept
<1>7. Ended(p)'
  BY <1>4 DEF Ended
<1>8. m \in debited' \/ Payable(m)'
  BY <1>0, <1>2, <1>4 DEF Payable
<1>9. m \in debited' => OneShown(m)'
  BY <1>0, <1>1, <1>2, <1>4, <1>5 DEF OneShown, Shown, Activating
<1>10. debited' \subseteq debited \cup {m}
  BY <1>2
<1> QED
  BY <1>0, <1>1, <1>3, <1>4, <1>6, <1>7, <1>8, <1>9, <1>10, ServedShown DEF NoListingsWrite, NoListingWrite

LEMMA StatusShown ==
  ASSUME RowsInv, PaidInv, ShownInv, NEW p \in Processes, Undo(p) \/ SaveEnd(p)
  PROVE  ShownInv'
<1> SUFFICES ASSUME ~disturbed' PROVE ShownInv'
  BY DEF ShownInv
<1>0. PICK m : m = job[p][3]
  OBVIOUS
<1>1. NoListingsWrite /\ UNCHANGED debited /\ pc[p] \in {"undo", "saveCancelled", "saveExpired"}
      /\ pc[p] \in PromotionSteps
  BY DEF Undo, SaveEnd, PromotionSteps
<1>2. m \in PromoIds /\ promo \in [PromoIds -> Promos]
  BY <1>0, <1>1 DEF PaidInv, Handles, PromosOK
<1>3. PICK s \in {"deactivate", "idle"}, status \in {"deleted", "expired", "cancelled"} :
          /\ Continue(p, s) /\ promo' = [promo EXCEPT ![m].status = status]
          /\ s = "deactivate" => Shown(m) /\ pc[p] # "undo"
  BY <1>0 DEF Undo, SaveEnd, SetStatus
<1>4. ~disturbed /\ ~Idle(p)
  BY <1>1, <1>3 DEF Continue, Idle
<1>5. Alone(p) /\ Others(p) /\ pc'[p] = s /\ (s # "idle" => job'[p] = job[p])
  BY <1>3, <1>4, MovesOn DEF RowsInv
<1>6. /\ promo'[m].status # "active" /\ promo'[m].status # "none"
      /\ promo'[m].listing = promo[m].listing /\ promo'[m].kind = promo[m].kind
      /\ promo'[m].ends = promo[m].ends
      /\ \A k \in PromoIds \ {m} : promo'[k] = promo[k]
  BY <1>2, <1>3 DEF Promos
<1>7. PromosKept
  BY <1>1, <1>6 DEF PromosKept
<1>8. Ended(p)'
  <2>1. CASE s = "idle"
    BY <1>5, <2>1 DEF Ended
  <2>2. CASE s = "deactivate"
    BY <1>0, <1>1, <1>3, <1>4, <1>5, <1>6, <2>2 DEF ShownInv, Ended, Shown
  <2> QED
    BY <2>1, <2>2
<1>9. m \in debited' => OneShown(m)'
  BY <1>6 DEF OneShown
<1> QED
  BY <1>0, <1>1, <1>4, <1>5, <1>6, <1>7, <1>8, <1>9, ServedShown DEF NoListingsWrite, NoListingWrite

\* Activate shows the promotion.  Deactivate hides those of a listing that has
\* one that is over, none of which is the only one.
LEMMA ColumnsShown ==
  ASSUME RowsInv, PaidInv, ShownInv, NEW p \in Processes, Activate(p) \/ Deactivate(p)
  PROVE  ShownInv'
<1> SUFFICES ASSUME ~disturbed' PROVE ShownInv'
  BY DEF ShownInv
<1>0. PICK m, l : m = job[p][3] /\ l = job[p][1]
  OBVIOUS
<1>1. UNCHANGED promoVars /\ pc[p] \in PromotionSteps
  BY DEF Activate, Deactivate, PromotionSteps
<1>2. m \in PromoIds /\ l = promo[m].listing /\ l \in ListingIds
      /\ (Activate(p) => m \in debited /\ Shown(m))
  BY <1>0, <1>1 DEF PaidInv, Handles, PromosOK, Activate
<1>3. PICK offer : SetOffer(p, offer) /\ (Activate(p) => offer = OfferOf(m))
  BY <1>0 DEF Activate, Deactivate
<1>4. Continue(p, "index") /\ ~disturbed /\ ~Idle(p)
  BY <1>1, <1>3, StepsDiffer DEF SetOffer, Continue, Idle
<1>5. Alone(p) /\ Others(p) /\ pc'[p] = "index"
  BY <1>4, MovesOn DEF RowsInv
<1>6. listing'[l].offer = offer /\ \A k \in ListingIds : k # l => listing'[k] = listing[k]
  <2>1. PICK row : row.offer = offer /\ listing' = [listing EXCEPT ![l] = row]
    <3>1. [listing[l] EXCEPT !.offer = offer].offer = offer
      BY <1>2 DEF RowsInv, IInv, RowsOK, ListingRows
    <3>2. QED
      BY <1>0, <1>3, <3>1 DEF SetOffer, WriteListing
  <2>2. QED
    BY <1>2, <2>1 DEF RowsInv, IInv, RowsOK
<1>7. \A q \in Processes : q # p => Idle(q) /\ pc'[q] = pc[q] /\ job'[q] = job[q]
  BY <1>5 DEF Alone, Others
<1>8. ASSUME NEW q \in Processes PROVE Ended(q)'
  BY <1>5, <1>7 DEF Ended, Idle
<1>9. ASSUME NEW k \in PromoIds, promo'[k].status = "active" PROVE k \in debited'
  <2>1. ~Payable(k)
    BY <1>1, <1>7 DEF Payable, Idle, Activate, Deactivate
  <2> QED
    BY <1>1, <1>4, <1>9, <2>1 DEF ShownInv, promoVars
<1>10. ASSUME NEW k \in debited', promo'[k].status = "active", Shown(k)', Sole(k)'
       PROVE  listing'[promo'[k].listing].offer = OfferOf(k)'
  <2>1. /\ k \in debited /\ promo[k].status = "active" /\ Shown(k) /\ Sole(k)
        /\ promo'[k] = promo[k] /\ OfferOf(k)' = OfferOf(k) /\ promo[k].listing \in ListingIds
    BY <1>1, <1>10 DEF promoVars, Shown, Sole, OfferOf, PaidInv, PromosOK
  <2>2. CASE k = m
    <3>1. Activate(p)
      BY <1>0, <1>4, <2>1, <2>2 DEF ShownInv, Ended, Deactivate
    <3> QED
      BY <1>2, <1>3, <1>6, <2>1, <2>2, <3>1
  <2>3. CASE k # m
    <3>1. listing[promo[k].listing].offer = OfferOf(k)
      <4>1. ~Activating(k)
        BY <1>0, <1>7, <2>3 DEF Activating, Idle
      <4> QED
        BY <1>4, <2>1, <4>1 DEF ShownInv, OneShown
    <3>2. m \in debited /\ Shown(m)
      BY <1>0, <1>2, <1>4 DEF ShownInv, Ended, Deactivate
    <3>3. promo[k].listing # l
      BY <1>2, <2>1, <2>3, <3>2 DEF Sole
    <3> QED
      BY <1>6, <2>1, <3>1, <3>3
  <2> QED
    BY <2>2, <2>3
<1> QED
  BY <1>8, <1>9, <1>10 DEF ShownInv, OneShown

LEMMA ShownNext ==
    RowsInv /\ PaidInv /\ ActiveInv /\ ShownInv /\ [MarketNext]_marketVars => ShownInv'
<1> SUFFICES ASSUME RowsInv, PaidInv, ActiveInv, ShownInv, [MarketNext]_marketVars PROVE ShownInv'
  OBVIOUS
<1>1. CASE (Next \/ UNCHANGED vars) /\ UNCHANGED promoVars
  BY <1>1, ListingPaid, ListingShown
<1>2. ASSUME NEW p \in Processes, PromotionStep(p) PROVE ShownInv'
  BY <1>2, DeductShown, StatusShown, ColumnsShown DEF PromotionStep
<1>3. ASSUME NEW p \in Processes, Crash(p) PROVE ShownInv'
  BY <1>3 DEF Crash, ShownInv
<1>4. CASE Tick
  BY <1>4 DEF Tick, NoListingsWrite, NoListingWrite, procVars, ShownInv, Payable, Activating, Ended,
              OneShown, Shown, Sole, OfferOf
<1>5. Requests \subseteq Processes /\ Passes \subseteq Processes
  BY DEF Processes
<1>6. QED
  BY <1>1, <1>2, <1>3, <1>4, <1>5, PurchaseShown, EndShown DEF MarketNext, marketVars

LEMMA ShownInvariance == MarketSpec => []ShownInv
BY ShownInit, ShownNext, PaidInvariance, ActiveInvariance, PTL DEF MarketSpec

\* As long as requests take turns, nobody pays for nothing: the golden section
\* shows whose promotion is active, and a promotion that is the only one of its
\* listing shows while it is; and the index says what the rows say
\* (cancelPromotion, expirePromotions, activatePromotion, deactivatePromotion).
THEOREM ShownFollowsPaid == MarketSpec => []ShownFollows
<1>1. RowsInv /\ PaidInv /\ ActiveInv /\ ShownInv => ShownFollows
  <2> SUFFICES ASSUME RowsInv, PaidInv, ActiveInv, ShownInv
               PROVE  GoldenIsActive /\ PaidIsShown /\ SearchFollows
    BY DEF ShownFollows
  <2>1. SearchFollows
    BY QuietFacts DEF RowsInv
  <2>2. GoldenIsActive
    <3> SUFFICES ASSUME ~disturbed, Quiet, NEW l \in GoldenListings
                 PROVE  \E m \in PromoIds : promo[m].listing = l /\ promo[m].kind = "golden"
                                            /\ promo[m].status = "active"
      BY DEF GoldenIsActive
    <3>1. l \in ListingIds /\ Golden(l) /\ ~Ending(l)
      BY DEF GoldenListings, Golden, Ending, Quiet, Idle
    <3>2. PICK m \in debited : promo[m].listing = l /\ OfferOf(m) = listing[l].offer
                               /\ promo[m].status = "active"
      BY <3>1 DEF ActiveInv, Backed
    <3>3. QED
      BY <3>1, <3>2 DEF Golden, OfferOf, PaidInv, PromosOK
  <2>3. PaidIsShown
    BY DEF PaidIsShown, ShownInv, OneShown, Activating, Quiet, Idle
  <2>4. QED
    BY <2>1, <2>2, <2>3
<1>2. QED
  BY <1>1, PaidInvariance, ActiveInvariance, ShownInvariance, PTL
=============================================================================
