------------------------------ MODULE Listings ------------------------------
(***************************************************************************)
(* Listings, the licenses that clear them for publication, and the search  *)
(* index that shows them (listings.service.ts, listings-algolia.service.ts, *)
(* property-advertisement-licenses.service.ts).                            *)
(*                                                                         *)
(* No request runs in a transaction.  A request that reads a row, changes  *)
(* the copy and saves it writes every column of the copy: what changed in  *)
(* the meantime is written back, a removed listing is a listing again, a   *)
(* deleted license is inserted again.  Calls to the index are not awaited: *)
(* they arrive in any order, or not at all.                                *)
(*                                                                         *)
(* A request that takes no further step is one whose server died.  Fields  *)
(* that only describe the property are left out, and so are refusals: they *)
(* change nothing.                                                         *)
(***************************************************************************)
EXTENDS Integers, FiniteSets

CONSTANTS
    Users,          \* people who advertise; administrators are not told apart
    ListingIds,
    Owner,          \* Owner[l]: the user who creates listing l
    LicenseIds,
    Requests,       \* concurrent API requests
    Passes,         \* passes of the promotions job, which Promotions starts
    Offers,         \* the promotions a listing's columns can name
    Attended,       \* bound: the listings update, updateStatus and remove are for
    Targets,        \* bound: the statuses updateStatus is asked for
    MaxCalls,       \* bound on the index calls under way
    NoListing, NoLicense, NoOffer

ASSUME OwnersAssumption == Owner \in [ListingIds -> Users]
ASSUME NullAssumption == /\ NoListing \notin ListingIds /\ NoLicense \notin LicenseIds
                         /\ NoOffer \notin Offers
ASSUME BoundsAssumption ==
    /\ MaxCalls \in Nat /\ Attended \subseteq ListingIds
    /\ Targets \subseteq {"draft", "pending", "published", "paused"}

Processes == Requests \cup Passes

VARIABLES
    listing,        \* listings rows
    license,        \* property_advertisement_licenses rows
    index,          \* what Algolia keeps of each listing
    calls,          \* index calls under way
    pc, job,        \* each process: the statement it is at, what it is about
    copyL, copyK,   \* each process: the listing and the license it has read
    wasPublished,   \* listings that have been PUBLISHED
    cleared,        \* cleared[k]: the listings license k was handed in for
    early,          \* licenses reviewed before they had a listing, while requests took turns
    disturbed       \* whether requests ever met, or an index call was lost

procVars == <<pc, job, copyL, copyK>>
vars == <<listing, license, index, calls, procVars, wasPublished, cleared, early, disturbed>>

\* "paused" stands for PAUSED, PAUSED_TEMP and EXPIRED, which are told apart
\* nowhere.
Statuses == {"draft", "pending", "published", "paused"}

\* The promotion columns (isPromoted, isGolden, promotionType and
\* promotionExpiresAt) are only written together; offer stands for the four.
Row(s) == [status |-> s, removed |-> FALSE, offer |-> NoOffer]
ListingRows == [status: Statuses \cup {"none"}, removed: BOOLEAN, offer: Offers \cup {NoOffer}]

LicenseRows == [by: Users, listing: ListingIds \cup {NoListing},
                review: {"pending", "approved", "rejected"}, external: BOOLEAN]
Licenses == LicenseRows \cup {NoLicense}    \* NoLicense where there is no row
ASSUME NoRowAssumption == NoLicense \notin LicenseRows

\* Mutant of BuildObject: whatever is indexed can be found.
BuildListed(row) == [status |-> "published", offer |-> row.offer]

\* What is indexed of a listing, or Gone where it is not.
BuildObject(row) == [status |-> row.status, offer |-> row.offer]
Gone == [status |-> "none", offer |-> NoOffer]
Objects == [status: Statuses \cup {"none"}, offer: Offers \cup {NoOffer}]

Exists(l) == listing[l].status # "none" /\ ~listing[l].removed
Findable(l) == index[l].status = "published"    \* buildAlgoliaFilters

\* Ids are not used again: a license that was removed had been handed in.
Fresh(k) == license[k] = NoLicense /\ cleared[k] = {}

\* GET pending and pending/count: what administrators are shown to review.
PendingLicenses == {k \in LicenseIds : license[k] # NoLicense /\ license[k].review = "pending"}

Idle(p) == pc[p] = "idle"
Quiet == calls = {} /\ \A p \in Processes : Idle(p)

Init ==
    /\ listing = [l \in ListingIds |-> Row("none")]
    /\ license = [k \in LicenseIds |-> NoLicense]
    /\ index = [l \in ListingIds |-> Gone]
    /\ calls = {}
    /\ pc = [p \in Processes |-> "idle"]
    /\ job = [p \in Processes |-> <<NoListing, NoLicense, "none">>]
    /\ copyL = [p \in Processes |-> Row("none")]
    /\ copyK = [p \in Processes |-> NoLicense]
    /\ wasPublished = {}
    /\ cleared = [k \in LicenseIds |-> {}] /\ early = {}
    /\ disturbed = FALSE

-----------------------------------------------------------------------------
(* Steps of requests.                                                      *)

\* The work of p goes on at statement s, with what it still needs to know.
Goto(p, s, j, rowL, rowK) ==
    /\ pc' = [pc EXCEPT ![p] = s]
    /\ job' = [job EXCEPT ![p] = IF s = "idle" THEN <<NoListing, NoLicense, "none">> ELSE j]
    /\ copyL' = [copyL EXCEPT ![p] = IF s = "saveStatus" THEN rowL ELSE Row("none")]
    /\ copyK' = [copyK EXCEPT ![p] = IF s \in {"link", "saveReview"} THEN rowK ELSE NoLicense]

Begin(p, s, l, k, to) ==
    /\ Idle(p)
    /\ Goto(p, s, <<l, k, to>>, IF l \in ListingIds THEN listing[l] ELSE Row("none"),
                                IF k \in LicenseIds THEN license[k] ELSE NoLicense)
    /\ disturbed' = (disturbed \/ ~Quiet)

Continue(p, s) == Goto(p, s, job[p], copyL[p], copyK[p]) /\ UNCHANGED disturbed

WriteListing(l, row) ==
    /\ listing' = [listing EXCEPT ![l] = row]
    /\ wasPublished' = wasPublished \cup (IF row.status = "published" THEN {l} ELSE {})

Send(l, object) ==
    /\ Cardinality(calls) < MaxCalls
    /\ calls' = calls \cup {<<l, object>>}
    /\ UNCHANGED index

NoCall == UNCHANGED <<index, calls>>
NoListingWrite == UNCHANGED <<listing, wasPublished>>
NoLicenseWrite == UNCHANGED <<license, cleared, early>>

WriteLicense(k, row) == license' = [license EXCEPT ![k] = row] /\ UNCHANGED <<cleared, early>>

\* Mutant of MayUse: anybody's license.
MayUseAny(u, k) == k # NoLicense => license[k] # NoLicense /\ license[k].listing = NoListing

\* createListing: a license of the caller's that no listing has yet, or none
\* (which brokers and hosts must not leave out).
MayUse(u, k) ==
    k # NoLicense => license[k] # NoLicense /\ license[k].by = u /\ license[k].listing = NoListing

StatusOf(k) ==
    CASE k = NoLicense -> "draft"
      [] k # NoLicense /\ license[k].external -> "published"
      [] OTHER -> "pending"

CreateListing(p, l, k) ==
    /\ listing[l] = Row("none")
    /\ MayUse(Owner[l], k)
    /\ WriteListing(l, Row(StatusOf(k)))
    /\ IF k = NoLicense
       THEN Idle(p) /\ UNCHANGED procVars /\ disturbed' = (disturbed \/ ~Quiet)
       ELSE Begin(p, "link", l, k, "none")
    /\ cleared' = [c \in LicenseIds |-> cleared[c] \cup (IF c = k THEN {l} ELSE {})]
    /\ NoCall /\ UNCHANGED <<license, early>>

\* The license it read is saved with the listing's id ...
LinkLicense(p) ==
    LET l == job[p][1]  k == job[p][2] IN
    /\ pc[p] = "link"
    /\ WriteLicense(k, [copyK[p] EXCEPT !.listing = l])
    /\ Continue(p, IF copyK[p].external THEN "unlink" ELSE "idle")
    /\ NoCall /\ NoListingWrite

\* ... and removed, if REGA or the Ministry of Tourism vouched for it.
RemoveLicense(p) ==
    /\ pc[p] = "unlink"
    /\ WriteLicense(job[p][2], NoLicense)
    /\ Continue(p, "index")
    /\ NoCall /\ NoListingWrite

\* createLicense without a listing (path B), validateAndCreateBrokerRecord
\* and validateAndCreateHostRecord.
SubmitLicense(u, k, external) ==
    /\ Fresh(k)
    /\ WriteLicense(k, [by |-> u, listing |-> NoListing, external |-> external,
                        review |-> IF external THEN "approved" ELSE "pending"])
    /\ disturbed' = (disturbed \/ ~Quiet)
    /\ NoCall /\ NoListingWrite /\ UNCHANGED procVars

\* createLicense for a draft of the caller's (path A), which then is saved
\* as PENDING.
CompleteDraft(p, u, l, k) ==
    /\ Fresh(k)
    /\ Exists(l) /\ Owner[l] = u /\ listing[l].status = "draft"
    /\ license' = [license EXCEPT ![k] =
          [by |-> u, listing |-> l, external |-> FALSE, review |-> "pending"]]
    /\ cleared' = [cleared EXCEPT ![k] = @ \cup {l}]
    /\ Begin(p, "saveStatus", l, k, "pending")
    /\ NoCall /\ NoListingWrite /\ UNCHANGED early

\* updateReviewStatus: the verdict goes to the license it read ...
Review(p, k, verdict) ==
    /\ license[k] # NoLicense
    /\ Begin(p, "saveReview", license[k].listing, k, verdict)
    /\ NoCall /\ NoListingWrite /\ NoLicenseWrite

\* Mutant of SaveReview: a rejection ends with the license.
SaveReviewOnly(p) ==
    LET k == job[p][2]  unlinked == job[p][1] = NoListing IN
    /\ pc[p] = "saveReview"
    /\ license' = [license EXCEPT ![k] = [copyK[p] EXCEPT !.review = job[p][3]]]
    /\ early' = early \cup (IF unlinked /\ ~disturbed THEN {k} ELSE {})
    /\ Continue(p, IF unlinked \/ job[p][3] = "rejected" THEN "idle" ELSE "applyReview")
    /\ NoCall /\ NoListingWrite /\ UNCHANGED cleared

SaveReview(p) ==
    LET k == job[p][2]  unlinked == job[p][1] = NoListing IN
    /\ pc[p] = "saveReview"
    /\ license' = [license EXCEPT ![k] = [copyK[p] EXCEPT !.review = job[p][3]]]
    /\ early' = early \cup (IF unlinked /\ ~disturbed THEN {k} ELSE {})
    /\ Continue(p, IF unlinked THEN "idle" ELSE "applyReview")
    /\ NoCall /\ NoListingWrite /\ UNCHANGED cleared

\* ... and to the listing, if that license had one: handleApproval publishes
\* and indexes it, handleRejection pauses it and takes it from the index.
ApplyReview(p) ==
    LET l == job[p][1] IN
    /\ pc[p] = "applyReview"
    /\ NoLicenseWrite
    /\ \/ /\ job[p][3] = "approved"
          /\ WriteListing(l, [listing[l] EXCEPT !.status = "published"])
          /\ Continue(p, "index")
          /\ NoCall
       \/ /\ job[p][3] = "rejected"
          /\ WriteListing(l, [listing[l] EXCEPT !.status = "paused"])
          /\ Continue(p, "idle")
          /\ Send(l, Gone)

\* The listing is read again, and indexed unless it is gone.
IndexListing(p) ==
    LET l == job[p][1] IN
    /\ pc[p] = "index"
    /\ IF Exists(l) THEN Send(l, BuildObject(listing[l])) ELSE NoCall
    /\ Continue(p, "idle")
    /\ NoListingWrite /\ NoLicenseWrite

\* update: the owner's changes to the description.
\* (Which license a listing names, licenseId, is written here and when it is
\* created, and read by nothing: it is left out.)
Update(p, l) ==
    /\ Exists(l)
    /\ Begin(p, "index", l, NoLicense, "none")
    /\ NoCall /\ NoListingWrite /\ NoLicenseWrite

\* updateStatus, by an administrator.
UpdateStatus(p, l, s) ==
    /\ Exists(l)
    /\ Begin(p, "saveStatus", l, NoLicense, s)
    /\ NoCall /\ NoListingWrite /\ NoLicenseWrite

\* Mutant of SaveStatus: the index only hears of what is published.
SaveStatusOnly(p) ==
    LET l == job[p][1]  s == job[p][3]  saved == [copyL[p] EXCEPT !.status = s] IN
    /\ pc[p] = "saveStatus"
    /\ WriteListing(l, saved)
    /\ IF s = "published" THEN Send(l, BuildObject(saved)) ELSE NoCall
    /\ Continue(p, "idle")
    /\ NoLicenseWrite

\* save(listing), here and in createLicense: the copy, with its new status.
SaveStatus(p) ==
    LET l == job[p][1]  s == job[p][3]  saved == [copyL[p] EXCEPT !.status = s] IN
    /\ pc[p] = "saveStatus"
    /\ WriteListing(l, saved)
    /\ IF s = "published" THEN Send(l, BuildObject(saved))
       ELSE IF s = "paused" THEN Send(l, Gone)
       ELSE NoCall
    /\ Continue(p, "idle")
    /\ NoLicenseWrite

\* remove, by the owner or an administrator: the files go first.
Remove(p, l) ==
    /\ Exists(l)
    /\ Begin(p, "softDelete", l, NoLicense, "none")
    /\ NoCall /\ NoListingWrite /\ NoLicenseWrite

SoftDelete(p) ==
    LET l == job[p][1] IN
    /\ pc[p] = "softDelete"
    /\ WriteListing(l, [listing[l] EXCEPT !.removed = TRUE])
    /\ Send(l, Gone)
    /\ Continue(p, "idle")
    /\ NoLicenseWrite

\* activatePromotion, and deactivatePromotion (NoOffer), as a step of p.
SetOffer(p, offer) ==
    /\ WriteListing(job[p][1], [listing[job[p][1]] EXCEPT !.offer = offer])
    /\ Continue(p, "index")
    /\ NoCall /\ NoLicenseWrite

\* Algolia takes a call (calls are made at once, and overtake each other) ...
Deliver ==
    \E c \in calls :
        /\ calls' = calls \ {c}
        /\ index' = [index EXCEPT ![c[1]] = c[2]]
        /\ NoListingWrite /\ NoLicenseWrite /\ UNCHANGED <<procVars, disturbed>>

\* ... or does not: the error is logged, and that is all.
Lose ==
    \E c \in calls :
        /\ calls' = calls \ {c}
        /\ disturbed' = TRUE
        /\ NoListingWrite /\ NoLicenseWrite /\ UNCHANGED <<index, procVars>>

RequestStep(p) ==
    \/ LinkLicense(p) \/ RemoveLicense(p)
    \/ SaveReview(p) \/ ApplyReview(p)
    \/ IndexListing(p) \/ SaveStatus(p) \/ SoftDelete(p)

-----------------------------------------------------------------------------

Next ==
    \/ \E u \in Users, k \in LicenseIds, external \in BOOLEAN : SubmitLicense(u, k, external)
    \/ \E p \in Requests, l \in ListingIds :
          \/ \E k \in LicenseIds \cup {NoLicense} : CreateListing(p, l, k)
          \/ \E u \in Users, k \in LicenseIds : CompleteDraft(p, u, l, k)
    \/ \E p \in Requests, l \in Attended :
          \/ \E s \in Targets : UpdateStatus(p, l, s)
          \/ Update(p, l) \/ Remove(p, l)
    \/ \E p \in Requests, k \in LicenseIds, v \in {"approved", "rejected"} : Review(p, k, v)
    \/ \E p \in Processes : RequestStep(p)
    \/ Deliver \/ Lose

Spec == Init /\ [][Next]_vars

-----------------------------------------------------------------------------
(* Properties.                                                             *)

Steps == {"idle", "link", "unlink", "saveReview", "applyReview", "index", "saveStatus", "softDelete"}

TypeOK ==
    /\ listing \in [ListingIds -> ListingRows]
    /\ license \in [LicenseIds -> Licenses]
    /\ index \in [ListingIds -> Objects]
    /\ calls \subseteq ListingIds \X Objects
    /\ pc \in [Processes -> Steps]
    /\ job \in [Processes -> (ListingIds \cup {NoListing}) \X (LicenseIds \cup {NoLicense})
                              \X (Statuses \cup {"none", "approved", "rejected"})]
    /\ copyL \in [Processes -> ListingRows] /\ copyK \in [Processes -> Licenses]
    /\ wasPublished \subseteq ListingIds
    /\ cleared \in [LicenseIds -> SUBSET ListingIds] /\ early \subseteq LicenseIds
    /\ disturbed \in BOOLEAN

\* A license only ever clears its advertiser's own listing, though it is
\* linked by whole-row saves of copies that are out of date by then
\* (createListing looks for a license of the caller's, createLicense for a
\* draft of the caller's).
LinksAreOwn ==
    \A k \in LicenseIds : license[k] # NoLicense /\ license[k].listing # NoListing =>
        /\ Owner[license[k].listing] = license[k].by
        /\ listing[license[k].listing].status # "none"

\* A search finds no listing that never was PUBLISHED: not one that is
\* indexed while a draft, nor through a call that comes late.
SearchFindsPublished == \A l \in ListingIds : Findable(l) => l \in wasPublished

\* As long as requests take turns, a license is handed in for one listing
\* ("listingId = null ensures this license has not already been used",
\* createListing), and the row an administrator reviews leads to it.
LicenseClearsOne ==
    ~disturbed =>
        \A k \in LicenseIds, l \in ListingIds : l \in cleared[k] =>
            /\ cleared[k] = {l}
            /\ Quiet /\ license[k] # NoLicense => license[k].listing = l

\* An administrator may also set a listing back to DRAFT or PENDING, and
\* updateStatus leaves that one in the index: the two properties below are
\* about listings this is not done to.
SetBack == Targets \cap {"draft", "pending"} # {}

\* As long as requests take turns, no listing falls out of the review: one
\* that is PENDING is led to by a license administrators are shown.  Not so
\* where the license was reviewed before it had the listing: it is no longer
\* shown as pending (getPendingLicenses, updateReviewStatus).
PendingIsShown ==
    ~SetBack /\ ~disturbed /\ Quiet =>
        \A l \in ListingIds : Exists(l) /\ listing[l].status = "pending" =>
            \E k \in PendingLicenses \cup early :
                license[k] # NoLicense /\ license[k].listing = l

\* As long as requests take turns, licenses and listings stay together from
\* submission to review.
LicensesLead == LicenseClearsOne /\ PendingIsShown

\* As long as requests take turns, what a search finds is what is PUBLISHED.
SearchFollows ==
    ~SetBack /\ ~disturbed /\ Quiet =>
        \A l \in ListingIds :
            /\ Exists(l) /\ listing[l].status = "published" => index[l] = BuildObject(listing[l])
            /\ Findable(l) => Exists(l) /\ listing[l].status = "published"
=============================================================================
