--------------------------- MODULE ListingsProofs ---------------------------
(***************************************************************************)
(* Proofs about Listings: what a search finds has been PUBLISHED, and a    *)
(* license clears its advertiser's own listing, though requests save what  *)
(* they read long ago and calls to the index come in any order; and, as    *)
(* long as requests take turns, licenses, listings and the index agree.    *)
(***************************************************************************)
EXTENDS Listings, TLAPS

\* A license, in its row or in the memory of a request, is for its
\* advertiser's own listing, which is there.
Own(row) == row.listing # NoListing =>
    Owner[row.listing] = row.by /\ listing[row.listing].status # "none"

RowsOK ==
    /\ listing \in [ListingIds -> ListingRows]
    /\ license \in [LicenseIds -> Licenses]
    /\ wasPublished \subseteq ListingIds
    /\ \A l \in ListingIds : listing[l].status = "published" => l \in wasPublished
    /\ \A k \in LicenseIds : license[k] # NoLicense => Own(license[k])

CallsOK ==
    /\ index \in [ListingIds -> Objects]
    /\ calls \subseteq ListingIds \X Objects
    /\ \A c \in calls : c[2].status = "published" => c[1] \in wasPublished
    /\ SearchFindsPublished

\* What a request still needs to know, by the statement it is at.
ProcOK(p) ==
    /\ pc[p] \in {"link", "unlink"} => job[p][1] \in ListingIds /\ job[p][2] \in LicenseIds
    /\ pc[p] \in {"link", "saveReview"} => copyK[p] \in LicenseRows /\ Own(copyK[p])
    /\ pc[p] = "link" => /\ Owner[job[p][1]] = copyK[p].by
                         /\ listing[job[p][1]].status # "none"
    /\ pc[p] = "saveReview" => /\ job[p][1] \in ListingIds \cup {NoListing}
                               /\ job[p][2] \in LicenseIds
    /\ pc[p] \in {"saveReview", "applyReview"} => job[p][3] \in {"approved", "rejected"}
    /\ pc[p] \in {"applyReview", "index", "softDelete", "saveStatus"} => job[p][1] \in ListingIds
    /\ pc[p] = "saveStatus" => job[p][3] \in Statuses

ProcTypes ==
    /\ pc = [p \in Processes |-> pc[p]]
    /\ job = [p \in Processes |-> job[p]]
    /\ copyL \in [Processes -> ListingRows]
    /\ copyK \in [Processes -> Licenses]

ProcsOK == ProcTypes /\ \A p \in Processes : ProcOK(p)

IInv == RowsOK /\ CallsOK /\ ProcsOK

-----------------------------------------------------------------------------
(* What the parts of an action do.                                         *)

\* No listing comes to nothing, and what was PUBLISHED has been.
Kept ==
    /\ \A l \in ListingIds : listing[l].status # "none" => listing'[l].status # "none"
    /\ wasPublished \subseteq wasPublished'

Others(p) ==
    \A q \in Processes : q # p =>
        pc'[q] = pc[q] /\ job'[q] = job[q] /\ copyL'[q] = copyL[q] /\ copyK'[q] = copyK[q]

LEMMA GotoFacts ==
  ASSUME ProcTypes, NEW p \in Processes, NEW s, NEW j, NEW rowL \in ListingRows,
         NEW rowK \in Licenses, Goto(p, s, j, rowL, rowK)
  PROVE  /\ ProcTypes' /\ Others(p)
         /\ pc'[p] = s
         /\ s # "idle" => job'[p] = j
         /\ s \in {"link", "saveReview"} => copyK'[p] = rowK
<1>1. Row("none") \in ListingRows /\ NoLicense \in Licenses
  BY DEF Row, ListingRows, Licenses
<1>2. QED
  BY <1>1 DEF Goto, ProcTypes, Others

LEMMA BeginFacts ==
  ASSUME IInv, NEW p \in Processes, NEW s, NEW l, NEW k, NEW to, Begin(p, s, l, k, to)
  PROVE  /\ ProcTypes' /\ Others(p)
         /\ pc'[p] = s
         /\ s # "idle" => job'[p] = <<l, k, to>>
         /\ s \in {"link", "saveReview"} /\ k \in LicenseIds => copyK'[p] = license[k]
<1> DEFINE rowL == IF l \in ListingIds THEN listing[l] ELSE Row("none")
           rowK == IF k \in LicenseIds THEN license[k] ELSE NoLicense
<1>1. rowL \in ListingRows /\ rowK \in Licenses /\ ProcTypes
  BY DEF IInv, RowsOK, ProcsOK, Row, ListingRows, Licenses
<1>2. Goto(p, s, <<l, k, to>>, rowL, rowK)
  BY DEF Begin
<1> HIDE DEF rowL
<1>3. QED
  BY <1>1, <1>2, GotoFacts

LEMMA ContinueFacts ==
  ASSUME IInv, NEW p \in Processes, NEW s, Continue(p, s)
  PROVE  /\ ProcTypes' /\ Others(p)
         /\ pc'[p] = s
         /\ s # "idle" => job'[p] = job[p]
         /\ s \in {"link", "saveReview"} => copyK'[p] = copyK[p]
<1>1. copyL[p] \in ListingRows /\ copyK[p] \in Licenses /\ ProcTypes
  BY DEF IInv, ProcsOK, ProcTypes
<1>2. QED
  BY <1>1, GotoFacts DEF Continue

\* A request that moves on does so undisturbed by, and without disturbing,
\* what the others know.
LEMMA ProcsKept ==
  ASSUME IInv, Kept, NEW p \in Processes, Others(p), ProcTypes', ProcOK(p)'
  PROVE  ProcsOK'
<1>1. ASSUME NEW q \in Processes, q # p PROVE ProcOK(q)'
  <2>1. ProcOK(q)
    BY DEF IInv, ProcsOK
  <2>2. pc'[q] = pc[q] /\ job'[q] = job[q] /\ copyK'[q] = copyK[q]
    BY <1>1 DEF Others
  <2>3. Own(copyK[q]) /\ copyK[q] \in LicenseRows =>
           (copyK[q].listing # NoListing => Owner[copyK[q].listing] = copyK[q].by
                                            /\ listing'[copyK[q].listing].status # "none")
    BY DEF Own, Kept, LicenseRows
  <2>4. QED
    BY <2>1, <2>2, <2>3 DEF ProcOK, Own, Kept
<1>2. QED
  BY <1>1 DEF ProcsOK

LEMMA WriteListingFacts ==
  ASSUME IInv, NEW l \in ListingIds, NEW row \in ListingRows,
         row.status # "none" \/ row.status = listing[l].status, WriteListing(l, row)
  PROVE  /\ listing' \in [ListingIds -> ListingRows] /\ listing'[l] = row
         /\ wasPublished' \subseteq ListingIds
         /\ \A m \in ListingIds : listing'[m].status = "published" => m \in wasPublished'
         /\ Kept
BY DEF WriteListing, IInv, RowsOK, Kept

\* The licenses stay right while listings change.
LEMMA LicensesKept ==
  ASSUME IInv, Kept, listing' \in [ListingIds -> ListingRows], wasPublished' \subseteq ListingIds,
         \A m \in ListingIds : listing'[m].status = "published" => m \in wasPublished',
         UNCHANGED license
  PROVE  RowsOK'
<1>1. ASSUME NEW k \in LicenseIds, license[k] # NoLicense
      PROVE  license[k].listing # NoListing =>
               /\ Owner[license[k].listing] = license[k].by
               /\ listing'[license[k].listing].status # "none"
  BY <1>1 DEF IInv, RowsOK, Own, Kept, Licenses, LicenseRows
<1>2. QED
  BY <1>1 DEF IInv, RowsOK, Own

\* A license row is written whose listing is its advertiser's.
LEMMA WriteLicenseFacts ==
  ASSUME IInv, NEW k \in LicenseIds, NEW row \in Licenses, row # NoLicense => Own(row),
         license' = [license EXCEPT ![k] = row], NoListingWrite
  PROVE  RowsOK' /\ Kept
BY DEF IInv, RowsOK, Own, NoListingWrite, Kept

LEMMA SendFacts ==
  ASSUME IInv, Kept, NEW l \in ListingIds, NEW object \in Objects,
         object.status = "published" => l \in wasPublished', Send(l, object)
  PROVE  CallsOK'
BY DEF IInv, CallsOK, Kept, Send, SearchFindsPublished, Findable

LEMMA NoCallFacts ==
  ASSUME IInv, Kept, NoCall
  PROVE  CallsOK'
BY DEF IInv, CallsOK, Kept, NoCall, SearchFindsPublished, Findable

LEMMA NothingWritten ==
  ASSUME IInv, NoListingWrite, UNCHANGED license
  PROVE  RowsOK' /\ Kept
BY DEF IInv, RowsOK, Own, NoListingWrite, Kept
-----------------------------------------------------------------------------
(* The actions.                                                            *)

LEMMA StatusFacts ==
  /\ \A s \in Statuses \cup {"none"} : Row(s) \in ListingRows /\ Row(s).status = s
  /\ \A row \in ListingRows, s \in Statuses :
        LET changed == [row EXCEPT !.status = s] IN
        changed \in ListingRows /\ changed.status = s
  /\ Gone \in Objects /\ Gone.status = "none"
  /\ \A row \in ListingRows :
        BuildObject(row) \in Objects /\ BuildObject(row).status = row.status
BY DEF Row, ListingRows, Gone, Objects, BuildObject, Statuses

LEMMA InitIInv == Init => IInv
<1> SUFFICES ASSUME Init PROVE IInv
  OBVIOUS
<1>1. RowsOK
  BY StatusFacts DEF Init, RowsOK, Licenses, Own, Statuses
<1>2. CallsOK
  BY StatusFacts DEF Init, CallsOK, SearchFindsPublished, Findable
<1>3. ProcsOK
  BY StatusFacts DEF Init, ProcsOK, ProcTypes, ProcOK, Licenses
<1>4. QED
  BY <1>1, <1>2, <1>3 DEF IInv

LEMMA CreateListingStep ==
  ASSUME IInv, NEW p \in Requests, NEW l \in ListingIds, NEW k \in LicenseIds \cup {NoLicense},
         CreateListing(p, l, k)
  PROVE  IInv'
<1>1. p \in Processes
  BY DEF Processes
<1>2. StatusOf(k) \in Statuses
  BY DEF StatusOf, Statuses
<1>3. WriteListing(l, Row(StatusOf(k))) /\ UNCHANGED license /\ NoCall
  BY DEF CreateListing
<1>4. /\ listing' \in [ListingIds -> ListingRows] /\ wasPublished' \subseteq ListingIds
      /\ \A m \in ListingIds : listing'[m].status = "published" => m \in wasPublished'
      /\ Kept /\ listing'[l].status # "none"
  BY <1>2, <1>3, StatusFacts, WriteListingFacts DEF Statuses
<1>5. RowsOK' /\ CallsOK'
  BY <1>3, <1>4, LicensesKept, NoCallFacts
<1>6. CASE k = NoLicense
  <2>1. UNCHANGED procVars
    BY <1>6 DEF CreateListing
  <2>2. ProcTypes' /\ Others(p)
    BY <2>1 DEF procVars, IInv, ProcsOK, ProcTypes, Others
  <2>3. ProcOK(p)'
    <3>1. ProcOK(p) /\ pc[p] = "idle"
      BY <1>1, <1>6 DEF IInv, ProcsOK, CreateListing, Idle
    <3>2. QED
      BY <2>1, <3>1 DEF ProcOK, procVars
  <2>4. QED
    BY <1>1, <1>4, <1>5, <2>2, <2>3, ProcsKept DEF IInv
<1>7. CASE k # NoLicense
  <2>1. Begin(p, "link", l, k, "none") /\ k \in LicenseIds
    BY <1>7 DEF CreateListing
  <2>2. /\ ProcTypes' /\ Others(p) /\ pc'[p] = "link" /\ job'[p] = <<l, k, "none">>
        /\ copyK'[p] = license[k]
    BY <1>1, <2>1, BeginFacts
  <2>3. /\ license[k] # NoLicense /\ license[k].by = Owner[l] /\ license[k].listing = NoListing
        /\ license[k] \in LicenseRows
    BY <1>7, <2>1 DEF CreateListing, MayUse, IInv, RowsOK, Licenses
  <2>4. ProcOK(p)'
    BY <1>4, <2>1, <2>2, <2>3 DEF ProcOK, Own
  <2>5. QED
    BY <1>1, <1>4, <1>5, <2>2, <2>4, ProcsKept DEF IInv
<1>8. QED
  BY <1>6, <1>7

LEMMA LicenseStep ==
  ASSUME IInv, NEW p \in Processes, LinkLicense(p) \/ RemoveLicense(p)
  PROVE  IInv'
<1> DEFINE l == job[p][1]
           k == job[p][2]
<1>0. ProcOK(p) /\ NoCall /\ NoListingWrite
  BY DEF LinkLicense, RemoveLicense, IInv, ProcsOK
<1>1. CASE LinkLicense(p)
  <2> DEFINE row == [copyK[p] EXCEPT !.listing = l]
  <2>1. /\ pc[p] = "link" /\ l \in ListingIds /\ k \in LicenseIds /\ copyK[p] \in LicenseRows
        /\ Owner[l] = copyK[p].by /\ listing[l].status # "none"
    BY <1>0, <1>1 DEF LinkLicense, ProcOK
  <2>2. row \in LicenseRows /\ row.listing = l /\ row.by = Owner[l]
    BY <2>1 DEF LicenseRows
  <2>3. license' = [license EXCEPT ![k] = row] /\ row \in Licenses /\ Own(row)
    BY <1>1, <2>1, <2>2 DEF LinkLicense, WriteLicense, Own, Licenses
  <2>4. RowsOK' /\ Kept
    BY <1>0, <2>1, <2>3, WriteLicenseFacts
  <2>5. PICK s \in {"unlink", "idle"} : Continue(p, s)
    BY <1>1 DEF LinkLicense
  <2>6. ProcTypes' /\ Others(p) /\ pc'[p] = s /\ (s # "idle" => job'[p] = job[p])
    BY <2>5, ContinueFacts
  <2>7. ProcOK(p)'
    BY <2>1, <2>5, <2>6 DEF ProcOK
  <2>8. QED
    BY <1>0, <2>4, <2>6, <2>7, ProcsKept, NoCallFacts DEF IInv
<1>2. CASE RemoveLicense(p)
  <2>1. pc[p] = "unlink" /\ l \in ListingIds /\ k \in LicenseIds
    BY <1>0, <1>2 DEF RemoveLicense, ProcOK
  <2>2. license' = [license EXCEPT ![k] = NoLicense] /\ NoLicense \in Licenses
    BY <1>2 DEF RemoveLicense, WriteLicense, Licenses
  <2>3. RowsOK' /\ Kept
    BY <1>0, <2>1, <2>2, WriteLicenseFacts
  <2>4. ProcTypes' /\ Others(p) /\ pc'[p] = "index" /\ job'[p] = job[p]
    BY <1>2, ContinueFacts DEF RemoveLicense
  <2>5. ProcOK(p)'
    BY <2>1, <2>4 DEF ProcOK
  <2>6. QED
    BY <1>0, <2>3, <2>4, <2>5, ProcsKept, NoCallFacts DEF IInv
<1>3. QED
  BY <1>1, <1>2
\* A request begins, writing no row.
LEMMA BeginStep ==
  ASSUME IInv, NEW p \in Processes, NEW l \in ListingIds \cup {NoListing}, NEW k, NEW to,
         NEW s \in {"index", "saveStatus", "saveReview", "softDelete"}, Begin(p, s, l, k, to),
         s # "saveReview" => l \in ListingIds,
         s = "saveStatus" => to \in Statuses,
         s = "saveReview" => /\ k \in LicenseIds /\ license[k] # NoLicense
                             /\ to \in {"approved", "rejected"},
         Kept
  PROVE  ProcsOK'
<1>1. /\ ProcTypes' /\ Others(p) /\ pc'[p] = s /\ job'[p] = <<l, k, to>>
      /\ s = "saveReview" => copyK'[p] = license[k]
  BY BeginFacts
<1>2. s = "saveReview" => license[k] \in LicenseRows /\ Own(license[k])
  BY DEF IInv, RowsOK, Licenses
<1>3. Own(copyK[p])' <=> (copyK'[p].listing # NoListing =>
           Owner[copyK'[p].listing] = copyK'[p].by /\ listing'[copyK'[p].listing].status # "none")
  BY DEF Own
<1>4. s = "saveReview" => copyK'[p] \in LicenseRows /\ Own(copyK[p])'
  BY <1>1, <1>2, <1>3 DEF Own, Kept, LicenseRows
<1>5. ProcOK(p)'
  BY <1>1, <1>4 DEF ProcOK
<1>6. QED
  BY <1>1, <1>5, ProcsKept

\* update, updateStatus, remove, and a review, look at a row.
LEMMA LookStep ==
  ASSUME IInv, NEW p \in Requests, NEW l \in ListingIds, NEW t \in Statuses,
         Update(p, l) \/ UpdateStatus(p, l, t) \/ Remove(p, l)
  PROVE  IInv'
<1>1. NoCall /\ NoListingWrite /\ UNCHANGED license /\ p \in Processes
  BY DEF Update, UpdateStatus, Remove, NoLicenseWrite, Processes
<1>2. RowsOK' /\ Kept /\ CallsOK'
  BY <1>1, NothingWritten, NoCallFacts
<1>3. PICK s \in {"index", "saveStatus", "softDelete"}, to \in {t, "none"} :
          Begin(p, s, l, NoLicense, to) /\ (s = "saveStatus" => to = t)
  BY DEF Update, UpdateStatus, Remove
<1>4. ProcsOK'
  BY <1>1, <1>2, <1>3, BeginStep
<1>5. QED
  BY <1>2, <1>4 DEF IInv

LEMMA ReviewStep ==
  ASSUME IInv, NEW p \in Requests, NEW k \in LicenseIds, NEW v \in {"approved", "rejected"},
         Review(p, k, v)
  PROVE  IInv'
<1>1. NoCall /\ NoListingWrite /\ UNCHANGED license /\ p \in Processes
  BY DEF Review, NoLicenseWrite, Processes
<1>2. RowsOK' /\ Kept /\ CallsOK'
  BY <1>1, NothingWritten, NoCallFacts
<1>3. license[k] # NoLicense /\ license[k].listing \in ListingIds \cup {NoListing}
  BY DEF Review, IInv, RowsOK, Licenses, LicenseRows
<1>4. Begin(p, "saveReview", license[k].listing, k, v)
  BY DEF Review
<1>5. ProcsOK'
  BY <1>1, <1>2, <1>3, <1>4, BeginStep
<1>6. QED
  BY <1>2, <1>5 DEF IInv

LEMMA ProcsIdle ==
  ASSUME IInv, Kept, UNCHANGED procVars
  PROVE  ProcsOK'
<1>1. ASSUME NEW q \in Processes PROVE ProcOK(q)'
  <2>1. ProcOK(q) /\ pc' = pc /\ job' = job /\ copyK' = copyK
    BY DEF IInv, ProcsOK, procVars
  <2>2. copyK[q] \in LicenseRows /\ Own(copyK[q]) =>
           (copyK[q].listing # NoListing => Owner[copyK[q].listing] = copyK[q].by
                                            /\ listing'[copyK[q].listing].status # "none")
    BY DEF Own, Kept, LicenseRows
  <2>3. QED
    BY <2>1, <2>2 DEF ProcOK, Own, Kept
<1>2. QED
  BY <1>1 DEF IInv, ProcsOK, ProcTypes, procVars

LEMMA SubmitStep ==
  ASSUME IInv, NEW u \in Users, NEW k \in LicenseIds, NEW external \in BOOLEAN,
         SubmitLicense(u, k, external)
  PROVE  IInv'
<1> DEFINE row == [by |-> u, listing |-> NoListing, external |-> external,
                   review |-> IF external THEN "approved" ELSE "pending"]
<1>1. row \in Licenses /\ Own(row)
  BY DEF Licenses, LicenseRows, Own
<1>2. license' = [license EXCEPT ![k] = row] /\ NoListingWrite /\ NoCall /\ UNCHANGED procVars
  BY DEF SubmitLicense, WriteLicense
<1> HIDE DEF row
<1>3. RowsOK' /\ Kept
  BY <1>1, <1>2, WriteLicenseFacts
<1>4. QED
  BY <1>2, <1>3, ProcsIdle, NoCallFacts DEF IInv

LEMMA CompleteDraftStep ==
  ASSUME IInv, NEW p \in Requests, NEW u \in Users, NEW l \in ListingIds, NEW k \in LicenseIds,
         CompleteDraft(p, u, l, k)
  PROVE  IInv'
<1> DEFINE row == [by |-> u, listing |-> l, external |-> FALSE, review |-> "pending"]
<1>1. listing[l].status = "draft" /\ Owner[l] = u
  BY DEF CompleteDraft
<1>2. row \in Licenses /\ Own(row)
  BY <1>1 DEF Licenses, LicenseRows, Own
<1>3. license' = [license EXCEPT ![k] = row] /\ NoListingWrite /\ NoCall /\ p \in Processes
  BY DEF CompleteDraft, Processes
<1> HIDE DEF row
<1>4. RowsOK' /\ Kept
  BY <1>2, <1>3, WriteLicenseFacts
<1>5. Begin(p, "saveStatus", l, k, "pending") /\ "pending" \in Statuses
  BY DEF CompleteDraft, Statuses
<1>6. ProcsOK'
  BY <1>3, <1>4, <1>5, BeginStep
<1>7. QED
  BY <1>3, <1>4, <1>6, NoCallFacts DEF IInv

LEMMA SaveReviewStep ==
  ASSUME IInv, NEW p \in Processes, SaveReview(p)
  PROVE  IInv'
<1> DEFINE k == job[p][2]
           row == [copyK[p] EXCEPT !.review = job[p][3]]
<1>1. /\ pc[p] = "saveReview" /\ k \in LicenseIds /\ job[p][3] \in {"approved", "rejected"}
      /\ job[p][1] \in ListingIds \cup {NoListing}
      /\ copyK[p] \in LicenseRows /\ Own(copyK[p])
  BY DEF SaveReview, IInv, ProcsOK, ProcOK
<1>2. row \in LicenseRows /\ row.listing = copyK[p].listing /\ row.by = copyK[p].by
  BY <1>1 DEF LicenseRows
<1>3. row \in Licenses /\ Own(row)
  BY <1>1, <1>2 DEF Own, Licenses
<1>4. license' = [license EXCEPT ![k] = row] /\ NoListingWrite /\ NoCall
  BY DEF SaveReview
<1> HIDE DEF row
<1>5. RowsOK' /\ Kept
  BY <1>1, <1>3, <1>4, WriteLicenseFacts
<1>6. PICK s \in {"idle", "applyReview"} :
          Continue(p, s) /\ (s = "applyReview" => job[p][1] # NoListing)
  BY DEF SaveReview
<1>7. ProcTypes' /\ Others(p) /\ pc'[p] = s /\ (s # "idle" => job'[p] = job[p])
  BY <1>6, ContinueFacts
<1>8. ProcOK(p)'
  BY <1>1, <1>6, <1>7 DEF ProcOK
<1>9. QED
  BY <1>4, <1>5, <1>7, <1>8, ProcsKept, NoCallFacts DEF IInv
\* A request goes on from a statement that writes a listing, or indexes it.
LEMMA GoOnStep ==
  ASSUME IInv, NEW p \in Processes, NEW s \in {"idle", "index"}, Continue(p, s),
         s = "index" => job[p][1] \in ListingIds, Kept
  PROVE  ProcsOK'
<1>1. ProcTypes' /\ Others(p) /\ pc'[p] = s /\ (s # "idle" => job'[p] = job[p])
  BY ContinueFacts
<1>2. ProcOK(p)'
  BY <1>1 DEF ProcOK
<1>3. QED
  BY <1>1, <1>2, ProcsKept

LEMMA ApplyReviewStep ==
  ASSUME IInv, NEW p \in Processes, ApplyReview(p)
  PROVE  IInv'
<1> DEFINE l == job[p][1]
<1>1. l \in ListingIds /\ listing[l] \in ListingRows /\ UNCHANGED license
  BY DEF ApplyReview, IInv, ProcsOK, ProcOK, RowsOK, NoLicenseWrite
<1>2. PICK st \in {"published", "paused"} :
          /\ WriteListing(l, [listing[l] EXCEPT !.status = st])
          /\ \/ st = "published" /\ Continue(p, "index") /\ NoCall
             \/ st = "paused" /\ Continue(p, "idle") /\ Send(l, Gone)
  BY DEF ApplyReview
<1> DEFINE row == [listing[l] EXCEPT !.status = st]
<1>3. row \in ListingRows /\ row.status = st /\ st # "none"
  <2>1. st \in Statuses /\ st # "none"
    BY DEF Statuses
  <2>2. row \in ListingRows /\ row.status = st
    BY <1>1, <2>1, StatusFacts
  <2>3. QED
    BY <2>1, <2>2
<1>4. WriteListing(l, row)
  BY <1>2
<1> HIDE DEF row, l
<1>5. /\ listing' \in [ListingIds -> ListingRows] /\ wasPublished' \subseteq ListingIds
      /\ \A m \in ListingIds : listing'[m].status = "published" => m \in wasPublished'
      /\ Kept
  BY <1>1, <1>3, <1>4, WriteListingFacts
<1>6. RowsOK'
  BY <1>1, <1>5, LicensesKept
<1>7. CallsOK'
  BY <1>1, <1>2, <1>5, StatusFacts, SendFacts, NoCallFacts
<1>8. ProcsOK'
  BY <1>1, <1>2, <1>5, GoOnStep DEF l
<1>9. QED
  BY <1>6, <1>7, <1>8 DEF IInv

LEMMA IndexStep ==
  ASSUME IInv, NEW p \in Processes, IndexListing(p)
  PROVE  IInv'
<1> DEFINE l == job[p][1]
<1>1. l \in ListingIds /\ listing[l] \in ListingRows
  BY DEF IndexListing, IInv, ProcsOK, ProcOK, RowsOK
<1>2. NoListingWrite /\ UNCHANGED license /\ Continue(p, "idle")
      /\ (NoCall \/ Send(l, BuildObject(listing[l])))
  BY DEF IndexListing, NoLicenseWrite
<1> HIDE DEF l
<1>3. RowsOK' /\ Kept
  BY <1>2, NothingWritten
<1>4. /\ BuildObject(listing[l]) \in Objects
      /\ BuildObject(listing[l]).status = "published" => l \in wasPublished'
  BY <1>1, <1>3, StatusFacts DEF IInv, RowsOK, Kept
<1>5. CallsOK'
  BY <1>1, <1>2, <1>3, <1>4, SendFacts, NoCallFacts
<1>6. QED
  BY <1>2, <1>3, <1>5, GoOnStep DEF IInv

LEMMA SaveStatusStep ==
  ASSUME IInv, NEW p \in Processes, SaveStatus(p)
  PROVE  IInv'
<1> DEFINE l == job[p][1]
           s == job[p][3]
           saved == [copyL[p] EXCEPT !.status = s]
<1>1. l \in ListingIds /\ s \in Statuses /\ copyL[p] \in ListingRows
  BY DEF SaveStatus, IInv, ProcsOK, ProcOK, ProcTypes
<1>2. saved \in ListingRows /\ saved.status = s /\ s # "none"
  BY <1>1, StatusFacts DEF Statuses
<1>3. /\ WriteListing(l, saved) /\ UNCHANGED license /\ Continue(p, "idle")
      /\ NoCall \/ Send(l, Gone) \/ Send(l, BuildObject(saved))
  BY DEF SaveStatus, NoLicenseWrite
<1> HIDE DEF l, s, saved
<1>4. /\ listing' \in [ListingIds -> ListingRows] /\ wasPublished' \subseteq ListingIds
      /\ \A m \in ListingIds : listing'[m].status = "published" => m \in wasPublished'
      /\ Kept /\ listing'[l] = saved
  BY <1>1, <1>2, <1>3, WriteListingFacts
<1>5. RowsOK'
  BY <1>3, <1>4, LicensesKept
<1>6. /\ BuildObject(saved) \in Objects
      /\ BuildObject(saved).status = "published" => l \in wasPublished'
  BY <1>1, <1>2, <1>4, StatusFacts
<1>7. CallsOK'
  BY <1>1, <1>3, <1>4, <1>6, StatusFacts, SendFacts, NoCallFacts
<1>8. QED
  BY <1>3, <1>4, <1>5, <1>7, GoOnStep DEF IInv

LEMMA SoftDeleteStep ==
  ASSUME IInv, NEW p \in Processes, SoftDelete(p)
  PROVE  IInv'
<1> DEFINE l == job[p][1]
           row == [listing[l] EXCEPT !.removed = TRUE]
<1>1. l \in ListingIds /\ listing[l] \in ListingRows
  BY DEF SoftDelete, IInv, ProcsOK, ProcOK, RowsOK
<1>2. row \in ListingRows /\ row.status = listing[l].status
  BY <1>1 DEF ListingRows
<1>3. WriteListing(l, row) /\ UNCHANGED license /\ Continue(p, "idle") /\ Send(l, Gone)
  BY DEF SoftDelete, NoLicenseWrite
<1> HIDE DEF l, row
<1>4. /\ listing' \in [ListingIds -> ListingRows] /\ wasPublished' \subseteq ListingIds
      /\ \A m \in ListingIds : listing'[m].status = "published" => m \in wasPublished'
      /\ Kept
  BY <1>1, <1>2, <1>3, WriteListingFacts
<1>5. RowsOK' /\ CallsOK'
  BY <1>1, <1>3, <1>4, LicensesKept, StatusFacts, SendFacts
<1>6. QED
  BY <1>3, <1>4, <1>5, GoOnStep DEF IInv

\* Algolia takes a call, or loses it.
LEMMA IndexServiceStep ==
  ASSUME IInv, Deliver \/ Lose
  PROVE  IInv'
<1>1. NoListingWrite /\ UNCHANGED license /\ UNCHANGED procVars
  BY DEF Deliver, Lose, NoLicenseWrite, procVars
<1>2. RowsOK' /\ Kept
  BY <1>1, NothingWritten
<1>3. CallsOK'
  <2>1. CASE Deliver
    BY <1>1, <2>1 DEF Deliver, IInv, CallsOK, NoListingWrite, SearchFindsPublished, Findable
  <2>2. CASE Lose
    BY <1>1, <2>2 DEF Lose, IInv, CallsOK, NoListingWrite, SearchFindsPublished, Findable
  <2>3. QED
    BY <2>1, <2>2
<1>4. QED
  BY <1>1, <1>2, <1>3, ProcsIdle DEF IInv

LEMMA NextIInv == IInv /\ [Next]_vars => IInv'
<1> SUFFICES ASSUME IInv, [Next]_vars PROVE IInv'
  OBVIOUS
<1>1. ASSUME NEW p \in Processes, RequestStep(p) PROVE IInv'
  BY <1>1, LicenseStep, SaveReviewStep, ApplyReviewStep, IndexStep, SaveStatusStep, SoftDeleteStep
     DEF RequestStep
<1>2. ASSUME NEW p \in Requests, NEW l \in Attended,
             (\E t \in Targets : UpdateStatus(p, l, t)) \/ Update(p, l) \/ Remove(p, l)
      PROVE  IInv'
  <2>1. l \in ListingIds /\ Targets \subseteq Statuses /\ "draft" \in Statuses
    BY BoundsAssumption DEF Statuses
  <2>2. QED
    BY <1>2, <2>1, LookStep
<1>3. CASE UNCHANGED vars
  <2>1. NoListingWrite /\ UNCHANGED license /\ NoCall /\ UNCHANGED procVars
    BY <1>3 DEF vars, NoListingWrite, NoCall
  <2>2. QED
    BY <2>1, NothingWritten, NoCallFacts, ProcsIdle DEF IInv
<1>4. QED
  BY <1>1, <1>2, <1>3, SubmitStep, CreateListingStep, CompleteDraftStep, ReviewStep,
     IndexServiceStep DEF Next

-----------------------------------------------------------------------------
(* Types.                                                                  *)

\* What is kept of the licenses that were handed in.
HandedIn == cleared \in [LicenseIds -> SUBSET ListingIds] /\ early \subseteq LicenseIds

LEMMA HandedInStep == IInv /\ HandedIn /\ [Next]_vars => HandedIn'
<1> SUFFICES ASSUME IInv, HandedIn, [Next]_vars PROVE HandedIn'
  OBVIOUS
<1>1. ASSUME NEW p \in Processes, RequestStep(p) PROVE HandedIn'
  <2>1. CASE SaveReview(p)
    BY <2>1 DEF SaveReview, IInv, ProcsOK, ProcOK, HandedIn
  <2>2. CASE UNCHANGED <<cleared, early>>
    BY <2>2 DEF HandedIn
  <2>3. QED
    BY <1>1, <2>1, <2>2 DEF RequestStep, LinkLicense, RemoveLicense, ApplyReview, IndexListing,
       SaveStatus, SoftDelete, WriteLicense, NoLicenseWrite
<1>2. ASSUME NEW p \in Requests, NEW l \in ListingIds, NEW k \in LicenseIds \cup {NoLicense},
             CreateListing(p, l, k)
      PROVE  HandedIn'
  BY <1>2 DEF CreateListing, HandedIn
<1>3. ASSUME NEW p \in Requests, NEW u \in Users, NEW l \in ListingIds, NEW k \in LicenseIds,
             CompleteDraft(p, u, l, k)
      PROVE  HandedIn'
  BY <1>3 DEF CompleteDraft, HandedIn
<1>4. CASE UNCHANGED <<cleared, early>>
  BY <1>4 DEF HandedIn
<1>5. QED
  BY <1>1, <1>2, <1>3, <1>4
     DEF Next, SubmitLicense, WriteLicense, UpdateStatus, Update, Remove, Review, Deliver, Lose,
         NoLicenseWrite, vars

LEMMA Invariance == Spec => [](IInv /\ HandedIn)
<1>1. Init => IInv /\ HandedIn
  BY InitIInv DEF Init, HandedIn
<1>2. QED
  BY <1>1, NextIInv, HandedInStep, PTL DEF Spec

\* A search finds no listing that never was PUBLISHED, whatever is indexed,
\* and however late: every call says what the row once said.
THEOREM SearchSafety == Spec => []SearchFindsPublished
<1>1. IInv => SearchFindsPublished
  BY DEF IInv, CallsOK
<1>2. QED
  BY <1>1, Invariance, PTL

\* A license only ever clears its advertiser's own listing, though it is
\* linked, and reviewed, by saves of copies that are out of date.
THEOREM LinkSafety == Spec => []LinksAreOwn
<1>1. IInv => LinksAreOwn
  BY DEF IInv, RowsOK, Own, LinksAreOwn
<1>2. QED
  BY <1>1, Invariance, PTL

\* The rest of what TypeOK says.
ProcSteps ==
    /\ pc \in [Processes -> Steps]
    /\ job \in [Processes -> (ListingIds \cup {NoListing}) \X (LicenseIds \cup {NoLicense})
                              \X (Statuses \cup {"none", "approved", "rejected"})]
    /\ disturbed \in BOOLEAN

LEMMA BeginTyped ==
  ASSUME ProcSteps, NEW p \in Processes, NEW s \in Steps, NEW l \in ListingIds \cup {NoListing},
         NEW k \in LicenseIds \cup {NoLicense},
         NEW to \in Statuses \cup {"none", "approved", "rejected"}, Begin(p, s, l, k, to)
  PROVE  ProcSteps'
BY DEF ProcSteps, Begin, Goto

LEMMA ContinueTyped ==
  ASSUME ProcSteps, NEW p \in Processes, NEW s \in Steps, Continue(p, s)
  PROVE  ProcSteps'
BY DEF ProcSteps, Continue, Goto

LEMMA ProcStepsKept == IInv /\ ProcSteps /\ [Next]_vars => ProcSteps'
<1> SUFFICES ASSUME IInv, ProcSteps, [Next]_vars PROVE ProcSteps'
  OBVIOUS
<1>1. ASSUME NEW p \in Processes, RequestStep(p) PROVE ProcSteps'
  <2>1. PICK s \in Steps : Continue(p, s)
    BY <1>1 DEF RequestStep, LinkLicense, RemoveLicense, SaveReview, ApplyReview, IndexListing,
       SaveStatus, SoftDelete, Steps
  <2>2. QED
    BY <2>1, ContinueTyped
<1>2. ASSUME NEW p \in Requests, NEW l \in ListingIds, NEW k \in LicenseIds \cup {NoLicense},
             CreateListing(p, l, k)
      PROVE  ProcSteps'
  BY <1>2, BeginTyped DEF CreateListing, Processes, Steps, ProcSteps, procVars
<1>3. ASSUME NEW p \in Requests, NEW u \in Users, NEW l \in ListingIds, NEW k \in LicenseIds,
             CompleteDraft(p, u, l, k)
      PROVE  ProcSteps'
  BY <1>3, BeginTyped DEF CompleteDraft, Processes, Steps, Statuses
<1>4. ASSUME NEW p \in Requests, NEW l \in Attended, NEW s \in Targets,
             UpdateStatus(p, l, s)
      PROVE  ProcSteps'
  <2>1. l \in ListingIds /\ s \in Statuses
    BY BoundsAssumption DEF Statuses
  <2>2. QED
    BY <1>4, <2>1, BeginTyped DEF UpdateStatus, Processes, Steps
<1>5. ASSUME NEW p \in Requests, NEW l \in Attended, Update(p, l) \/ Remove(p, l)
      PROVE  ProcSteps'
  <2>1. l \in ListingIds
    BY BoundsAssumption
  <2>2. QED
    BY <1>5, <2>1, BeginTyped DEF Update, Remove, Processes, Steps
<1>6. ASSUME NEW p \in Requests, NEW k \in LicenseIds, NEW v \in {"approved", "rejected"}, Review(p, k, v)
      PROVE  ProcSteps'
  <2>1. license[k].listing \in ListingIds \cup {NoListing}
    BY <1>6 DEF Review, IInv, RowsOK, Licenses, LicenseRows
  <2>2. QED
    BY <1>6, <2>1, BeginTyped DEF Review, Processes, Steps
<1>7. CASE UNCHANGED procVars /\ disturbed' \in BOOLEAN
  BY <1>7 DEF ProcSteps, procVars
<1>8. QED
  BY <1>1, <1>2, <1>3, <1>4, <1>5, <1>6, <1>7
     DEF Next, SubmitLicense, Deliver, Lose, vars, ProcSteps

\* Every variable of listings, licenses and the index keeps its type,
\* whatever a request saves of what it read (listings.service.ts,
\* property-advertisement-licenses.service.ts).
THEOREM ListingTypes == Spec => []TypeOK
<1>1. Init => ProcSteps
  <2> SUFFICES ASSUME Init PROVE ProcSteps
    OBVIOUS
  <2>1. "idle" \in Steps /\ FALSE \in BOOLEAN
    BY DEF Steps
  <2>2. QED
    BY <2>1 DEF Init, ProcSteps
<1>2. Spec => []ProcSteps
  BY <1>1, ProcStepsKept, Invariance, PTL DEF Spec
<1>3. IInv /\ HandedIn /\ ProcSteps => TypeOK
  BY DEF IInv, RowsOK, CallsOK, ProcsOK, ProcTypes, HandedIn, ProcSteps, TypeOK
<1>4. QED
  BY <1>2, <1>3, Invariance, PTL

-----------------------------------------------------------------------------
(* What is so as long as requests take turns.                              *)

\* Turns are taken: one request is served at a time, and its call to the
\* index is its last statement.
Turns ==
    /\ \A p, q \in Processes : ~Idle(p) /\ ~Idle(q) => p = q
    /\ \A p \in Processes : ~Idle(p) => calls = {}
    /\ \A c, d \in calls : c = d

\* An object that says of a listing what its row does.
Says(l, object) ==
    /\ Exists(l) /\ listing[l].status = "published" => object = BuildObject(listing[l])
    /\ object.status = "published" => Exists(l) /\ listing[l].status = "published"

ToIndex(l) == \E p \in Processes :
    job[p][1] = l /\ (pc[p] \in {"unlink", "index"} \/ (pc[p] = "link" /\ copyK[p].external))

Stays(l) == Findable(l) => Exists(l) /\ listing[l].status = "published"

\* The index says what the rows do, once the call under way has arrived or
\* the request that is served has made its own.
IndexFollows ==
    ~SetBack => \A l \in ListingIds :
        /\ \A c \in calls : c[1] = l => Says(l, c[2])
        /\ (\A c \in calls : c[1] # l) => Stays(l) /\ (ToIndex(l) \/ Says(l, index[l]))

\* What the request that is served has read is so still.
ReadIsSo(p) ==
    LET l == job[p][1]  k == job[p][2] IN
    /\ pc[p] = "link" => /\ copyK[p] = license[k] /\ license[k].listing = NoListing
                         /\ cleared[k] = {l}
                         /\ listing[l].status = IF copyK[p].external THEN "published" ELSE "pending"
    /\ pc[p] = "unlink" => license[k].listing = l /\ listing[l].status = "published"
    /\ pc[p] = "saveReview" => copyK[p] = license[k] /\ l = copyK[p].listing
    /\ pc[p] = "saveStatus" =>
          /\ copyL[p] = listing[l] /\ Exists(l)
          /\ ~SetBack => \/ job[p][3] \in {"published", "paused"}
                         \/ /\ job[p][3] = "pending" /\ listing[l].status = "draft"
                            /\ k \in PendingLicenses /\ license[k].listing = l

\* A license was handed in for one listing, and leads there, or will.
ClearsOne(k) ==
    \A l \in cleared[k] :
        /\ cleared[k] = {l}
        /\ license[k] # NoLicense =>
              \/ license[k].listing = l
              \/ \E p \in Processes : pc[p] = "link" /\ job[p][1] = l /\ job[p][2] = k

\* A license no listing has yet is shown to administrators, who have reviewed
\* it too early, or need not (REGA or the Ministry vouched for it).
UnusedIsShown(k) ==
    license[k] # NoLicense /\ license[k].listing = NoListing =>
        license[k].external \/ k \in PendingLicenses \cup early

\* A PENDING listing is led to by a license that is shown, or will be, or its
\* review is about to reach it.
LedTo(l) ==
    \/ \E k \in PendingLicenses \cup early : license[k] # NoLicense /\ license[k].listing = l
    \/ \E p \in Processes : pc[p] \in {"link", "applyReview"} /\ job[p][1] = l

PendingFollows ==
    ~SetBack => \A l \in ListingIds : Exists(l) /\ listing[l].status = "pending" => LedTo(l)

InTurn ==
    /\ Turns /\ IndexFollows /\ PendingFollows
    /\ \A k \in LicenseIds : ClearsOne(k) /\ UnusedIsShown(k)
    /\ \A p \in Processes : ReadIsSo(p)

TurnInv == ~disturbed => InTurn

\* Nobody is served but p, and nothing is on its way to the index.
Alone(p) == calls = {} /\ \A q \in Processes : q # p => Idle(q)

LEMMA ServedAlone ==
  ASSUME TurnInv, ~disturbed, NEW p \in Processes, ~Idle(p)
  PROVE  Alone(p)
BY DEF TurnInv, InTurn, Turns, Alone

LEMMA BeginAlone ==
  ASSUME NEW p, NEW s, NEW l, NEW k, NEW to, Begin(p, s, l, k, to), ~disturbed'
  PROVE  Alone(p) /\ ~disturbed
BY DEF Begin, Quiet, Alone

LEMMA TurnsAfter ==
  ASSUME NEW p, Alone(p), Others(p),
         calls' # {} => (p \in Processes => Idle(p)') /\ \E c : calls' = {c}
  PROVE  Turns' /\ \A q \in Processes : q # p => ReadIsSo(q)'
BY DEF Alone, Others, Turns, Idle, ReadIsSo

\* The index, after a step about listing m.
LEMMA IndexAfter ==
  ASSUME InTurn, NEW p, Alone(p), NEW m, UNCHANGED index,
         p \in Processes /\ ~Idle(p) => job[p][1] = m,
         \A l \in ListingIds : l # m => listing'[l] = listing[l],
         calls' # {} => \E o : calls' = {<<m, o>>} /\ (~SetBack => Says(m, o)'),
         calls' = {} /\ m \in ListingIds => (~SetBack => Stays(m)' /\ (ToIndex(m)' \/ Says(m, index[m])'))
  PROVE  IndexFollows'
<1> SUFFICES ASSUME ~SetBack, NEW l \in ListingIds
             PROVE  /\ \A c \in calls' : c[1] = l => Says(l, c[2])'
                    /\ (\A c \in calls' : c[1] # l) => Stays(l)' /\ (ToIndex(l)' \/ Says(l, index[l])')
  BY DEF IndexFollows
<1>1. CASE l = m
  BY <1>1
<1>2. CASE l # m
  <2>1. Stays(l) /\ (ToIndex(l) \/ Says(l, index[l]))
    BY DEF InTurn, IndexFollows, Alone
  <2>2. ~ToIndex(l)
    BY <1>2 DEF ToIndex, Alone, Idle
  <2>3. Stays(l)' /\ Says(l, index[l])'
    BY <1>2, <2>1, <2>2 DEF Stays, Says, Findable, Exists, BuildObject
  <2>4. \A c \in calls' : c[1] # l
    BY <1>2
  <2>5. QED
    BY <2>3, <2>4
<1>3. QED
  BY <1>1, <1>2

\* The licenses, after a step about license c.
LEMMA LicensesAfter ==
  ASSUME InTurn, NEW p, Alone(p), NEW c,
         p \in Processes /\ pc[p] = "link" => job[p][2] = c,
         \A k \in LicenseIds : k # c => license'[k] = license[k] /\ cleared'[k] = cleared[k],
         early \subseteq early',
         c \in LicenseIds => ClearsOne(c)' /\ UnusedIsShown(c)'
  PROVE  \A k \in LicenseIds : ClearsOne(k)' /\ UnusedIsShown(k)'
<1> SUFFICES ASSUME NEW k \in LicenseIds, k # c
             PROVE  ClearsOne(k)' /\ UnusedIsShown(k)'
  OBVIOUS
<1>1. ClearsOne(k) /\ UnusedIsShown(k)
  BY DEF InTurn
<1>2. ClearsOne(k)'
  BY <1>1 DEF ClearsOne, Alone, Idle
<1>3. UnusedIsShown(k)'
  BY <1>1 DEF UnusedIsShown, PendingLicenses
<1>4. QED
  BY <1>2, <1>3

\* PENDING listings, after a step about listing m and license c.
LEMMA PendingAfter ==
  ASSUME HandedIn, InTurn, NEW p, Alone(p), NEW m, NEW c,
         p \in Processes /\ pc[p] \in {"link", "applyReview"} => job[p][1] = m,
         \A l \in ListingIds : l # m => listing'[l] = listing[l],
         \A k \in LicenseIds : k # c => license'[k] = license[k],
         early \subseteq early',
         c \in LicenseIds /\ license[c] # NoLicense => license[c].listing \in {NoListing, m},
         ~SetBack /\ m \in ListingIds => (Exists(m)' /\ listing'[m].status = "pending" => LedTo(m)')
  PROVE  PendingFollows'
<1> SUFFICES ASSUME ~SetBack, NEW l \in ListingIds, l # m, Exists(l)', listing'[l].status = "pending"
             PROVE  LedTo(l)'
  BY DEF PendingFollows
<1>1. Exists(l) /\ listing[l].status = "pending"
  BY DEF Exists
<1>2. ~\E q \in Processes : pc[q] \in {"link", "applyReview"} /\ job[q][1] = l
  BY DEF Alone, Idle
<1>3. PICK k \in PendingLicenses \cup early : license[k] # NoLicense /\ license[k].listing = l
  BY <1>1, <1>2 DEF InTurn, PendingFollows, LedTo
<1>4. CASE k \in LicenseIds
  <2>1. license'[k] = license[k]
    BY <1>3, <1>4, NullAssumption
  <2>2. k \in (PendingLicenses \cup early)'
    BY <1>3, <1>4, <2>1 DEF PendingLicenses
  <2>3. QED
    BY <1>3, <2>1, <2>2 DEF LedTo
<1>5. QED
  BY <1>3, <1>4 DEF PendingLicenses, HandedIn

\* A step that leaves the licenses, or the listings, as they are.
LEMMA LicensesSame ==
  ASSUME InTurn, NEW p, Alone(p), p \in Processes => pc[p] # "link",
         UNCHANGED <<license, cleared, early>>
  PROVE  \A k \in LicenseIds : ClearsOne(k)' /\ UnusedIsShown(k)'
BY DEF InTurn, ClearsOne, UnusedIsShown, PendingLicenses, Alone, Idle

LEMMA PendingSame ==
  ASSUME HandedIn, InTurn, NEW p, Alone(p), NEW m,
         p \in Processes /\ pc[p] \in {"link", "applyReview"} => job[p][1] = m,
         \A l \in ListingIds : l # m => listing'[l] = listing[l],
         UNCHANGED <<license, early>>,
         ~SetBack /\ m \in ListingIds => (Exists(m)' /\ listing'[m].status = "pending" => LedTo(m)')
  PROVE  PendingFollows'
<1> SUFFICES ASSUME ~SetBack, NEW l \in ListingIds, l # m, Exists(l)', listing'[l].status = "pending"
             PROVE  LedTo(l)'
  BY DEF PendingFollows
<1>1. Exists(l) /\ listing[l].status = "pending"
  BY DEF Exists
<1>2. ~\E q \in Processes : pc[q] \in {"link", "applyReview"} /\ job[q][1] = l
  BY DEF Alone, Idle
<1>3. QED
  BY <1>1, <1>2 DEF InTurn, PendingFollows, LedTo, PendingLicenses

LEMMA ListingsSame ==
  ASSUME HandedIn, InTurn, NEW p, Alone(p), p \in Processes => Idle(p), NEW c,
         \A k \in LicenseIds : k # c => license'[k] = license[k],
         early \subseteq early', UNCHANGED <<listing, index, calls>>,
         c \in LicenseIds => license[c] = NoLicense
  PROVE  IndexFollows' /\ PendingFollows'
<1>1. \A q \in Processes : pc[q] = "idle"
  BY DEF Alone, Idle
<1>2. IndexFollows'
  BY <1>1 DEF InTurn, IndexFollows, Alone, Stays, Says, ToIndex, Findable, Exists, BuildObject
<1>3. PendingFollows'
  <2> SUFFICES ASSUME ~SetBack, NEW l \in ListingIds, Exists(l), listing[l].status = "pending"
               PROVE  LedTo(l)'
    BY DEF PendingFollows, Exists
  <2>1. PICK k \in PendingLicenses \cup early : license[k] # NoLicense /\ license[k].listing = l
    BY <1>1 DEF InTurn, PendingFollows, LedTo
  <2>2. k \in LicenseIds /\ license'[k] = license[k]
    BY <2>1 DEF PendingLicenses, HandedIn
  <2>3. k \in (PendingLicenses \cup early)'
    BY <2>1, <2>2 DEF PendingLicenses
  <2>4. QED
    BY <2>1, <2>2, <2>3 DEF LedTo
<1>4. QED
  BY <1>2, <1>3

LEMMA TurnInit == Init => TurnInv
BY DEF Init, TurnInv, InTurn, Turns, IndexFollows, Stays, Says, Findable, Exists, Gone, Row, PendingFollows,
       ClearsOne, UnusedIsShown, ReadIsSo, Idle

\* A request that begins, without a write, leaves everything as it is said.
LEMMA BeginTurn ==
  ASSUME IInv, HandedIn, TurnInv, NEW p \in Processes, NEW s, NEW l, NEW k, NEW to, Begin(p, s, l, k, to),
         ~disturbed', NoCall, NoListingWrite, NoLicenseWrite, s # "link", ReadIsSo(p)'
  PROVE  InTurn'
<1>1. InTurn /\ Alone(p) /\ Idle(p)
  BY BeginAlone DEF TurnInv, Begin
<1>2. Others(p) /\ ProcTypes' /\ calls' = {} /\ UNCHANGED <<listing, license, index, cleared, early>>
  BY <1>1, BeginFacts DEF NoCall, NoListingWrite, NoLicenseWrite, Alone
<1>3. Turns' /\ \A q \in Processes : ReadIsSo(q)'
  BY <1>1, <1>2, TurnsAfter
<1>4. IndexFollows'
  BY <1>1, <1>2 DEF InTurn, IndexFollows, Alone, Idle, ToIndex, Stays, Says, Findable, Exists, BuildObject
<1>5. \A c \in LicenseIds : ClearsOne(c)' /\ UnusedIsShown(c)'
  BY <1>1, <1>2 DEF InTurn, ClearsOne, UnusedIsShown, Alone, Idle, PendingLicenses
<1>6. PendingFollows'
  BY <1>1, <1>2 DEF InTurn, PendingFollows, LedTo, Alone, Idle, PendingLicenses, Exists
<1>7. QED
  BY <1>3, <1>4, <1>5, <1>6 DEF InTurn

LEMMA LookTurn ==
  ASSUME IInv, HandedIn, TurnInv, ~disturbed', NEW p \in Requests, NEW l \in ListingIds,
         Update(p, l) \/ Remove(p, l) \/ \E t \in Targets : UpdateStatus(p, l, t)
  PROVE  InTurn'
<1>1. NoCall /\ NoListingWrite /\ NoLicenseWrite /\ p \in Processes /\ Exists(l)
  BY DEF Update, UpdateStatus, Remove, Processes
<1>2. PICK s \in {"index", "saveStatus", "softDelete"}, to \in Targets \cup {"none"} :
          Begin(p, s, l, NoLicense, to) /\ (s = "saveStatus" => to \in Targets)
  BY DEF Update, UpdateStatus, Remove
<1>3. pc'[p] = s /\ job'[p] = <<l, NoLicense, to>> /\ (s = "saveStatus" => copyL'[p] = listing[l])
  BY <1>1, <1>2, BeginFacts DEF Begin, Goto, IInv, ProcsOK, ProcTypes
<1>4. ~SetBack => Targets \subseteq {"published", "paused"}
  BY BoundsAssumption DEF SetBack
<1>5. ReadIsSo(p)'
  BY <1>1, <1>2, <1>3, <1>4 DEF ReadIsSo, Exists, NoListingWrite, SetBack
<1>6. QED
  BY <1>1, <1>2, <1>5, BeginTurn

LEMMA ReviewTurn ==
  ASSUME IInv, HandedIn, TurnInv, ~disturbed', NEW p \in Requests, NEW k \in LicenseIds,
         NEW v \in {"approved", "rejected"}, Review(p, k, v)
  PROVE  InTurn'
<1>1. NoCall /\ NoListingWrite /\ NoLicenseWrite /\ p \in Processes
      /\ Begin(p, "saveReview", license[k].listing, k, v)
  BY DEF Review, Processes
<1>2. pc'[p] = "saveReview" /\ job'[p] = <<license[k].listing, k, v>> /\ copyK'[p] = license[k]
  BY <1>1, BeginFacts
<1>3. ReadIsSo(p)'
  BY <1>1, <1>2 DEF ReadIsSo, NoLicenseWrite
<1>4. QED
  BY <1>1, <1>3, BeginTurn

\* A request moves on.
LEMMA MovesOn ==
  ASSUME IInv, TurnInv, ~disturbed, NEW p \in Processes, ~Idle(p), NEW s, Continue(p, s)
  PROVE  /\ InTurn /\ Alone(p) /\ ReadIsSo(p) /\ ProcOK(p)
         /\ Others(p) /\ pc'[p] = s /\ (s # "idle" => job'[p] = job[p])
BY ServedAlone, ContinueFacts DEF TurnInv, InTurn, IInv, ProcsOK

\* CreateListing, which the listing's license may have to follow.
LEMMA CreateListingTurn ==
  ASSUME IInv, HandedIn, TurnInv, ~disturbed', NEW p \in Requests, NEW l \in ListingIds,
         NEW k \in LicenseIds \cup {NoLicense}, CreateListing(p, l, k)
  PROVE  InTurn'
<1>1. /\ p \in Processes /\ listing[l] = Row("none") /\ calls' = {} /\ Alone(p) /\ Idle(p) /\ InTurn
      /\ UNCHANGED <<license, early, index>>
      /\ cleared' = [c \in LicenseIds |-> cleared[c] \cup (IF c = k THEN {l} ELSE {})]
  BY DEF CreateListing, Processes, Begin, Quiet, Alone, TurnInv, NoCall
<1>2. listing' = [listing EXCEPT ![l] = Row(StatusOf(k))] /\ listing'[l] = Row(StatusOf(k))
  BY DEF CreateListing, WriteListing, IInv, RowsOK
<1>3. ~Exists(l) /\ (~SetBack => ~Findable(l))
  BY <1>1 DEF Exists, Row, InTurn, IndexFollows, Alone, Stays
<1>4. CASE k = NoLicense
  <2>1. Others(p) /\ Idle(p)' /\ StatusOf(k) = "draft"
    BY <1>1, <1>4 DEF CreateListing, procVars, Others, Idle, StatusOf
  <2>2. listing'[l].status = "draft"
    BY <1>2, <2>1 DEF Row
  <2>3. Turns' /\ \A q \in Processes : ReadIsSo(q)'
    BY <1>1, <2>1, TurnsAfter DEF ReadIsSo, Idle
  <2>4. IndexFollows'
    <3>1. ~SetBack => Stays(l)' /\ (ToIndex(l)' \/ Says(l, index[l])')
      BY <1>1, <1>3, <2>2 DEF Stays, Says, Findable
    <3>2. QED
      BY <1>1, <1>2, <3>1, IndexAfter
  <2>5. \A c \in LicenseIds : ClearsOne(c)' /\ UnusedIsShown(c)'
    BY <1>1, <1>4, LicensesAfter, NullAssumption DEF HandedIn, Idle
  <2>6. PendingFollows'
    BY <1>1, <1>2, <2>2, PendingAfter, NullAssumption DEF Idle
  <2>7. QED
    BY <2>3, <2>4, <2>5, <2>6 DEF InTurn
<1>5. CASE k # NoLicense
  <2>1. k \in LicenseIds /\ Begin(p, "link", l, k, "none")
    BY <1>5 DEF CreateListing
  <2>2. license[k] # NoLicense /\ license[k].listing = NoListing
    BY <1>5 DEF CreateListing, MayUse
  <2>3. /\ Others(p) /\ pc'[p] = "link" /\ job'[p] = <<l, k, "none">> /\ copyK'[p] = license[k]
    BY <1>1, <2>1, BeginFacts
  <2>4. cleared'[k] = {l}
    <3>1. cleared[k] = {}
      BY <1>1, <2>1, <2>2, NullAssumption DEF InTurn, ClearsOne, Alone, Idle, HandedIn
    <3>2. QED
      BY <1>1, <2>1, <3>1
  <2>5. listing'[l].status = IF license[k].external THEN "published" ELSE "pending"
    BY <1>2, <1>5 DEF Row, StatusOf
  <2>6. Turns' /\ \A q \in Processes : ReadIsSo(q)'
    <3>1. ReadIsSo(p)'
      BY <1>1, <2>2, <2>3, <2>4, <2>5 DEF ReadIsSo
    <3>2. QED
      BY <1>1, <2>3, <3>1, TurnsAfter
  <2>7. IndexFollows'
    <3>1. ~SetBack => Stays(l)' /\ (ToIndex(l)' \/ Says(l, index[l])')
      BY <1>1, <1>3, <2>3, <2>5 DEF Stays, Says, Findable, ToIndex
    <3>2. QED
      BY <1>1, <1>2, <3>1, IndexAfter
  <2>8. \A c \in LicenseIds : ClearsOne(c)' /\ UnusedIsShown(c)'
    <3>1. ClearsOne(k)'
      BY <1>1, <2>1, <2>3, <2>4 DEF ClearsOne
    <3>2. UnusedIsShown(k)'
      BY <1>1, <2>1 DEF InTurn, UnusedIsShown, PendingLicenses
    <3>3. QED
      BY <1>1, <3>1, <3>2, LicensesAfter DEF HandedIn, Idle
  <2>9. PendingFollows'
    <3>1. LedTo(l)'
      BY <1>1, <2>3 DEF LedTo
    <3>2. QED
      BY <1>1, <1>2, <2>2, <3>1, PendingAfter DEF Idle
  <2>10. QED
    BY <2>6, <2>7, <2>8, <2>9 DEF InTurn
<1>6. QED
  BY <1>4, <1>5

LEMMA LinkTurn ==
  ASSUME IInv, HandedIn, TurnInv, ~disturbed', NEW p \in Processes, LinkLicense(p)
  PROVE  InTurn'
<1>0. PICK l, k, s : l = job[p][1] /\ k = job[p][2] /\ s = IF copyK[p].external THEN "unlink" ELSE "idle"
  OBVIOUS
<1>1. /\ ~disturbed /\ pc[p] = "link" /\ Continue(p, s)
      /\ license' = [license EXCEPT ![k] = [copyK[p] EXCEPT !.listing = l]]
      /\ UNCHANGED <<listing, cleared, early, index, calls>>
  BY <1>0 DEF LinkLicense, Continue, WriteLicense, NoCall, NoListingWrite
<1>2. /\ InTurn /\ Alone(p) /\ ReadIsSo(p) /\ ProcOK(p)
      /\ Others(p) /\ pc'[p] = s /\ (s # "idle" => job'[p] = job[p])
  BY <1>1, MovesOn DEF Idle
<1>3. /\ l \in ListingIds /\ k \in LicenseIds /\ copyK[p] \in LicenseRows /\ copyK[p] = license[k]
      /\ license[k].listing = NoListing /\ cleared[k] = {l}
      /\ listing[l].status = IF copyK[p].external THEN "published" ELSE "pending"
  BY <1>0, <1>1, <1>2 DEF ProcOK, ReadIsSo
<1>4. /\ license'[k].listing = l /\ license'[k] # NoLicense
      /\ license'[k].review = license[k].review
  <2>1. [copyK[p] EXCEPT !.listing = l] \in LicenseRows
    BY <1>3 DEF LicenseRows
  <2>2. QED
    BY <1>1, <1>3, <2>1, NoRowAssumption DEF IInv, RowsOK, LicenseRows
<1>5. UNCHANGED <<listing, cleared, early, index, calls>> /\ \A c \in LicenseIds : c # k => license'[c] = license[c]
  BY <1>1 DEF IInv, RowsOK
<1>6. Turns' /\ \A q \in Processes : ReadIsSo(q)'
  <2>1. ReadIsSo(p)'
    BY <1>0, <1>2, <1>3, <1>4, <1>5 DEF ReadIsSo
  <2>2. QED
    BY <1>2, <1>5, <2>1, TurnsAfter DEF Alone
<1>7. IndexFollows'
  <2>1. ~SetBack => Stays(l)' /\ (ToIndex(l)' \/ Says(l, index[l])')
    <3>1. ~SetBack => Stays(l) /\ (ToIndex(l) \/ Says(l, index[l]))
      BY <1>2, <1>3 DEF InTurn, IndexFollows, Alone
    <3>2. ToIndex(l) => copyK[p].external
      BY <1>1, <1>2 DEF ToIndex, Alone, Idle
    <3>3. copyK[p].external => ToIndex(l)'
      BY <1>0, <1>2 DEF ToIndex
    <3>4. QED
      BY <1>5, <3>1, <3>2, <3>3 DEF Stays, Says, Findable, Exists, BuildObject
  <2>2. QED
    BY <1>0, <1>2, <1>5, <2>1, IndexAfter DEF Alone
<1>8. \A c \in LicenseIds : ClearsOne(c)' /\ UnusedIsShown(c)'
  <2>1. ClearsOne(k)' /\ UnusedIsShown(k)'
    BY <1>3, <1>4, <1>5, NullAssumption DEF ClearsOne, UnusedIsShown
  <2>2. QED
    BY <1>0, <1>2, <1>5, <2>1, LicensesAfter
<1>9. PendingFollows'
  <2>1. Exists(l)' /\ listing'[l].status = "pending" => LedTo(l)'
    <3> SUFFICES ASSUME listing'[l].status = "pending" PROVE LedTo(l)'
      OBVIOUS
    <3>1. license[k] # NoLicense /\ ~license[k].external
      BY <1>3, <1>5, NoRowAssumption
    <3>2. k \in PendingLicenses \cup early
      BY <1>2, <1>3, <3>1 DEF InTurn, UnusedIsShown
    <3>3. k \in (PendingLicenses \cup early)'
      BY <1>3, <1>4, <1>5, <3>2 DEF PendingLicenses
    <3>4. QED
      BY <1>4, <3>3 DEF LedTo
  <2>2. QED
    BY <1>0, <1>2, <1>3, <1>5, <2>1, PendingAfter
<1>10. QED
  BY <1>6, <1>7, <1>8, <1>9 DEF InTurn

LEMMA RemoveLicenseTurn ==
  ASSUME IInv, HandedIn, TurnInv, ~disturbed', NEW p \in Processes, RemoveLicense(p)
  PROVE  InTurn'
<1>0. PICK l, k : l = job[p][1] /\ k = job[p][2]
  OBVIOUS
<1>1. /\ ~disturbed /\ pc[p] = "unlink" /\ Continue(p, "index")
      /\ license' = [license EXCEPT ![k] = NoLicense]
      /\ UNCHANGED <<listing, cleared, early, index, calls>>
  BY <1>0 DEF RemoveLicense, Continue, WriteLicense, NoCall, NoListingWrite
<1>2. /\ InTurn /\ Alone(p) /\ ReadIsSo(p) /\ ProcOK(p)
      /\ Others(p) /\ pc'[p] = "index" /\ job'[p] = job[p]
  BY <1>1, MovesOn DEF Idle
<1>3. /\ l \in ListingIds /\ k \in LicenseIds /\ license[k].listing = l
      /\ listing[l].status = "published"
  BY <1>0, <1>1, <1>2 DEF ProcOK, ReadIsSo
<1>4. license'[k] = NoLicense /\ \A c \in LicenseIds : c # k => license'[c] = license[c]
  BY <1>1, <1>3 DEF IInv, RowsOK
<1>5. Turns' /\ \A q \in Processes : ReadIsSo(q)'
  <2>1. ReadIsSo(p)'
    BY <1>2 DEF ReadIsSo
  <2>2. QED
    BY <1>1, <1>2, <2>1, TurnsAfter DEF Alone
<1>6. IndexFollows'
  <2>1. ~SetBack => Stays(l)'
    BY <1>1, <1>2, <1>3 DEF InTurn, IndexFollows, Alone, Stays, Findable, Exists
  <2>2. ToIndex(l)'
    BY <1>0, <1>2 DEF ToIndex
  <2>3. QED
    BY <1>0, <1>1, <1>2, <2>1, <2>2, IndexAfter DEF Alone
<1>7. \A c \in LicenseIds : ClearsOne(c)' /\ UnusedIsShown(c)'
  <2>1. ClearsOne(k)' /\ UnusedIsShown(k)'
    BY <1>1, <1>2, <1>3, <1>4 DEF InTurn, ClearsOne, UnusedIsShown
  <2>2. QED
    BY <1>0, <1>1, <1>2, <1>4, <2>1, LicensesAfter
<1>8. PendingFollows'
  BY <1>0, <1>1, <1>2, <1>3, <1>4, PendingAfter
<1>9. QED
  BY <1>5, <1>6, <1>7, <1>8 DEF InTurn

LEMMA SubmitTurn ==
  ASSUME IInv, HandedIn, TurnInv, ~disturbed', NEW u \in Users, NEW k \in LicenseIds,
         NEW external \in BOOLEAN, SubmitLicense(u, k, external)
  PROVE  InTurn'
<1> DEFINE row == [by |-> u, listing |-> NoListing, external |-> external,
                   review |-> IF external THEN "approved" ELSE "pending"]
<1>1. row.listing = NoListing /\ (row.external \/ row.review = "pending")
  OBVIOUS
<1>2. /\ license' = [license EXCEPT ![k] = row] /\ license[k] = NoLicense /\ cleared[k] = {}
      /\ UNCHANGED <<listing, wasPublished, index, calls, pc, job, copyL, copyK, cleared, early>>
      /\ InTurn /\ calls = {} /\ \A q \in Processes : Idle(q)
  BY DEF SubmitLicense, WriteLicense, NoCall, NoListingWrite, procVars, Quiet, TurnInv, Fresh
<1> HIDE DEF row
<1>3. license'[k] = row /\ \A c \in LicenseIds : c # k => license'[c] = license[c]
  BY <1>2 DEF IInv, RowsOK
<1>4. Alone(NoListing) /\ Others(NoListing) /\ \A q \in Processes : Idle(q)'
  BY <1>2 DEF Alone, Others, Idle
<1>5. Turns' /\ \A q \in Processes : ReadIsSo(q)'
  BY <1>2, <1>4, TurnsAfter DEF ReadIsSo, Idle
<1>6. IndexFollows' /\ PendingFollows'
  BY <1>2, <1>3, <1>4, ListingsSame
<1>7. \A c \in LicenseIds : ClearsOne(c)' /\ UnusedIsShown(c)'
  <2>1. ClearsOne(k)' /\ UnusedIsShown(k)'
    BY <1>1, <1>2, <1>3 DEF ClearsOne, UnusedIsShown, PendingLicenses
  <2>2. QED
    BY <1>2, <1>3, <1>4, <2>1, LicensesAfter DEF Idle
<1>8. QED
  BY <1>5, <1>6, <1>7 DEF InTurn

LEMMA CompleteDraftTurn ==
  ASSUME IInv, HandedIn, TurnInv, ~disturbed', NEW p \in Requests, NEW u \in Users,
         NEW l \in ListingIds, NEW k \in LicenseIds, CompleteDraft(p, u, l, k)
  PROVE  InTurn'
<1> DEFINE row == [by |-> u, listing |-> l, external |-> FALSE, review |-> "pending"]
<1>1. row.listing = l /\ row.review = "pending" /\ row \in LicenseRows
  BY DEF LicenseRows
<1>2. /\ p \in Processes /\ license' = [license EXCEPT ![k] = row] /\ license[k] = NoLicense
      /\ cleared[k] = {} /\ cleared' = [cleared EXCEPT ![k] = @ \cup {l}]
      /\ UNCHANGED <<listing, index, calls, early>>
      /\ Exists(l) /\ listing[l].status = "draft" /\ Begin(p, "saveStatus", l, k, "pending")
  BY DEF CompleteDraft, NoCall, NoListingWrite, Fresh, Processes
<1> HIDE DEF row
<1>3. /\ license'[k] = row /\ row # NoLicense /\ \A c \in LicenseIds : c # k => license'[c] = license[c]
      /\ cleared'[k] = {l} /\ \A c \in LicenseIds : c # k => cleared'[c] = cleared[c]
  BY <1>1, <1>2, NoRowAssumption DEF IInv, RowsOK, HandedIn
<1>4. InTurn /\ Alone(p) /\ Idle(p)
  BY <1>2, BeginAlone DEF TurnInv, Begin
<1>5. /\ Others(p) /\ pc'[p] = "saveStatus" /\ job'[p] = <<l, k, "pending">>
      /\ copyL'[p] = listing[l]
  BY <1>2, BeginFacts DEF Begin, Goto, IInv, ProcsOK, ProcTypes
<1>6. Turns' /\ \A q \in Processes : ReadIsSo(q)'
  <2>1. k \in PendingLicenses'
    BY <1>1, <1>3 DEF PendingLicenses
  <2>2. ReadIsSo(p)'
    BY <1>1, <1>2, <1>3, <1>5, <2>1 DEF ReadIsSo, Exists
  <2>3. QED
    BY <1>2, <1>4, <1>5, <2>2, TurnsAfter DEF Alone
<1>7. IndexFollows' /\ PendingFollows'
  BY <1>2, <1>3, <1>4, ListingsSame
<1>8. \A c \in LicenseIds : ClearsOne(c)' /\ UnusedIsShown(c)'
  <2>1. ClearsOne(k)' /\ UnusedIsShown(k)'
    BY <1>1, <1>3, NullAssumption DEF ClearsOne, UnusedIsShown
  <2>2. QED
    BY <1>2, <1>3, <1>4, <2>1, LicensesAfter DEF Idle
<1>9. QED
  BY <1>6, <1>7, <1>8 DEF InTurn

LEMMA SaveReviewTurn ==
  ASSUME IInv, HandedIn, TurnInv, ~disturbed', NEW p \in Processes, SaveReview(p)
  PROVE  InTurn'
<1>0. PICK l, k, s : l = job[p][1] /\ k = job[p][2] /\ s = IF l = NoListing THEN "idle" ELSE "applyReview"
  OBVIOUS
<1>1. /\ ~disturbed /\ pc[p] = "saveReview" /\ Continue(p, s)
      /\ license' = [license EXCEPT ![k] = [copyK[p] EXCEPT !.review = job[p][3]]]
      /\ early' = early \cup (IF l = NoListing THEN {k} ELSE {})
      /\ UNCHANGED <<listing, cleared, index, calls>>
  BY <1>0 DEF SaveReview, Continue, NoCall, NoListingWrite
<1>2. /\ InTurn /\ Alone(p) /\ ReadIsSo(p) /\ ProcOK(p)
      /\ Others(p) /\ pc'[p] = s /\ (s # "idle" => job'[p] = job[p])
  BY <1>1, MovesOn DEF Idle
<1>3. /\ k \in LicenseIds /\ copyK[p] \in LicenseRows /\ copyK[p] = license[k] /\ license[k].listing = l
      /\ l \in ListingIds \cup {NoListing}
  BY <1>0, <1>1, <1>2 DEF ProcOK, ReadIsSo
<1>4. license'[k].listing = l /\ \A c \in LicenseIds : c # k => license'[c] = license[c]
  BY <1>1, <1>3 DEF IInv, RowsOK, LicenseRows
<1>5. Turns' /\ \A q \in Processes : ReadIsSo(q)'
  <2>1. ReadIsSo(p)'
    BY <1>0, <1>2 DEF ReadIsSo
  <2>2. QED
    BY <1>1, <1>2, <2>1, TurnsAfter DEF Alone
<1>6. IndexFollows'
  <2>1. ~SetBack /\ l \in ListingIds => Stays(l)' /\ (ToIndex(l)' \/ Says(l, index[l])')
    BY <1>1, <1>2 DEF InTurn, IndexFollows, Alone, Idle, Stays, Says, ToIndex, Findable, Exists, BuildObject
  <2>2. QED
    BY <1>0, <1>1, <1>2, <2>1, IndexAfter DEF Alone
<1>7. \A c \in LicenseIds : ClearsOne(c)' /\ UnusedIsShown(c)'
  <2>1. ClearsOne(k)'
    <3>1. ClearsOne(k) /\ license[k] # NoLicense /\ ~\E q \in Processes : pc[q] = "link"
      BY <1>1, <1>2, <1>3, NoRowAssumption DEF InTurn, Alone, Idle
    <3>2. QED
      BY <1>1, <1>3, <1>4, <3>1 DEF ClearsOne
  <2>2. UnusedIsShown(k)'
    BY <1>1, <1>3, <1>4 DEF UnusedIsShown
  <2>3. QED
    BY <1>1, <1>2, <1>4, <2>1, <2>2, LicensesAfter
<1>8. PendingFollows'
  <2>1. l \in ListingIds => LedTo(l)'
    BY <1>0, <1>2, NullAssumption DEF LedTo
  <2>2. QED
    BY <1>0, <1>1, <1>2, <1>3, <1>4, <2>1, PendingAfter
<1>9. QED
  BY <1>5, <1>6, <1>7, <1>8 DEF InTurn

\* A request writes its listing, no license, and leaves it to the index as
\* IndexAfter and PendingAfter ask for.
LEMMA ListingTurn ==
  ASSUME IInv, HandedIn, InTurn, NEW p \in Processes, Alone(p), Others(p), NEW l \in ListingIds,
         ~Idle(p) /\ pc[p] # "link", job[p][1] = l, ReadIsSo(p)', NoLicenseWrite, UNCHANGED index,
         \A m \in ListingIds : m # l => listing'[m] = listing[m],
         \/ calls' = {} /\ (~SetBack => Stays(l)' /\ (ToIndex(l)' \/ Says(l, index[l])'))
         \/ Idle(p)' /\ \E o : calls' = {<<l, o>>} /\ (~SetBack => Says(l, o)'),
         ~SetBack => (Exists(l)' /\ listing'[l].status = "pending" => LedTo(l)')
  PROVE  InTurn'
<1>1. UNCHANGED <<license, cleared, early>>
  BY DEF NoLicenseWrite
<1>2. Turns' /\ \A q \in Processes : ReadIsSo(q)'
  BY TurnsAfter
<1>3. IndexFollows'
  <2>1. CASE calls' = {}
    <3>1. ~SetBack => Stays(l)' /\ (ToIndex(l)' \/ Says(l, index[l])')
      BY <2>1
    <3>2. QED
      BY <2>1, <3>1, IndexAfter
  <2>2. CASE calls' # {}
    BY <2>2, IndexAfter
  <2>3. QED
    BY <2>1, <2>2
<1>4. \A c \in LicenseIds : ClearsOne(c)' /\ UnusedIsShown(c)'
  BY <1>1, LicensesSame
<1>5. PendingFollows'
  BY <1>1, PendingSame
<1>6. QED
  BY <1>2, <1>3, <1>4, <1>5 DEF InTurn

LEMMA ApplyReviewTurn ==
  ASSUME IInv, HandedIn, TurnInv, ~disturbed', NEW p \in Processes, ApplyReview(p)
  PROVE  InTurn'
<1>0. PICK l : l = job[p][1]
  OBVIOUS
<1>1. PICK st \in {"published", "paused"}, s \in {"index", "idle"} :
          /\ ~disturbed /\ pc[p] = "applyReview" /\ Continue(p, s) /\ NoLicenseWrite /\ UNCHANGED index
          /\ WriteListing(l, [listing[l] EXCEPT !.status = st])
          /\ \/ st = "published" /\ s = "index" /\ NoCall
             \/ st = "paused" /\ s = "idle" /\ Send(l, Gone)
  BY <1>0 DEF ApplyReview, Continue, NoCall, Send
<1>2. /\ InTurn /\ Alone(p) /\ ReadIsSo(p) /\ ProcOK(p)
      /\ Others(p) /\ pc'[p] = s /\ (s # "idle" => job'[p] = job[p])
  BY <1>1, MovesOn DEF Idle
<1>3. /\ l \in ListingIds /\ listing'[l].status = st /\ listing'[l].removed = listing[l].removed
      /\ \A m \in ListingIds : m # l => listing'[m] = listing[m]
  BY <1>0, <1>1, <1>2 DEF ProcOK, WriteListing, IInv, RowsOK, ListingRows
<1>4. ReadIsSo(p)'
  BY <1>1, <1>2 DEF ReadIsSo
<1>5. CASE st = "published"
  <2>1. calls' = {} /\ ToIndex(l)'
    BY <1>0, <1>1, <1>2, <1>5 DEF Alone, NoCall, ToIndex
  <2>2. ~SetBack => Stays(l)'
    BY <1>1, <1>2, <1>3, <1>5 DEF InTurn, IndexFollows, Alone, Stays, Findable, Exists
  <2>3. QED
    BY <1>0, <1>1, <1>2, <1>3, <1>4, <1>5, <2>1, <2>2, ListingTurn DEF Idle
<1>6. CASE st = "paused"
  <2>1. calls' = {<<l, Gone>>} /\ Idle(p)'
    BY <1>1, <1>2, <1>6 DEF Alone, Send, Idle
  <2>2. Says(l, Gone)'
    BY <1>3, <1>6 DEF Says, Gone
  <2>3. QED
    BY <1>0, <1>1, <1>2, <1>3, <1>4, <1>6, <2>1, <2>2, ListingTurn DEF Idle
<1>7. QED
  BY <1>5, <1>6

LEMMA IndexTurn ==
  ASSUME IInv, HandedIn, TurnInv, ~disturbed', NEW p \in Processes, IndexListing(p)
  PROVE  InTurn'
<1>0. PICK l : l = job[p][1]
  OBVIOUS
<1>1. /\ ~disturbed /\ pc[p] = "index" /\ Continue(p, "idle") /\ NoLicenseWrite /\ UNCHANGED <<index, listing>>
      /\ IF Exists(l) THEN Send(l, BuildObject(listing[l])) ELSE NoCall
  BY <1>0 DEF IndexListing, Continue, NoCall, Send, NoListingWrite
<1>2. InTurn /\ Alone(p) /\ ProcOK(p) /\ Others(p) /\ pc'[p] = "idle"
  BY <1>1, MovesOn DEF Idle
<1>3. l \in ListingIds /\ ReadIsSo(p)'
  BY <1>0, <1>1, <1>2 DEF ProcOK, ReadIsSo
<1>4. ~SetBack => (Exists(l)' /\ listing'[l].status = "pending" => LedTo(l)')
  BY <1>1, <1>2, <1>3 DEF InTurn, PendingFollows, LedTo, NoLicenseWrite, PendingLicenses, Exists, Alone, Idle
<1>5. CASE Exists(l)
  <2> DEFINE o == BuildObject(listing[l])
  <2>1. calls' = {<<l, o>>} /\ Idle(p)'
    BY <1>1, <1>2, <1>5 DEF Alone, Send, Idle
  <2>2. Says(l, o)'
    BY <1>1, <1>5 DEF Says, BuildObject, Exists
  <2>3. QED
    BY <1>0, <1>1, <1>2, <1>3, <1>4, <2>1, <2>2, ListingTurn DEF Idle
<1>6. CASE ~Exists(l)
  <2>1. calls' = {}
    BY <1>1, <1>2, <1>6 DEF Alone, NoCall
  <2>2. ~SetBack => Stays(l)' /\ (ToIndex(l)' \/ Says(l, index[l])')
    BY <1>1, <1>2, <1>3, <1>6 DEF InTurn, IndexFollows, Alone, Stays, Findable, Exists, Says
  <2>3. QED
    BY <1>0, <1>1, <1>2, <1>3, <1>4, <2>1, <2>2, ListingTurn DEF Idle
<1>7. QED
  BY <1>5, <1>6

LEMMA SaveStatusTurn ==
  ASSUME IInv, HandedIn, TurnInv, ~disturbed', NEW p \in Processes, SaveStatus(p)
  PROVE  InTurn'
<1>0. PICK l, k, s, saved : l = job[p][1] /\ k = job[p][2] /\ s = job[p][3] /\ saved = [copyL[p] EXCEPT !.status = s]
  OBVIOUS
<1>1. /\ ~disturbed /\ pc[p] = "saveStatus" /\ Continue(p, "idle") /\ NoLicenseWrite
      /\ WriteListing(l, saved)
      /\ IF s = "published" THEN Send(l, BuildObject(saved))
         ELSE IF s = "paused" THEN Send(l, Gone) ELSE NoCall
  BY <1>0 DEF SaveStatus, Continue
<1>2. InTurn /\ Alone(p) /\ ReadIsSo(p) /\ ProcOK(p) /\ Others(p) /\ pc'[p] = "idle"
  BY <1>1, MovesOn DEF Idle
<1>3. /\ l \in ListingIds /\ copyL[p] = listing[l] /\ Exists(l)
      /\ ~SetBack => \/ s \in {"published", "paused"}
                     \/ /\ s = "pending" /\ listing[l].status = "draft"
                        /\ k \in PendingLicenses /\ license[k].listing = l
  BY <1>0, <1>1, <1>2 DEF ProcOK, ReadIsSo
<1>4. /\ saved.status = s /\ saved.removed = FALSE /\ listing'[l] = saved
      /\ \A m \in ListingIds : m # l => listing'[m] = listing[m]
      /\ s \in Statuses
  BY <1>0, <1>1, <1>2, <1>3 DEF WriteListing, IInv, RowsOK, ListingRows, Exists, ProcOK
<1>5. UNCHANGED <<license, early, index>> /\ ReadIsSo(p)' /\ Idle(p)' /\ Exists(l)'
  BY <1>1, <1>2, <1>4 DEF NoLicenseWrite, ReadIsSo, Idle, Send, NoCall, Exists, Statuses
<1>6. ~SetBack => (Exists(l)' /\ listing'[l].status = "pending" => LedTo(l)')
  BY <1>3, <1>4, <1>5 DEF LedTo, PendingLicenses
<1>7. CASE s = "published"
  <2> DEFINE o == BuildObject(saved)
  <2>1. calls' = {<<l, o>>}
    BY <1>1, <1>2, <1>7 DEF Alone, Send
  <2>2. Says(l, o)'
    BY <1>4, <1>5, <1>7 DEF Says, BuildObject
  <2>3. QED
    BY <1>0, <1>1, <1>2, <1>3, <1>4, <1>5, <1>6, <2>1, <2>2, ListingTurn DEF Idle
<1>8. CASE s = "paused"
  <2>1. calls' = {<<l, Gone>>}
    BY <1>1, <1>2, <1>8 DEF Alone, Send
  <2>2. Says(l, Gone)'
    BY <1>4, <1>8 DEF Says, Gone
  <2>3. QED
    BY <1>0, <1>1, <1>2, <1>3, <1>4, <1>5, <1>6, <2>1, <2>2, ListingTurn DEF Idle
<1>9. CASE s \notin {"published", "paused"}
  <2>1. calls' = {}
    BY <1>1, <1>2, <1>9 DEF Alone, NoCall
  <2>2. ~SetBack => Stays(l)' /\ (ToIndex(l)' \/ Says(l, index[l])')
    BY <1>1, <1>2, <1>3, <1>4, <1>5, <1>9
       DEF InTurn, IndexFollows, Alone, Idle, Stays, Findable, ToIndex, Says
  <2>3. QED
    BY <1>0, <1>1, <1>2, <1>3, <1>4, <1>5, <1>6, <2>1, <2>2, ListingTurn DEF Idle
<1>10. QED
  BY <1>7, <1>8, <1>9

LEMMA SoftDeleteTurn ==
  ASSUME IInv, HandedIn, TurnInv, ~disturbed', NEW p \in Processes, SoftDelete(p)
  PROVE  InTurn'
<1>0. PICK l : l = job[p][1]
  OBVIOUS
<1>1. /\ ~disturbed /\ pc[p] = "softDelete" /\ Continue(p, "idle") /\ NoLicenseWrite
      /\ WriteListing(l, [listing[l] EXCEPT !.removed = TRUE]) /\ Send(l, Gone)
  BY <1>0 DEF SoftDelete, Continue
<1>2. InTurn /\ Alone(p) /\ ProcOK(p) /\ Others(p) /\ pc'[p] = "idle"
  BY <1>1, MovesOn DEF Idle
<1>3. /\ l \in ListingIds /\ ~Exists(l)'
      /\ \A m \in ListingIds : m # l => listing'[m] = listing[m]
  BY <1>0, <1>1, <1>2 DEF ProcOK, WriteListing, IInv, RowsOK, ListingRows, Exists
<1>4. ReadIsSo(p)' /\ Idle(p)' /\ calls' = {<<l, Gone>>} /\ UNCHANGED index
  BY <1>1, <1>2 DEF ReadIsSo, Idle, Send, Alone
<1>5. Says(l, Gone)'
  BY <1>3 DEF Says, Gone
<1>6. QED
  BY <1>0, <1>1, <1>2, <1>3, <1>4, <1>5, ListingTurn DEF Idle

LEMMA DeliverTurn ==
  ASSUME IInv, HandedIn, TurnInv, ~disturbed', Deliver
  PROVE  InTurn'
<1>1. PICK c \in calls : calls' = calls \ {c} /\ index' = [index EXCEPT ![c[1]] = c[2]]
  BY DEF Deliver
<1>2. UNCHANGED <<listing, license, cleared, early, pc, job, copyL, copyK>> /\ ~disturbed
  BY DEF Deliver, NoListingWrite, NoLicenseWrite, procVars
<1>3. InTurn /\ calls = {c} /\ \A p \in Processes : Idle(p)
  BY <1>1, <1>2 DEF TurnInv, InTurn, Turns
<1>4. Turns' /\ calls' = {}
  BY <1>1, <1>2, <1>3 DEF Turns, Idle
<1>5. IndexFollows'
  <2> SUFFICES ASSUME ~SetBack, NEW l \in ListingIds
               PROVE  Stays(l)' /\ Says(l, index[l])'
    BY <1>4 DEF IndexFollows
  <2>1. CASE c[1] = l
    <3>1. Says(l, c[2])
      BY <1>3, <2>1 DEF InTurn, IndexFollows
    <3>2. index'[l] = c[2]
      BY <1>1, <2>1 DEF IInv, CallsOK
    <3>3. QED
      BY <1>2, <3>1, <3>2 DEF Stays, Says, Findable, Exists, BuildObject
  <2>2. CASE c[1] # l
    <3>1. Stays(l) /\ Says(l, index[l])
      BY <1>3, <2>2 DEF InTurn, IndexFollows, ToIndex, Idle
    <3>2. index'[l] = index[l]
      BY <1>1, <2>2 DEF IInv, CallsOK
    <3>3. QED
      BY <1>2, <3>1, <3>2 DEF Stays, Says, Findable, Exists, BuildObject
  <2>3. QED
    BY <2>1, <2>2
<1>6. \A k \in LicenseIds : ClearsOne(k)' /\ UnusedIsShown(k)'
  BY <1>2, <1>3 DEF InTurn, ClearsOne, UnusedIsShown, PendingLicenses
<1>7. PendingFollows' /\ \A p \in Processes : ReadIsSo(p)'
  BY <1>2, <1>3 DEF InTurn, PendingFollows, LedTo, PendingLicenses, Exists, ReadIsSo, Idle
<1>8. QED
  BY <1>4, <1>5, <1>6, <1>7 DEF InTurn

LEMMA TurnNext == IInv /\ HandedIn /\ TurnInv /\ [Next]_vars => TurnInv'
<1> SUFFICES ASSUME IInv, HandedIn, TurnInv, [Next]_vars, ~disturbed' PROVE InTurn'
  BY DEF TurnInv
<1>1. ASSUME NEW p \in Processes, RequestStep(p) PROVE InTurn'
  BY <1>1, LinkTurn, RemoveLicenseTurn, SaveReviewTurn, ApplyReviewTurn, IndexTurn, SaveStatusTurn,
     SoftDeleteTurn DEF RequestStep
<1>2. ASSUME NEW p \in Requests, NEW l \in Attended,
             (\E t \in Targets : UpdateStatus(p, l, t)) \/ Update(p, l) \/ Remove(p, l)
      PROVE  InTurn'
  BY <1>2, BoundsAssumption, LookTurn
<1>3. CASE UNCHANGED vars
  BY <1>3 DEF vars, procVars, TurnInv, InTurn, Turns, Idle, IndexFollows, Stays, Says, ToIndex, Findable, Exists,
              BuildObject, PendingFollows, LedTo, PendingLicenses, ClearsOne, UnusedIsShown, ReadIsSo
<1>4. ~Lose
  BY DEF Lose
<1>5. QED
  BY <1>1, <1>2, <1>3, <1>4, SubmitTurn, CreateListingTurn, CompleteDraftTurn, ReviewTurn, DeliverTurn
     DEF Next

LEMMA TurnInvariance == Spec => []TurnInv
BY TurnInit, TurnNext, Invariance, PTL DEF Spec

\* What is so in turn, seen when nothing is under way.
LEMMA QuietFacts == HandedIn /\ TurnInv => LicensesLead /\ SearchFollows
<1> SUFFICES ASSUME HandedIn, TurnInv PROVE LicensesLead /\ SearchFollows
  OBVIOUS
<1>1. LicenseClearsOne
  BY DEF LicenseClearsOne, TurnInv, InTurn, ClearsOne, Quiet, Idle, HandedIn
<1>2. PendingIsShown
  BY DEF PendingIsShown, TurnInv, InTurn, PendingFollows, LedTo, Quiet, Idle
<1>3. SearchFollows
  BY DEF SearchFollows, TurnInv, InTurn, IndexFollows, Stays, Says, ToIndex, Quiet, Idle
<1>4. QED
  BY <1>1, <1>2, <1>3 DEF LicensesLead

\* As long as requests take turns, a license is handed in for one listing and
\* leads to it, and no listing falls out of the review (createListing,
\* createLicense, updateReviewStatus).
THEOREM LicensesLeadOn == Spec => []LicensesLead
BY TurnInvariance, Invariance, QuietFacts, PTL

\* As long as requests take turns, what a search finds is what is PUBLISHED,
\* once the calls to the index have arrived.
THEOREM SearchFollowsRows == Spec => []SearchFollows
BY TurnInvariance, Invariance, QuietFacts, PTL

=============================================================================
