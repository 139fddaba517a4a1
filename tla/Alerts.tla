------------------------------- MODULE Alerts -------------------------------
(***************************************************************************)
(* Saved searches and the alerts a new listing raises for them             *)
(* (search.service.ts), with what Algolia would find for the same filters. *)
(* Filters and listings have one field of each kind the code tells apart:  *)
(* place (equal), except (not equal), rooms (at least), maxGuests (at      *)
(* least, and not in the index), from and to (a range of price) and flag   *)
(* (only asked for when TRUE).                                             *)
(***************************************************************************)
EXTENDS Integers, FiniteSets

CONSTANTS
    SearchIds,
    Places, Amounts,    \* what fields can hold
    Requests,           \* concurrent requests and checks
    MaxAlerts,          \* bound on the alerts for one search
    MaxFields,          \* bound: how many filters a saved search sets
    Null                \* a column, or a filter, that is not set

VARIABLES
    listing,      \* the listing the checks are about
    searches,       \* saved_searches rows
    alerts,         \* how many search_alerts rows each search has
    at, what,       \* each request: where it is, the searches it has read, on or off
    passedOver,     \* searches a check looked at and did not match
    crossed         \* searches a deletion and a toggle of which overlapped

vars == <<listing, searches, alerts, at, what, passedOver, crossed>>

\* "paused" stands for every status but PUBLISHED.
Listings == [status: {"published", "paused"}, place: Places, rooms: Amounts \cup {Null},
             maxGuests: Amounts \cup {Null}, price: Amounts, flag: BOOLEAN]
Filters == [place: Places \cup {Null}, except: Places \cup {Null}, rooms: Amounts \cup {Null},
            maxGuests: Amounts \cup {Null}, from: Amounts \cup {Null}, to: Amounts \cup {Null}, flag: BOOLEAN \cup {Null}]
Fields(f) == {x \in DOMAIN f : f[x] # Null}
Searches == [filters: Filters, alertEnabled: BOOLEAN, removed: BOOLEAN]

\* The filters that are tried.
Few == {f \in Filters : Cardinality(Fields(f)) <= MaxFields}

Number(x) == IF x = Null THEN 0 ELSE x      \* JavaScript's Number(null)

\* Mutant of MatchesFilters: the top of the range is not in it.
MatchesBelow(l, f) ==
    /\ f.place # Null => l.place = f.place
    /\ f.except # Null => l.place # f.except
    /\ f.rooms # Null => Number(l.rooms) >= f.rooms
    /\ f.maxGuests # Null => Number(l.maxGuests) >= f.maxGuests
    /\ f.from # Null => l.price >= f.from
    /\ f.to # Null => l.price < f.to
    /\ f.flag = TRUE => l.flag

\* listingMatchesFilters
MatchesFilters(l, f) ==
    /\ f.place # Null => l.place = f.place
    /\ f.except # Null => l.place # f.except
    /\ f.rooms # Null => Number(l.rooms) >= f.rooms
    /\ f.maxGuests # Null => Number(l.maxGuests) >= f.maxGuests
    /\ f.from # Null => l.price >= f.from
    /\ f.to # Null => l.price <= f.to
    /\ f.flag = TRUE => l.flag

\* buildAlgoliaFilters, on what buildObject indexes of the listing: a
\* filter on a number the object lacks finds nothing, and it has no maxGuests.
AlgoliaFinds(l, f) ==
    /\ l.status = "published"
    /\ f.maxGuests = Null
    /\ f.place # Null => l.place = f.place
    /\ f.except # Null => ~(l.place = f.except)
    /\ f.rooms # Null => l.rooms # Null /\ l.rooms >= f.rooms
    /\ \/ f.from # Null /\ f.to # Null /\ l.price \in f.from .. f.to
       \/ f.from # Null /\ f.to = Null /\ l.price >= f.from
       \/ f.from = Null /\ (f.to # Null => l.price <= f.to)
    /\ f.flag = TRUE => l.flag

Exists(s) == searches[s] # Null /\ ~searches[s].removed

TypeOK ==
    /\ listing \in Listings
    /\ searches \in [SearchIds -> Searches \cup {Null}]
    /\ alerts \in [SearchIds -> 0..MaxAlerts]
    /\ {passedOver, crossed} \subseteq SUBSET SearchIds
    /\ at \in [Requests -> {"idle", "toggle", "alert"}]

Init ==
    /\ listing \in Listings
    /\ searches = [s \in SearchIds |-> Null]
    /\ alerts = [s \in SearchIds |-> 0]
    /\ passedOver = {} /\ crossed = {}
    /\ at = [p \in Requests |-> "idle"]
    /\ what = [p \in Requests |-> Null]

Goto(p, step, w) == at' = [at EXCEPT ![p] = step] /\ what' = [what EXCEPT ![p] = w]

SaveSearch(s) ==
    /\ searches[s] = Null
    /\ \E f \in Few :
          searches' = [searches EXCEPT ![s] = [filters |-> f, alertEnabled |-> TRUE, removed |-> FALSE]]
    /\ UNCHANGED <<listing, alerts, at, what, passedOver, crossed>>

DeleteSavedSearch(s) ==
    /\ Exists(s)
    /\ searches' = [searches EXCEPT ![s].removed = TRUE]
    /\ crossed' = IF \E p \in Requests : at[p] = "toggle" /\ s \in what[p][1]
                  THEN crossed \cup {s} ELSE crossed
    /\ UNCHANGED <<listing, alerts, at, what, passedOver>>

\* toggleAlert reads the row ...
ToggleAlert(p, s, enabled) ==
    /\ at[p] = "idle" /\ Exists(s)
    /\ Goto(p, "toggle", <<{s}, enabled>>)
    /\ UNCHANGED <<listing, searches, alerts, passedOver, crossed>>

\* ... and saves all of it: a search removed in the meantime is back.
SaveToggle(p) ==
    /\ at[p] = "toggle"
    /\ \E s \in what[p][1] :
          searches' = [searches EXCEPT ![s] = [@ EXCEPT !.alertEnabled = what[p][2], !.removed = FALSE]]
    /\ Goto(p, "idle", Null)
    /\ UNCHANGED <<listing, alerts, passedOver, crossed>>

\* checkNewListing, of a listing that was just PUBLISHED (updateStatus) or one
\* of any status (purchasePromotion): the searches that match ...
Watching == {s \in SearchIds : Exists(s) /\ searches[s].alertEnabled}
Matched == {s \in Watching : MatchesFilters(listing, searches[s].filters)}

CheckNewListing(p) ==
    /\ at[p] = "idle" /\ Watching # {}
    /\ IF Matched = {} THEN UNCHANGED <<at, what>> ELSE Goto(p, "alert", <<Matched, TRUE>>)
    /\ passedOver' = passedOver \cup (Watching \ Matched)
    /\ UNCHANGED <<listing, searches, alerts, crossed>>

\* ... get a row each, all or none of them (their owners are
\* notified anyway).
RaiseAlerts(p) ==
    LET matched == what[p][1] IN
    /\ at[p] = "alert"
    /\ \/ /\ \A s \in matched : alerts[s] < MaxAlerts
          /\ alerts' = [s \in SearchIds |-> alerts[s] + IF s \in matched THEN 1 ELSE 0]
       \/ UNCHANGED alerts
    /\ Goto(p, "idle", Null)
    /\ UNCHANGED <<listing, searches, passedOver, crossed>>

Next ==
    \/ \E s \in SearchIds : SaveSearch(s) \/ DeleteSavedSearch(s)
    \/ \E p \in Requests, s \in SearchIds, on \in BOOLEAN : ToggleAlert(p, s, on)
    \/ \E p \in Requests : SaveToggle(p) \/ CheckNewListing(p) \/ RaiseAlerts(p)

Spec == Init /\ [][Next]_vars

-----------------------------------------------------------------------------
\* The searches a check raises an alert for, and those it passes over.
Raised == UNION {what[p][1] : p \in {q \in Requests : at[q] = "alert"}}

\* Alerts and the index disagree of a listing whose search is told of it.
Differs(l, f) ==
    \/ l.status # "published"       \* a buyers_alert promotion does not ask for it
    \/ f.maxGuests # Null           \* which is not indexed
    \/ l.rooms = Null /\ f.rooms # Null /\ f.rooms <= 0    \* without rooms, it has 0

\* No search that would find the listing in the index is passed over, and an
\* alert is raised only for those that would, but for three kinds of
\* difference (listingMatchesFilters, buildAlgoliaFilters).
AlertsAgree ==
    /\ \A s \in passedOver : ~AlgoliaFinds(listing, searches[s].filters)
    /\ \A s \in Raised :
          AlgoliaFinds(listing, searches[s].filters) \/ Differs(listing, searches[s].filters)

\* A search that was deleted stays deleted, unless it was being switched on
\* or off meanwhile (toggleAlert, deleteSavedSearch).
DeletedStaysDeleted ==
    [][\A s \in SearchIds \ crossed : searches[s] # Null /\ searches[s].removed
          => searches'[s].removed]_vars
=============================================================================
