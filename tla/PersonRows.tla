----------------------------- MODULE PersonRows -----------------------------
(***************************************************************************)
(* Rows a person has one of: an establishment, a rating of a deal          *)
(* (users.service.ts), a favourite, a like (engagement.service.ts).  They  *)
(* are looked up and then written, each in a transaction of its own; all   *)
(* but the establishment have a unique index.  The establishment is named  *)
(* in the person's users row, which completing the profile saves as a      *)
(* whole (auth.service.ts).                                                *)
(***************************************************************************)
EXTENDS Naturals

CONSTANT Requests       \* concurrent requests

VARIABLES
    rows,           \* rows of each kind the person has
    linked,         \* whether the person's users row names an establishment
    at, what,       \* each request: where it is, what kind it is about
    died,           \* whether a server died
    crossed,        \* whether a profile was read before, and saved after, it was linked
    overlapped      \* whether requests ever overlapped

vars == <<rows, linked, at, what, died, crossed, overlapped>>

Kinds == {"establishment", "rating", "favorite", "like"}
Unique == Kinds \ {"establishment"}
Steps == {"idle", "insert", "link", "remove", "saveProfile"}

\* What a request has read of the users row.
Profiles == {"linked", "unlinked"}

TypeOK ==
    /\ rows \in [Kinds -> Nat] /\ linked \in BOOLEAN
    /\ at \in [Requests -> Steps] /\ what \in [Requests -> Kinds \cup Profiles \cup {"none"}]
    /\ died \in BOOLEAN /\ crossed \in BOOLEAN /\ overlapped \in BOOLEAN

Init ==
    /\ rows = [k \in Kinds |-> 0] /\ linked = FALSE
    /\ at = [p \in Requests |-> "idle"] /\ what = [p \in Requests |-> "none"]
    /\ died = FALSE /\ crossed = FALSE /\ overlapped = FALSE

Begin(p, step, k) ==
    /\ at[p] = "idle"
    /\ at' = [at EXCEPT ![p] = step] /\ what' = [what EXCEPT ![p] = k]
    /\ overlapped' = (overlapped \/ \E q \in Requests : at[q] # "idle")
    /\ UNCHANGED <<rows, linked, died, crossed>>

Continue(p, step) ==
    /\ at' = [at EXCEPT ![p] = step]
    /\ what' = IF step = "idle" THEN [what EXCEPT ![p] = "none"] ELSE what
    /\ UNCHANGED overlapped

-----------------------------------------------------------------------------
\* createEstablishment, createRating: there must be none yet.
CreateEstablishment(p) == rows["establishment"] = 0 /\ Begin(p, "insert", "establishment")
CreateRating(p) == rows["rating"] = 0 /\ Begin(p, "insert", "rating")

\* toggleFavorite, toggleLike: the one there is is removed.
ToggleFavorite(p) == Begin(p, IF rows["favorite"] = 0 THEN "insert" ELSE "remove", "favorite")
ToggleLike(p) == Begin(p, IF rows["like"] = 0 THEN "insert" ELSE "remove", "like")

\* Mutant of Insert: the users row is left for later.
InsertOnly(p) ==
    LET k == what[p] IN
    /\ at[p] = "insert"
    /\ rows' = IF k \in Unique /\ rows[k] > 0 THEN rows ELSE [rows EXCEPT ![k] = @ + 1]
    /\ Continue(p, "idle")
    /\ UNCHANGED <<linked, died, crossed>>

\* The row is inserted, or refused by its unique index.
Insert(p) ==
    LET k == what[p] IN
    /\ at[p] = "insert"
    /\ rows' = IF k \in Unique /\ rows[k] > 0 THEN rows ELSE [rows EXCEPT ![k] = @ + 1]
    /\ Continue(p, IF k = "establishment" THEN "link" ELSE "idle")
    /\ UNCHANGED <<linked, died, crossed>>

\* createEstablishment then writes it to the person's users row.
Link(p) ==
    /\ at[p] = "link"
    /\ linked' = TRUE
    /\ crossed' = (crossed \/ \E q \in Requests : at[q] = "saveProfile" /\ what[q] = "unlinked")
    /\ Continue(p, "idle")
    /\ UNCHANGED <<rows, died>>

\* completeProfile, and verifyOtp of a test administrator, read the users row ...
FindProfile(p) == Begin(p, "saveProfile", IF linked THEN "linked" ELSE "unlinked")

\* ... and save all of it: what was linked in the meantime is not any longer.
CompleteProfile(p) ==
    /\ at[p] = "saveProfile"
    /\ linked' = (what[p] = "linked")
    /\ Continue(p, "idle")
    /\ UNCHANGED <<rows, died, crossed>>

Remove(p) ==
    /\ at[p] = "remove"
    /\ rows' = [rows EXCEPT ![what[p]] = 0]
    /\ Continue(p, "idle")
    /\ UNCHANGED <<linked, died, crossed>>

\* The server dies.
Crash(p) ==
    /\ at[p] # "idle"
    /\ Continue(p, "idle") /\ died' = TRUE
    /\ UNCHANGED <<rows, linked, crossed>>

Next ==
    \E p \in Requests :
        \/ CreateEstablishment(p) \/ CreateRating(p) \/ ToggleFavorite(p) \/ ToggleLike(p)
        \/ FindProfile(p) \/ CompleteProfile(p)
        \/ Insert(p) \/ Link(p) \/ Remove(p) \/ Crash(p)

Spec == Init /\ [][Next]_vars

-----------------------------------------------------------------------------
\* Unless requests overlap, nobody has two establishments: no index sees to
\* it, as one does for the rows of the other kinds (createEstablishment).
OneOfEach == \A k \in Kinds : rows[k] <= 1 \/ (k = "establishment" /\ overlapped)

\* A person's establishment shows on their profile, or will, but for two ways
\* to lose it for good, as no second one may be created: the server dies
\* between the two writes, or the profile is saved as it was before the second
\* (createEstablishment, completeProfile, findPublicProfile).
EstablishmentShows ==
    rows["establishment"] > 0 => linked \/ died \/ crossed \/ \E p \in Requests : at[p] = "link"

\* A person has one establishment, and it shows.
OneIsShown == OneOfEach /\ EstablishmentShows
=============================================================================
