----------------------------- MODULE MCServices -----------------------------
(***************************************************************************)
(* Services with one run for all: each behaviour is one service's, the one *)
(* named by service, while the others stay as they begin.  Nothing one of  *)
(* them does is a precondition of another's steps, so this shows of each   *)
(* what a run of its own would.                                            *)
(***************************************************************************)
EXTENDS Services

CONSTANTS u1, u2, l1

VARIABLE service

\* Either of two people asks for a chat with the other.
BothWays == {<<u1, u2>>, <<u2, u1>>}

\* Bound on the listings: those that differ only in how many guests they take
\* are not all tried, nor those that differ only in a field while they are not
\* PUBLISHED.  Places are alike, so one will do.
Tried ==
    /\ listing.place = CHOOSE x \in Places : TRUE
    /\ listing.maxGuests = listing.rooms
    /\ listing.status = "paused" => listing.flag /\ listing.rooms = listing.price

OneInit ==
    /\ service \in {"complaints", "payments", "chats", "alerts", "projects", "accounts",
                    "personRows", "notices", "crm"}
    /\ ServicesInit
    /\ IF service = "alerts" THEN Tried ELSE listing = CHOOSE l \in Alert!Listings : TRUE

OneStep ==
    \/ service = "complaints" /\ ComplaintsStep
    \/ service = "payments" /\ PaymentsStep
    \/ service = "chats" /\ ChatsStep
    \/ service = "alerts" /\ AlertsStep
    \/ service = "projects" /\ ProjectsStep
    \/ service = "accounts" /\ AccountsStep
    \/ service = "personRows" /\ PersonRowsStep
    \/ service = "notices" /\ NoticesStep
    \/ service = "crm" /\ CrmStep

OneNext == OneStep /\ UNCHANGED service

OneSpec == OneInit /\ [][OneNext]_<<service, servicesVars>> /\ Fairness /\ Pay!Fairness
=============================================================================
