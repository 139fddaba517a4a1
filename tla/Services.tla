------------------------------ MODULE Services ------------------------------
(***************************************************************************)
(* The services that share no state with each other, next to each other.   *)
(* A step is one service's, and leaves the others' state as it is.         *)
(***************************************************************************)
EXTENDS Complaints, FiniteSets

CONSTANTS
    People,
    Requests,                       \* concurrent requests to any of the services
    Invoices, Deliveries,           \* Payments
    MaxDeliveries, MaxUnsigned,     \* bounds on MyFatoorah's calls for an event, and on others'
    MaxCrashes,                     \* bound on crashes
    Pairs, Topics,                  \* Chats: bound on who asks for a chat; listings, and None
    ChatIds, MessageIds,
    SearchIds, Places, Amounts,     \* Alerts
    Checks,                         \* requests and checks of new listings
    MaxAlerts, MaxFields,           \* bounds on a search's alerts and filters
    MaxUnits, MaxIndexCalls,        \* Projects: bounds on units and index calls
    MaxCodes, Lifetime, LastNow,    \* Accounts: bound on codes; how long they are valid; bound on time
    Devices, NoticeIds,             \* Notices
    ClientIds, ReminderIds, DealIds,    \* Crm, whose brokers are People
    Times, Window,                  \* when reminders are due, and how long before they are shown
    None                            \* what is not set, or not there

VARIABLES
    paid, tried, answered, payment, credits, callAt, event, dropped, crashes,
    chats, messages, chatAt, chatWhat, overlapped, dismissed, opened, cut,
    listing, searches, alerts, alertAt, alertWhat, passedOver, alertCrossed,
    status, totalUnits, units, index, calls, projectAt, count, disturbed,
    codes, sent, account, sessions, accountAt, accountWhat, now, crowded,
    rows, linked, rowAt, rowWhat, died, rowCrossed, rowsCrowded,
    user, registered, token, leaving, notice, unread, pushes, reading, stale, overtaken,
    clients, reminders, deals, crmAt, crmWhat, crmCrossed

Pay == INSTANCE Payments WITH MaxCalls <- MaxDeliveries, at <- callAt
Chat == INSTANCE Chats WITH NoListing <- None, NoRow <- None, at <- chatAt, what <- chatWhat
Alert == INSTANCE Alerts WITH
    Requests <- Checks, Null <- None, at <- alertAt, what <- alertWhat, crossed <- alertCrossed
Project == INSTANCE Projects WITH MaxCalls <- MaxIndexCalls, Gone <- None, at <- projectAt
Account == INSTANCE Accounts WITH at <- accountAt, what <- accountWhat, overlapped <- crowded
Person == INSTANCE PersonRows WITH at <- rowAt, what <- rowWhat, crossed <- rowCrossed, overlapped <- rowsCrowded
Note == INSTANCE Notices WITH Nobody <- None
Broker == INSTANCE Crm WITH
    Brokers <- People, NoRow <- None, at <- crmAt, what <- crmWhat, crossed <- crmCrossed

\* Amounts are what a filter may hold, negative numbers included.
ASSUME AmountsAssumption == Amounts \subseteq Int
ASSUME PairsAssumption == Pairs \subseteq People \X People
ASSUME DeliveriesAssumption == IsFiniteSet(Deliveries)
ASSUME CountsAssumption ==
    {MaxDeliveries, MaxUnsigned, MaxCrashes, MaxAlerts, MaxUnits, MaxCodes, Lifetime, LastNow} \subseteq Nat
ASSUME NoneAssumption ==
    /\ None \notin Int /\ None \notin People /\ None \notin Places
    /\ None \notin Chat!Chats /\ None \notin Chat!Messages /\ None \notin Alert!Searches
    /\ None \notin Broker!Owned /\ None \notin Broker!Reminders

-----------------------------------------------------------------------------
payVars == <<paid, tried, answered, payment, credits, callAt, event, dropped, crashes>>
chatVars == <<chats, messages, chatAt, chatWhat, overlapped, dismissed, opened, cut>>
alertVars == <<listing, searches, alerts, alertAt, alertWhat, passedOver, alertCrossed>>
projectVars == <<status, totalUnits, units, index, calls, projectAt, count, disturbed>>
accountVars == <<codes, sent, account, sessions, accountAt, accountWhat, now, crowded>>
personVars == <<rows, linked, rowAt, rowWhat, died, rowCrossed, rowsCrowded>>
noteVars == <<user, registered, token, leaving, notice, unread, pushes, reading, stale, overtaken>>
brokerVars == <<clients, reminders, deals, crmAt, crmWhat, crmCrossed>>

ServicesInit ==
    /\ Init /\ Pay!Init /\ Chat!Init /\ Alert!Init /\ Project!Init /\ Account!Init
    /\ Person!Init /\ Note!Init /\ Broker!Init

ComplaintsStep == /\ Next
                  /\ UNCHANGED <<payVars, chatVars, alertVars, projectVars,
                                 accountVars, personVars, noteVars, brokerVars>>
PaymentsStep == /\ Pay!Next
                /\ UNCHANGED <<vars, chatVars, alertVars, projectVars,
                               accountVars, personVars, noteVars, brokerVars>>
ChatsStep == /\ Chat!Next
             /\ UNCHANGED <<vars, payVars, alertVars, projectVars,
                            accountVars, personVars, noteVars, brokerVars>>
AlertsStep == /\ Alert!Next
              /\ UNCHANGED <<vars, payVars, chatVars, projectVars,
                             accountVars, personVars, noteVars, brokerVars>>
ProjectsStep == /\ Project!Next
                /\ UNCHANGED <<vars, payVars, chatVars, alertVars,
                               accountVars, personVars, noteVars, brokerVars>>
AccountsStep == /\ Account!Next
                /\ UNCHANGED <<vars, payVars, chatVars, alertVars,
                               projectVars, personVars, noteVars, brokerVars>>
PersonRowsStep == /\ Person!Next
                  /\ UNCHANGED <<vars, payVars, chatVars, alertVars,
                                 projectVars, accountVars, noteVars, brokerVars>>
NoticesStep == /\ Note!Next
               /\ UNCHANGED <<vars, payVars, chatVars, alertVars,
                              projectVars, accountVars, personVars, brokerVars>>
CrmStep == /\ Broker!Next
           /\ UNCHANGED <<vars, payVars, chatVars, alertVars,
                          projectVars, accountVars, personVars, noteVars>>

ServicesNext ==
    \/ ComplaintsStep \/ PaymentsStep \/ ChatsStep \/ AlertsStep \/ ProjectsStep
    \/ AccountsStep \/ PersonRowsStep \/ NoticesStep \/ CrmStep

servicesVars == <<vars, payVars, chatVars, alertVars, projectVars, accountVars,
                  personVars, noteVars, brokerVars>>

ServicesSpec == ServicesInit /\ [][ServicesNext]_servicesVars /\ Fairness /\ Pay!Fairness

-----------------------------------------------------------------------------
\* Every variable of the services keeps its type (the rows of their entities).
ServicesTypeOK ==
    /\ TypeOK /\ Pay!TypeOK /\ Chat!TypeOK /\ Alert!TypeOK /\ Project!TypeOK /\ Account!TypeOK
    /\ Person!TypeOK /\ Note!TypeOK /\ Broker!TypeOK

\* As long as all that calls the webhook is MyFatoorah, the wallet is topped up,
\* and the payment marked PAID, only for an invoice that is paid there,
\* whatever order its attempts are told in.  What others say without a
\* signature counts as well, but no more than once each (handleWebhook).
OnlyPaidCredited == Pay!OnlyPaidCredited

\* Money that is paid reaches the wallet, though servers die between
\* marking the payment and topping up: what makes up for that is that a
\* handler does not mind a payment that is PAID already.  The exception is a
\* success that is told before the payment is saved.
PaidReachesWallet == Pay!PaidReachesWallet

\* Unless two openings overlap, two people have one chat about a listing, and
\* one about nothing, whoever opened it (findOrCreateChat; the unique index
\* alone would let each of them have one).
OneChat == Chat!OneChat

\* No message is lost on its recipient.  Whoever does not see a chat has
\* deleted it since every message to them, however a deletion and a message
\* cross, unless its sending died; and a message only counts as read once its
\* recipient has opened the chat after it was sent (sendMessage, deleteChat,
\* markMessagesRead).
NothingUnseen == Chat!NothingUnseen

\* No search that would find the listing in the index is passed over, and an
\* alert is raised only for those that would, but for three kinds of
\* difference: listings that are not PUBLISHED, filters by maxGuests, which is
\* not indexed, and listings without rooms, which have 0 for alerts
\* (listingMatchesFilters, buildAlgoliaFilters).
AlertsAgree == Alert!AlertsAgree

\* No project, and no object of one, is said to have more units than it has,
\* in whatever order units are added, counted and written; and as long as
\* requests take turns and calls arrive, an active project can be found, with
\* all its units, and a removed one cannot (addUnit, updateStatus, remove).
ProjectShows == Project!ProjectShows

\* Unless requests overlap, a code opens one session, and once a newer one
\* was sent it opens none, though servers die after deleting, and after
\* using, a code (sendOtp, verifyOtp).
CodesWorkOnce == Account!CodesWorkOnce

\* Unless requests overlap, nobody has two establishments: no index sees to
\* it, as one does for the rows of the other kinds.  And it shows on its
\* owner's profile, or will, but for two ways to lose it for good, as no second
\* one may be created: the server dies between the two writes, or the profile
\* is saved as it was before the second (createEstablishment, completeProfile,
\* findPublicProfile).
OneIsShown == Person!OneIsShown

\* Whoever is signed in on a device has its token: a late sign-out of somebody
\* before takes nothing away, only their own does; and once every sign-out has
\* been heard, nobody has the token of a device they have left.  What was
\* being pushed by then still arrives (registerPushToken, deregisterPushToken).
TokensFollow == Note!TokensFollow

\* What is deleted stays deleted, while others work on it from what they
\* read: a saved search, unless it was being switched on or off; a project,
\* also while it is being updated; a client, and its reminder, unless that was
\* being marked as done (toggleAlert, update, updateClient, markReminderDone).
DeletedStays == Alert!DeletedStaysDeleted /\ Project!RemovedStays /\ Broker!DeletedStays
=============================================================================
