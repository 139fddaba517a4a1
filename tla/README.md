# Aqari backend: a verification project

TLA+ models of the Aqari real-estate backend (NestJS, TypeORM, PostgreSQL), the TLC runs that check
them on small instances, and TLAPS proofs for every value of their constants. Paths below are relative
to the repository root; `bookings.service.ts` and the like are under `src/modules/`.

## 1. Inventory of the system

The backend is one NestJS process (or several behind a load balancer: nothing in the code elects a
leader, so every server also runs every cron job) over one PostgreSQL database. Requests interleave at
every `await`. Only `bookings`, `wallet`, `complaints` and the Nafath link step open transactions; the
rest read, think and `save()`, which for TypeORM means SELECT, diff, `UPDATE ... WHERE id`.

| component | state | operations | talks to | hard parts | what makes it correct |
|---|---|---|---|---|---|
| bookings | `bookings`, `listing_availability`, `booking_holds` | create, confirm, decline, cancel; release cron each minute | wallets, listings, notifications | row locks, stale reads before them, lock order, overlapping cron passes, crashes | no night sold twice; money held, paid once, never before it is due |
| wallet | `wallets`, `transactions` | get or create, top up, deduct | bookings, payments, promotions | read-modify-write of a balance | a balance is the sum of its transactions |
| payments (MyFatoorah) | `payments` | start a top-up, webhook | wallet, gateway | webhook early, late, twice, out of order; crash between status and credit | a paid invoice is credited once |
| promotions | `promotions` | buy, cancel, hourly expiry | wallet, listings | compensation instead of a transaction; two promotions of one listing | nobody is golden unpaid; the only paid promotion of a listing shows while it is active |
| listings | `listings` | create, update, status, remove, promotion flags | licenses, Algolia, promotions | stale-entity saves; unordered fire-and-forget index calls | index and database agree in the end |
| advertisement licenses | `property_advertisement_licenses` | create, validate, link, review | listings, REGA | check-then-save, review of a license being reviewed | one license, one listing |
| nafath | `nafath_requests`, `users.nationalId` | start, poll, callback, redeem, web login, link; expiry and purge crons | Nafath, auth, users | callback, poll and expiry racing; retries; lost replies; link racing profile updates | an approval is exchanged once; an identity belongs to one account |
| token verifier | JWKS cache | get key, refresh | Nafath | one refresh shared by many waiters | a waiter gets the key or an error |
| auth | `otps`, `users` | send and verify OTP, complete profile | whatsapp, users | one code accepted twice, two inserts of a user, stale profile save | one account for a phone |
| users | profiles, establishments, ratings | CRUD, ratings | notifications | look, then insert; two writes of one establishment | one of each, and it shows |
| chat | chats, messages, unread counts | open, send, read, delete | gateway, notifications | find-or-create, counts | one chat for a pair and a listing |
| complaints | complaints | create (numbered under an advisory lock), status | - | submissions at once, around New Year; the greatest number is found as text | a year's numbers are unique and have no gap |
| engagement | favourites, likes, reports | toggles | listings | toggle races | at most one row of each |
| search | saved searches, alerts | search, alerts | notifications | two filter languages for one question; toggling a deleted search | an alert for what the search would find |
| projects | projects, units | CRUD, units, status | Algolia | units counted at once; unordered index calls | what is said of a project is so |
| crm | clients, reminders, deals | CRUD | - | rows deleted while a request holds them | deleted stays deleted |
| notifications | notifications, push tokens | create, read, register and deregister a device | FCM, sockets | a sign-out that comes late | a device gets what is for whoever is signed in on it |
| media, whatsapp, integrations | files, messages | send, store | GCP, WhatsApp, REGA | none that two operations share | - |
| request pipeline, config, migrations, seeds | none at run time | - | - | - | - |

The hazards this leaves are in `PROJECT.json`, each at its line, with the property that would catch it. The
few that no property covers are explained in section 6.

## 2. The modules

| module | models | of kind |
|---|---|---|
| `Escrow` | what bookings promise: money into escrow in one step for nights nobody has, out of it once, when due | abstract specification |
| `Bookings` | `bookings.service.ts`, `wallet.service.ts`, the calendar | detailed, implements `Escrow` |
| `BookingsProofs` | theorems about `Bookings` | proofs |
| `Identity` | what a login promises: an approval is exchanged once, an identity has one account | abstract specification |
| `Nafath` | `nafath.service.ts`, `nafath.cron.ts`, the save in `auth.service.ts` | detailed, implements `Identity` |
| `NafathProofs` | theorems about `Nafath` | proofs |
| `KeyCache` | `nafath-jwt.verifier.ts`: the cache of Nafath's keys and its shared fetch | detailed |
| `KeyCacheProofs` | theorems about `KeyCache` | proofs |
| `Complaints` | the numbering in `complaints.service.ts` | detailed |
| `ComplaintsProofs` | theorems about `Complaints` | proofs |
| `Listings` | `listings.service.ts`, `property-advertisement-licenses.service.ts`, the search index | detailed |
| `ListingsProofs` | theorems about `Listings` | proofs |
| `Promotions` | `promotions.service.ts`; extends `Listings`, whose columns and index it writes | composition |
| `MarketProofs` | theorems about `Promotions`, on top of `ListingsProofs` | proofs |
| `Payments` | `payment.service.ts` and the webhook, against MyFatoorah | detailed |
| `Chats` | `chat.service.ts`, `chat.gateway.ts` | detailed |
| `Alerts` | `search.service.ts`: saved searches, and their filters as an alert and as the index reads them | detailed, against a reference |
| `Projects` | `projects.service.ts`, `projects-algolia.service.ts` | detailed |
| `Accounts` | codes and first logins in `auth.service.ts` | detailed |
| `PersonRows` | `createEstablishment`, `createRating` (`users.service.ts`), `toggleFavorite`, `toggleLike` (`engagement.service.ts`) | detailed |
| `Notices` | `notifications.service.ts`, `fcm.service.ts` | detailed |
| `Crm` | `crm.service.ts` | detailed |
| `Services` | the nine services that share no state, next to each other | composition |
| `ServicesProofs` | theorems about `Payments`, `Notices`, `Crm`, `Projects` and `Alerts`, as parts of `Services` | proofs |
| `RacesProofs` | theorems about `Chats`, `Accounts` and `PersonRows`, and the types of all nine | proofs |
| `MCBookings`, `MCNafath`, `MCListings`, `MCPromotions` | constants and symmetry sets of the TLC runs | model checking |
| `MCServices` | `Services` with one service per behaviour, in one run | model checking |

`PROJECT.json` maps every definition to the lines it stands for. Definitions marked "Mutant" are the
wrong versions of a definition that each property has been seen to refute; nothing else uses them.

### 2.1 Bookings

**State.** `status`, `stay`, `availability`, `wallets`, `balance`, `hold`, `debits`, `credits` are the
*committed* rows of `bookings`, `listing_availability`, `wallets`, `booking_holds` and `transactions`.
Transactions rows are kept as counts per booking, and as a net sum per user for what top-ups and
promotions moved (`funded`). Of a listing only its being bookable is kept.

**Processes.** A request or a cron release is a process `p` at statement `pc[p]`, about booking `job[p]`.
It runs one READ COMMITTED transaction: a statement with `FOR UPDATE` waits until nobody else holds the
row and then reads what is committed at that moment; `held[p]` are the rows it has locked, and `seen[p]`
is the wallet balance it has in memory and computes the new one from. Writes are buffered until the
commit, where they are published together; that is exact, since every row a transaction writes is either
locked by it from before the write, or inserted, where a unique index makes others wait. Statements
between which nobody can see or disturb what they touch are one step.

| code | model |
|---|---|
| `createBooking` | `CreateBooking`, one step: a pending row blocks nothing |
| `confirmBooking` | `ConfirmBooking`, `LockBooking`, `EnsureAvailableForConfirmation`, `LockGuestWallet`, `LockHostWallet`, `InsertHostWallet`, `CommitConfirmation` |
| `declineBooking`, `cancelBooking` | a plain read (`DeclineBooking`, `CancelBooking`), later an UPDATE by id (`SaveCancelled`) |
| `releaseDueBookingHolds`, `releaseBookingHold` | an unlocked read of the due holds (`ReleaseDueBookingHolds`), then `LockHold`, `LockBookingOfHold`, `LockPayeeWallet`, `CommitRelease` |
| `topUp`, `deduct`, `getOrCreateWallet` | one step each: one row, locked throughout |
| a lost connection, a dying server | `Crash`: the database rolls back |
| PostgreSQL's deadlock detector | `AbortDeadlocked`: the victim's request fails with a 500 nobody retries |

**What the code made unnecessary.** The partial unique index on `(listingId, date) WHERE timeSlot IS NULL`
(`listing-availability.entity.ts`) is `Blocked` in `CommitConfirmation`. Two confirmations for one
listing need the same host's wallet row, so they are serialised before they insert and an insert never
waits. Event halls are refused by `assertDailyRental` and `eventDate` is always null, so the event-hall
branches cannot run and are not modelled. Guest counts and minimum nights only refuse more requests.

### 2.2 Nafath

**State.** The columns of `nafath_requests` (`nid`, `status`, `hasTrans`, `claims`, `createdAt`,
`completedAt`, `consumed`, `linkedUser`), those of `users` that a login touches (`nationalId`,
`verified`, `active`), what Nafath knows of each request (`upstream`), and what clients were given
(`told`, `answers`, `linkTokens`). The clock is in units of the shortest window.

**Processes.** Each HTTP request and each cron run is a process at statement `pc[p]`, and each statement
commits by itself: the service uses conditional updates instead of transactions. `FinishRow` is the one
that ends a request (`WHERE status = 'WAITING'`), `Redeem` the one that exchanges it (`WHERE consumedAt
IS NULL`). `Link` is the exception, a transaction that keeps its request row locked (`Unlocked`).
`saw[p]` is what the process read earlier and still relies on.

| code | model |
|---|---|
| `start` | `Start`, `CountRecent`, `InsertRequest`, `SendRequest` or `SendFails`, `StoreTrans` or `StoreTransFails`, `MarkFailed` |
| `handleCallback` | `HandleCallback`, `KeepClaims`; at any time after the decision, any number of times, or never; refused while the row has no `transId` |
| `getStatus`, `pollUpstream`, `redeem`, `loginOrLink` | `GetStatus`, `PollUpstream`, `RecordStatus`, `Reload`, `Redeem`, `LoginOrLink` |
| `completeWebLogin` | `WebLogin`, then `LoginOrLink` |
| `link` | `Link`, `LockRow`, `FindOwner`, `LinkUser` |
| `completeProfile` | `CompleteProfile`, `SaveProfile`: it reads the account without `nationalId` (`select: false`) and saves all it read |
| `expireStale`, `purgeOld` | `ExpireStale`, `ExpireUnredeemed`, `PurgeOld` |
| the person, Nafath, an operator | `Decide`, `ActiveUpstream`, `Deactivate` (no code closes an account) |

**Left out.** How often a client or the server polls (`lastPolledAt`, `POLL_*`): polling is allowed at
any time, which includes every schedule. `statusSource`, which nothing reads, `nafathVerifiedAt`, which
moves with `isVerified`, and `startWebSession`, which keeps no state.

### 2.3 KeyCache

`keys`, `fetchedAt` and `inflight` are the fields of one `NafathJwtVerifier`; a server has one, and servers
share nothing, so one server is modelled. A verification `v` of a token whose key is `kid[v]` looks at the
cache (`VerifyCached`), or sends or joins a fetch (`VerifyRefreshing`). Nafath fills in its answer at one
moment (`Answer`), and it arrives later (`Arrive`): what it says may be old by then. Everything that follows
the arrival (the new map, `inflight = undefined`, the second look of every waiter) runs in microtasks
without an `await` on anything else, so it is one step. `FetchFails` is an error, a malformed answer, or the
HTTP client's timeout; `Tick` cannot pass that timeout. `Rotate`, and `changedAt` and `published`, are
Nafath's. What else `verify` looks at in a token (signature, audience, expiry) is a library's and keeps no
state.

### 2.4 Complaints

`complaints[y]` are the committed numbers of a year. A submission begins with the year it reads from the
clock (`Create`), waits for the year's advisory lock (`Lock`), finds the greatest text (`FindLatest`), and
inserts the next number or is refused by the unique index (`Insert`); lock and transaction end together.
Numbers are compared as the code has PostgreSQL compare them, as text: `TextLess` says what that order is for
numbers of `Width` and of `Width + 1` digits without spelling them, and with base 10 and width 4 it parts
from the order of numbers at 10000 (`Full`). The runs use base 2 and width 2, where the same happens at 4.

### 2.5 Listings

**State.** `listing` has of each row what decides where it is shown: `status` (PAUSED, PAUSED_TEMP and
EXPIRED are told apart nowhere), whether it is `removed` (soft-deleted), and `offer`, its four promotion
columns, which are only ever written together. `license` has whose a license is, the listing it is linked
to, its review, and whether REGA or the Ministry of Tourism vouched for it (`external`). `index` is what
Algolia keeps, `calls` what it was sent and has not taken yet.

**Processes.** No request runs in a transaction. A request is at statement `pc[p]`, about `job[p]`; where
the code reads an entity, changes it and saves it, `copyL[p]` and `copyK[p]` are what it has read, and the
save writes all of it back. Calls to the index are `void`ed promises with a `catch` that logs: `Deliver`
takes them in any order and `Lose` drops one.

| code | model |
|---|---|
| `createListing` | `CreateListing`, `LinkLicense`, `RemoveLicense` (external licenses are used up), `IndexListing` |
| `update`, `updateStatus`, `remove` | `Update` and `IndexListing`; `UpdateStatus` and `SaveStatus`; `Remove` and `SoftDelete` |
| `createLicense` | `CompleteDraft` and `SaveStatus` for a draft (path A), `SubmitLicense` without one (path B) |
| `validateAndCreateBrokerRecord`, `validateAndCreateHostRecord` | `SubmitLicense`, external |
| `updateReviewStatus` with `handleApproval` and `handleRejection` | `Review`, `SaveReview`, `ApplyReview`, `IndexListing` |
| `activatePromotion`, `deactivatePromotion` | `SetOffer`, as a step of a promotion |

**What the properties say.** That only what was published is found (`SearchFindsPublished`), and that a
license is linked to its advertiser's own listing (`LinksAreOwn`), hold however requests meet. The rest
does not survive requests that meet, since whole rows are saved from old copies: `LicensesLead` and
`SearchFollows` are about behaviours in which requests have taken turns and no index call was lost so far
(`~disturbed`, a variable no action looks at). Two things the code does even then are exceptions written
into the properties: a license that is reviewed before it has a listing is not shown as pending afterwards
(`early`), and `updateStatus` to DRAFT or PENDING leaves the listing in the index (`SetBack`).

### 2.6 Promotions

`promo` are the `promotions` rows, `debited` those whose price left the wallet, `now` the clock. Buying is
insert (`Purchase`), pay (`Deduct`), and either set the listing's columns (`Activate`) or delete the row
(`Undo`); cancelling and the hourly job save the row that was read (`Cancel`, `Expire`, `SaveEnd`) and clear
the columns (`Deactivate`). A server may die between any two (`Crash`). The wallet is one step here, since
`deduct` is one transaction, which `Bookings` has in full. A pass of the job handles what it found
concurrently (`Promise.allSettled`), so each promotion is a process; two passes may overlap. A listing has one set of columns,
so the end of one promotion takes another one's from it: that a paid promotion shows is said of those whose
listing has had no other (`Sole`).

### 2.7 Services that share no state

`Services` instantiates the nine modules over variables of their own: a step of `ServicesSpec` is one service's
step and leaves the others' state alone, so the services interleave as they please. `Complaints` is the one it
extends, the others have a name (`Pay`, `Chat`, `Alert`, `Project`, `Account`, `Person`, `Note`, `Broker`).

*Payments.* An invoice is made at MyFatoorah and then saved; the webhook is called for every attempt to
pay, until it answers 200. It is public, and looks at a signature only if there is one and a secret is set
(`payment.service.ts:154`), so an event also comes without one, from any caller, whether it is so or not
(`"unsigned"`; at most `MaxUnsigned` times each). `MarkPaid`, `TopUp`, `GetPaymentStatus` and `MarkFailed` are the handler's
statements. `dropped` are events that were answered while there was no row yet.

*Chats.* `Open` looks for a chat and `Create` inserts it, where the unique index may refuse; `SendMessage`
inserts and `Touch` brings the chat back to the other side; `DeleteChat` hides it from one; `MarkMessagesRead`
also stands for a socket that joins. `overlapped`, `dismissed`, `opened` and `cut` record what happened and
decide nothing.

*Alerts.* `MatchesFilters` is the code's own matching for alerts, `AlgoliaFinds` the filter string it builds
for the index, over a listing and a filter with one field of each kind the code tells apart: the query asks for PUBLISHED, which
a promotion's alerts do not, and `maxGuests`, which the index has not. Requests toggle
and delete a saved search while a check of a new listing runs.

*Projects.* A unit is inserted, all are counted, and the count is written to the row and to the index object
(`AddUnit`, `CountUnits`, `StoreTotal`); updates read first and write by id; index calls as in `Listings`.

*Accounts.* `SendOtp` deletes unused codes and `StoreCode` inserts one; `VerifyOtp` finds the latest valid code,
`UseCode` saves it as used, `FindUser` and `InsertUser` end in a session. Everything is about one phone. The
profile that completes a first login is in `Nafath`.

*PersonRows.* Four kinds of rows of which a person has one (about one other user or listing): look, then
insert or remove. Three have a unique index; the establishment has none, and is written to the owner's row
afterwards (`Link`). That row is also saved as a whole by who read it before, when a profile is completed or a
test administrator signs in (`FindProfile`, `CompleteProfile`); `crossed` remembers that the link came in between.

*Notices.* A device's token belongs to whoever registered it last; a sign-out is told to the server without
waiting (`leaving`) and may be heard when somebody else has signed in. FCM disowns the tokens of a removed
app. A push reads its tokens when it is made and is sent later (`Push`), whoever has left meanwhile. The order of events on the device is external.

*Crm.* Requests read a row and then write it. What is counted as upcoming for a client is not done (`Upcoming`),
what its broker is reminded of is also due within 48 hours of the moment (`UpcomingReminders`, `Soon`; `Window`). `MarkReminderDone` saves the whole reminder, so it inserts it
anew if it was deleted meanwhile.

## 3. The runs

| run | asks | instance | states |
|---|---|---|---|
| `bookings_safety` | `TypeOK`, `NoDoubleBooking`, `TablesAgree` (calendar, holds and statuses say the same, and no hold is given up), `MoneyMovesOnce`, `LedgerReconciles`, `LockedReadsHold` and the refinement `ImplementsEscrow` when confirmations of overlapping bookings, cancellations, two overlapping cron passes, top-ups and promotion charges meet | 2 bookings, 1 listing, a host, 2 guests, 2 requests, 2 releases, 3 days (stays that overlap, touch, or are apart; funds for one long or two short ones), clock past checkout and waiting time | 436k |
| `bookings_deadlock` | `OnlyHostsDeadlock`, `TransactionsEnd`: two hosts who are each other's guests lock their wallets in opposite orders; a ring is of nothing but such confirmations, and every request still ends | 2 users who each own a listing, 2 bookings, 2 requests | 105k |
| `bookings_release` | `DueHoldsReleased` in spite of a crash in any release | 2 bookings, 1 request, 2 releases, 1 crash | 13k |
| `bookings_cancelled` | `CancelledMovedNoMoney`, **violated** (finding 1) | 1 booking | - |
| `nafath_login` | `TypeOK`, `OneAnswerPerRequest`, `OnlyApproved`, `ToldStatusIsFinal` for one request with everything that can happen to it; `StaleRequestsEnd` while the cron runs; `PollingClientsLearn` with no cron and no callback owed | 2 handlers, 1 cron, 1 upset, clock to 4: past decision, grace, redemption and retention | 432k |
| `nafath_link` | `IdentitiesAgree` (one account for an identity, and the rows that link them), `ImplementsIdentity` with two racing links | 2 requests, 2 people, 2 accounts, 2 handlers | 116k |
| `nafath_expired` | `RedeemedWhileCompleted`, **violated** (finding 2) | 1 request | - |
| `nafath_verified` | `LinkedIsVerified`, **violated** (finding 3) | 1 account | - |
| `key_cache` | `VerdictsWereTrue` (an accepted key was published, a refused one absent, at some moment of the verification), `VerificationsEnd` while keys rotate during fetches that two verifications share | 2 keys, 2 verifications, 1 restart, a clock of several lifetimes of the cache | 697k |
| `listings` | `LinksAreOwn`, `SearchFindsPublished`, `LicensesLead`, `SearchFollows` through creation, completion of drafts, reviews, status changes, removal and index calls | 2 listings, 1 license, 2 users, 2 requests, 1 index call under way; updates, status changes and removals of one of the listings | 1.84M |
| `promotions` | `GoldenIsPaidFor`, `ShownFollows` while promotions are bought, cancelled and ended, with crashes, and the listing is created, published and removed | 1 listing, 2 promotions of 3 kinds, 2 processes that are requests or passes of the job, clock to 2 | 1.28M |
| `services` | the properties of `Complaints`, `Payments`, `Chats`, `Alerts`, `Projects`, `Accounts`, `PersonRows`, `Notices` and `Crm`, below | below | 230k |

**`services`.** In `Services` no module has a variable in common with another and no action of one is a
precondition of another's. The theorems are about their full interleaving; for TLC it would multiply the states
and show nothing new. `MCServices` picks one service in its initial states (`service`), and that one takes all
the steps of the behaviour while the others stay at their `Init`: a property of one module holds in this run
just when it would in a run of that module alone, provided it holds in the module's initial states, which is a
part of either. The properties:

| property | says | instance |
|---|---|---|
| `ServicesTypeOK` | the columns keep their types; a project's units and a year's numbers stay within what exists | all |
| `NumbersConsecutive`, `RefusedOnlyWhenFull`, `SubmissionsEnd` | a year's complaints are numbered without a gap around a new year and past the last number that fits | 3 submissions, 2 years, base 2 and width 2, 1 failure |
| `OnlyPaidCredited`, `PaidReachesWallet` | only what is paid is credited, but once for each caller who says so without a signature; and what is paid is credited, whatever crashes and repeats | 1 invoice, 2 concurrent calls, 2 calls for an event and 1 of others, 1 crash |
| `OneChat`, `NothingUnseen` | one chat for two people and a topic; no message is hidden or taken for read without its recipient's doing | 2 people, a listing and no listing, 2 chats, 1 message, 2 requests |
| `AlertsAgree` | alerts are raised for every search that would find the listing, and for others only where the two languages differ: not PUBLISHED, `maxGuests`, no rooms | filters of up to 2 fields over 2 places and 2 amounts, on every listing but those `Tried` leaves out |
| `ProjectShows` | a project is never said to have more units than it has, and the index follows | 2 units, 2 requests, 2 index calls under way |
| `CodesWorkOnce` | a code opens one session, and none once a newer one was sent | 2 codes, 2 requests, clock to 2 |
| `OneIsShown` | one establishment, which shows unless a server dies or the profile is saved across it; one rating, favourite and like | 2 requests |
| `TokensFollow` | a device's token is that of whoever is signed in on it | 2 people, 1 device, 1 notification |
| `DeletedStays` | a deleted search, project, client or reminder is not brought back by a request that holds it | 1 of each, 2 requests |

**Variables that only remember.** `disturbed`, `overlapped` and `crossed` say whether requests met in a way
the code does not guard against (`died`, `cut`, `dropped`, `early`, `overtaken`: whether something broke off
or was overtaken); `wasPublished`, `cleared`, `dismissed`, `opened`, `passedOver` remember history that
properties refer to. No action's guard reads them, but for `cleared`, which also says that the id of a license that
was removed is not used again (`Fresh`). A property that begins with `~disturbed` or `~overlapped`
is weaker than one would wish, and that is what the code gives: without the condition TLC refutes it. It
still says a lot, since requests that take turns leave crashes, late index calls, the clock and every order
of whole operations.

**Why the bounds are enough to be interesting.** Every hazard of these modules needs two parties: two
confirmations, a confirmation and a cancellation, two releases, a callback and a poll, two links, a review and
a status change, a purchase and a cancellation, two deliveries of a webhook, two counts of units. The
instances have two of whatever the question is about, a clock that passes every window once (the windows
are one or two units long, with distinct boundaries), and a crash that may come at any statement. In
`listings` one index call is under way at a time, which still lets it arrive after any later change of the
row; two calls that overtake each other are only ever sent by requests that met (`disturbed`), where the only
index property left is `SearchFindsPublished`, proved for any number of calls. Bounds
that only keep the instance finite are constants of their own (`LastToday`, `MaxFunds`, `MaxCrashes`,
`LastNow`, `LastStart`, `MaxUpsets`, `MaxRestarts`, `MaxFailures`, `MaxDeliveries`, `MaxUnsigned`, `MaxCalls` and
`MaxIndexCalls`, `MaxAlerts`, `MaxFields`, `MaxUnits`, `MaxCodes`, `Attended`, `Targets`, `Pairs`) and each is a
guard of the action it limits; `Tried` in `MCServices` is one on the initial listing.

### Fairness

*Bookings.* `SF(TransactionStep(p))`: PostgreSQL queues the waiters of a row lock, so a statement whose
row keeps becoming free gets it; weak fairness would not do, as the row may be taken again in between.
`WF` of the deadlock detector and of the cron's pass over each due hold. Nothing is assumed of users.
*Nafath.* The two liveness properties each state the fairness they need as an antecedent, so that one does
not lean on what the other is allowed. `CronFairness`: time passes, the cron runs and gets on with its
statements; clients owe nothing. `ClientFairness`: time passes, a server gets on with what it serves, and it
has room again and again for a client that keeps asking (`SF(GetStatus)`); the cron owes nothing, nor do
Nafath or the person.
*KeyCache.* `WF(Arrive \/ FetchFails)`: the HTTP client ends every call, with an answer or with its timeout;
Nafath owes nothing, not even answers. *Complaints.* `SF(Lock(p))`, since PostgreSQL grants an advisory lock
in the order it was asked for, and `WF` of the statements after it; nobody owes another submission.
*Payments.* `WF(HandlerStep(d))`: a handler that has begun goes on, unless its server dies, which it does a
bounded number of times (fewer than the calls it may get); and MyFatoorah calls again as long as it has not
been answered 200, its side of the webhook's contract: the handler answers 200 only once it is through
(`payment.controller.ts:52`). Customers owe nothing. The other
modules state no fairness: their index calls may be lost and their requests may die, so nothing is promised.

## 4. What is proved

Every property of a passing run is a theorem but for those on liveness, which are named at the end of this
section. The assumptions are the named `ASSUME`s of the modules: the two kinds of process differ, bounds are
natural numbers, null values are no values (`NullAssumption`, `NoneAssumption`, `NoRowAssumption`), who owns
what is one of its users, promotions have the three types and their columns may hold what those write
(`PromotionsAssumption`), amounts are integers, chats are between people, and finitely many webhook calls run
at once (`DeliveriesAssumption`, used only to count them). TLC evaluates each of them in a run. Three theorems that
count, add up or follow chains say so themselves: `LocksAreGranted` is about finitely many processes,
`OpenRequestsBounded` about finitely many handlers, `MoneyConserved` about finitely many users. Nothing else is assumed, so all of it holds for any number of
bookings, listings, requests, people, accounts, processes, crashes, and any windows.

`BookingsProofs` proves `Spec => []IInv`, then reads off `TypeCorrectness`, `CalendarSafety`
(`NoDoubleBooking`), `TableAgreement` (`TablesAgree`), `MoneySafety` (`MoneyMovesOnce`,
and no overdraft) and `ReadsStayTrue` (`LockedReadsHold`), and from it
`EscrowRefinement`, `BalancesMoveWithRows` and `BalancesAddUp` (`LedgerReconciles`). `IInv` is needed because none of the safety properties is inductive: that a guest
pays once follows from the booking still being `pending` at the commit, which is so because this process
has held its row since it read it (`LockedReadsHold`), because no row has two holders (`LocksExclusive`),
and because a write to a row needs its lock. The proof splits a step into what it does to the rows
(`RowStep`) and what it does to what each process knows (`KnowledgeStep`), one lemma per action that
writes.

`BalancesAddUp` is about sums over all bookings. That a sum changes by what one summand changes by needs an
induction over the set that is summed; the library's induction theorems take operators, which the provers cannot
instantiate, so the lemmas on sums argue from the least element of a set of sizes instead: a smallest set of
bookings for which a sum does not exist, is no integer, or depends on the order, would have a smaller one.
`BalancesMoveWithRows` is the step: one booking at most moves money, and each wallet's balance changes by exactly
what the transactions rows inserted with it say.

`MoneyConserved` is about all wallets together: what the users have paid in and do not have is what is held for
bookings that are confirmed and not yet paid out. A confirmation or a release moves one booking's total between a
wallet and its hold, a top-up or a charge moves a balance and what was paid in alike (`ShortStep`), and the
lemmas on sums do the rest. It needs that no hold is ever `REFUNDED` (`NothingRefunded`): the repository has the status, but
nothing sets it, and a hold that were refunded without a payment back would be the loss.

*Deadlocks.* `LocksOfSteps` says which rows a transaction holds at each statement, and that it wants just the one
the statement names. Since every transaction locks a booking or a hold before a wallet, a ring of transactions
that wait for each other can only be one of wallets, and a release wants its wallet when it needs nothing
afterwards: what is left are confirmations that hold a guest's wallet and want a host's, where the guest
hosts too (`DeadlocksAreOfHosts`, `NoDeadlockAtHome`). So the cron is never a deadlock's victim.

*Progress.* Two facts that the liveness properties rest on, and that need no fairness: `LocksAreGranted` (who waits,
waits in the end for one who can go on, or for a ring, which `AbortDeadlocked` breaks; by a chain of waiters that
cannot be infinite) and `TransactionsRunOut` (each statement brings a transaction nearer its end). Together they
say that no lock order and no loop can keep a request from its end; that the scheduler lets it take the
statements it can take is the fairness `TransactionsEnd` adds.

`NafathProofs` proves `Spec => []IInv` and from it `LoginTypes`, `SingleUse` (`OneAnswerPerRequest`),
`NothingUnapproved` (`OnlyApproved`), `IdentitySafety` (`IdentitiesAgree`),
`EndsAreFinal` (the action property `ToldStatusIsFinal`), `IdentityRefinement` and `OpenRequestsBounded`. Here `IInv` is `TypeOK`, facts about
each row and account (`RowsOK`, `UsersOK`), what a process knows of its row by where it is (`ProcsOK`: at
`redeem` the person has approved, at `login` the row is consumed, between `insert` and `storeTrans`
nobody else knows the row) and `AllAlone`: no two processes start one request, nor answer one.
`start` looks for an open request and inserts one in different statements, so the limit it means to keep does not hold;
what does is that a person's open requests and the handlers that have found none (`Open`, `Checked`) are together
never more than the handlers (`OpenInv`), since a start that finds one open gives up.

`KeyCacheProofs` proves `CacheInvariance` and from it `CacheTypes` and `VerdictsAreFresh`
(`VerdictsWereTrue`), for any lifetime and timeout. What has to be carried along: a cached key was published
at some moment between the sending of its fetch and its arrival (`CacheOK`); of an answer on its way, what
it has was published, and what it lacks absent, at some moment since the fetch was sent (`FetchOK`); and a
fetch in flight is never older than the timeout, also for those who joined it late.

`ComplaintsProofs` proves `NumberingInvariance`, `NoGaps` and `RefusedWhenFull`, for any base, width and
number of submissions. `NumbersConsecutive` is inductive only together with the lock's exclusion (`Turns`)
and with what a submission that is about to insert knows (`Found`): its number is still the greatest text.
`LatestFacts` then says what the greatest text is: the greatest number while all fit, and the last that
fits for ever after, so that every later submission of that year computes a number that is taken.

`ListingsProofs` proves `Invariance` and from it `SearchSafety` (`SearchFindsPublished`), `LinkSafety`
(`LinksAreOwn`) and `ListingTypes`, for any number of listings, licenses, requests and index calls. None of these is
inductive: what reaches a row or the index was read long before. `RowsOK` therefore says of every row, `CallsOK` of every
call under way, and `ProcsOK` of every copy a request holds, by the statement it is at, what the property says
of the result: an object with status PUBLISHED is of a listing that has been published, and a copy of a license
names its advertiser's own listing. No row is ever lost altogether (`Kept`), so that what was true when the
copy was read is true when it is saved.

`LicensesLeadOn` and `SearchFollowsRows` are about requests that take turns, and need a second invariant,
`TurnInv`: as long as nothing met, one request is served at a time and its call to the index is its last
statement (`Turns`); what it has read is so still (`ReadIsSo`); a license was handed in for one listing and leads
there, or the request that will link it is being served (`ClearsOne`); a license without a listing is shown to
the administrators, or was reviewed too early (`UnusedIsShown`); a pending listing is led to by a license that is
shown, or by one whose review is about to reach it (`PendingFollows`); and the index says what the rows say, as
soon as the call under way has arrived or the request that is served has made its own (`IndexFollows`). Both
properties then hold of a state in which nothing is under way. There is one lemma for each group of helpers
(`GotoFacts`, `WriteListingFacts`, `SendFacts`, ...), which both invariants use, and for each invariant one for each
action.

`MarketProofs` proves `GoldenIsPaid` (`GoldenIsPaidFor`) for every interleaving and crash, and `ShownFollowsPaid`
(`ShownFollows`). Steps of promotions do to the rows what `OfferSteps` says, and so the invariants of
`ListingsProofs` carry over to `MarketSpec` (`RowsInv`). `PaidInv` says of every row, and of every copy of
one that may still be saved, that promotion columns that say golden are those of a promotion that was paid for,
and of every process at a promotion's statement that it knows the promotion's listing, and has been paid before it
activates. A promotion keeps what was bought and stays paid for (`PromosKept`), which is what makes old copies harmless here.
`ActiveInv` adds, for requests that take turns, that a golden listing's promotion is active or about to clear
its columns. `ShownInv` is the converse: what is active is paid for, or its request has still to pay or to undo it;
what ends was paid for and is over before the columns are cleared; and the columns of a listing's only paid promotion
are on its row, or its request is about to set them.

`ServicesProofs` and `RacesProofs` are about `Services`; `EachServiceSteps` says that a step of it is a step or a
stutter of each service, after which each has its invariant to itself.

- `CreditsArePaid` (`OnlyPaidCredited`), for any number of invoices, concurrent calls, repetitions and crashes:
  MyFatoorah tells a success only of what is paid (`ToldIsPaid`), and a handler that is about to write one has
  been told it by MyFatoorah or by somebody else (`HandledIsTold`, `MarkedIsTold`, of invoices that are `Credible`).
  That no wallet is credited more often than that was told, which the types need as well, takes counting the
  handlers at work (`CreditsCounted`, `CallsCounted`). With no calls but MyFatoorah's it says that only what is paid
  is credited; the code does not refuse the others, and so the theorem counts them.
- `TokensFollowSignIns` (`TokensFollow`): only a device that has the app, with somebody signed in, is registered
  (`Registrations`). It is about tokens: a push that read them before a sign-out was heard arrives afterwards.
- `RemindersAgree`, that of the reminders counted for a client those due in the next 48 hours are just those its
  broker is reminded of. What a request has read may be out of date but not as to whose it is (`ReadsOK`), and a
  reminder that is being marked as done is there unless it was deleted meanwhile (`DoneIsThere`). (Clients do show
  more reminders than their broker is reminded of: `getClients` counts what is overdue or far away as well.)
- `ProjectsShow` (`ProjectShows`): what was counted, now or before, is never more than there is (`UnitsBound`), and
  while requests take turns the index is right once the call under way has arrived (`Undisturbed`).
- `AlertsAsFound` (`AlertsAgree`): what the index finds, the code's own comparison matches, for any listing, filter,
  places and amounts; and what it matches the index finds, but for the three kinds of `Differs` (`MatchesAsFound`).
  `AlertInv` carries that from the check of a listing to the alerts it raises.
- `DeletedIsGone` (the action property `DeletedStays`), from the invariants of the four services it is about.
- `EstablishmentsShow` (`OneIsShown`) and `CodesOpenOneSession` (`CodesWorkOnce`): unless requests overlap, one is
  served at a time, and what it found is so still (`PersonTurns`, `AccountTurns`), and a link once written is lost
  only to a profile that was read before it (`PersonInv`); a code that opened a session is
  used, and one that a newer one was sent after is used or deleted (`CodesSpent`).
- `ChatsAreOne` (`OneChat`) and `MessagesAreSeen` (`NothingUnseen`): what is being opened does not exist
  (`OpenTurns`), and whoever does not see a chat has deleted it since every message to them, or the message's
  request has still to bring it back (`Accounted`), whatever else is under way.
- `ServicesTypes` (`ServicesTypeOK`), the types of all nine.

**Only proved.** Some theorems state nothing a run checks. `CacheTypes`, `NumberingTypes` and `ListingTypes` are
type invariants that no plausible slip of the code breaks first. `RemindersAgree` was found to follow from the way rows
are read, `BalancesMoveWithRows` is the step of `BalancesAddUp`, `MoneyConserved` is about the same balances and holds, and `NoDeadlockAtHome` follows from
`DeadlocksAreOfHosts`. `LocksAreGranted` and `TransactionsRunOut` are what `TransactionsEnd` rests on, which
`bookings_deadlock` checks as a whole. `OpenRequestsBounded` would take more requests of one person than the
instances have before it could fail.

**Only model-checked.** The liveness properties (`TransactionsEnd`, `DueHoldsReleased`, `StaleRequestsEnd`,
`PollingClientsLearn`, `VerificationsEnd`, `SubmissionsEnd`, `PaidReachesWallet`), since the prover does not handle
`ENABLED`, hence not fairness.

## 5. Findings

1. **A cancelled booking can have moved money** (`bookings_cancelled`, `bookings.service.ts:309`).
   `declineBooking` and `cancelBooking` check the status without a lock and update by id. A confirmation
   that commits in between leaves a booking that is cancelled, charged, and on the calendar; the cron
   later pays the host and marks it completed. The comment at line 300 says "No money was moved so
   nothing to reverse."
2. **An expired result can be exchanged** (`nafath_expired`, `nafath.service.ts:490`). `redeem` looks at
   `consumedAt` only; the cron may have expired the row since `getStatus` looked at its window. A link
   token given for it is then refused by `link`, and the person has to begin again.
3. **A linked account can be unverified** (`nafath_verified`, `auth.service.ts:104`). `completeProfile`
   saves an account it read before the link and so resets `isVerified`, which the design says becomes
   true when a national ID is linked. The same save takes an establishment off the owner's row if it was created
   in between; `OneIsShown` excepts that (`crossed`), and such an owner can create no second one.

## 6. Not modelled, and what could come next

**Operations that are left out of modelled parts.** `projects.updateUnit`, `users.updateProfile` and
`updateEstablishment`, and the descriptive columns of listings, clients and deals: each overwrites columns nothing else
depends on, by id. So does `listings.licenseId`: `createListing` writes it, and a PATCH may (`UpdateListingDto` is a
`PartialType` of what creates one) without a look at the license, but no code reads it; what clears a listing is the
license's own `listingId`, which is modelled. A cron pass takes at most 100 due holds; in
the model any due hold may be the next, so it assumes that no hundred holds keep failing ahead of the others. `createReport` inserts a row nothing reads; `complaints.updateStatus` does not touch the
number. `updateListing` of the index and `linkListingToLicense` have no caller. Counters of views, chats and
messages on a listing are single increments. Notifications to administrators and sockets are sent and
forgotten. Queries only read, except where a property says what they show (`GoldenListings`,
`PendingLicenses`, `UserChats`, `Findable`, `Upcoming`).

**Parts that are left out.** Media, WhatsApp and the REGA and tourism stubs: I/O without a state that two
operations share. The request pipeline (guards, filters, interceptors, configuration): stateless. Migrations
and seeds: run once, offline; the unique indexes they create are in the modules of their tables. JWT signing,
signature checks and hashing are libraries'.

**Hazards that no checked property covers, or only in part.** Two starts of one person's login at once can pass the limit together
(`nafath.service.ts:122`): the limit is a courtesy, and `OpenRequestsBounded` proves by how much it can be passed. When one
of two promotions of a listing ends, it clears the columns the other has paid for
(`promotions.service.ts:208`): a listing has one set of columns, so a property that says otherwise is false, and
nothing in the repository claims it; `ShownFollows` says what does hold, that a promotion nobody paid for another
one beside is shown until it ends. A webhook that is delivered again tops the wallet up again
(`payment.service.ts:170`): `OnlyPaidCredited` says that at least nothing is credited that nobody said was paid, and
`PaidReachesWallet` shows why the handler must not simply ignore a payment that is PAID. Who says so is not checked unless there is a signature
(`payment.service.ts:154`), and `OnlyPaidCredited` counts what others say rather than leave it out. A search that
filters by `maxGuests` finds nothing at all, as `buildObject` does not index it, while alerts for it are raised
(`Differs`). Properties that begin with `~disturbed` or `~overlapped`, or except a `crossed` row, say of
what overlaps only what is left; PROJECT.json notes at each hazard which part that is.

**Next.** An abstract specification of the market (a listing is findable while it is cleared, golden while it is
paid for) that `Promotions` implements as long as requests take turns: `TurnInv` and `ActiveInv` have what the proof
needs. Abstract specifications of payments (an invoice is paid, then credited) and of chats. A larger instance of
`listings` with two licenses.
