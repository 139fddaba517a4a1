------------------------------ MODULE Notices -------------------------------
(***************************************************************************)
(* Notifications, and the devices they are pushed to (the push tokens of   *)
(* notifications.service.ts, fcm.service.ts).  A device waits until its    *)
(* token is registered before anybody can sign out; signing out is told to *)
(* the server without waiting, so that may come when somebody else is      *)
(* signed in already.                                                      *)
(***************************************************************************)
EXTENDS FiniteSets

CONSTANTS
    People, Devices,
    NoticeIds,
    Nobody

VARIABLES
    user,           \* each device: who is signed in, or Nobody
    registered,     \* each device: whether the server has answered
    token,          \* push_tokens: whose each device's token is, or Nobody
    leaving,        \* deregistrations under way
    notice,         \* notifications rows: whom each is for, or Nobody
    unread,         \* notifications that are not read
    pushes,         \* pushes under way
    reading,        \* notifications markAsRead has found and not yet saved
    stale,          \* devices whose app was removed: FCM does not know their token
    overtaken       \* devices whose sign-out came after the same person's next sign-in

vars == <<user, registered, token, leaving, notice, unread, pushes, reading, stale,
          overtaken>>

TypeOK ==
    /\ {user, token} \subseteq [Devices -> People \cup {Nobody}]
    /\ registered \in [Devices -> BOOLEAN]
    /\ leaving \subseteq People \X Devices
    /\ notice \in [NoticeIds -> People \cup {Nobody}]
    /\ unread \subseteq NoticeIds /\ reading \subseteq NoticeIds
    /\ pushes \subseteq NoticeIds \X Devices
    /\ stale \subseteq Devices /\ overtaken \subseteq Devices

Init ==
    /\ user = [d \in Devices |-> Nobody] /\ token = user
    /\ registered = [d \in Devices |-> FALSE]
    /\ leaving = {} /\ pushes = {} /\ unread = {} /\ reading = {} /\ stale = {}
    /\ overtaken = {}
    /\ notice = [n \in NoticeIds |-> Nobody]

rows == <<notice, unread, reading>>
Left(u, d) == IF user[d] = u THEN overtaken \cup {d} ELSE overtaken

-----------------------------------------------------------------------------
SignIn(d, u) ==
    /\ user[d] = Nobody /\ d \notin stale
    /\ user' = [user EXCEPT ![d] = u]
    /\ UNCHANGED <<registered, token, leaving, rows, pushes, stale, overtaken>>

\* registerPushToken: the token is the caller's now, whosever it was.
RegisterPushToken(d) ==
    /\ user[d] # Nobody /\ ~registered[d]
    /\ token' = [token EXCEPT ![d] = user[d]]
    /\ registered' = [registered EXCEPT ![d] = TRUE]
    /\ overtaken' = overtaken \ {d}
    /\ UNCHANGED <<user, leaving, rows, pushes, stale>>

SignOut(d) ==
    /\ registered[d]
    /\ leaving' = leaving \cup {<<user[d], d>>}
    /\ user' = [user EXCEPT ![d] = Nobody]
    /\ registered' = [registered EXCEPT ![d] = FALSE]
    /\ UNCHANGED <<token, rows, pushes, stale, overtaken>>

\* Mutant of DeregisterPushToken: by the token alone.
DeregisterAny(u, d) ==
    /\ <<u, d>> \in leaving
    /\ leaving' = leaving \ {<<u, d>>}
    /\ token' = [token EXCEPT ![d] = Nobody]
    /\ overtaken' = Left(u, d)
    /\ UNCHANGED <<user, registered, rows, pushes, stale>>

\* deregisterPushToken: only if it still is the caller's.
DeregisterPushToken(u, d) ==
    /\ <<u, d>> \in leaving
    /\ leaving' = leaving \ {<<u, d>>}
    /\ token' = [token EXCEPT ![d] = IF @ = u THEN Nobody ELSE @]
    /\ overtaken' = Left(u, d)
    /\ UNCHANGED <<user, registered, rows, pushes, stale>>

\* createAndSend: the row, and a push for every token that is u's.
CreateAndSend(u, n) ==
    /\ notice[n] = Nobody
    /\ notice' = [notice EXCEPT ![n] = u]
    /\ unread' = unread \cup {n}
    /\ pushes' = pushes \cup {<<n, d>> : d \in {x \in Devices : token[x] = u}}
    /\ UNCHANGED <<user, registered, token, leaving, reading, stale, overtaken>>

\* FCM delivers it; or it fails, and FCM may say the token is UNREGISTERED.
Push(n, d) ==
    /\ <<n, d>> \in pushes
    /\ pushes' = pushes \ {<<n, d>>}
    /\ token' = IF d \in stale THEN [token EXCEPT ![d] = Nobody] ELSE token
    /\ UNCHANGED <<user, registered, leaving, rows, stale, overtaken>>

\* The app is removed from the device, whoever is signed in.
RemoveApp(d) ==
    /\ stale' = stale \cup {d}
    /\ user' = [user EXCEPT ![d] = Nobody]
    /\ registered' = [registered EXCEPT ![d] = FALSE]
    /\ UNCHANGED <<token, leaving, rows, pushes, overtaken>>

\* markAsRead finds a notification of the caller's, and saves it; what it
\* found is for the same person still.
FindUnread(u, n) ==
    /\ notice[n] = u
    /\ reading' = reading \cup {n}
    /\ UNCHANGED <<user, registered, token, leaving, notice, unread, pushes, stale, overtaken>>

MarkAsRead(n) ==
    /\ n \in reading
    /\ reading' = reading \ {n} /\ unread' = unread \ {n}
    /\ UNCHANGED <<user, registered, token, leaving, notice, pushes, stale, overtaken>>

MarkAllAsRead(u) ==
    /\ unread' = {n \in unread : notice[n] # u}
    /\ UNCHANGED <<user, registered, token, leaving, notice, reading, pushes, stale, overtaken>>

Next ==
    \/ \E d \in Devices : RegisterPushToken(d) \/ SignOut(d) \/ RemoveApp(d)
    \/ \E u \in People, d \in Devices : SignIn(d, u) \/ DeregisterPushToken(u, d)
    \/ \E u \in People, n \in NoticeIds : CreateAndSend(u, n) \/ FindUnread(u, n)
    \/ \E n \in NoticeIds, d \in Devices : Push(n, d)
    \/ \E n \in NoticeIds : MarkAsRead(n)
    \/ \E u \in People : MarkAllAsRead(u)

Spec == Init /\ [][Next]_vars

-----------------------------------------------------------------------------
\* Whoever is signed in on a device has its token: a late sign-out of somebody
\* before takes nothing away; only their own does (registerPushToken,
\* deregisterPushToken).
SignedInHaveTokens ==
    \A d \in Devices : registered[d] => token[d] = user[d] \/ d \in overtaken

\* Once every sign-out has been heard, nobody has the token of a device they
\* have left, and so no later notification of theirs is sent there.  Those whose
\* tokens were read before are on their way, and arrive.
TheGoneHaveNone ==
    \A d \in Devices \ stale : token[d] # Nobody =>
        \/ token[d] = user[d]
        \/ <<token[d], d>> \in leaving
        \/ user[d] # Nobody /\ ~registered[d]

\* A device's token is that of whoever is signed in on it, and nobody else's.
TokensFollow == SignedInHaveTokens /\ TheGoneHaveNone
=============================================================================
