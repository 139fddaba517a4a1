---------------------------- MODULE RacesProofs -----------------------------
(***************************************************************************)
(* Proofs about Services: what is so unless requests overlap, of sign-in   *)
(* codes, establishments and chats.  None of them is kept by a lock or an  *)
(* index; they hold because a request that is alone reads what is so still *)
(* when it writes.                                                         *)
(***************************************************************************)
EXTENDS ServicesProofs, ComplaintsProofs

(* Establishments.                                                         *)

\* Unless requests overlap, one is served at a time, and what it has looked
\* up is so still.
PersonTurns ==
    ~rowsCrowded =>
        /\ \A p, q \in Requests : rowAt[p] # "idle" /\ rowAt[q] # "idle" => p = q
        /\ \A p \in Requests : rowAt[p] = "insert" /\ rowWhat[p] = "establishment"
              => rows["establishment"] = 0

PersonInv ==
    /\ Person!TypeOK
    /\ \A p \in Requests : rowAt[p] \in {"insert", "link", "remove"} => rowWhat[p] \in Person!Kinds
    /\ \A p \in Requests : rowAt[p] = "saveProfile" =>
          \/ rowWhat[p] = "linked" /\ (linked \/ rowCrossed)
          \/ rowWhat[p] = "unlinked" /\ (~linked \/ rowCrossed)
    /\ \A p \in Requests : rowAt[p] = "remove" => rowWhat[p] # "establishment"
    /\ PersonTurns /\ Person!OneOfEach /\ Person!EstablishmentShows

LEMMA PersonInit == Person!Init => PersonInv
<1> SUFFICES ASSUME Person!Init PROVE PersonInv
  OBVIOUS
<1>1. Person!TypeOK
  BY DEF Person!Init, Person!TypeOK, Person!Kinds, Person!Steps
<1>2. \A p \in Requests : rowAt[p] = "idle"
  BY DEF Person!Init
<1>3. \A k \in Person!Kinds : rows[k] = 0
  BY DEF Person!Init
<1>4. QED
  BY <1>1, <1>2, <1>3
     DEF PersonInv, PersonTurns, Person!OneOfEach, Person!EstablishmentShows, Person!Kinds

\* A request looks a row up.
LEMMA PersonBegin ==
  ASSUME PersonInv, NEW p \in Requests,
         \/ Person!CreateEstablishment(p) \/ Person!CreateRating(p)
         \/ Person!ToggleFavorite(p) \/ Person!ToggleLike(p) \/ Person!FindProfile(p)
  PROVE  PersonInv'
<1> USE DEF Person!Begin, PersonInv, PersonTurns, Person!TypeOK, Person!OneOfEach,
            Person!EstablishmentShows, Person!Kinds, Person!Steps, Person!Profiles
<1>1. ASSUME NEW step \in {"insert", "remove"}, NEW k \in Person!Kinds, Person!Begin(p, step, k),
             k = "establishment" => rows["establishment"] = 0 /\ step = "insert"
      PROVE  PersonInv'
  BY <1>1
<1>2. CASE Person!FindProfile(p)
  BY <1>2 DEF Person!FindProfile
<1>3. QED
  BY <1>1, <1>2 DEF Person!CreateEstablishment, Person!CreateRating, Person!ToggleFavorite,
                    Person!ToggleLike

\* A request writes what it has looked up.
LEMMA PersonContinue ==
  ASSUME PersonInv, NEW p \in Requests,
         \/ Person!Insert(p) \/ Person!Link(p) \/ Person!CompleteProfile(p)
         \/ Person!Remove(p) \/ Person!Crash(p)
  PROVE  PersonInv'
<1> USE DEF Person!Continue, PersonInv, PersonTurns, Person!TypeOK, Person!OneOfEach,
            Person!EstablishmentShows, Person!Kinds, Person!Steps, Person!Profiles
<1>1. CASE Person!Insert(p)
  BY <1>1 DEF Person!Insert, Person!Unique
<1>2. CASE Person!Link(p)
  BY <1>2 DEF Person!Link
<1>3. CASE Person!Remove(p)
  BY <1>3 DEF Person!Remove
<1>4. CASE Person!Crash(p)
  BY <1>4 DEF Person!Crash
<1>5. CASE Person!CompleteProfile(p)
  <2>1. linked' \in BOOLEAN /\ (linked' <=> rowWhat[p] = "linked")
    BY <1>5 DEF Person!CompleteProfile
  <2>2. linked => linked' \/ rowCrossed
    BY <1>5, <2>1 DEF Person!CompleteProfile
  <2>3. /\ UNCHANGED <<rows, died, rowCrossed, rowsCrowded>> /\ rowAt[p] = "saveProfile"
        /\ rowAt' = [rowAt EXCEPT ![p] = "idle"] /\ rowWhat' = [rowWhat EXCEPT ![p] = "none"]
    BY <1>5 DEF Person!CompleteProfile
  <2>4. \A q \in Requests : rowAt'[q] # "idle" =>
           /\ q # p /\ rowAt'[q] = rowAt[q] /\ rowWhat'[q] = rowWhat[q]
    BY <2>3
  <2>5. Person!TypeOK'
    BY <2>1, <2>3
  <2>6. ASSUME NEW q \in Requests, rowAt'[q] = "saveProfile"
        PROVE  \/ rowWhat'[q] = "linked" /\ (linked' \/ rowCrossed')
               \/ rowWhat'[q] = "unlinked" /\ (~linked' \/ rowCrossed')
    <3>1. rowAt[q] = "saveProfile" /\ rowWhat'[q] = rowWhat[q]
      BY <2>4, <2>6
    <3>2. linked' => linked \/ rowCrossed
      BY <2>1, <2>3
    <3>3. QED
      BY <2>2, <2>3, <3>1, <3>2
  <2>7. PersonTurns' /\ Person!OneOfEach'
    BY <2>3, <2>4
  <2>8. Person!EstablishmentShows'
    BY <2>2, <2>3, <2>4
  <2>9. QED
    BY <2>4, <2>5, <2>6, <2>7, <2>8
<1>6. QED
  BY <1>1, <1>2, <1>3, <1>4, <1>5

LEMMA PersonInvariant == ServicesSpec => []PersonInv
<1>1. PersonInv /\ [Person!Next]_(Person!vars) => PersonInv'
  <2>1. PersonInv /\ UNCHANGED Person!vars => PersonInv'
    BY DEF Person!vars, PersonInv, PersonTurns, Person!TypeOK, Person!OneOfEach,
           Person!EstablishmentShows
  <2>2. QED
    BY <2>1, PersonBegin, PersonContinue DEF Person!Next
<1>2. QED
  BY PersonInit, <1>1, EachServiceSteps, PTL DEF Person!Spec

\* Unless requests overlap, nobody has two establishments, though no index
\* sees to it; and theirs shows on their profile, or will, unless the server
\* died between the two writes or the profile was read before the second and
\* saved after it (createEstablishment, completeProfile).
THEOREM EstablishmentsShow == ServicesSpec => []OneIsShown
<1>1. PersonInv => OneIsShown
  BY DEF PersonInv, OneIsShown, Person!OneIsShown
<1>2. QED
  BY PersonInvariant, <1>1, PTL

-----------------------------------------------------------------------------
(* Sign-in codes.                                                          *)

Verifying == {"useCode", "findUser", "insertUser"}
Spent(c) == ~codes[c].there \/ codes[c].isUsed

\* Unless requests overlap, one is served at a time; what it verifies is the
\* last code sent, and has opened no session yet.
AccountTurns ==
    /\ \A p, q \in Requests : accountAt[p] # "idle" /\ accountAt[q] # "idle" => p = q
    /\ \A p \in Requests : accountAt[p] \in Verifying =>
          accountWhat[p] = sent /\ sessions[sent] = 0
    /\ \A p \in Requests : accountAt[p] \in {"findUser", "insertUser"} =>
          codes[accountWhat[p]].isUsed
    /\ \A p \in Requests : accountAt[p] = "storeCode" => \A c \in Account!Ids : Spent(c)

\* A code that opened a session is used, and one that a newer one was sent
\* after is used or deleted.
CodesSpent ==
    \A c \in Account!Ids :
        /\ sessions[c] <= 1
        /\ sessions[c] > 0 => codes[c].isUsed
        /\ c < sent => Spent(c)
        /\ c > sent => ~codes[c].there /\ sessions[c] = 0

AccountInv ==
    /\ Account!TypeOK
    /\ \A p \in Requests : accountAt[p] \in Verifying => accountWhat[p] \in Account!Ids
    /\ ~crowded => AccountTurns /\ CodesSpent

LEMMA CodesAreCounted == MaxCodes \in Nat /\ Lifetime \in Nat /\ LastNow \in Nat
BY CountsAssumption

LEMMA AccountInit == Account!Init => AccountInv
<1> SUFFICES ASSUME Account!Init PROVE AccountInv
  OBVIOUS
<1>1. Account!TypeOK
  <2>1. /\ 0 \in 0..LastNow /\ 0 \in 0..LastNow + Lifetime /\ 0 \in 0..MaxCodes
        /\ TRUE \in BOOLEAN /\ FALSE \in BOOLEAN
    BY CodesAreCounted
  <2>2. codes \in [Account!Ids -> [there: BOOLEAN, isUsed: BOOLEAN, expiresAt: 0..LastNow + Lifetime]]
    BY <2>1 DEF Account!Init
  <2>3. QED
    BY <2>1, <2>2 DEF Account!Init, Account!TypeOK, Account!Steps
<1>2. \A p \in Requests : accountAt[p] = "idle"
  BY DEF Account!Init
<1>3. sent = 0 /\ \A c \in Account!Ids : sessions[c] = 0 /\ ~codes[c].there
  BY DEF Account!Init
<1>4. QED
  BY <1>1, <1>2, <1>3 DEF AccountInv, AccountTurns, CodesSpent, Verifying, Account!Ids

\* Types alone.
LEMMA AccountTypes ==
  ASSUME Account!TypeOK, [Account!Next]_(Account!vars),
         \A p \in Requests : accountAt[p] \in Verifying => accountWhat[p] \in Account!Ids
  PROVE  Account!TypeOK'
<1> DEFINE Code == [there: BOOLEAN, isUsed: BOOLEAN, expiresAt: 0..LastNow + Lifetime]
<1>1. /\ codes \in [Account!Ids -> Code] /\ sent \in 0..MaxCodes /\ account \in BOOLEAN
      /\ sessions \in [Account!Ids -> Nat] /\ accountAt \in [Requests -> Account!Steps]
      /\ accountWhat \in [Requests -> 0..MaxCodes] /\ now \in 0..LastNow /\ crowded \in BOOLEAN
  BY DEF Account!TypeOK
<1>2. ASSUME NEW p \in Requests, NEW step \in Account!Steps, NEW w \in 0..MaxCodes,
             Account!Begin(p, step, w)
      PROVE  /\ accountAt' \in [Requests -> Account!Steps]
             /\ accountWhat' \in [Requests -> 0..MaxCodes] /\ crowded' \in BOOLEAN
  BY <1>1, <1>2 DEF Account!Begin
<1>3. ASSUME NEW p \in Requests, NEW step \in Account!Steps, Account!Continue(p, step)
      PROVE  /\ accountAt' \in [Requests -> Account!Steps]
             /\ accountWhat' \in [Requests -> 0..MaxCodes] /\ crowded' \in BOOLEAN
  BY <1>1, <1>3, CodesAreCounted DEF Account!Continue
<1>4. \A c \in Account!Ids :
        /\ codes[c] \in Code
        /\ [codes[c] EXCEPT !.there = @ /\ codes[c].isUsed] \in Code
        /\ [codes[c] EXCEPT !.isUsed = TRUE, !.there = TRUE] \in Code
        /\ \A x \in BOOLEAN, y \in BOOLEAN, z \in 0..LastNow + Lifetime :
              [there |-> x, isUsed |-> y, expiresAt |-> z] \in Code
  BY <1>1
<1> HIDE DEF Code
<1>5. ASSUME NEW p \in Requests, Account!SendOtp(p) PROVE Account!TypeOK'
  <2>1. codes' \in [Account!Ids -> Code]
    BY <1>4, <1>5 DEF Account!SendOtp
  <2>2. QED
    BY <1>1, <1>2, <1>5, <2>1, CodesAreCounted DEF Account!SendOtp, Account!TypeOK, Code, Account!Steps
<1>6. ASSUME NEW p \in Requests, Account!StoreCode(p) PROVE Account!TypeOK'
  <2>1. /\ sent + 1 \in Account!Ids /\ now + Lifetime \in 0..LastNow + Lifetime
        /\ sent + 1 \in 0..MaxCodes
    BY <1>1, <1>6, CodesAreCounted DEF Account!StoreCode, Account!Ids
  <2> DEFINE new == [there |-> TRUE, isUsed |-> FALSE, expiresAt |-> now + Lifetime]
  <2>3. new \in Code
    BY <1>4, <2>1
  <2>4. codes' = [codes EXCEPT ![sent + 1] = new]
    BY <1>6 DEF Account!StoreCode
  <2> HIDE DEF new
  <2>2. codes' \in [Account!Ids -> Code]
    BY <1>1, <2>1, <2>3, <2>4
  <2>5. QED
    BY <1>1, <1>3, <1>6, <2>1, <2>2 DEF Account!StoreCode, Account!TypeOK, Code, Account!Steps
<1>7. ASSUME NEW p \in Requests, NEW c \in Account!Ids, Account!VerifyOtp(p, c)
      PROVE  Account!TypeOK'
  <2>1. c \in 0..MaxCodes
    BY CodesAreCounted DEF Account!Ids
  <2>2. QED
    BY <1>1, <1>2, <1>7, <2>1 DEF Account!VerifyOtp, Account!TypeOK, Code, Account!Steps
<1>8. ASSUME NEW p \in Requests, Account!UseCode(p) PROVE Account!TypeOK'
  <2>1. accountWhat[p] \in Account!Ids
    BY <1>8 DEF Account!UseCode, Verifying
  <2> DEFINE used == [codes[accountWhat[p]] EXCEPT !.isUsed = TRUE, !.there = TRUE]
  <2>2. used \in Code
    BY <1>4, <2>1
  <2>3. codes' = [codes EXCEPT ![accountWhat[p]] = used]
    BY <1>1, <1>8, <2>1 DEF Account!UseCode
  <2> HIDE DEF used
  <2>4. codes' \in [Account!Ids -> Code]
    BY <1>1, <2>1, <2>2, <2>3
  <2>5. QED
    BY <1>1, <1>3, <1>8, <2>4 DEF Account!UseCode, Account!TypeOK, Code, Account!Steps
<1>9. ASSUME NEW p \in Requests,
             Account!FindUser(p) \/ Account!InsertUser(p) \/ Account!Crash(p)
      PROVE  Account!TypeOK'
  <2>1. PICK step \in Account!Steps : Account!Continue(p, step)
    BY <1>9 DEF Account!FindUser, Account!InsertUser, Account!Crash, Account!OpenSession,
                Account!Steps
  <2>2. UNCHANGED <<codes, sent, now>> /\ account' \in BOOLEAN
    BY <1>1, <1>9 DEF Account!FindUser, Account!InsertUser, Account!Crash
  <2>3. sessions' \in [Account!Ids -> Nat]
    BY <1>1, <1>9 DEF Account!FindUser, Account!InsertUser, Account!Crash, Account!OpenSession,
                      Verifying
  <2>4. QED
    BY <1>1, <1>3, <2>1, <2>2, <2>3 DEF Account!TypeOK, Code
<1>10. CASE Account!Tick \/ UNCHANGED Account!vars
  BY <1>1, <1>10, CodesAreCounted DEF Account!Tick, Account!vars, Account!TypeOK, Code
<1>11. QED
  BY <1>5, <1>6, <1>7, <1>8, <1>9, <1>10 DEF Account!Next

\* What a step about codes has to keep, besides the types.
LEMMA AccountLooks ==
  ASSUME AccountInv
  PROVE  /\ sent \in Nat /\ MaxCodes \in Nat /\ Account!Ids \subseteq Nat
         /\ \A c \in Nat : c \in Account!Ids <=> 1 <= c /\ c <= MaxCodes
         /\ codes \in [Account!Ids -> [there: BOOLEAN, isUsed: BOOLEAN, expiresAt: Nat]]
         /\ sessions \in [Account!Ids -> Nat]
         /\ accountAt \in [Requests -> Account!Steps] /\ accountWhat \in [Requests -> Nat]
         /\ crowded \in BOOLEAN
BY CodesAreCounted DEF AccountInv, Account!TypeOK, Account!Ids

\* Codes are sent.
LEMMA SendingStep ==
  ASSUME AccountInv, Account!TypeOK', NEW p \in Requests,
         Account!SendOtp(p) \/ Account!StoreCode(p)
  PROVE  AccountInv'
<1> USE AccountLooks
<1>1. CASE Account!SendOtp(p)
  <2>1. \A c \in Account!Ids : /\ codes'[c].isUsed = codes[c].isUsed
                               /\ codes'[c].there => codes[c].there /\ codes[c].isUsed
    BY <1>1 DEF Account!SendOtp
  <2>2. \A c \in Account!Ids : Spent(c)'
    BY <2>1 DEF Spent
  <2>3. /\ accountAt[p] = "idle" /\ accountAt'[p] = "storeCode"
        /\ \A q \in Requests : q # p => accountAt'[q] = accountAt[q] /\ accountWhat'[q] = accountWhat[q]
        /\ ~crowded' => ~crowded /\ \A q \in Requests : accountAt[q] = "idle"
        /\ UNCHANGED <<sent, sessions>>
    BY <1>1 DEF Account!SendOtp, Account!Begin
  <2>4. \A q \in Requests : accountAt'[q] \in Verifying => accountWhat'[q] \in Account!Ids
    BY <2>3 DEF AccountInv, Verifying
  <2>5. ASSUME ~crowded' PROVE AccountTurns' /\ CodesSpent'
    BY <2>1, <2>2, <2>3, <2>5 DEF AccountInv, AccountTurns, CodesSpent, Verifying, Spent
  <2>6. QED
    BY <2>4, <2>5 DEF AccountInv
<1>2. CASE Account!StoreCode(p)
  <2>1. sent + 1 \in Account!Ids /\ sent' = sent + 1
    BY <1>2 DEF Account!StoreCode
  <2>2. /\ \A c \in Account!Ids \ {sent + 1} : codes'[c] = codes[c]
        /\ ~codes'[sent + 1].isUsed
    BY <1>2, <2>1 DEF Account!StoreCode
  <2>3. /\ accountAt[p] = "storeCode" /\ accountAt'[p] = "idle"
        /\ \A q \in Requests : q # p => accountAt'[q] = accountAt[q] /\ accountWhat'[q] = accountWhat[q]
        /\ UNCHANGED <<sessions, crowded>>
    BY <1>2 DEF Account!StoreCode, Account!Continue
  <2>4. \A q \in Requests : accountAt'[q] \in Verifying => accountWhat'[q] \in Account!Ids
    BY <2>3 DEF AccountInv, Verifying
  <2>5. ASSUME ~crowded PROVE AccountTurns'
    BY <2>3, <2>5 DEF AccountInv, AccountTurns, Verifying
  <2>6. ASSUME ~crowded PROVE CodesSpent'
    <3>1. \A c \in Account!Ids : c # sent + 1 => Spent(c)' /\ (c > sent => ~codes'[c].there)
      BY <2>1, <2>2, <2>3, <2>6 DEF AccountInv, AccountTurns, CodesSpent, Spent
    <3>2. QED
      BY <2>1, <2>2, <2>3, <2>6, <3>1 DEF AccountInv, CodesSpent
  <2>7. QED
    BY <2>3, <2>4, <2>5, <2>6 DEF AccountInv
<1>3. QED
  BY <1>1, <1>2

\* A code is verified.
LEMMA VerifyingStep ==
  ASSUME AccountInv, Account!TypeOK', NEW p \in Requests,
         \/ \E c \in Account!Ids : Account!VerifyOtp(p, c)
         \/ Account!UseCode(p) \/ Account!FindUser(p) \/ Account!InsertUser(p) \/ Account!Crash(p)
  PROVE  AccountInv'
<1> USE AccountLooks
<1>1. ASSUME NEW c \in Account!Ids, Account!VerifyOtp(p, c) PROVE AccountInv'
  <2>1. codes[c].there /\ ~codes[c].isUsed
    BY <1>1 DEF Account!VerifyOtp, Account!Valid
  <2>2. ASSUME ~crowded PROVE c = sent /\ sessions[c] = 0
    <3>1. c \in Nat /\ sent \in Nat /\ sessions[c] \in Nat
      OBVIOUS
    <3>2. ~(c < sent) /\ ~(c > sent) /\ ~(sessions[c] > 0)
      BY <2>1, <2>2 DEF AccountInv, CodesSpent, Spent
    <3>3. QED
      BY <3>1, <3>2
  <2>3. /\ accountAt[p] = "idle" /\ accountAt'[p] = "useCode" /\ accountWhat'[p] = c
        /\ \A q \in Requests : q # p => accountAt'[q] = accountAt[q] /\ accountWhat'[q] = accountWhat[q]
        /\ ~crowded' => ~crowded /\ \A q \in Requests : accountAt[q] = "idle"
        /\ UNCHANGED <<codes, sent, sessions>>
    BY <1>1 DEF Account!VerifyOtp, Account!Begin
  <2>4. QED
    BY <2>2, <2>3 DEF AccountInv, AccountTurns, CodesSpent, Spent, Verifying
<1>2. ASSUME Account!Continue(p, "idle"), UNCHANGED <<codes, sent, sessions>> PROVE AccountInv'
  BY <1>2 DEF Account!Continue, AccountInv, AccountTurns, CodesSpent, Spent, Verifying
<1>3. CASE Account!UseCode(p)
  <2>1. accountWhat[p] \in Account!Ids
    BY <1>3 DEF Account!UseCode, AccountInv, Verifying
  <2>2. /\ \A c \in Account!Ids \ {accountWhat[p]} : codes'[c] = codes[c]
        /\ codes'[accountWhat[p]].isUsed
    BY <1>3, <2>1 DEF Account!UseCode
  <2>3. /\ accountAt[p] = "useCode" /\ accountAt'[p] = "findUser" /\ accountWhat'[p] = accountWhat[p]
        /\ \A q \in Requests : q # p => accountAt'[q] = accountAt[q] /\ accountWhat'[q] = accountWhat[q]
        /\ UNCHANGED <<sent, sessions, crowded>>
    BY <1>3 DEF Account!UseCode, Account!Continue
  <2>4. ~crowded => accountWhat[p] = sent
    BY <2>3 DEF AccountInv, AccountTurns, Verifying
  <2>5. QED
    BY <2>1, <2>2, <2>3, <2>4 DEF AccountInv, AccountTurns, CodesSpent, Spent, Verifying
<1>4. ASSUME accountAt[p] \in {"findUser", "insertUser"}, Account!OpenSession(p),
             UNCHANGED <<codes, sent>>
      PROVE  AccountInv'
  <2>1. accountWhat[p] \in Account!Ids
    BY <1>4 DEF AccountInv, Verifying
  <2>2. /\ sessions' = [sessions EXCEPT ![accountWhat[p]] = @ + 1]
        /\ accountAt'[p] = "idle" /\ crowded' = crowded
        /\ \A q \in Requests : q # p => accountAt'[q] = accountAt[q] /\ accountWhat'[q] = accountWhat[q]
    BY <1>4 DEF Account!OpenSession, Account!Continue
  <2>3. ASSUME ~crowded PROVE AccountTurns' /\ CodesSpent'
    <3>1. /\ AccountTurns /\ CodesSpent /\ \A q \in Requests : q # p => accountAt[q] = "idle"
          /\ accountWhat[p] = sent /\ sessions[sent] = 0 /\ codes[sent].isUsed
      BY <1>4, <2>3 DEF AccountInv, AccountTurns, Verifying
    <3>2. QED
      BY <1>4, <2>1, <2>2, <3>1 DEF AccountTurns, CodesSpent, Spent, Verifying
  <2>4. QED
    BY <1>4, <2>2, <2>3 DEF AccountInv, Verifying
<1>5. ASSUME accountAt[p] = "findUser", Account!Continue(p, "insertUser"),
             UNCHANGED <<codes, sent, sessions>>
      PROVE  AccountInv'
  BY <1>5 DEF Account!Continue, AccountInv, AccountTurns, CodesSpent, Spent, Verifying
<1>6. QED
  BY <1>1, <1>2, <1>3, <1>4, <1>5 DEF Account!FindUser, Account!InsertUser, Account!Crash

LEMMA AccountInvariant == ServicesSpec => []AccountInv
<1>1. AccountInv /\ [Account!Next]_(Account!vars) => AccountInv'
  <2> SUFFICES ASSUME AccountInv, [Account!Next]_(Account!vars) PROVE AccountInv'
    OBVIOUS
  <2>1. Account!TypeOK'
    BY AccountTypes DEF AccountInv
  <2>2. CASE UNCHANGED Account!vars \/ Account!Tick
    <3>1. UNCHANGED <<codes, sent, sessions, accountAt, accountWhat, crowded>>
      BY <2>2 DEF Account!vars, Account!Tick
    <3>2. QED
      BY <2>1, <3>1 DEF AccountInv, AccountTurns, CodesSpent, Spent, Account!Ids
  <2>3. QED
    BY <2>1, <2>2, SendingStep, VerifyingStep DEF Account!Next
<1>2. QED
  BY AccountInit, <1>1, EachServiceSteps, PTL DEF Account!Spec

\* Unless requests overlap, a code opens one session, and none once a newer
\* one was sent, though servers die after deleting, and after using, a code
\* (sendOtp, verifyOtp).
THEOREM CodesOpenOneSession == ServicesSpec => []CodesWorkOnce
<1>1. AccountInv => CodesWorkOnce
  BY DEF AccountInv, AccountTurns, CodesSpent, Verifying, CodesWorkOnce, Account!CodesWorkOnce
<1>2. QED
  BY AccountInvariant, <1>1, PTL
-----------------------------------------------------------------------------
(* Chats.                                                                  *)

ChatTypes ==
    /\ chats \in [ChatIds -> Chat!Chats \cup {None}]
    /\ messages \in [MessageIds -> Chat!Messages \cup {None}]
    /\ chatAt \in [Requests -> {"idle", "create", "touch"}]
    /\ chatWhat = [p \in Requests |-> chatWhat[p]]
    /\ overlapped \in BOOLEAN
    /\ dismissed \subseteq MessageIds /\ opened \subseteq MessageIds /\ cut \subseteq MessageIds

\* A message is somebody's in a chat of theirs, which is there; and what a
\* request is about stays so.
MessagesOK ==
    /\ \A m \in MessageIds : messages[m] # None =>
          /\ chats[messages[m].chat] # None
          /\ messages[m].by \in Chat!Between(messages[m].chat)
    /\ \A p \in Requests :
          /\ chatAt[p] = "create" => chatWhat[p] \in People \X People \X Topics
          /\ chatAt[p] = "touch" => chatWhat[p] \in MessageIds /\ messages[chatWhat[p]] # None

NoSuchChat(w) ==
    ~\E c \in ChatIds : chats[c] # None /\ Chat!SameChat(chats[c], w[1], w[2], w[3])

\* Unless two openings overlap, nobody opens what is being opened.
OpenTurns ==
    /\ \A p, q \in Requests : chatAt[p] = "create" /\ chatAt[q] = "create" => p = q
    /\ \A p \in Requests : chatAt[p] = "create" => NoSuchChat(chatWhat[p])

ChatInv ==
    /\ ChatTypes /\ MessagesOK
    /\ ~overlapped => OpenTurns
    /\ Chat!OneChat /\ Chat!HiddenWasDismissed /\ Chat!ReadWasOpened

LEMMA ChatRows ==
  /\ None \notin Chat!Chats /\ None \notin Chat!Messages
  /\ \A row \in Chat!Chats :
        /\ row.a \in People /\ row.b \in People /\ row.about \in Topics
        /\ row.hidden \subseteq {"A", "B"}
  /\ \A row \in Chat!Messages : row.chat \in ChatIds /\ row.by \in People /\ row.read \in BOOLEAN
BY NoneAssumption DEF Chat!Chats, Chat!Messages

LEMMA ChatInit == Chat!Init => ChatInv
<1> SUFFICES ASSUME Chat!Init PROVE ChatInv
  OBVIOUS
<1>1. ChatTypes
  BY DEF Chat!Init, ChatTypes
<1>2. /\ \A c \in ChatIds : chats[c] = None
      /\ \A m \in MessageIds : messages[m] = None
      /\ \A p \in Requests : chatAt[p] = "idle"
  BY DEF Chat!Init
<1>3. QED
  BY <1>1, <1>2 DEF ChatInv, MessagesOK, OpenTurns, Chat!OneChat, Chat!HiddenWasDismissed,
                    Chat!ReadWasOpened

\* Chats stay whose and about what they are.
ChatsKept ==
    \A c \in ChatIds : chats[c] # None =>
        /\ chats'[c] # None /\ chats'[c].a = chats[c].a /\ chats'[c].b = chats[c].b
        /\ chats'[c].about = chats[c].about
NoneOpened == \A c \in ChatIds : chats[c] = None => chats'[c] = None

\* Only who sees it changes.
LEMMA HiddenKept ==
  ASSUME ChatTypes, NEW c \in ChatIds, chats[c] # None, NEW h \in SUBSET {"A", "B"},
         chats' = [chats EXCEPT ![c] = [chats[c] EXCEPT !.hidden = h]]
  PROVE  /\ chats' \in [ChatIds -> Chat!Chats \cup {None}] /\ ChatsKept /\ NoneOpened
         /\ chats'[c].hidden = h
         /\ \A d \in ChatIds \ {c} : chats'[d] = chats[d]
<1> DEFINE row == [chats[c] EXCEPT !.hidden = h]
<1>1. chats[c] \in Chat!Chats
  BY DEF ChatTypes
<1>2. /\ row \in Chat!Chats /\ row.hidden = h
      /\ row.a = chats[c].a /\ row.b = chats[c].b /\ row.about = chats[c].about
  BY <1>1 DEF Chat!Chats
<1> HIDE DEF row
<1>3. row # None
  BY <1>2, ChatRows
<1>4. chats' = [chats EXCEPT ![c] = row]
  BY DEF row
<1>5. QED
  BY <1>2, <1>3, <1>4 DEF ChatTypes, ChatsKept, NoneOpened

\* No request goes on with anything new.
NoneBegins ==
    \A q \in Requests : chatAt'[q] # "idle" => chatAt'[q] = chatAt[q] /\ chatWhat'[q] = chatWhat[q]

\* What a step keeps that opens no chat ...
LEMMA TurnsKept ==
  ASSUME ChatInv, ChatsKept, NoneOpened, UNCHANGED overlapped,
         \A q \in Requests : chatAt'[q] = "create" =>
            chatAt[q] = "create" /\ chatWhat'[q] = chatWhat[q]
  PROVE  (~overlapped' => OpenTurns') /\ Chat!OneChat'
<1>1. \A w : NoSuchChat(w) => NoSuchChat(w)'
  BY DEF NoSuchChat, Chat!SameChat, ChatsKept, NoneOpened
<1>2. ~overlapped' => OpenTurns'
  BY <1>1 DEF ChatInv, OpenTurns
<1>3. Chat!OneChat'
  BY DEF ChatInv, Chat!OneChat, Chat!Between, ChatsKept, NoneOpened
<1>4. QED
  BY <1>2, <1>3

\* ... and sends no message.
LEMMA MessagesKept ==
  ASSUME ChatInv, ChatsKept, NoneBegins, UNCHANGED messages
  PROVE  MessagesOK'
<1>1. \A m \in MessageIds : messages[m] # None => messages[m].chat \in ChatIds
  BY ChatRows DEF ChatInv, ChatTypes
<1>2. \A m \in MessageIds : messages'[m] # None =>
          /\ chats'[messages'[m].chat] # None
          /\ messages'[m].by \in Chat!Between(messages[m].chat)'
  BY <1>1 DEF ChatInv, MessagesOK, ChatsKept, Chat!Between
<1>3. QED
  BY <1>2 DEF ChatInv, MessagesOK, NoneBegins, Chat!Between

\* Whoever is not told of a message has deleted the chat since, or is about
\* to be told.
Accounted(m) ==
    \/ m \in cut \/ m \in dismissed
    \/ \E p \in Requests : chatAt[p] = "touch" /\ chatWhat[p] = m
Sees(c, u) == \/ chats[c].a = u /\ "A" \notin chats[c].hidden
              \/ chats[c].b = u /\ "B" \notin chats[c].hidden
IsTo(m, c, u) == messages[m] # None /\ messages[m].chat = c /\ messages[m].by # u
HiddenAccounted ==
    \A c \in ChatIds, m \in MessageIds : chats[c] # None =>
        \A u \in {chats[c].a, chats[c].b} : IsTo(m, c, u) => Sees(c, u) \/ Accounted(m)

LEMMA HiddenAs == Chat!HiddenWasDismissed <=> HiddenAccounted
<1>1. \A c \in ChatIds : chats[c] # None => \A u : c \in Chat!UserChats(u) <=> Sees(c, u)
  BY DEF Chat!UserChats, Sees
<1>2. \A c \in ChatIds : \A u, m : m \in Chat!SentTo(c, u) <=> m \in MessageIds /\ IsTo(m, c, u)
  BY DEF Chat!SentTo, Chat!Sent, IsTo
<1>3. QED
  BY <1>1, <1>2 DEF Chat!HiddenWasDismissed, HiddenAccounted, Chat!Between, Accounted

LEMMA OpenStep ==
  ASSUME ChatInv, NEW p \in Requests, NEW pair \in Pairs, NEW t \in Topics,
         Chat!Open(p, pair[1], pair[2], t)
  PROVE  ChatInv'
<1> DEFINE w == <<pair[1], pair[2], t>>
<1>1. w \in People \X People \X Topics /\ w[1] = pair[1] /\ w[2] = pair[2] /\ w[3] = t
  BY PairsAssumption
<1>2. /\ chatAt[p] = "idle" /\ chatAt'[p] = "create" /\ chatWhat'[p] = w
      /\ \A q \in Requests \ {p} : chatAt'[q] = chatAt[q] /\ chatWhat'[q] = chatWhat[q]
      /\ UNCHANGED <<chats, messages, dismissed, opened, cut>>
  BY DEF Chat!Open, Chat!Goto, ChatInv, ChatTypes
<1>3. ChatTypes'
  BY <1>2 DEF Chat!Open, Chat!Goto, ChatInv, ChatTypes
<1>4. NoSuchChat(w)
  BY DEF Chat!Open, NoSuchChat
<1> HIDE DEF w
<1>5. MessagesOK'
  BY <1>1, <1>2 DEF ChatInv, MessagesOK, Chat!Between
<1>6. ~overlapped' => ~overlapped /\ ~\E q \in Requests : chatAt[q] = "create"
  BY DEF Chat!Open, ChatInv, ChatTypes
<1>7. /\ ~overlapped' => OpenTurns'
      /\ Chat!OneChat'
  BY <1>2, <1>4, <1>6
     DEF OpenTurns, NoSuchChat, Chat!SameChat, ChatInv, Chat!OneChat, Chat!Between
<1>8. HiddenAccounted'
  BY <1>2, HiddenAs DEF ChatInv, HiddenAccounted, Accounted, Sees, IsTo
<1>9. Chat!ReadWasOpened'
  BY <1>2 DEF ChatInv, Chat!ReadWasOpened
<1>10. Chat!HiddenWasDismissed'
  BY <1>8, HiddenAs, PTL
<1>11. QED
  BY <1>3, <1>5, <1>7, <1>9, <1>10 DEF ChatInv

LEMMA CreateStep ==
  ASSUME ChatInv, NEW p \in Requests, Chat!Create(p)
  PROVE  ChatInv'
<1> DEFINE w == chatWhat[p]
           row == [a |-> w[1], b |-> w[2], about |-> w[3], hidden |-> {}]
<1>1. /\ chatAt[p] = "create" /\ chatAt'[p] = "idle"
      /\ \A q \in Requests \ {p} : chatAt'[q] = chatAt[q] /\ chatWhat'[q] = chatWhat[q]
      /\ UNCHANGED <<messages, overlapped, dismissed, opened, cut>>
  BY DEF Chat!Create, Chat!Goto, Chat!ghosts, ChatInv, ChatTypes
<1>2. w \in People \X People \X Topics
  BY <1>1 DEF ChatInv, MessagesOK
<1>3. row \in Chat!Chats
  BY <1>2 DEF Chat!Chats
<1>4. /\ chatAt' \in [Requests -> {"idle", "create", "touch"}]
      /\ chatWhat' = [q \in Requests |-> chatWhat'[q]]
  BY DEF Chat!Create, Chat!Goto, ChatInv, ChatTypes
<1>5. CASE UNCHANGED chats
  <2>1. ChatTypes' /\ MessagesOK'
    BY <1>1, <1>4, <1>5 DEF ChatInv, ChatTypes, MessagesOK, Chat!Between
  <2>2. ~overlapped' => OpenTurns'
    BY <1>1, <1>5 DEF ChatInv, OpenTurns, NoSuchChat, Chat!SameChat
  <2>3. Chat!OneChat' /\ Chat!ReadWasOpened'
    BY <1>1, <1>5 DEF ChatInv, Chat!OneChat, Chat!Between, Chat!ReadWasOpened
  <2>4. HiddenAccounted'
    BY <1>1, <1>5, HiddenAs DEF ChatInv, HiddenAccounted, Accounted, Sees, IsTo
  <2>5. Chat!HiddenWasDismissed'
    BY <2>4, HiddenAs, PTL
  <2>6. QED
    BY <2>1, <2>2, <2>3, <2>5 DEF ChatInv
<1>6. CASE ~UNCHANGED chats
  <2>1. PICK c \in ChatIds : chats[c] = None /\ chats' = [chats EXCEPT ![c] = row]
    <3>1. Chat!Free # {} /\ chats' = [chats EXCEPT ![CHOOSE c \in Chat!Free : TRUE] = row]
      BY <1>6 DEF Chat!Create
    <3>2. (CHOOSE c \in Chat!Free : TRUE) \in Chat!Free
      BY <3>1
    <3>3. QED
      BY <3>1, <3>2 DEF Chat!Free
  <2>2. row # None /\ row.hidden = {} /\ row.a = w[1] /\ row.b = w[2] /\ row.about = w[3]
    BY <1>3, ChatRows
  <2> HIDE DEF row
  <2>3. /\ chats'[c] = row
        /\ \A d \in ChatIds \ {c} : chats'[d] = chats[d]
        /\ chats' \in [ChatIds -> Chat!Chats \cup {None}]
    BY <1>3, <2>1 DEF ChatInv, ChatTypes
  <2>4. ChatTypes'
    BY <1>1, <1>4, <2>3 DEF ChatInv, ChatTypes
  <2>5. MessagesOK'
    <3>1. \A m \in MessageIds : messages[m] # None =>
            messages[m].chat \in ChatIds /\ messages[m].chat # c
      BY <2>1, ChatRows DEF ChatInv, ChatTypes, MessagesOK
    <3>2. QED
      BY <1>1, <2>3, <3>1 DEF ChatInv, MessagesOK, Chat!Between
  <2>6. ASSUME ~overlapped PROVE OpenTurns' /\ Chat!OneChat'
    <3>1. NoSuchChat(w) /\ \A q \in Requests : q # p => chatAt[q] # "create"
      BY <1>1, <2>6 DEF ChatInv, OpenTurns
    <3>2. \A d \in ChatIds \ {c} : chats[d] # None =>
            ~(Chat!Between(d) = {w[1], w[2]} /\ chats[d].about = w[3])
      BY <3>1 DEF NoSuchChat, Chat!SameChat, Chat!Between
    <3>3. Chat!OneChat'
      <4>1. Chat!Between(c)' = {w[1], w[2]} /\ chats'[c].about = w[3]
        BY <2>2, <2>3 DEF Chat!Between
      <4>2. \A d \in ChatIds \ {c} :
              Chat!Between(d)' = Chat!Between(d) /\ chats'[d].about = chats[d].about
        BY <2>3 DEF Chat!Between
      <4>3. \A d, e \in ChatIds : chats[d] # None /\ chats[e] # None
              /\ Chat!Between(d) = Chat!Between(e) /\ chats[d].about = chats[e].about => d = e
        BY <2>6 DEF ChatInv, Chat!OneChat
      <4>4. QED
        BY <2>3, <3>2, <4>1, <4>2, <4>3 DEF Chat!OneChat
    <3>4. QED
      BY <1>1, <3>1, <3>3 DEF OpenTurns
  <2>7. HiddenAccounted'
    <3>1. HiddenAccounted
      BY HiddenAs DEF ChatInv
    <3>2. \A u : u \in {row.a, row.b} => Sees(c, u)'
      BY <2>2, <2>3 DEF Sees
    <3>3. \A m : Accounted(m) => Accounted(m)'
      BY <1>1 DEF Accounted
    <3>4. QED
      BY <1>1, <2>3, <3>1, <3>2, <3>3 DEF HiddenAccounted, Sees, IsTo
  <2>8. Chat!HiddenWasDismissed'
    BY <2>7, HiddenAs, PTL
  <2>9. Chat!ReadWasOpened'
    BY <1>1 DEF ChatInv, Chat!ReadWasOpened
  <2>10. Chat!OneChat' /\ (~overlapped' => OpenTurns')
    BY <1>1, <2>6 DEF Chat!OneChat
  <2>11. QED
    BY <2>4, <2>5, <2>8, <2>9, <2>10 DEF ChatInv
<1>7. QED
  BY <1>5, <1>6

LEMMA SendStep ==
  ASSUME ChatInv, NEW p \in Requests, NEW u \in People, NEW c \in ChatIds, NEW m \in MessageIds,
         Chat!SendMessage(p, u, c, m)
  PROVE  ChatInv'
<1> DEFINE row == [chat |-> c, by |-> u, read |-> FALSE]
<1>1. /\ chatAt[p] = "idle" /\ chatAt'[p] = "touch" /\ chatWhat'[p] = m
      /\ \A q \in Requests \ {p} : chatAt'[q] = chatAt[q] /\ chatWhat'[q] = chatWhat[q]
      /\ UNCHANGED <<chats, overlapped, dismissed, opened, cut>>
      /\ messages[m] = None /\ chats[c] # None /\ u \in Chat!Between(c)
  BY DEF Chat!SendMessage, Chat!Goto, Chat!ghosts, ChatInv, ChatTypes
<1>2. /\ chatAt' \in [Requests -> {"idle", "create", "touch"}]
      /\ chatWhat' = [q \in Requests |-> chatWhat'[q]]
  BY DEF Chat!SendMessage, Chat!Goto, ChatInv, ChatTypes
<1>3. row \in Chat!Messages /\ row.chat = c /\ row.by = u /\ row.read = FALSE
  BY DEF Chat!Messages
<1>4. messages' = [messages EXCEPT ![m] = row]
  BY DEF Chat!SendMessage
<1> HIDE DEF row
<1>5. /\ messages' \in [MessageIds -> Chat!Messages \cup {None}]
      /\ messages'[m] = row /\ row # None
      /\ \A n \in MessageIds \ {m} : messages'[n] = messages[n]
  BY <1>3, <1>4, ChatRows DEF ChatInv, ChatTypes
<1>6. ChatTypes'
  BY <1>1, <1>2, <1>5 DEF ChatInv, ChatTypes
<1>7. MessagesOK'
  BY <1>1, <1>3, <1>5 DEF ChatInv, MessagesOK, Chat!Between
<1>8. /\ (~overlapped' => OpenTurns') /\ Chat!OneChat'
      /\ Chat!ReadWasOpened'
  <2>1. ChatsKept /\ NoneOpened
    BY <1>1 DEF ChatsKept, NoneOpened
  <2>2. (~overlapped' => OpenTurns') /\ Chat!OneChat'
    BY <1>1, <2>1, TurnsKept
  <2>3. Chat!ReadWasOpened'
    BY <1>1, <1>3, <1>5 DEF ChatInv, Chat!ReadWasOpened
  <2>4. QED
    BY <2>2, <2>3
<1>9. HiddenAccounted'
  <2>1. Accounted(m)' /\ \A n \in MessageIds : Accounted(n) => Accounted(n)'
    BY <1>1 DEF Accounted
  <2>2. QED
    BY <1>1, <1>5, <2>1, HiddenAs DEF ChatInv, HiddenAccounted, Sees, IsTo
<1>10. Chat!HiddenWasDismissed'
  BY <1>9, HiddenAs, PTL
<1>11. QED
  BY <1>6, <1>7, <1>8, <1>10 DEF ChatInv

LEMMA TouchStep ==
  ASSUME ChatInv, NEW p \in Requests, Chat!Touch(p)
  PROVE  ChatInv'
<1>1. /\ chatAt[p] = "touch" /\ chatAt'[p] = "idle"
      /\ \A q \in Requests \ {p} : chatAt'[q] = chatAt[q] /\ chatWhat'[q] = chatWhat[q]
      /\ UNCHANGED <<messages, overlapped, dismissed, opened, cut>>
      /\ chatAt' \in [Requests -> {"idle", "create", "touch"}]
      /\ chatWhat' = [q \in Requests |-> chatWhat'[q]]
  BY DEF Chat!Touch, Chat!Goto, Chat!ghosts, ChatInv, ChatTypes
<1>2. PICK m \in MessageIds : m = chatWhat[p] /\ messages[m] # None
  BY <1>1 DEF ChatInv, MessagesOK
<1>3. PICK c \in ChatIds, u \in People : c = messages[m].chat /\ u = messages[m].by
  BY <1>2, ChatRows DEF ChatInv, ChatTypes
<1>4. chats[c] # None /\ u \in {chats[c].a, chats[c].b}
  BY <1>2, <1>3 DEF ChatInv, MessagesOK, Chat!Between
<1>5. PICK h \in SUBSET {"A", "B"} :
        /\ h = chats[c].hidden \ {Chat!OtherSide(c, u)}
        /\ chats' = [chats EXCEPT ![c] = [chats[c] EXCEPT !.hidden = h]]
  <2>1. chats[c].hidden \ {Chat!OtherSide(c, u)} \in SUBSET {"A", "B"}
    BY <1>4, ChatRows DEF ChatInv, ChatTypes
  <2>2. chats' = [chats EXCEPT ![c] =
                    [chats[c] EXCEPT !.hidden = chats[c].hidden \ {Chat!OtherSide(c, u)}]]
    BY <1>2, <1>3 DEF Chat!Touch
  <2>3. QED
    BY <2>1, <2>2
<1>6. /\ chats' \in [ChatIds -> Chat!Chats \cup {None}] /\ ChatsKept /\ NoneOpened
      /\ chats'[c].hidden = h
      /\ \A d \in ChatIds \ {c} : chats'[d] = chats[d]
  BY <1>4, <1>5, HiddenKept DEF ChatInv
<1>7. HiddenAccounted'
  <2>1. \A d \in ChatIds : chats[d] # None => \A x : Sees(d, x) => Sees(d, x)'
    BY <1>5, <1>6 DEF Sees, ChatsKept
  <2>2. \A n \in MessageIds : Accounted(n) => n = m \/ Accounted(n)'
    BY <1>1, <1>2 DEF Accounted
  <2>3. \A x \in {chats[c].a, chats[c].b} : x # u => Sees(c, x)'
    BY <1>4, <1>5, <1>6 DEF Sees, ChatsKept, Chat!OtherSide
  <2>4. HiddenAccounted
    BY HiddenAs DEF ChatInv
  <2>5. ASSUME NEW d \in ChatIds, NEW n \in MessageIds, chats'[d] # None,
               NEW x \in {chats'[d].a, chats'[d].b}, IsTo(n, d, x)'
        PROVE  Sees(d, x)' \/ Accounted(n)'
    <3>1. chats[d] # None /\ x \in {chats[d].a, chats[d].b} /\ IsTo(n, d, x)
      BY <1>1, <1>6, <2>5 DEF ChatsKept, NoneOpened, IsTo
    <3>2. n = m => d = c /\ x # u
      BY <1>3, <3>1 DEF IsTo
    <3>3. Sees(d, x) \/ Accounted(n)
      BY <2>4, <3>1 DEF HiddenAccounted
    <3>4. QED
      BY <2>1, <2>2, <2>3, <3>1, <3>2, <3>3
  <2>6. QED
    BY <2>5 DEF HiddenAccounted
<1>8. Chat!HiddenWasDismissed'
  BY <1>7, HiddenAs, PTL
<1>9. ChatTypes'
  BY <1>1, <1>6 DEF ChatInv, ChatTypes
<1>10. NoneBegins
  BY <1>1 DEF NoneBegins
<1>11. MessagesOK' /\ (~overlapped' => OpenTurns') /\ Chat!OneChat'
  BY <1>1, <1>6, <1>10, TurnsKept, MessagesKept DEF NoneBegins
<1>12. Chat!ReadWasOpened'
  BY <1>1 DEF ChatInv, Chat!ReadWasOpened
<1>13. QED
  BY <1>8, <1>9, <1>11, <1>12 DEF ChatInv

LEMMA ChatCrashStep ==
  ASSUME ChatInv, NEW p \in Requests, Chat!Crash(p)
  PROVE  ChatInv'
<1>1. /\ chatAt'[p] = "idle"
      /\ \A q \in Requests \ {p} : chatAt'[q] = chatAt[q] /\ chatWhat'[q] = chatWhat[q]
      /\ UNCHANGED <<chats, messages, overlapped, dismissed, opened>>
      /\ chatAt' \in [Requests -> {"idle", "create", "touch"}]
      /\ chatWhat' = [q \in Requests |-> chatWhat'[q]]
      /\ cut \subseteq cut' /\ (chatAt[p] = "touch" => chatWhat[p] \in cut')
  BY DEF Chat!Crash, Chat!Goto, ChatInv, ChatTypes
<1>2. cut' \subseteq MessageIds
  BY DEF Chat!Crash, ChatInv, ChatTypes, MessagesOK
<1>3. ChatTypes' /\ Chat!ReadWasOpened'
  BY <1>1, <1>2 DEF ChatInv, ChatTypes, Chat!ReadWasOpened
<1>4. MessagesOK' /\ (~overlapped' => OpenTurns') /\ Chat!OneChat'
  <2>1. NoneBegins /\ ChatsKept /\ NoneOpened
    BY <1>1 DEF NoneBegins, ChatsKept, NoneOpened
  <2>2. QED
    BY <1>1, <2>1, TurnsKept, MessagesKept DEF NoneBegins
<1>5. HiddenAccounted'
  BY <1>1, HiddenAs DEF ChatInv, HiddenAccounted, Accounted, Sees, IsTo
<1>6. Chat!HiddenWasDismissed'
  BY <1>5, HiddenAs, PTL
<1>7. QED
  BY <1>3, <1>4, <1>6 DEF ChatInv

\* A chat is deleted, by one of the two.
LEMMA DeleteChatStep ==
  ASSUME ChatInv, NEW u \in People, NEW c \in ChatIds, Chat!DeleteChat(u, c)
  PROVE  ChatInv'
<1>1. /\ chats[c] # None /\ u \in {chats[c].a, chats[c].b}
      /\ UNCHANGED <<messages, chatAt, chatWhat, overlapped, opened, cut>>
  BY DEF Chat!DeleteChat, Chat!Between
<1>2. /\ dismissed \subseteq dismissed' /\ dismissed' \subseteq MessageIds
      /\ \A m \in MessageIds : IsTo(m, c, u) => m \in dismissed'
  BY DEF Chat!DeleteChat, Chat!SentTo, Chat!Sent, IsTo, ChatInv, ChatTypes
<1>3. PICK h \in SUBSET {"A", "B"} :
        /\ h = chats[c].hidden \cup {Chat!Side(c, u)}
        /\ chats' = [chats EXCEPT ![c] = [chats[c] EXCEPT !.hidden = h]]
  <2>1. chats[c].hidden \cup {Chat!Side(c, u)} \in SUBSET {"A", "B"}
    BY <1>1, ChatRows DEF ChatInv, ChatTypes, Chat!Side
  <2>2. chats' = [chats EXCEPT ![c] =
                    [chats[c] EXCEPT !.hidden = chats[c].hidden \cup {Chat!Side(c, u)}]]
    BY DEF Chat!DeleteChat
  <2>3. QED
    BY <2>1, <2>2
<1>4. /\ chats' \in [ChatIds -> Chat!Chats \cup {None}] /\ ChatsKept /\ NoneOpened
      /\ chats'[c].hidden = h
      /\ \A d \in ChatIds \ {c} : chats'[d] = chats[d]
  BY <1>1, <1>3, HiddenKept DEF ChatInv
<1>5. HiddenAccounted'
  <2>1. \A d \in ChatIds : \A x : chats[d] # None /\ Sees(d, x) /\ ~Sees(d, x)' => d = c /\ x = u
    BY <1>1, <1>3, <1>4 DEF Sees, ChatsKept, Chat!Side
  <2>2. \A n \in MessageIds : Accounted(n) \/ n \in dismissed' => Accounted(n)'
    BY <1>1, <1>2 DEF Accounted
  <2>3. ASSUME NEW d \in ChatIds, NEW n \in MessageIds, chats'[d] # None,
               NEW x \in {chats'[d].a, chats'[d].b}, IsTo(n, d, x)'
        PROVE  Sees(d, x)' \/ Accounted(n)'
    <3>1. chats[d] # None /\ x \in {chats[d].a, chats[d].b} /\ IsTo(n, d, x)
      BY <1>1, <1>4, <2>3 DEF ChatsKept, NoneOpened, IsTo
    <3>2. Sees(d, x) \/ Accounted(n)
      BY <3>1, HiddenAs DEF HiddenAccounted, ChatInv
    <3>3. QED
      BY <1>2, <2>1, <2>2, <3>1, <3>2
  <2>4. QED
    BY <2>3 DEF HiddenAccounted
<1>6. Chat!HiddenWasDismissed'
  BY <1>5, HiddenAs, PTL
<1>7. ChatTypes'
  BY <1>1, <1>2, <1>4 DEF ChatInv, ChatTypes
<1>8. MessagesOK' /\ (~overlapped' => OpenTurns') /\ Chat!OneChat'
  <2>1. NoneBegins
    BY <1>1 DEF NoneBegins
  <2>2. QED
    BY <1>1, <1>4, <2>1, TurnsKept, MessagesKept
<1>9. Chat!ReadWasOpened'
  BY <1>1 DEF ChatInv, Chat!ReadWasOpened
<1>10. QED
  BY <1>6, <1>7, <1>8, <1>9 DEF ChatInv

\* Messages are read.
LEMMA ReadStep ==
  ASSUME ChatInv, NEW u \in People, NEW c \in ChatIds, Chat!MarkMessagesRead(u, c)
  PROVE  ChatInv'
<1>1. UNCHANGED <<chats, chatAt, chatWhat, overlapped, dismissed, cut>>
  BY DEF Chat!MarkMessagesRead
<1>2. \A m \in MessageIds :
        \/ messages'[m] = messages[m]
        \/ /\ messages[m] # None /\ messages'[m] = [messages[m] EXCEPT !.read = TRUE]
           /\ m \in opened'
  BY DEF Chat!MarkMessagesRead, Chat!Unread, Chat!SentTo, Chat!Sent
<1>3. /\ opened \subseteq opened' /\ opened' \subseteq MessageIds
      /\ messages' = [m \in MessageIds |-> messages'[m]]
  BY DEF Chat!MarkMessagesRead, Chat!SentTo, Chat!Sent, ChatInv, ChatTypes
<1>4. \A m \in MessageIds : messages[m] # None =>
        LET row == [messages[m] EXCEPT !.read = TRUE] IN
        row \in Chat!Messages /\ row.chat = messages[m].chat /\ row.by = messages[m].by
  BY DEF ChatInv, ChatTypes, Chat!Messages
<1>5. \A m \in MessageIds :
        /\ messages'[m] \in Chat!Messages \cup {None}
        /\ messages'[m] = None <=> messages[m] = None
        /\ messages[m] # None =>
              messages'[m].chat = messages[m].chat /\ messages'[m].by = messages[m].by
        /\ messages[m] # None /\ messages'[m].read => messages[m].read \/ m \in opened'
  <2> TAKE m \in MessageIds
  <2> DEFINE row == [messages[m] EXCEPT !.read = TRUE]
  <2>1. messages[m] \in Chat!Messages \cup {None}
    BY DEF ChatInv, ChatTypes
  <2>2. CASE messages'[m] = messages[m]
    BY <2>1, <2>2
  <2>3. CASE messages[m] # None /\ messages'[m] = row /\ m \in opened'
    <3>1. row \in Chat!Messages /\ row.chat = messages[m].chat /\ row.by = messages[m].by
      BY <1>4, <2>3
    <3> HIDE DEF row
    <3>2. QED
      BY <2>3, <3>1, ChatRows
  <2>4. QED
    BY <1>2, <2>2, <2>3
<1>6. ChatTypes'
  BY <1>1, <1>3, <1>5 DEF ChatInv, ChatTypes
<1>7. MessagesOK'
  BY <1>1, <1>5 DEF ChatInv, MessagesOK, Chat!Between
<1>8. (~overlapped' => OpenTurns') /\ Chat!OneChat'
  <2>1. ChatsKept /\ NoneOpened
    BY <1>1 DEF ChatsKept, NoneOpened
  <2>2. QED
    BY <1>1, <2>1, TurnsKept
<1>9. Chat!ReadWasOpened'
  BY <1>3, <1>5 DEF ChatInv, Chat!ReadWasOpened
<1>10. HiddenAccounted'
  <2>1. HiddenAccounted
    BY HiddenAs DEF ChatInv
  <2>2. \A n \in MessageIds : \A d, x : IsTo(n, d, x)' => IsTo(n, d, x)
    BY <1>5 DEF IsTo
  <2>3. \A n \in MessageIds : Accounted(n) => Accounted(n)'
    BY <1>1 DEF Accounted
  <2>4. \A d, x : Sees(d, x)' <=> Sees(d, x)
    BY <1>1 DEF Sees
  <2>5. QED
    BY <1>1, <2>1, <2>2, <2>3, <2>4 DEF HiddenAccounted
<1>11. Chat!HiddenWasDismissed'
  BY <1>10, HiddenAs, PTL
<1>12. QED
  BY <1>6, <1>7, <1>8, <1>9, <1>11 DEF ChatInv

LEMMA ChatInvariant == ServicesSpec => []ChatInv
<1>1. ChatInv /\ [Chat!Next]_(Chat!vars) => ChatInv'
  <2> SUFFICES ASSUME ChatInv, [Chat!Next]_(Chat!vars) PROVE ChatInv'
    OBVIOUS
  <2>1. CASE UNCHANGED Chat!vars
    <3>1. UNCHANGED <<chats, messages, chatAt, chatWhat, overlapped, dismissed, opened, cut>>
      BY <2>1 DEF Chat!vars
    <3>2. ChatTypes' /\ MessagesOK' /\ Chat!ReadWasOpened'
      BY <3>1 DEF ChatInv, ChatTypes, MessagesOK, Chat!Between, Chat!ReadWasOpened
    <3>3. (~overlapped' => OpenTurns') /\ Chat!OneChat'
      BY <3>1, TurnsKept DEF ChatsKept, NoneOpened
    <3>4. HiddenAccounted'
      BY <3>1, HiddenAs DEF ChatInv, HiddenAccounted, Accounted, Sees, IsTo
    <3>5. Chat!HiddenWasDismissed'
      BY <3>4, HiddenAs, PTL
    <3>6. QED
      BY <3>2, <3>3, <3>5 DEF ChatInv
  <2>2. QED
    BY <2>1, OpenStep, CreateStep, SendStep, TouchStep, ChatCrashStep, DeleteChatStep, ReadStep
       DEF Chat!Next
<1>2. QED
  BY ChatInit, <1>1, EachServiceSteps, PTL DEF Chat!Spec

\* Unless two openings overlap, two people have one chat about a listing, and
\* one about nothing, whoever opened it (findOrCreateChat).
THEOREM ChatsAreOne == ServicesSpec => []OneChat
<1>1. ChatInv => OneChat
  BY DEF ChatInv, OneChat
<1>2. QED
  BY ChatInvariant, <1>1, PTL

\* No message is lost on its recipient, however many of them, of deletions and
\* of readings cross, unless its sending died (sendMessage, deleteChat,
\* markMessagesRead).
THEOREM MessagesAreSeen == ServicesSpec => []NothingUnseen
<1>1. ChatInv => NothingUnseen
  BY DEF ChatInv, NothingUnseen, Chat!NothingUnseen
<1>2. QED
  BY ChatInvariant, <1>1, PTL
-----------------------------------------------------------------------------
(* Types.                                                                  *)

LEMMA NoticesTypes == ServicesSpec => []Note!TypeOK
<1> DEFINE Rest == /\ leaving \subseteq People \X Devices
                   /\ notice \in [NoticeIds -> People \cup {None}]
                   /\ unread \subseteq NoticeIds /\ reading \subseteq NoticeIds
                   /\ pushes \subseteq NoticeIds \X Devices
                   /\ stale \subseteq Devices /\ overtaken \subseteq Devices
<1>1. Note!Init => Rest
  BY DEF Note!Init
<1>2. NoteInv /\ Rest /\ [Note!Next]_(Note!vars) => Rest'
  <2> SUFFICES ASSUME NoteInv, Rest, [Note!Next]_(Note!vars) PROVE Rest'
    OBVIOUS
  <2>1. ASSUME NEW d \in Devices, Note!SignOut(d) PROVE Rest'
    BY <2>1 DEF Note!SignOut, NoteInv, NoteTypes, Registrations, Note!rows
  <2>2. ASSUME NEW d \in Devices, Note!RegisterPushToken(d) \/ Note!RemoveApp(d) PROVE Rest'
    BY <2>2 DEF Note!RegisterPushToken, Note!RemoveApp, Note!rows
  <2>3. ASSUME NEW u \in People, NEW d \in Devices, Note!SignIn(d, u) \/ Note!DeregisterPushToken(u, d)
        PROVE  Rest'
    BY <2>3 DEF Note!SignIn, Note!DeregisterPushToken, Note!Left, Note!rows
  <2>4. ASSUME NEW u \in People, NEW n \in NoticeIds, Note!CreateAndSend(u, n) \/ Note!FindUnread(u, n)
        PROVE  Rest'
    BY <2>4 DEF Note!CreateAndSend, Note!FindUnread
  <2>5. ASSUME NEW n \in NoticeIds, NEW d \in Devices, Note!Push(n, d)
        PROVE  Rest'
    BY <2>5 DEF Note!Push, Note!rows
  <2>6. ASSUME NEW n \in NoticeIds, Note!MarkAsRead(n) PROVE Rest'
    BY <2>6 DEF Note!MarkAsRead
  <2>7. ASSUME NEW u \in People, Note!MarkAllAsRead(u) PROVE Rest'
    BY <2>7 DEF Note!MarkAllAsRead
  <2>8. CASE UNCHANGED Note!vars
    BY <2>8 DEF Note!vars
  <2>9. QED
    BY <2>1, <2>2, <2>3, <2>4, <2>5, <2>6, <2>7, <2>8 DEF Note!Next
<1>3. NoteInv /\ Rest => Note!TypeOK
  BY DEF NoteInv, NoteTypes, Note!TypeOK
<1> HIDE DEF Rest
<1>4. QED
  BY <1>1, <1>2, <1>3, NoteInvariant, EachServiceSteps, PTL DEF Note!Spec

LEMMA CrmTypes == ServicesSpec => []Broker!TypeOK
<1> DEFINE Rest == /\ deals \in [DealIds -> Broker!Owned \cup {None}] /\ crmCrossed \subseteq ReminderIds
                   /\ \A p \in Requests : crmAt[p] = "deleteDeal" =>
                         crmWhat[p][1] \in DealIds /\ deals[crmWhat[p][1]] # None
<1>1. Broker!Init => Rest
  BY DEF Broker!Init
<1>2. BrokerInv /\ Rest /\ [Broker!Next]_(Broker!vars) => Rest'
  <2> SUFFICES ASSUME BrokerInv, Rest, [Broker!Next]_(Broker!vars) PROVE Rest'
    OBVIOUS
  <2>0. crmAt \in [Requests -> Broker!Steps] /\ crmWhat = [p \in Requests |-> crmWhat[p]]
    BY DEF BrokerInv, ReadsOK
  <2>1. ASSUME NEW p \in Requests, NEW step \in Broker!Steps, NEW w, Broker!Goto(p, step, w),
               step = "deleteDeal" => w[1] \in DealIds /\ deals[w[1]] # None,
               deals' \in [DealIds -> Broker!Owned \cup {None}], crmCrossed' \subseteq ReminderIds,
               \A d \in DealIds : deals[d] # None => deals'[d] # None
        PROVE  Rest'
    BY <2>0, <2>1 DEF Broker!Goto
  <2>2. ASSUME NEW p \in Requests, NEW b \in People, NEW c \in ClientIds, Broker!CreateClient(p, b, c)
        PROVE  Rest'
    BY <2>1, <2>2 DEF Broker!CreateClient, Broker!Steps
  <2>3. ASSUME NEW p \in Requests, NEW b \in People, NEW c \in ClientIds, Broker!FindClient(p, b, c)
        PROVE  Rest'
    BY <2>1, <2>3 DEF Broker!FindClient, Broker!Steps
  <2>4. ASSUME NEW p \in Requests, NEW b \in People, NEW r \in ReminderIds, Broker!FindReminder(p, b, r)
        PROVE  Rest'
    BY <2>1, <2>4 DEF Broker!FindReminder, Broker!Steps
  <2>5. ASSUME NEW p \in Requests, NEW r \in ReminderIds, Broker!CreateReminder(p, r) PROVE Rest'
    BY <2>1, <2>5 DEF Broker!CreateReminder, Broker!Done, Broker!Steps
  <2>6. ASSUME NEW b \in People, NEW d \in DealIds, Broker!CreateDeal(b, d) PROVE Rest'
    BY <2>6, NoneAssumption DEF Broker!CreateDeal, Broker!Owned
  <2>7. ASSUME NEW p \in Requests, NEW b \in People, NEW d \in DealIds, Broker!FindDeal(p, b, d)
        PROVE  Rest'
    BY <2>1, <2>7 DEF Broker!FindDeal, Broker!Steps, Broker!IsOwn
  <2>8. ASSUME NEW p \in Requests,
               Broker!UpdateClient(p) \/ Broker!DeleteClient(p) \/ Broker!MarkReminderDone(p) \/ Broker!Crash(p)
        PROVE  Rest'
    BY <2>1, <2>8 DEF Broker!UpdateClient, Broker!DeleteClient, Broker!MarkReminderDone, Broker!Crash,
       Broker!Done, Broker!Steps
  <2>9. ASSUME NEW p \in Requests, Broker!DeleteReminder(p) PROVE Rest'
    <3>1. crmCrossed' \subseteq ReminderIds
      BY <2>9 DEF Broker!DeleteReminder, BrokerInv, ReadsOK
    <3>2. QED
      BY <2>1, <2>9, <3>1 DEF Broker!DeleteReminder, Broker!Done, Broker!Steps
  <2>10. ASSUME NEW p \in Requests, Broker!DeleteDeal(p) PROVE Rest'
    <3> DEFINE d == crmWhat[p][1]
    <3>1. d \in DealIds /\ deals[d] \in Broker!Owned
      BY <2>10 DEF Broker!DeleteDeal
    <3>2. [deals[d] EXCEPT !.removed = TRUE] \in Broker!Owned
      BY <3>1 DEF Broker!Owned
    <3>3. deals' = [deals EXCEPT ![d] = [deals[d] EXCEPT !.removed = TRUE]] /\ UNCHANGED crmCrossed
          /\ Broker!Goto(p, "idle", None)
      BY <2>10 DEF Broker!DeleteDeal, Broker!Done
    <3> HIDE DEF d
    <3>4. /\ deals' \in [DealIds -> Broker!Owned \cup {None}]
          /\ \A x \in DealIds : deals[x] # None => deals'[x] # None
      BY <3>1, <3>2, <3>3, NoneAssumption
    <3>5. QED
      BY <2>1, <3>3, <3>4 DEF Broker!Steps
  <2>11. CASE UNCHANGED Broker!vars
    BY <2>11 DEF Broker!vars
  <2>12. QED
    BY <2>2, <2>3, <2>4, <2>5, <2>6, <2>7, <2>8, <2>9, <2>10, <2>11 DEF Broker!Next
<1>3. BrokerInv /\ Rest => Broker!TypeOK
  BY DEF BrokerInv, RowsOK, ReadsOK, Broker!TypeOK
<1> HIDE DEF Rest
<1>4. QED
  BY <1>1, <1>2, <1>3, BrokerInvariant, EachServiceSteps, PTL DEF Broker!Spec

\* Every variable of the services keeps its type: the rows of their entities,
\* what their requests have read, and the counts within their bounds.
THEOREM ServicesTypes == ServicesSpec => []ServicesTypeOK
<1>1. ServicesSpec => Spec
  BY EachServiceSteps, PTL DEF Spec, ServicesSpec, ServicesInit
<1>2. ChatInv => Chat!TypeOK
  BY DEF ChatInv, ChatTypes, Chat!TypeOK
<1>3. /\ PersonInv => Person!TypeOK
      /\ AccountInv => Account!TypeOK
      /\ AlertInv => Alert!TypeOK
      /\ ProjectInv => Project!TypeOK
  BY DEF PersonInv, AccountInv, AlertInv, ProjectInv
<1>4. TypeOK /\ Pay!TypeOK /\ Chat!TypeOK /\ Alert!TypeOK /\ Project!TypeOK /\ Account!TypeOK
        /\ Person!TypeOK /\ Note!TypeOK /\ Broker!TypeOK => ServicesTypeOK
  BY DEF ServicesTypeOK
<1>5. QED
  BY <1>1, <1>2, <1>3, <1>4, NumberingTypes, PaymentsTypes, ChatInvariant, AlertInvariant,
     ProjectInvariant, AccountInvariant, PersonInvariant, NoticesTypes, CrmTypes, PTL
=============================================================================
