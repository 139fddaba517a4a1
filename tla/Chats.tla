------------------------------- MODULE Chats --------------------------------
(***************************************************************************)
(* Chats between two people, about a listing or about nothing, and their   *)
(* messages (chat.service.ts, chat.gateway.ts).  No transaction spans two  *)
(* statements.  What is pushed to sockets is left out, and so is the       *)
(* listing's count of chats.                                               *)
(***************************************************************************)
EXTENDS FiniteSets

CONSTANTS
    People,
    Pairs,          \* bound: who asks for a chat with whom
    Topics,         \* listings, and NoListing
    NoListing,
    ChatIds, MessageIds,
    Requests,       \* concurrent requests
    NoRow

VARIABLES
    chats,          \* chats rows
    messages,       \* messages rows
    at, what,       \* each request: where it is, what it is about
    overlapped,     \* whether two openings of a chat ever overlapped
    dismissed,      \* messages that were there when their recipient deleted the chat
    opened,         \* messages whose recipient has opened the chat since
    cut             \* messages whose sending died half way

vars == <<chats, messages, at, what, overlapped, dismissed, opened, cut>>
ghosts == <<overlapped, dismissed, opened, cut>>

\* hidden: isDeletedByA and isDeletedByB.  Nothing keeps a person from opening
\* a chat with themselves, in which they are both.
Chats == [a: People, b: People, about: Topics, hidden: SUBSET {"A", "B"}]
Messages == [chat: ChatIds, by: People, read: BOOLEAN]

TypeOK ==
    /\ chats \in [ChatIds -> Chats \cup {NoRow}]
    /\ messages \in [MessageIds -> Messages \cup {NoRow}]
    /\ at \in [Requests -> {"idle", "create", "touch"}]
    /\ overlapped \in BOOLEAN
    /\ dismissed \subseteq MessageIds /\ opened \subseteq MessageIds /\ cut \subseteq MessageIds

Init ==
    /\ chats = [c \in ChatIds |-> NoRow]
    /\ messages = [m \in MessageIds |-> NoRow]
    /\ at = [p \in Requests |-> "idle"]
    /\ what = [p \in Requests |-> NoRow]
    /\ overlapped = FALSE
    /\ dismissed = {} /\ opened = {} /\ cut = {}

Free == {c \in ChatIds : chats[c] = NoRow}

Goto(p, step, w) == at' = [at EXCEPT ![p] = step] /\ what' = [what EXCEPT ![p] = w]

Between(c) == {chats[c].a, chats[c].b}
Sent(c) == {m \in MessageIds : messages[m] # NoRow /\ messages[m].chat = c}
Side(c, u) == IF chats[c].a = u THEN "A" ELSE "B"
OtherSide(c, u) == IF chats[c].a = u THEN "B" ELSE "A"
SentTo(c, u) == {m \in Sent(c) : messages[m].by # u}

\* getUserChats: the chats u sees, with how many messages are unread.
UserChats(u) == {c \in ChatIds : /\ chats[c] # NoRow
                                 /\ \/ chats[c].a = u /\ "A" \notin chats[c].hidden
                                    \/ chats[c].b = u /\ "B" \notin chats[c].hidden}
Unread(c, u) == {m \in SentTo(c, u) : ~messages[m].read}

\* Mutant of SameChat: only the order the chat was opened in.
SameDirection(row, a, b, t) == row.a = a /\ row.b = b /\ row.about = t

SameChat(row, a, b, t) == {row.a, row.b} = {a, b} /\ row.about = t

-----------------------------------------------------------------------------
\* findOrCreateChat: looks for the chat, whoever opened it ...
Open(p, a, b, t) ==
    /\ at[p] = "idle"
    /\ ~\E c \in ChatIds : chats[c] # NoRow /\ SameChat(chats[c], a, b, t)
    /\ Goto(p, "create", <<a, b, t>>)
    /\ overlapped' = (overlapped \/ \E q \in Requests : at[q] = "create")
    /\ UNCHANGED <<chats, messages, dismissed, opened, cut>>

\* ... and inserts it.  The unique index only refuses the same pair in the
\* same order about the same listing: no two NULLs are the same.
Create(p) ==
    LET row == [a |-> what[p][1], b |-> what[p][2], about |-> what[p][3], hidden |-> {}] IN
    /\ at[p] = "create"
    /\ Goto(p, "idle", NoRow)
    /\ IF row.about # NoListing /\ \E c \in ChatIds : chats[c] # NoRow
              /\ <<chats[c].a, chats[c].b, chats[c].about>> = what[p]
       THEN UNCHANGED chats
       ELSE Free # {} /\ chats' = [chats EXCEPT ![CHOOSE c \in Free : TRUE] = row]
    /\ UNCHANGED <<messages, ghosts>>

\* sendMessage: the message is saved ...
SendMessage(p, u, c, m) ==
    /\ at[p] = "idle" /\ messages[m] = NoRow
    /\ chats[c] # NoRow /\ u \in Between(c)
    /\ messages' = [messages EXCEPT ![m] = [chat |-> c, by |-> u, read |-> FALSE]]
    /\ Goto(p, "touch", m)
    /\ UNCHANGED <<chats, ghosts>>

\* Mutant of Touch: the chat comes back to its sender.
TouchSender(p) ==
    LET m == messages[what[p]] IN
    /\ at[p] = "touch"
    /\ chats' = [chats EXCEPT ![m.chat].hidden = @ \ {Side(m.chat, m.by)}]
    /\ Goto(p, "idle", NoRow)
    /\ UNCHANGED <<messages, ghosts>>

\* ... and brings the chat back to the one it is for.
Touch(p) ==
    LET m == messages[what[p]] IN
    /\ at[p] = "touch"
    /\ chats' = [chats EXCEPT ![m.chat].hidden = @ \ {OtherSide(m.chat, m.by)}]
    /\ Goto(p, "idle", NoRow)
    /\ UNCHANGED <<messages, ghosts>>

\* The server dies between the two.
Crash(p) ==
    /\ at[p] # "idle"
    /\ Goto(p, "idle", NoRow)
    /\ cut' = IF at[p] = "touch" THEN cut \cup {what[p]} ELSE cut
    /\ UNCHANGED <<chats, messages, overlapped, dismissed, opened>>

\* deleteChat: hides it from the one who asks.
DeleteChat(u, c) ==
    /\ chats[c] # NoRow /\ u \in Between(c)
    /\ chats' = [chats EXCEPT ![c].hidden = @ \cup {Side(c, u)}]
    /\ dismissed' = dismissed \cup SentTo(c, u)
    /\ UNCHANGED <<messages, at, what, overlapped, opened, cut>>

\* markMessagesRead, also when a socket joins the chat (join_chat).
MarkMessagesRead(u, c) ==
    /\ chats[c] # NoRow /\ u \in Between(c) /\ Unread(c, u) # {}
    /\ messages' = [m \in MessageIds |->
                      IF m \in Unread(c, u) THEN [messages[m] EXCEPT !.read = TRUE] ELSE messages[m]]
    /\ opened' = opened \cup SentTo(c, u)
    /\ UNCHANGED <<chats, at, what, overlapped, dismissed, cut>>

Next ==
    \/ \E p \in Requests, pair \in Pairs, t \in Topics : Open(p, pair[1], pair[2], t)
    \/ \E p \in Requests, u \in People, c \in ChatIds, m \in MessageIds : SendMessage(p, u, c, m)
    \/ \E p \in Requests : Create(p) \/ Touch(p) \/ Crash(p)
    \/ \E u \in People, c \in ChatIds : DeleteChat(u, c) \/ MarkMessagesRead(u, c)

Spec == Init /\ [][Next]_vars

-----------------------------------------------------------------------------
\* Unless two openings overlap, two people have one chat about a listing, and
\* one about nothing, whoever opened it (findOrCreateChat; the unique index
\* alone would let each of them have one).
OneChat ==
    ~overlapped => \A c, d \in ChatIds :
        chats[c] # NoRow /\ chats[d] # NoRow
          /\ Between(c) = Between(d) /\ chats[c].about = chats[d].about => c = d

\* Whoever does not see a chat has deleted it since every message to them:
\* however a deletion and a message cross, no message stays out of sight,
\* unless its sending died (sendMessage, deleteChat).
HiddenWasDismissed ==
    \A c \in ChatIds : chats[c] # NoRow => \A u \in Between(c) : c \notin UserChats(u) =>
        \A m \in SentTo(c, u) \ cut :
            m \in dismissed \/ \E p \in Requests : at[p] = "touch" /\ what[p] = m

\* A message only counts as read once its recipient has opened the chat
\* after it was sent, though both open the same chat (markMessagesRead).
ReadWasOpened ==
    \A m \in MessageIds : messages[m] # NoRow /\ messages[m].read => m \in opened

\* No message is lost on its recipient, out of sight or taken for read.
NothingUnseen == HiddenWasDismissed /\ ReadWasOpened
=============================================================================
