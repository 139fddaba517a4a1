------------------------------ MODULE Identity ------------------------------
(***************************************************************************)
(* What a Nafath login promises, without the callbacks, the polls, the     *)
(* crons and the processes: a person's approval of a request is exchanged  *)
(* at most once, and an account carries an identity only on the strength   *)
(* of an exchanged approval, for good, and alone.                          *)
(***************************************************************************)
EXTENDS Naturals

CONSTANTS RequestIds, NationalIds, Users, NoId

VARIABLES
    nid,            \* whose approval each request asks for, NoId before it is made
    approved,       \* requests the person approved in the Nafath app or on its page
    answers,        \* how often a request has been exchanged
    nationalId      \* the identity each account carries, or NoId

vars == <<nid, approved, answers, nationalId>>

Init ==
    /\ nid = [r \in RequestIds |-> NoId]
    /\ approved = {}
    /\ answers = [r \in RequestIds |-> 0]
    /\ nationalId = [u \in Users |-> NoId]

\* A person is asked, or comes with an approval given on Nafath's own page.
Ask(r, n) ==
    /\ nid[r] = NoId
    /\ nid' = [nid EXCEPT ![r] = n]
    /\ approved' \in {approved, approved \cup {r}}
    /\ UNCHANGED <<answers, nationalId>>

Approve(r) ==
    /\ nid[r] # NoId
    /\ approved' = approved \cup {r}
    /\ UNCHANGED <<nid, answers, nationalId>>

\* The client gets a session, or a token to link an account with.
Answer(r) ==
    /\ r \in approved
    /\ answers[r] = 0
    /\ answers' = [answers EXCEPT ![r] = 1]
    /\ UNCHANGED <<nid, approved, nationalId>>

Link(r, u) ==
    /\ answers[r] = 1
    /\ nationalId[u] = NoId
    /\ \A v \in Users : nationalId[v] # nid[r]
    /\ nationalId' = [nationalId EXCEPT ![u] = nid[r]]
    /\ UNCHANGED <<nid, approved, answers>>

Next ==
    \/ \E r \in RequestIds, n \in NationalIds : Ask(r, n)
    \/ \E r \in RequestIds : Approve(r) \/ Answer(r)
    \/ \E r \in RequestIds, u \in Users : Link(r, u)

Spec == Init /\ [][Next]_vars
=============================================================================
