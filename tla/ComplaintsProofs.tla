-------------------------- MODULE ComplaintsProofs --------------------------
(***************************************************************************)
(* Proofs about Complaints: numbers without gaps or duplicates, and the    *)
(* one way in which a submission can be refused.                           *)
(***************************************************************************)
EXTENDS Complaints, TLAPS

\* The advisory lock does its work.
Turns == \A p, q \in Submissions :
            p # q /\ pc[p] \in Holding /\ pc[q] \in Holding => my[p] # my[q]

\* What a submission found is still the latest when it inserts.
Found == \A p \in Submissions : pc[p] = "insert" => IsLatest(latest[p], my[p])

IInv == TypeOK /\ NumbersConsecutive /\ Turns /\ Found

LEMMA WidthFacts == Full \in Nat /\ Full > 1 /\ Full \div Base < Full - 1
  BY WidthAssumption

\* As long as a year's numbers fit in Width digits, the greatest text is the
\* greatest number; once Full is among them it is Full - 1, for ever.
LEMMA LatestFacts ==
  ASSUME NEW y \in Years, NEW n \in Numbers \cup {0}, TypeOK, NumbersConsecutive, IsLatest(n, y)
  PROVE  /\ n + 1 \in Numbers
         /\ n + 1 \in complaints[y] => Full \in complaints[y]
         /\ \A m \in 1 .. n : m \in complaints[y]
<1> DEFINE C == complaints[y]
<1>1. C \in SUBSET Numbers /\ \A k \in C : \A m \in 1 .. k : m \in C
  BY DEF TypeOK, NumbersConsecutive
<1>2. CASE C = {}
  BY <1>1, <1>2, WidthFacts DEF IsLatest, Numbers
<1>3. CASE C # {}
  <2>1. n \in C /\ \A m \in C : ~TextLess(n, m)
    BY <1>3 DEF IsLatest
  <2>2. n \in Nat /\ 1 <= n /\ n <= Full
    BY <2>1, <1>1, WidthFacts DEF Numbers
  <2>3. n # Full
    <3> SUFFICES ASSUME n = Full PROVE FALSE
      OBVIOUS
    <3>1. Full - 1 \in C
      BY <1>1, <2>1, WidthFacts
    <3>2. TextLess(Full, Full - 1)
      BY WidthFacts DEF TextLess
    <3>3. QED
      BY <2>1, <3>1, <3>2
  <2>4. n + 1 \in Numbers
    BY <2>2, <2>3, WidthFacts DEF Numbers
  <2>5. ASSUME n + 1 \in C PROVE Full \in C
    <3> SUFFICES ASSUME n + 1 < Full PROVE FALSE
      BY <2>2, <2>3, <2>5, WidthFacts
    <3>1. TextLess(n, n + 1)
      BY <2>2, WidthFacts DEF TextLess
    <3>2. QED
      BY <2>1, <2>5, <3>1
  <2>6. QED
    BY <1>1, <2>1, <2>4, <2>5
<1>4. QED
  BY <1>2, <1>3

LEMMA InitIInv == Init => IInv
<1> SUFFICES ASSUME Init PROVE IInv
  OBVIOUS
<1>1. year \in Years
  BY DEF Init
<1>2. QED
  BY <1>1 DEF Init, IInv, TypeOK, NumbersConsecutive, Turns, Found, Holding

\* The insert of a number that is not there.
LEMMA InsertStep ==
  ASSUME IInv, NEW p \in Submissions, Insert(p)
  PROVE  /\ IInv'
         /\ pc'[p] = "refused" => Full \in complaints[my[p]]
<1> DEFINE y == my[p]
           n == latest[p]
<1>1. y \in Years /\ n \in Numbers \cup {0} /\ TypeOK /\ NumbersConsecutive /\ pc[p] = "insert"
  BY DEF IInv, TypeOK, Insert
<1>2. IsLatest(n, y)
  BY <1>1 DEF IInv, Found
<1>3. /\ n + 1 \in Numbers
      /\ n + 1 \in complaints[y] => Full \in complaints[y]
      /\ \A m \in 1 .. n : m \in complaints[y]
  BY <1>1, <1>2, LatestFacts
<1>4. complaints' = [complaints EXCEPT ![y] = IF n + 1 \in @ THEN @ ELSE @ \cup {n + 1}]
  BY <1>1 DEF Insert, TypeOK
<1>5. pc' = [pc EXCEPT ![p] = IF n + 1 \in complaints[y] THEN "refused" ELSE "done"]
  BY DEF Insert
<1>6. TypeOK'
  BY <1>1, <1>3, <1>4, <1>5 DEF TypeOK, Insert
<1>7. NumbersConsecutive'
  <2> SUFFICES ASSUME NEW z \in Years, NEW k \in complaints'[z], NEW m \in 1 .. k
               PROVE  m \in complaints'[z]
    BY DEF NumbersConsecutive
  <2>1. CASE z # y
    BY <1>1, <1>4, <2>1 DEF TypeOK, NumbersConsecutive
  <2>2. CASE z = y /\ k \in complaints[y]
    BY <1>1, <1>4, <2>2 DEF TypeOK, NumbersConsecutive
  <2>3. CASE z = y /\ k = n + 1 /\ k \notin complaints[y]
    <3>1. m = n + 1 \/ m \in 1 .. n
      BY <1>1, <2>3, WidthFacts DEF Numbers
    <3>2. n + 1 \in complaints'[y] /\ complaints[y] \subseteq complaints'[y]
      BY <1>1, <1>4 DEF TypeOK
    <3>3. QED
      BY <1>3, <2>3, <3>1, <3>2
  <2>4. QED
    BY <1>1, <1>4, <2>1, <2>2, <2>3 DEF TypeOK
<1>8. ASSUME NEW q \in Submissions, q # p, pc[q] \in Holding
      PROVE  pc'[q] = pc[q] /\ my'[q] = my[q] /\ latest'[q] = latest[q] /\ my[q] # y
  BY <1>1, <1>8 DEF Insert, IInv, Turns, TypeOK, Holding
<1>9. pc'[p] \notin Holding /\ \A q \in Submissions : q # p => pc'[q] = pc[q]
  BY <1>1, <1>5 DEF TypeOK, Holding
<1>10. Turns'
  BY <1>8, <1>9 DEF Turns, IInv
<1>11. Found'
  <2> SUFFICES ASSUME NEW q \in Submissions, pc'[q] = "insert"
               PROVE  IF complaints'[my'[q]] = {} THEN latest'[q] = 0
                      ELSE /\ latest'[q] \in complaints'[my'[q]]
                           /\ \A m \in complaints'[my'[q]] : ~TextLess(latest'[q], m)
    BY DEF Found, IsLatest
  <2>1. q # p /\ pc[q] = "insert" /\ pc[q] \in Holding
    BY <1>9 DEF Holding
  <2>2. my[q] \in Years /\ complaints'[my[q]] = complaints[my[q]]
    BY <1>1, <1>4, <1>8, <2>1 DEF TypeOK
  <2>3. IsLatest(latest[q], my[q])
    BY <2>1 DEF IInv, Found
  <2>4. QED
    BY <1>8, <2>1, <2>2, <2>3 DEF IsLatest
<1>12. QED
  BY <1>1, <1>3, <1>5, <1>6, <1>7, <1>10, <1>11 DEF IInv, TypeOK

\* Every other step leaves the rows alone.
LEMMA OtherStep ==
  ASSUME IInv, [Next]_vars, \A p \in Submissions : ~Insert(p)
  PROVE  IInv' /\ \A p \in Submissions : pc[p] # "refused" => pc'[p] # "refused"
<1>1. complaints' = complaints
  BY DEF Next, NewYear, Create, Lock, FindLatest, Fail, vars
<1> DEFINE Keeps(q) == pc'[q] = pc[q] /\ my'[q] = my[q] /\ latest'[q] = latest[q]
<1>2. ASSUME NEW p \in Submissions, Create(p) \/ Lock(p) \/ FindLatest(p) \/ Fail(p)
      PROVE  /\ TypeOK'
             /\ \A q \in Submissions \ {p} : Keeps(q)
             /\ pc'[p] # "refused"
             /\ pc'[p] \in Holding =>
                   /\ my'[p] = my[p]
                   /\ pc[p] \in Holding \/ Free(my[p])
                   /\ pc'[p] = "insert" => IsLatest(latest'[p], my[p])
  <2>1. CASE Create(p)
    BY <2>1 DEF Create, IInv, TypeOK, Holding
  <2>2. CASE Lock(p)
    BY <2>2 DEF Lock, IInv, TypeOK, Holding
  <2>3. CASE FindLatest(p)
    BY <2>3 DEF FindLatest, IInv, TypeOK, Holding
  <2>4. CASE Fail(p)
    BY <2>4 DEF Fail, IInv, TypeOK, Holding
  <2>5. QED
    BY <1>2, <2>1, <2>2, <2>3, <2>4
<1>3. ASSUME NEW p \in Submissions, Create(p) \/ Lock(p) \/ FindLatest(p) \/ Fail(p)
      PROVE  IInv' /\ \A q \in Submissions : pc[q] # "refused" => pc'[q] # "refused"
  <2>1. TypeOK' /\ NumbersConsecutive'
    BY <1>1, <1>2, <1>3 DEF IInv, NumbersConsecutive
  <2>2. Turns'
    BY <1>2, <1>3 DEF IInv, Turns, Free
  <2>3. Found'
    BY <1>1, <1>2, <1>3 DEF IInv, Found, IsLatest, Holding
  <2>4. QED
    BY <1>2, <1>3, <2>1, <2>2, <2>3 DEF IInv
<1>4. CASE NewYear \/ UNCHANGED vars
  BY <1>4 DEF NewYear, vars, procVars, IInv, TypeOK, NumbersConsecutive, Turns, Found, IsLatest
<1>5. QED
  BY <1>3, <1>4 DEF Next

LEMMA NextIInv ==
  IInv /\ [Next]_vars =>
     /\ IInv'
     /\ \A p \in Submissions :
           pc[p] # "refused" /\ pc'[p] = "refused" => Full \in complaints[my[p]]
<1> SUFFICES ASSUME IInv, [Next]_vars
             PROVE  /\ IInv'
                    /\ \A p \in Submissions :
                          pc[p] # "refused" /\ pc'[p] = "refused" => Full \in complaints[my[p]]
  OBVIOUS
<1>1. ASSUME NEW p \in Submissions, Insert(p)
      PROVE  \A q \in Submissions :
                pc[q] # "refused" /\ pc'[q] = "refused" => Full \in complaints[my[q]]
  <2>1. \A q \in Submissions : q # p => pc'[q] = pc[q]
    BY <1>1 DEF Insert, IInv, TypeOK
  <2>2. QED
    BY <1>1, <2>1, InsertStep
<1>2. QED
  BY <1>1, InsertStep, OtherStep

\* The inductive invariant holds: submissions of a year take turns, and what
\* one found stays the latest until it inserts.
THEOREM NumberingInvariance == Spec => []IInv
<1>1. IInv /\ [Next]_vars => IInv'
  BY NextIInv
<1>2. QED
  BY InitIInv, <1>1, PTL DEF Spec

\* Every variable keeps its type; in particular no number passes Full.
THEOREM NumberingTypes == Spec => []TypeOK
<1>1. IInv => TypeOK
  BY DEF IInv
<1>2. QED
  BY NumberingInvariance, <1>1, PTL

\* Numbers have no gaps, whatever fails and whenever the year turns.
THEOREM NoGaps == Spec => []NumbersConsecutive
<1>1. IInv => NumbersConsecutive
  BY DEF IInv
<1>2. QED
  BY NumberingInvariance, <1>1, PTL

\* No two submissions compute one number, so the unique index refuses none
\* until a number has outgrown its width.
THEOREM RefusedWhenFull == Spec => RefusedOnlyWhenFull
<1>1. IInv /\ [Next]_vars =>
         \A p \in Submissions :
            pc[p] # "refused" /\ pc'[p] = "refused" => Full \in complaints[my[p]]
  BY NextIInv
<1>2. QED
  BY NumberingInvariance, <1>1, PTL DEF Spec, RefusedOnlyWhenFull
=============================================================================
