--------------------------- MODULE ServicesProofs ---------------------------
(***************************************************************************)
(* Proofs about Services: payments, notifications, a broker's clients,     *)
(* projects and alerts, each next to the others.  What is proved of a      *)
(* service is an invariant of its own steps; EachServiceSteps says that    *)
(* the steps of the others leave it alone.                                 *)
(***************************************************************************)
EXTENDS Services, FiniteSetTheorems, TLAPS

\* Seen by one service, a behaviour of all is one of its own.
LEMMA EachServiceSteps ==
  ServicesSpec => /\ Init /\ [][Next]_vars
                  /\ Pay!Init /\ [][Pay!Next]_(Pay!vars)
                  /\ Chat!Spec /\ Alert!Spec /\ Project!Spec /\ Account!Spec
                  /\ Person!Spec /\ Note!Spec /\ Broker!Spec
<1> USE DEF ServicesNext, servicesVars,
            ComplaintsStep, PaymentsStep, ChatsStep, AlertsStep, ProjectsStep, AccountsStep,
            PersonRowsStep, NoticesStep, CrmStep
<1>0. ServicesInit => /\ Init /\ Pay!Init /\ Chat!Init /\ Alert!Init /\ Project!Init
                      /\ Account!Init /\ Person!Init /\ Note!Init /\ Broker!Init
  BY DEF ServicesInit
<1>1. [ServicesNext]_servicesVars => [Next]_vars
  OBVIOUS
<1>2. [ServicesNext]_servicesVars => [Pay!Next]_(Pay!vars)
  BY DEF payVars, Pay!vars
<1>3. [ServicesNext]_servicesVars => [Chat!Next]_(Chat!vars)
  BY DEF chatVars, Chat!vars
<1>4. [ServicesNext]_servicesVars => [Alert!Next]_(Alert!vars)
  BY DEF alertVars, Alert!vars
<1>5. [ServicesNext]_servicesVars => [Project!Next]_(Project!vars)
  BY DEF projectVars, Project!vars
<1>6. [ServicesNext]_servicesVars => [Account!Next]_(Account!vars)
  BY DEF accountVars, Account!vars
<1>7. [ServicesNext]_servicesVars => [Person!Next]_(Person!vars)
  BY DEF personVars, Person!vars
<1>8. [ServicesNext]_servicesVars => [Note!Next]_(Note!vars)
  BY DEF noteVars, Note!vars
<1>9. [ServicesNext]_servicesVars => [Broker!Next]_(Broker!vars)
  BY DEF brokerVars, Broker!vars
<1>10. QED
  BY <1>0, <1>1, <1>2, <1>3, <1>4, <1>5, <1>6, <1>7, <1>8, <1>9, PTL
     DEF ServicesSpec, Chat!Spec, Alert!Spec, Project!Spec, Account!Spec, Person!Spec, Note!Spec,
         Broker!Spec

-----------------------------------------------------------------------------
(* Payments.                                                               *)

\* MyFatoorah tells only what is so; others need no reason.
ToldIsPaid == \A i \in Invoices : tried[<<i, "SUCCESS", "MyFatoorah">>] # 0 => i \in paid

\* Invoices somebody has said, or may say, are paid.  There are only ever more.
Credible == {i \in Invoices : i \in paid \/ Pay!Unsigned(i) > 0}

\* What a handler is about to write has been told, and so has what is marked.
HandledIsTold ==
    \A d \in Deliveries : callAt[d] \in {"markPaid", "topUp"} => event[d][1] \in Credible
MarkedIsTold == \A i \in Invoices : payment[i] = "paid" => i \in Credible

PayTypes ==
    /\ paid \subseteq Invoices
    /\ tried \in [Pay!Events -> Nat]
    /\ \A i \in Invoices : tried[<<i, "SUCCESS", "unsigned">>] >= 1
    /\ payment \in [Invoices -> {"none", "invoiced", "lost", "pending", "paid", "failed"}]
    /\ credits \in [Invoices -> Nat]
    /\ callAt \in [Deliveries -> {"idle", "markPaid", "topUp", "getStatus", "markFailed"}]
    /\ event \in [Deliveries -> Pay!Events \cup {Pay!NoEvent}]

PayInv == PayTypes /\ ToldIsPaid /\ HandledIsTold /\ MarkedIsTold

LEMMA SuccessIsEvent ==
  \A i \in Invoices : /\ <<i, "SUCCESS", "MyFatoorah">> \in Pay!Theirs
                      /\ <<i, "SUCCESS", "MyFatoorah">> \in Pay!Events
                      /\ <<i, "SUCCESS", "unsigned">> \in Pay!Events \ Pay!Theirs
BY DEF Pay!Events, Pay!Theirs

LEMMA PayInit == Pay!Init => PayInv
<1> SUFFICES ASSUME Pay!Init PROVE PayInv
  OBVIOUS
<1>1. \A i \in Invoices : /\ tried[<<i, "SUCCESS", "MyFatoorah">>] = 0
                          /\ tried[<<i, "SUCCESS", "unsigned">>] = 1
  BY SuccessIsEvent DEF Pay!Init
<1>2. PayTypes
  <2>1. tried \in [Pay!Events -> Nat] /\ \A i \in Invoices : tried[<<i, "SUCCESS", "unsigned">>] >= 1
    <3>1. tried \in [Pay!Events -> Nat]
      BY DEF Pay!Init
    <3>2. ASSUME NEW i \in Invoices PROVE tried[<<i, "SUCCESS", "unsigned">>] >= 1
      <4>1. tried[<<i, "SUCCESS", "unsigned">>] = 1
        BY <1>1
      <4>2. QED
        BY <4>1
    <3>3. QED
      BY <3>1, <3>2
  <2>2. QED
    BY <2>1 DEF Pay!Init, PayTypes
<1>3. QED
  BY <1>1, <1>2 DEF Pay!Init, PayInv, ToldIsPaid, HandledIsTold, MarkedIsTold

\* What has been told stays told.
LEMMA CredibleGrows ==
  ASSUME PayTypes, PayTypes', paid \subseteq paid',
         \A i \in Invoices : tried[<<i, "SUCCESS", "unsigned">>] <= tried'[<<i, "SUCCESS", "unsigned">>]
  PROVE  Credible \subseteq Credible'
<1>1. \A i \in Invoices : /\ tried[<<i, "SUCCESS", "unsigned">>] \in Nat
                          /\ tried'[<<i, "SUCCESS", "unsigned">>] \in Nat
  BY SuccessIsEvent DEF PayTypes
<1>2. QED
  BY <1>1 DEF Credible, Pay!Unsigned

\* What customers and the server's other half do.
LEMMA InvoiceStep ==
  ASSUME PayInv, NEW i \in Invoices, Pay!ExecutePayment(i) \/ Pay!SavePayment(i) \/ Pay!Pay(i)
  PROVE  PayInv'
<1>1. CASE Pay!ExecutePayment(i) \/ Pay!SavePayment(i)
  <2>1. /\ UNCHANGED <<paid, tried, credits, callAt, event>>
        /\ payment' \in [Invoices -> {"none", "invoiced", "lost", "pending", "paid", "failed"}]
        /\ \A j \in Invoices : payment'[j] = "paid" => payment[j] = "paid"
    BY <1>1 DEF Pay!ExecutePayment, Pay!SavePayment, Pay!myFatoorah, PayInv, PayTypes
  <2>2. QED
    BY <2>1 DEF PayInv, PayTypes, ToldIsPaid, HandledIsTold, MarkedIsTold, Credible, Pay!Unsigned
<1>2. CASE Pay!Pay(i)
  <2> DEFINE told == <<i, "SUCCESS", "MyFatoorah">>
             failed == <<i, "FAILED", "MyFatoorah">>
  <2>1. told \in Pay!Events /\ failed \in Pay!Events
    BY DEF Pay!Events
  <2>2. \A j \in Invoices : /\ <<j, "SUCCESS", "MyFatoorah">> # failed
                            /\ <<j, "SUCCESS", "unsigned">> \notin {told, failed}
                            /\ <<j, "SUCCESS", "MyFatoorah">> = told => j = i
    OBVIOUS
  <2>3. /\ paid \subseteq paid' /\ paid' \subseteq Invoices
        /\ tried' \in [Pay!Events -> Nat]
        /\ \A j \in Invoices :
              /\ tried'[<<j, "SUCCESS", "unsigned">>] = tried[<<j, "SUCCESS", "unsigned">>]
              /\ \/ tried'[<<j, "SUCCESS", "MyFatoorah">>] = tried[<<j, "SUCCESS", "MyFatoorah">>]
                 \/ j \in paid'
    <3> HIDE DEF told, failed
    <3>1. CASE tried' = [tried EXCEPT ![failed] = IF @ = 0 THEN 1 ELSE @] /\ paid' = paid
      BY <2>1, <2>2, <3>1, SuccessIsEvent DEF PayInv, PayTypes
    <3>2. CASE tried' = [tried EXCEPT ![told] = 1] /\ paid' = paid \cup {i}
      BY <2>1, <2>2, <3>2, SuccessIsEvent DEF PayInv, PayTypes
    <3>3. QED
      BY <1>2, <3>1, <3>2 DEF Pay!Pay, told, failed
  <2>4. UNCHANGED <<payment, credits, callAt, event>>
    BY <1>2 DEF Pay!Pay
  <2>5. Credible \subseteq Credible'
    BY <2>3 DEF Credible, Pay!Unsigned
  <2>6. PayTypes'
    BY <2>3, <2>4 DEF PayInv, PayTypes
  <2>7. QED
    BY <2>3, <2>4, <2>5, <2>6 DEF PayInv, ToldIsPaid, HandledIsTold, MarkedIsTold
<1>3. QED
  BY <1>1, <1>2

\* The webhook is called by MyFatoorah with what is so, by others with anything.
LEMMA CallStep ==
  ASSUME PayInv, NEW d \in Deliveries, NEW e \in Pay!Events, Pay!CallWebhook(d, e)
  PROVE  PayInv'
<1>1. /\ tried[e] # 0 /\ tried' = [tried EXCEPT ![e] = @ + 1] /\ tried[e] \in Nat
      /\ UNCHANGED <<paid, payment, credits>>
  <2>1. tried[e] \in Nat /\ tried[e] \in 1..Pay!Limit(e)
    BY DEF Pay!CallWebhook, PayInv, PayTypes
  <2>2. QED
    BY <2>1, CountsAssumption DEF Pay!CallWebhook, Pay!Limit
<1>2. /\ tried' \in [Pay!Events -> Nat]
      /\ \A f \in Pay!Events : tried'[f] >= tried[f] /\ (tried'[f] # 0 => tried[f] # 0)
  BY <1>1 DEF PayInv, PayTypes
<1>3. e[2] = "SUCCESS" => e[1] \in Credible'
  <2> SUFFICES ASSUME e[2] = "SUCCESS" PROVE e[1] \in Credible'
    OBVIOUS
  <2>1. PICK i \in Invoices, source \in {"MyFatoorah", "unsigned"} : e = <<i, "SUCCESS", source>>
    BY DEF Pay!Events
  <2>2. CASE source = "MyFatoorah"
    BY <1>1, <2>1, <2>2 DEF PayInv, ToldIsPaid, Credible
  <2>3. CASE source = "unsigned"
    <3>1. tried[e] >= 1 /\ tried'[e] = tried[e] + 1
      BY <1>1, <2>1, <2>3 DEF PayInv, PayTypes
    <3>2. QED
      BY <1>1, <2>1, <2>3, <3>1 DEF Credible, Pay!Unsigned
  <2>4. QED
    BY <2>2, <2>3
<1>4. PayTypes'
  <2>1. ASSUME NEW i \in Invoices PROVE tried'[<<i, "SUCCESS", "unsigned">>] >= 1
    <3> DEFINE u == <<i, "SUCCESS", "unsigned">>
    <3>1. tried[u] \in Nat /\ tried[u] >= 1 /\ tried'[u] >= tried[u] /\ tried'[u] \in Nat
      BY <1>2, SuccessIsEvent DEF PayInv, PayTypes
    <3> HIDE DEF u
    <3>2. tried'[u] >= 1
      BY <3>1
    <3>3. QED
      BY <3>2 DEF u
  <2>2. QED
    BY <1>1, <1>2, <2>1 DEF Pay!CallWebhook, PayInv, PayTypes
<1>5. Credible \subseteq Credible'
  BY <1>1, <1>2, <1>4, CredibleGrows, SuccessIsEvent DEF PayInv
<1>6. \A c \in Deliveries : callAt'[c] \in {"markPaid", "topUp"} =>
         \/ callAt[c] = callAt'[c] /\ event'[c] = event[c]
         \/ event'[c] = e /\ e[2] = "SUCCESS"
  BY DEF Pay!CallWebhook, PayInv, PayTypes
<1>7. HandledIsTold' /\ MarkedIsTold'
  BY <1>1, <1>3, <1>5, <1>6 DEF PayInv, HandledIsTold, MarkedIsTold
<1>8. ToldIsPaid'
  BY <1>1, <1>2, SuccessIsEvent DEF PayInv, ToldIsPaid
<1>9. QED
  BY <1>4, <1>7, <1>8 DEF PayInv

\* A handler writes what it was told.
LEMMA HandlerInv ==
  ASSUME PayInv, NEW d \in Deliveries, Pay!HandlerStep(d) \/ Pay!Crash(d)
  PROVE  PayInv'
<1> USE DEF Pay!Answer, Pay!myFatoorah
<1>1. UNCHANGED <<paid, tried>> /\ Credible' = Credible
  BY DEF Pay!HandlerStep, Pay!Crash, Pay!MarkPaid, Pay!TopUp, Pay!GetPaymentStatus, Pay!MarkFailed,
         Credible, Pay!Unsigned
<1>2. CASE Pay!MarkPaid(d)
  BY <1>1, <1>2 DEF Pay!MarkPaid, PayInv, PayTypes, ToldIsPaid, HandledIsTold, MarkedIsTold
<1>3. CASE Pay!TopUp(d)
  <2>1. event[d][1] \in Invoices
    BY <1>3 DEF Pay!TopUp, PayInv, HandledIsTold, Credible
  <2>2. credits' \in [Invoices -> Nat]
    BY <1>3, <2>1 DEF Pay!TopUp, PayInv, PayTypes
  <2>3. QED
    BY <1>1, <1>3, <2>2 DEF Pay!TopUp, PayInv, PayTypes, ToldIsPaid, HandledIsTold, MarkedIsTold
<1>4. CASE Pay!GetPaymentStatus(d)
  BY <1>1, <1>4 DEF Pay!GetPaymentStatus, PayInv, PayTypes, ToldIsPaid, HandledIsTold, MarkedIsTold
<1>5. CASE Pay!MarkFailed(d)
  BY <1>1, <1>5 DEF Pay!MarkFailed, PayInv, PayTypes, ToldIsPaid, HandledIsTold, MarkedIsTold
<1>6. CASE Pay!Crash(d)
  BY <1>1, <1>6 DEF Pay!Crash, PayInv, PayTypes, ToldIsPaid, HandledIsTold, MarkedIsTold
<1>7. QED
  BY <1>2, <1>3, <1>4, <1>5, <1>6 DEF Pay!HandlerStep

LEMMA PayInvariant == ServicesSpec => []PayInv
<1>1. PayInv /\ [Pay!Next]_(Pay!vars) => PayInv'
  <2> SUFFICES ASSUME PayInv, [Pay!Next]_(Pay!vars) PROVE PayInv'
    OBVIOUS
  <2>1. CASE Pay!Next
    BY <2>1, InvoiceStep, CallStep, HandlerInv DEF Pay!Next
  <2>2. CASE UNCHANGED Pay!vars
    BY <2>2 DEF Pay!vars, PayInv, PayTypes, ToldIsPaid, HandledIsTold, MarkedIsTold, Credible, Pay!Unsigned
  <2>3. QED
    BY <2>1, <2>2
<1>2. QED
  BY PayInit, <1>1, EachServiceSteps, PTL

\* What a wallet is topped up for has been told, each time anew: by then or
\* by a call that is still handled.
Handling(i) == {d \in Deliveries : callAt[d] \in {"markPaid", "topUp"} /\ event[d][1] = i}
CallsFor(e) == IF tried[e] = 0 THEN 0 ELSE tried[e] - 1
Told(i) == CallsFor(<<i, "SUCCESS", "MyFatoorah">>) + CallsFor(<<i, "SUCCESS", "unsigned">>)
CreditsCounted == \A i \in Invoices : credits[i] + Cardinality(Handling(i)) <= Told(i)

\* The bounds of the model, and what is answered.
CallsCounted ==
    /\ \A e \in Pay!Events : tried[e] <= Pay!Limit(e) + 1
    /\ \A d \in Deliveries : callAt[d] # "idle" => event[d] \in Pay!Events
    /\ answered \subseteq Pay!Events /\ dropped \subseteq Pay!Events
    /\ crashes \in 0..MaxCrashes

LEMMA HandlingFinite ==
  \A i : /\ IsFiniteSet(Handling(i)) /\ Cardinality(Handling(i)) \in Nat
         /\ IsFiniteSet(Handling(i)') /\ Cardinality(Handling(i)') \in Nat
BY DeliveriesAssumption, FS_Subset, FS_CardinalityType DEF Handling

LEMMA LimitIsNat == \A e : Pay!Limit(e) \in Nat
BY CountsAssumption DEF Pay!Limit

LEMMA ToldIsNat == PayInv => \A i \in Invoices : Told(i) \in Nat
<1> SUFFICES ASSUME PayInv, NEW i \in Invoices PROVE Told(i) \in Nat
  OBVIOUS
<1>1. tried[<<i, "SUCCESS", "MyFatoorah">>] \in Nat /\ tried[<<i, "SUCCESS", "unsigned">>] \in Nat
  BY SuccessIsEvent DEF PayInv, PayTypes
<1>2. QED
  BY <1>1 DEF Told, CallsFor

LEMMA HandlingKept ==
  ASSUME \A i \in Invoices : Handling(i)' \subseteq Handling(i),
         PayInv, PayInv', CreditsCounted, UNCHANGED credits,
         \A i \in Invoices : Told(i) <= Told(i)'
  PROVE  CreditsCounted'
<1> SUFFICES ASSUME NEW i \in Invoices
             PROVE  credits'[i] + Cardinality(Handling(i)') <= Told(i)'
  BY DEF CreditsCounted
<1>1. /\ Cardinality(Handling(i)') <= Cardinality(Handling(i))
      /\ Cardinality(Handling(i)) \in Nat /\ Cardinality(Handling(i)') \in Nat
  BY HandlingFinite, FS_Subset, FS_CardinalityType
<1>2. Told(i) \in Nat /\ Told(i)' \in Nat /\ credits[i] \in Nat
  <2>1. tried'[<<i, "SUCCESS", "MyFatoorah">>] \in Nat /\ tried'[<<i, "SUCCESS", "unsigned">>] \in Nat
    BY SuccessIsEvent DEF PayInv, PayTypes
  <2>2. QED
    BY <2>1, ToldIsNat DEF PayInv, PayTypes, Told, CallsFor
<1>3. QED
  BY <1>1, <1>2 DEF CreditsCounted

LEMMA CountsInit == Pay!Init => CreditsCounted /\ CallsCounted
<1> SUFFICES ASSUME Pay!Init PROVE CreditsCounted /\ CallsCounted
  OBVIOUS
<1>1. \A e \in Pay!Events : CallsFor(e) = 0 /\ tried[e] \in {0, 1}
  BY DEF Pay!Init, CallsFor
<1>2. \A i \in Invoices : credits[i] = 0 /\ Handling(i) = {} /\ Told(i) = 0
  <2>1. \A i \in Invoices : /\ CallsFor(<<i, "SUCCESS", "MyFatoorah">>) = 0
                             /\ CallsFor(<<i, "SUCCESS", "unsigned">>) = 0
    BY <1>1, SuccessIsEvent
  <2>2. ASSUME NEW i \in Invoices PROVE Told(i) = 0
    <3>1. CallsFor(<<i, "SUCCESS", "MyFatoorah">>) = 0 /\ CallsFor(<<i, "SUCCESS", "unsigned">>) = 0
      BY <2>1
    <3>2. QED
      BY <3>1 DEF Told
  <2>3. QED
    BY <2>2 DEF Pay!Init, Handling
<1>3. CreditsCounted
  BY <1>2, FS_EmptySet DEF CreditsCounted
<1>4. ASSUME NEW e \in Pay!Events PROVE tried[e] <= Pay!Limit(e) + 1
  <2>1. tried[e] \in {0, 1} /\ Pay!Limit(e) \in Nat
    BY <1>1, LimitIsNat
  <2>2. QED
    BY <2>1
<1>5. QED
  BY <1>3, <1>4, CountsAssumption DEF Pay!Init, CallsCounted

LEMMA InvoiceCounts ==
  ASSUME PayInv, PayInv', CreditsCounted, CallsCounted, NEW i \in Invoices,
         Pay!ExecutePayment(i) \/ Pay!SavePayment(i) \/ Pay!Pay(i)
  PROVE  CreditsCounted' /\ CallsCounted'
<1>0. MaxCrashes \in Nat
  BY CountsAssumption
<1>1. UNCHANGED <<credits, callAt, event, answered, dropped>>
  BY DEF Pay!ExecutePayment, Pay!SavePayment, Pay!Pay, Pay!myFatoorah
<1>2. \A j \in Invoices : Handling(j)' \subseteq Handling(j)
  BY <1>1 DEF Handling
<1>3. \A e \in Pay!Events :
         tried'[e] = tried[e] \/ (tried'[e] = 1 /\ (e[2] = "SUCCESS" => tried[e] = 0))
  BY DEF Pay!ExecutePayment, Pay!SavePayment, Pay!Pay, Pay!myFatoorah, PayInv, PayTypes, ToldIsPaid,
         Pay!Events
<1>4. ASSUME NEW j \in Invoices PROVE Told(j) <= Told(j)'
  <2> DEFINE e == <<j, "SUCCESS", "MyFatoorah">>
             f == <<j, "SUCCESS", "unsigned">>
  <2>1. e \in Pay!Events /\ e[2] = "SUCCESS" /\ tried[e] \in Nat
    BY SuccessIsEvent DEF PayInv, PayTypes
  <2>2. f \in Pay!Events /\ f[2] = "SUCCESS" /\ tried[f] \in Nat
    BY SuccessIsEvent DEF PayInv, PayTypes
  <2>3. tried'[e] = tried[e] \/ (tried'[e] = 1 /\ tried[e] = 0)
    BY <1>3, <2>1
  <2>4. tried'[f] = tried[f] \/ (tried'[f] = 1 /\ tried[f] = 0)
    BY <1>3, <2>2
  <2>5. QED
    BY <2>1, <2>2, <2>3, <2>4 DEF Told, CallsFor
<1>5. CreditsCounted'
  BY <1>1, <1>2, <1>4, HandlingKept
<1>6. crashes' \in 0..MaxCrashes
  BY <1>0 DEF CallsCounted, Pay!ExecutePayment, Pay!SavePayment, Pay!Pay
<1>7. \A e \in Pay!Events : tried'[e] <= Pay!Limit(e) + 1
  BY <1>3, LimitIsNat DEF CallsCounted
<1>8. QED
  BY <1>1, <1>5, <1>6, <1>7 DEF CallsCounted

LEMMA CallCounts ==
  ASSUME PayInv, PayInv', CreditsCounted, CallsCounted, NEW d \in Deliveries, NEW e \in Pay!Events,
         Pay!CallWebhook(d, e)
  PROVE  CreditsCounted' /\ CallsCounted'
<1> DEFINE About(j) == e[1] = j /\ e[2] = "SUCCESS"
<1>0. /\ tried[e] \in Nat /\ tried[e] # 0 /\ tried[e] <= Pay!Limit(e)
      /\ tried' = [tried EXCEPT ![e] = @ + 1]
  <2>1. tried[e] \in Nat /\ tried[e] \in 1..Pay!Limit(e) /\ Pay!Limit(e) \in Nat
    BY LimitIsNat DEF Pay!CallWebhook, PayInv, PayTypes
  <2>2. QED
    BY <2>1 DEF Pay!CallWebhook
<1>1. CallsCounted'
  <2>1. \A f \in Pay!Events : tried'[f] <= Pay!Limit(f) + 1
    BY <1>0, LimitIsNat DEF CallsCounted, PayInv, PayTypes
  <2>2. QED
    BY <2>1 DEF CallsCounted, Pay!CallWebhook, PayInv, PayTypes
<1>2. ASSUME NEW j \in Invoices
      PROVE  Told(j)' = IF About(j) THEN Told(j) + 1 ELSE Told(j)
  <2> DEFINE t == <<j, "SUCCESS", "MyFatoorah">>
             u == <<j, "SUCCESS", "unsigned">>
  <2>1. /\ t \in Pay!Events /\ u \in Pay!Events /\ tried[t] \in Nat /\ tried[u] \in Nat
        /\ t # u /\ (About(j) <=> e \in {t, u})
    BY SuccessIsEvent DEF Pay!Events, PayInv, PayTypes
  <2>2. /\ tried'[t] = IF e = t THEN tried[t] + 1 ELSE tried[t]
        /\ tried'[u] = IF e = u THEN tried[u] + 1 ELSE tried[u]
    BY <1>0, <2>1 DEF PayInv, PayTypes
  <2>3. /\ CallsFor(t)' = IF e = t THEN CallsFor(t) + 1 ELSE CallsFor(t)
        /\ CallsFor(u)' = IF e = u THEN CallsFor(u) + 1 ELSE CallsFor(u)
        /\ CallsFor(t) \in Nat /\ CallsFor(u) \in Nat
    <3> HIDE DEF t, u
    <3>1. QED
      BY <1>0, <2>1, <2>2 DEF CallsFor
  <2>4. Told(j) = CallsFor(t) + CallsFor(u) /\ Told(j)' = CallsFor(t)' + CallsFor(u)'
    BY DEF Told
  <2> HIDE DEF t, u, About
  <2>5. QED
    BY <2>1, <2>3, <2>4
<1>3. \A j \in Invoices : Handling(j)' \subseteq Handling(j) \cup (IF About(j) THEN {d} ELSE {})
  BY DEF Handling, Pay!CallWebhook, PayInv, PayTypes, Pay!Events
<1>4. ASSUME NEW j \in Invoices
      PROVE  credits'[j] + Cardinality(Handling(j)') <= Told(j)'
  <2> HIDE DEF About
  <2>1. /\ credits'[j] = credits[j] /\ credits[j] \in Nat /\ Told(j) \in Nat
        /\ credits[j] + Cardinality(Handling(j)) <= Told(j)
    BY ToldIsNat DEF Pay!CallWebhook, CreditsCounted, PayInv, PayTypes
  <2>2. IsFiniteSet(Handling(j)) /\ Cardinality(Handling(j)) \in Nat /\ Cardinality(Handling(j)') \in Nat
    BY HandlingFinite
  <2>3. CASE About(j)
    <3>1. /\ IsFiniteSet(Handling(j) \cup {d})
          /\ Cardinality(Handling(j) \cup {d}) \in {Cardinality(Handling(j)), Cardinality(Handling(j)) + 1}
      BY <2>2, FS_AddElement
    <3>2. Cardinality(Handling(j)') <= Cardinality(Handling(j) \cup {d})
      BY <1>3, <2>3, <3>1, FS_Subset
    <3>3. Cardinality(Handling(j)') <= Cardinality(Handling(j)) + 1
      BY <2>2, <3>1, <3>2
    <3>4. QED
      BY <1>2, <2>1, <2>2, <2>3, <3>3
  <2>4. CASE ~About(j)
    <3>1. Cardinality(Handling(j)') <= Cardinality(Handling(j))
      BY <1>3, <2>2, <2>4, FS_Subset
    <3>2. QED
      BY <1>2, <2>1, <2>2, <2>4, <3>1
  <2>5. QED
    BY <2>3, <2>4
<1>5. QED
  BY <1>1, <1>4 DEF CreditsCounted

LEMMA HandlerCounts ==
  ASSUME PayInv, PayInv', CreditsCounted, CallsCounted, NEW d \in Deliveries,
         Pay!HandlerStep(d) \/ Pay!Crash(d)
  PROVE  CreditsCounted' /\ CallsCounted'
<1>1. UNCHANGED <<tried, dropped>> /\ \A j \in Invoices : Told(j)' = Told(j) /\ Told(j) \in Nat
  BY ToldIsNat DEF Pay!HandlerStep, Pay!Crash, Pay!MarkPaid, Pay!TopUp, Pay!GetPaymentStatus,
     Pay!MarkFailed, Pay!Answer, Pay!myFatoorah, Told, CallsFor
<1>2. callAt[d] # "idle" /\ event[d] \in Pay!Events
  BY DEF Pay!HandlerStep, Pay!Crash, Pay!MarkPaid, Pay!TopUp, Pay!GetPaymentStatus,
     Pay!MarkFailed, CallsCounted
<1>3. CallsCounted'
  <2>1. MaxCrashes \in Nat
    BY CountsAssumption
  <2>2. answered' \subseteq answered \cup {event[d]}
    BY DEF Pay!HandlerStep, Pay!Crash, Pay!MarkPaid, Pay!TopUp, Pay!GetPaymentStatus,
       Pay!MarkFailed, Pay!Answer, Pay!myFatoorah
  <2>3. \A c \in Deliveries : callAt'[c] # "idle" => event'[c] = event[c] /\ callAt[c] # "idle"
    BY <1>2 DEF Pay!HandlerStep, Pay!Crash, Pay!MarkPaid, Pay!TopUp, Pay!GetPaymentStatus,
       Pay!MarkFailed, Pay!Answer, Pay!myFatoorah, PayInv, PayTypes
  <2>4. crashes' \in 0..MaxCrashes
    BY <2>1 DEF Pay!HandlerStep, Pay!Crash, Pay!MarkPaid, Pay!TopUp, Pay!GetPaymentStatus,
       Pay!MarkFailed, Pay!Answer, Pay!myFatoorah, CallsCounted
  <2>5. QED
    BY <1>1, <1>2, <2>2, <2>3, <2>4 DEF CallsCounted, Pay!Limit
<1>4. CASE Pay!TopUp(d)
  <2> DEFINE i == event[d][1]
  <2>1. i \in Invoices /\ d \in Handling(i)
    BY <1>4 DEF Pay!TopUp, PayInv, HandledIsTold, Handling, Credible
  <2>2. \A j \in Invoices : Handling(j)' \subseteq Handling(j) \ {d}
    BY <1>4 DEF Handling, Pay!TopUp, Pay!Answer, PayInv, PayTypes
  <2>3. ASSUME NEW j \in Invoices
        PROVE  credits'[j] + Cardinality(Handling(j)') <= Told(j)
    <3> HIDE DEF i
    <3>1. /\ credits[j] \in Nat /\ credits[j] + Cardinality(Handling(j)) <= Told(j) /\ Told(j) \in Nat
          /\ credits'[j] = IF j = i THEN credits[j] + 1 ELSE credits[j]
      BY <1>1, <1>4 DEF Pay!TopUp, CreditsCounted, PayInv, PayTypes, i
    <3>2. IsFiniteSet(Handling(j)) /\ Cardinality(Handling(j)) \in Nat /\ Cardinality(Handling(j)') \in Nat
      BY HandlingFinite
    <3>3. IsFiniteSet(Handling(j) \ {d}) /\ Cardinality(Handling(j)') <= Cardinality(Handling(j) \ {d})
      BY <2>2, <3>2, FS_Subset
    <3>4. Cardinality(Handling(j) \ {d}) = IF d \in Handling(j) THEN Cardinality(Handling(j)) - 1
                                           ELSE Cardinality(Handling(j))
      BY <3>2, FS_RemoveElement
    <3>5. QED
      BY <2>1, <3>1, <3>2, <3>3, <3>4
  <2>4. QED
    BY <1>1, <1>3, <2>3 DEF CreditsCounted
<1>5. CASE ~Pay!TopUp(d)
  <2>1. UNCHANGED credits
    BY <1>5 DEF Pay!HandlerStep, Pay!Crash, Pay!MarkPaid, Pay!TopUp, Pay!GetPaymentStatus,
       Pay!MarkFailed, Pay!Answer, Pay!myFatoorah
  <2>2. \A j \in Invoices : Handling(j)' \subseteq Handling(j)
    BY <1>2, <1>5 DEF Pay!HandlerStep, Pay!Crash, Pay!MarkPaid, Pay!GetPaymentStatus,
       Pay!MarkFailed, Pay!Answer, Pay!myFatoorah, Handling, PayInv, PayTypes
  <2>3. QED
    BY <1>1, <1>3, <2>1, <2>2, HandlingKept
<1>6. QED
  BY <1>4, <1>5

\* For an invoice that is not paid, all that was told is what others said.
LEMMA CreditsTold == PayInv /\ CreditsCounted => Pay!OnlyPaidCredited
<1> SUFFICES ASSUME PayInv, CreditsCounted, NEW i \in Invoices \ paid
             PROVE  credits[i] <= Pay!Unsigned(i) /\ (payment[i] = "paid" => Pay!Unsigned(i) > 0)
  BY DEF Pay!OnlyPaidCredited
<1>1. /\ tried[<<i, "SUCCESS", "MyFatoorah">>] = 0
      /\ tried[<<i, "SUCCESS", "unsigned">>] \in Nat /\ tried[<<i, "SUCCESS", "unsigned">>] >= 1
  BY SuccessIsEvent DEF PayInv, PayTypes, ToldIsPaid
<1>2. Told(i) = Pay!Unsigned(i) /\ Told(i) \in Nat
  BY <1>1 DEF Told, CallsFor, Pay!Unsigned
<1>3. /\ credits[i] \in Nat /\ Cardinality(Handling(i)) \in Nat
      /\ credits[i] + Cardinality(Handling(i)) <= Told(i)
  BY HandlingFinite DEF CreditsCounted, PayInv, PayTypes
<1>4. credits[i] <= Pay!Unsigned(i)
  BY <1>2, <1>3
<1>5. QED
  BY <1>4 DEF PayInv, MarkedIsTold, Credible

LEMMA PayTyped == PayInv /\ CreditsCounted /\ CallsCounted => Pay!TypeOK
<1> SUFFICES ASSUME PayInv, CreditsCounted, CallsCounted PROVE Pay!TypeOK
  OBVIOUS
<1>1. MaxDeliveries \in Nat /\ MaxUnsigned \in Nat
  BY CountsAssumption
<1>2. ASSUME NEW i \in Invoices PROVE credits[i] \in 0..MaxDeliveries + MaxUnsigned
  <2> DEFINE t == <<i, "SUCCESS", "MyFatoorah">>
             u == <<i, "SUCCESS", "unsigned">>
  <2>1. tried[t] \in Nat /\ tried[u] \in Nat /\ credits[i] \in Nat /\ Told(i) \in Nat
    BY SuccessIsEvent, ToldIsNat DEF PayInv, PayTypes
  <2>2. tried[t] <= MaxDeliveries + 1 /\ tried[u] <= MaxUnsigned + 1
    BY SuccessIsEvent DEF CallsCounted, Pay!Limit
  <2>3. Cardinality(Handling(i)) \in Nat /\ credits[i] + Cardinality(Handling(i)) <= Told(i)
    BY HandlingFinite DEF CreditsCounted
  <2>4. Told(i) <= MaxDeliveries + MaxUnsigned
    BY <1>1, <2>1, <2>2 DEF Told, CallsFor
  <2>5. QED
    BY <1>1, <2>1, <2>3, <2>4
<1>3. QED
  BY <1>2 DEF Pay!TypeOK, PayInv, PayTypes, CallsCounted

LEMMA PaymentsCounted == ServicesSpec => [](CreditsCounted /\ CallsCounted)
<1> DEFINE Counts == CreditsCounted /\ CallsCounted
<1>1. PayInv /\ PayInv' /\ Counts /\ [Pay!Next]_(Pay!vars) => Counts'
  <2> SUFFICES ASSUME PayInv, PayInv', Counts, [Pay!Next]_(Pay!vars) PROVE Counts'
    OBVIOUS
  <2>1. CASE Pay!Next
    BY <2>1, InvoiceCounts, CallCounts, HandlerCounts DEF Pay!Next
  <2>2. CASE UNCHANGED Pay!vars
    <3>1. \A i : Handling(i)' = Handling(i) /\ Told(i)' = Told(i)
      BY <2>2 DEF Pay!vars, Handling, Told, CallsFor
    <3>2. QED
      BY <2>2, <3>1 DEF Pay!vars, CreditsCounted, CallsCounted, Pay!Limit
  <2>3. QED
    BY <2>1, <2>2
<1>2. Pay!Init => Counts
  BY CountsInit
<1>3. QED
  BY <1>1, <1>2, PayInvariant, EachServiceSteps, PTL

LEMMA PaymentsTypes == ServicesSpec => []Pay!TypeOK
BY PayInvariant, PaymentsCounted, PayTyped, PTL

\* A wallet is topped up for an invoice that is not paid at MyFatoorah no more
\* often than somebody else has said, without a signature, that it is, and the
\* payment is marked PAID only if somebody has: handleWebhook takes a success at
\* its word.  If only MyFatoorah calls, all that is credited is paid.
THEOREM CreditsArePaid == ServicesSpec => []OnlyPaidCredited
<1>1. PayInv /\ CreditsCounted /\ CallsCounted => OnlyPaidCredited
  BY CreditsTold DEF OnlyPaidCredited
<1>2. QED
  BY PayInvariant, PaymentsCounted, <1>1, PTL

-----------------------------------------------------------------------------
(* Notifications.                                                          *)

\* A token is registered by somebody, on a device that has the app.
Registrations ==
    \A d \in Devices : /\ registered[d] => user[d] # None
                       /\ user[d] # None => d \notin stale

NoteTypes ==
    /\ user \in [Devices -> People \cup {None}]
    /\ token \in [Devices -> People \cup {None}]
    /\ registered \in [Devices -> BOOLEAN]
    /\ None \notin People
    /\ \A w \in leaving : w[1] \in People

NoteInv == NoteTypes /\ Registrations /\ Note!TokensFollow

LEMMA NoteInit == None \notin People => (Note!Init => NoteInv)
BY DEF Note!Init, NoteInv, NoteTypes, Registrations, Note!TokensFollow, Note!SignedInHaveTokens, Note!TheGoneHaveNone

LEMMA NoteNext == NoteInv /\ [Note!Next]_(Note!vars) => NoteInv'
<1> SUFFICES ASSUME NoteInv, [Note!Next]_(Note!vars) PROVE NoteInv'
  OBVIOUS
<1> USE DEF NoteInv, NoteTypes, Registrations, Note!TokensFollow, Note!SignedInHaveTokens, Note!TheGoneHaveNone
<1>1. ASSUME NEW d \in Devices, Note!RegisterPushToken(d) PROVE NoteInv'
  BY <1>1 DEF Note!RegisterPushToken
<1>2. ASSUME NEW d \in Devices, Note!SignOut(d) PROVE NoteInv'
  BY <1>2 DEF Note!SignOut
<1>3. ASSUME NEW d \in Devices, Note!RemoveApp(d) PROVE NoteInv'
  BY <1>3 DEF Note!RemoveApp
<1>4. ASSUME NEW u \in People, NEW d \in Devices, Note!SignIn(d, u) PROVE NoteInv'
  BY <1>4 DEF Note!SignIn
<1>5. ASSUME NEW u \in People, NEW d \in Devices, Note!DeregisterPushToken(u, d) PROVE NoteInv'
  BY <1>5 DEF Note!DeregisterPushToken, Note!Left
<1>6. ASSUME NEW n \in NoticeIds, NEW d \in Devices, Note!Push(n, d) PROVE NoteInv'
  BY <1>6 DEF Note!Push
<1>7. ASSUME UNCHANGED <<user, registered, token, leaving, stale, overtaken>> PROVE NoteInv'
  BY <1>7
<1>8. QED
  BY <1>1, <1>2, <1>3, <1>4, <1>5, <1>6, <1>7
     DEF Note!Next, Note!CreateAndSend, Note!FindUnread, Note!MarkAsRead, Note!MarkAllAsRead, Note!vars, Note!rows

LEMMA NoteInvariant == ServicesSpec => []NoteInv
BY NoteInit, NoteNext, NoneAssumption, EachServiceSteps, PTL DEF Note!Spec

\* A late deregisterPushToken takes no token from whoever is signed in, and once
\* all were heard nobody has the token of a device they have left.  (What was
\* being pushed there by then still arrives.)
THEOREM TokensFollowSignIns == ServicesSpec => []TokensFollow
<1>1. NoteInv => TokensFollow
  BY DEF NoteInv, TokensFollow
<1>2. QED
  BY NoteInvariant, <1>1, PTL

-----------------------------------------------------------------------------
(* A broker's clients and reminders.                                       *)

IsClientOf(c, b) == c \in ClientIds /\ clients[c] # None /\ clients[c].broker = b
BelongsToClient(row) == row \in Broker!Reminders /\ IsClientOf(row.client, row.broker)

RowsOK ==
    /\ clients \in [ClientIds -> Broker!Owned \cup {None}]
    /\ reminders \in [ReminderIds -> Broker!Reminders \cup {None}]
    /\ \A r \in ReminderIds : reminders[r] # None => BelongsToClient(reminders[r])

\* What a request has read may be out of date, but not as to whose it is.
ReadsOK ==
    /\ crmAt \in [Requests -> Broker!Steps] /\ crmWhat = [p \in Requests |-> crmWhat[p]]
    /\ \A p \in Requests :
          /\ crmAt[p] \in {"firstReminder", "remind"} =>
                crmWhat[p][2] \in People /\ IsClientOf(crmWhat[p][1], crmWhat[p][2])
          /\ crmAt[p] = "delete" => crmWhat[p][1] \in ClientIds /\ clients[crmWhat[p][1]] # None
          /\ crmAt[p] \in {"done", "drop"} => crmWhat[p][1] \in ReminderIds /\ BelongsToClient(crmWhat[p][2])

\* A reminder that is being marked as done is there, unless it was deleted
\* meanwhile.
DoneIsThere ==
    \A p \in Requests : crmAt[p] = "done" /\ crmWhat[p][1] \notin crmCrossed => reminders[crmWhat[p][1]] # None

BrokerInv == RowsOK /\ ReadsOK /\ DoneIsThere

LEMMA NoneIsNoRow == None \notin Broker!Owned /\ None \notin Broker!Reminders
BY NoneAssumption

LEMMA BrokerInit == Broker!Init => BrokerInv
BY DEF Broker!Init, BrokerInv, RowsOK, ReadsOK, DoneIsThere, Broker!Steps

\* Clients keep their brokers, and a removed one stays removed.
ClientsKept ==
    \A c \in ClientIds : clients[c] # None =>
        /\ clients'[c] # None /\ clients'[c].broker = clients[c].broker
        /\ clients[c].removed => clients'[c].removed

\* A step that writes no reminder and reads what is there.
LEMMA ClientStep ==
  ASSUME BrokerInv, NEW p \in Requests, NEW b \in People, NEW c \in ClientIds,
         Broker!CreateClient(p, b, c) \/ Broker!FindClient(p, b, c) \/ Broker!DeleteClient(p)
  PROVE  BrokerInv' /\ ClientsKept
<1>1. clients' \in [ClientIds -> Broker!Owned \cup {None}] /\ ClientsKept
  <2>1. CASE Broker!CreateClient(p, b, c)
    BY <2>1, NoneIsNoRow DEF Broker!CreateClient, BrokerInv, RowsOK, Broker!Owned, ClientsKept
  <2>2. CASE Broker!FindClient(p, b, c)
    BY <2>2 DEF Broker!FindClient, BrokerInv, RowsOK, ClientsKept
  <2>3. CASE Broker!DeleteClient(p)
    <3>1. crmWhat[p][1] \in ClientIds /\ clients[crmWhat[p][1]] \in Broker!Owned
      BY <2>3 DEF Broker!DeleteClient, BrokerInv, RowsOK, ReadsOK
    <3>2. [clients[crmWhat[p][1]] EXCEPT !.removed = TRUE] \in Broker!Owned
      BY <3>1 DEF Broker!Owned
    <3>3. clients' = [clients EXCEPT ![crmWhat[p][1]] = [clients[crmWhat[p][1]] EXCEPT !.removed = TRUE]]
      BY <2>3 DEF Broker!DeleteClient
    <3>4. QED
      BY <3>1, <3>2, <3>3, NoneIsNoRow DEF BrokerInv, RowsOK, ClientsKept, Broker!Owned
  <2>4. QED
    BY <2>1, <2>2, <2>3
<1>2. UNCHANGED <<reminders, crmCrossed>>
  BY DEF Broker!CreateClient, Broker!FindClient, Broker!DeleteClient
<1>3. \A d \in ClientIds, x \in People : IsClientOf(d, x) => IsClientOf(d, x)'
  BY <1>1 DEF IsClientOf, ClientsKept
<1>4. RowsOK'
  BY <1>1, <1>2, <1>3 DEF BrokerInv, RowsOK, BelongsToClient, Broker!Reminders
<1>5. \A q \in Requests : q # p => crmAt'[q] = crmAt[q] /\ crmWhat'[q] = crmWhat[q]
  BY DEF Broker!CreateClient, Broker!FindClient, Broker!DeleteClient, Broker!Goto, Broker!Done, BrokerInv, ReadsOK
<1>6. /\ crmAt'[p] \in {"idle", "firstReminder", "update", "delete", "remind"}
      /\ crmAt'[p] \in {"firstReminder", "update", "delete", "remind"} =>
            crmWhat'[p] = <<c, b>> /\ IsClientOf(c, b)'
  <2>1. CASE Broker!CreateClient(p, b, c)
    <3>1. IsClientOf(c, b)'
      <4> DEFINE row == [broker |-> b, removed |-> FALSE]
      <4>1. row \in Broker!Owned /\ row.broker = b
        BY DEF Broker!Owned
      <4> HIDE DEF row
      <4>0. row # None
        BY <4>1, NoneIsNoRow
      <4>2. clients'[c] = row
        BY <2>1 DEF Broker!CreateClient, BrokerInv, RowsOK, row
      <4>3. QED
        BY <4>0, <4>1, <4>2 DEF IsClientOf
    <3>2. QED
      BY <2>1, <3>1 DEF Broker!CreateClient, Broker!Goto, BrokerInv, ReadsOK
  <2>2. CASE Broker!FindClient(p, b, c)
    <3>1. IsClientOf(c, b)'
      BY <2>2 DEF Broker!FindClient, Broker!IsOwn, IsClientOf
    <3>2. QED
      BY <2>2, <3>1 DEF Broker!FindClient, Broker!Goto, BrokerInv, ReadsOK
  <2>3. CASE Broker!DeleteClient(p)
    BY <2>3 DEF Broker!DeleteClient, Broker!Done, Broker!Goto, BrokerInv, ReadsOK
  <2>4. QED
    BY <2>1, <2>2, <2>3
<1>7. crmAt' \in [Requests -> Broker!Steps] /\ crmWhat' = [q \in Requests |-> crmWhat'[q]]
  BY DEF Broker!CreateClient, Broker!FindClient, Broker!DeleteClient, Broker!Goto, Broker!Done, BrokerInv, ReadsOK, Broker!Steps
<1>8. ReadsOK' /\ DoneIsThere'
  BY <1>1, <1>2, <1>3, <1>5, <1>6, <1>7
     DEF BrokerInv, ReadsOK, DoneIsThere, BelongsToClient, Broker!Reminders, IsClientOf, ClientsKept
<1>9. QED
  BY <1>1, <1>4, <1>8 DEF BrokerInv

\* A step about a reminder leaves the clients alone.
LEMMA ReminderStep ==
  ASSUME BrokerInv, NEW p \in Requests, NEW b \in People, NEW r \in ReminderIds,
         \/ Broker!CreateReminder(p, r) \/ Broker!FindReminder(p, b, r)
         \/ Broker!MarkReminderDone(p) \/ Broker!DeleteReminder(p)
  PROVE  BrokerInv' /\ ClientsKept
<1>1. clients' = clients
  BY DEF Broker!CreateReminder, Broker!FindReminder, Broker!MarkReminderDone, Broker!DeleteReminder
<1>2. \A q \in Requests : q # p => crmAt'[q] = crmAt[q] /\ crmWhat'[q] = crmWhat[q]
  BY DEF Broker!CreateReminder, Broker!FindReminder, Broker!MarkReminderDone, Broker!DeleteReminder, Broker!Goto, Broker!Done, BrokerInv, ReadsOK
<1>3. crmAt' \in [Requests -> Broker!Steps] /\ crmWhat' = [q \in Requests |-> crmWhat'[q]]
  BY DEF Broker!CreateReminder, Broker!FindReminder, Broker!MarkReminderDone, Broker!DeleteReminder, Broker!Goto, Broker!Done, BrokerInv, ReadsOK,
         Broker!Steps
<1>4. \A row : BelongsToClient(row) => BelongsToClient(row)'
  BY <1>1 DEF BelongsToClient, IsClientOf
<1>5. CASE Broker!CreateReminder(p, r)
  <2>0. PICK t \in Times : reminders' = [reminders EXCEPT ![r] =
           [client |-> crmWhat[p][1], broker |-> crmWhat[p][2], reminderAt |-> t, done |-> FALSE]]
    BY <1>5 DEF Broker!CreateReminder
  <2> DEFINE row == [client |-> crmWhat[p][1], broker |-> crmWhat[p][2], reminderAt |-> t, done |-> FALSE]
  <2>1. BelongsToClient(row)
    BY <1>5 DEF Broker!CreateReminder, BrokerInv, ReadsOK, BelongsToClient, IsClientOf, Broker!Reminders
  <2>2. row # None /\ row \in Broker!Reminders
    BY <2>1, NoneIsNoRow DEF BelongsToClient
  <2>3. reminders' = [reminders EXCEPT ![r] = row] /\ crmCrossed' = crmCrossed /\ crmAt'[p] = "idle"
    BY <1>5, <2>0 DEF Broker!CreateReminder, Broker!Done, Broker!Goto, BrokerInv, ReadsOK
  <2> HIDE DEF row
  <2>4. QED
    BY <1>1, <1>2, <1>3, <1>4, <2>1, <2>2, <2>3
       DEF BrokerInv, RowsOK, ReadsOK, DoneIsThere, IsClientOf, ClientsKept
<1>6. CASE Broker!FindReminder(p, b, r)
  <2>1. reminders' = reminders /\ crmCrossed' = crmCrossed
    BY <1>6 DEF Broker!FindReminder
  <2>2. /\ crmAt'[p] \in {"done", "drop"} /\ crmWhat'[p] = <<r, reminders[r]>>
        /\ reminders[r] # None /\ BelongsToClient(reminders[r])
    BY <1>6 DEF Broker!FindReminder, Broker!Goto, BrokerInv, ReadsOK, RowsOK
  <2>3. QED
    BY <1>1, <1>2, <1>3, <1>4, <2>1, <2>2
       DEF BrokerInv, RowsOK, ReadsOK, DoneIsThere, IsClientOf, ClientsKept
<1>7. CASE Broker!MarkReminderDone(p)
  <2> DEFINE row == [crmWhat[p][2] EXCEPT !.done = TRUE]
  <2>1. crmWhat[p][1] \in ReminderIds /\ BelongsToClient(crmWhat[p][2])
    BY <1>7 DEF Broker!MarkReminderDone, BrokerInv, ReadsOK
  <2>2. BelongsToClient(row)
    BY <2>1 DEF BelongsToClient, IsClientOf, Broker!Reminders
  <2>3. row # None /\ row \in Broker!Reminders
    BY <2>2, NoneIsNoRow DEF BelongsToClient
  <2>4. /\ reminders' = [reminders EXCEPT ![crmWhat[p][1]] = row]
        /\ crmCrossed' = crmCrossed /\ crmAt'[p] = "idle"
    BY <1>7 DEF Broker!MarkReminderDone, Broker!Done, Broker!Goto, BrokerInv, ReadsOK
  <2> HIDE DEF row
  <2>5. QED
    BY <1>1, <1>2, <1>3, <1>4, <2>2, <2>3, <2>4
       DEF BrokerInv, RowsOK, ReadsOK, DoneIsThere, IsClientOf, ClientsKept
<1>8. CASE Broker!DeleteReminder(p)
  <2>1. /\ reminders' = [reminders EXCEPT ![crmWhat[p][1]] = None] /\ crmAt'[p] = "idle"
        /\ crmCrossed \subseteq crmCrossed'
        /\ \A q \in Requests : crmAt[q] = "done" /\ crmWhat[q][1] = crmWhat[p][1] => crmWhat[q][1] \in crmCrossed'
    BY <1>8 DEF Broker!DeleteReminder, Broker!Done, Broker!Goto, BrokerInv, ReadsOK
  <2>2. QED
    BY <1>1, <1>2, <1>3, <1>4, <2>1
       DEF BrokerInv, RowsOK, ReadsOK, DoneIsThere, IsClientOf, ClientsKept
<1>9. QED
  BY <1>5, <1>6, <1>7, <1>8

LEMMA BrokerNext ==
  ASSUME BrokerInv, [Broker!Next]_(Broker!vars)
  PROVE  BrokerInv' /\ ClientsKept
<1>1. ASSUME NEW p \in Requests, Broker!UpdateClient(p) \/ Broker!DeleteDeal(p) \/ Broker!Crash(p)
      PROVE  BrokerInv' /\ ClientsKept
  <2>1. UNCHANGED <<clients, reminders, crmCrossed>> /\ Broker!Goto(p, "idle", None)
    BY <1>1 DEF Broker!UpdateClient, Broker!DeleteDeal, Broker!Crash, Broker!Done
  <2>2. QED
    BY <2>1 DEF Broker!Goto, BrokerInv, RowsOK, ReadsOK, DoneIsThere, IsClientOf, BelongsToClient, ClientsKept,
                  Broker!Steps
<1>2. ASSUME NEW p \in Requests, NEW b \in People, NEW d \in DealIds, Broker!FindDeal(p, b, d)
      PROVE  BrokerInv' /\ ClientsKept
  <2>1. UNCHANGED <<clients, reminders, crmCrossed>> /\ Broker!Goto(p, "deleteDeal", <<d, b>>)
    BY <1>2 DEF Broker!FindDeal
  <2>2. QED
    BY <2>1 DEF Broker!Goto, BrokerInv, RowsOK, ReadsOK, DoneIsThere, IsClientOf, BelongsToClient, ClientsKept,
                  Broker!Steps
<1>3. ASSUME UNCHANGED <<clients, reminders, crmAt, crmWhat, crmCrossed>>
      PROVE  BrokerInv' /\ ClientsKept
  BY <1>3 DEF BrokerInv, RowsOK, ReadsOK, DoneIsThere, IsClientOf, BelongsToClient, ClientsKept
<1>4. ASSUME NEW p \in Requests, Broker!DeleteClient(p)
      PROVE  BrokerInv' /\ ClientsKept
  <2>1. crmWhat[p][1] \in ClientIds /\ clients[crmWhat[p][1]] \in Broker!Owned
    BY <1>4 DEF Broker!DeleteClient, BrokerInv, ReadsOK, RowsOK
  <2>2. clients[crmWhat[p][1]].broker \in People
    BY <2>1 DEF Broker!Owned
  <2>3. QED
    BY <1>4, <2>1, <2>2, ClientStep
<1>5. ASSUME NEW p \in Requests, Broker!MarkReminderDone(p) \/ Broker!DeleteReminder(p)
      PROVE  BrokerInv' /\ ClientsKept
  <2>1. crmWhat[p][1] \in ReminderIds /\ BelongsToClient(crmWhat[p][2])
    BY <1>5 DEF Broker!MarkReminderDone, Broker!DeleteReminder, BrokerInv, ReadsOK
  <2>2. crmWhat[p][2].broker \in People
    BY <2>1 DEF BelongsToClient, Broker!Reminders
  <2>3. QED
    BY <1>5, <2>1, <2>2, ReminderStep
<1>6. ASSUME NEW p \in Requests, NEW b \in People, NEW c \in ClientIds,
             Broker!CreateClient(p, b, c) \/ Broker!FindClient(p, b, c)
      PROVE  BrokerInv' /\ ClientsKept
  BY <1>6, ClientStep
<1>7. ASSUME NEW p \in Requests, NEW b \in People, NEW r \in ReminderIds,
             Broker!FindReminder(p, b, r)
      PROVE  BrokerInv' /\ ClientsKept
  BY <1>7, ReminderStep
<1>8. ASSUME NEW p \in Requests, NEW r \in ReminderIds, Broker!CreateReminder(p, r)
      PROVE  BrokerInv' /\ ClientsKept
  <2>1. crmWhat[p][2] \in People
    BY <1>8 DEF Broker!CreateReminder, BrokerInv, ReadsOK
  <2>2. QED
    BY <1>8, <2>1, ReminderStep
<1>9. QED
  BY <1>1, <1>2, <1>3, <1>4, <1>5, <1>6, <1>7, <1>8 DEF Broker!Next, Broker!vars, Broker!CreateDeal

LEMMA BrokerInvariant == ServicesSpec => []BrokerInv
BY BrokerInit, BrokerNext, EachServiceSteps, PTL DEF Broker!Spec

\* Of the reminders counted for a client, its broker is at any moment reminded
\* of just those due in the next 48 hours: no request, however old what it read
\* is, writes a reminder of another broker's client (createReminder,
\* markReminderDone), which the count would take in and the list leave out.
THEOREM RemindersAgree == ServicesSpec => []Broker!UpcomingAgree
<1>1. ASSUME BrokerInv, NEW c \in ClientIds, clients[c] # None, NEW r \in ReminderIds,
             reminders[r] # None, reminders[r].client = c
      PROVE  reminders[r].broker = clients[c].broker
  BY <1>1 DEF BrokerInv, RowsOK, BelongsToClient, IsClientOf
<1>2. BrokerInv => Broker!UpcomingAgree
  BY <1>1 DEF Broker!UpcomingAgree, Broker!Upcoming, Broker!UpcomingReminders
<1>3. QED
  BY BrokerInvariant, <1>2, PTL

\* A deleted client stays deleted, also while it is being updated, and a
\* reminder that is being marked as done is there unless it was deleted
\* meanwhile (deleteClient, updateClient, deleteReminder).
LEMMA DeletedClientsStay == ServicesSpec => Broker!DeletedStays
<1>1. BrokerInv /\ [Broker!Next]_(Broker!vars) =>
        /\ \A c \in ClientIds : clients[c] # None /\ clients[c].removed => clients'[c].removed
        /\ \A p \in Requests : crmAt[p] = "done" /\ crmWhat[p][1] \notin crmCrossed
             => reminders[crmWhat[p][1]] # None
  BY BrokerNext DEF ClientsKept, BrokerInv, DoneIsThere
<1>2. QED
  BY BrokerInvariant, <1>1, EachServiceSteps, PTL DEF Broker!Spec, Broker!DeletedStays
-----------------------------------------------------------------------------
(* Projects.                                                               *)

\* The index after a call, and whether it is what the project's row says.
After(c) == IF c[1] = "delete" \/ (c[1] = "update" /\ index = None) THEN None ELSE c[2]
ShownAs(i) ==
    /\ status \in {"none", "removed"} => i = None
    /\ status \in {"active", "inactive"} => totalUnits = units /\ i \in {None, units}
    /\ status = "active" => i # None

\* What was counted, now or before, is never more than there is.
UnitsBound ==
    /\ totalUnits <= units /\ (index # None => index <= units)
    /\ \A c \in calls : c[2] <= units
    /\ \A p \in Requests : count[p] <= units

\* While requests take turns and calls arrive, there is one request or one
\* call under way, and the index is right once it is done.
Undisturbed ==
    /\ \A p, q \in Requests : projectAt[p] # "idle" /\ projectAt[q] # "idle" => p = q
    /\ \A p \in Requests : projectAt[p] # "idle" =>
          calls = {} /\ status \in {"active", "inactive"}
    /\ \A c, d \in calls : c = d
    /\ \A c \in calls : ShownAs(After(c))
    /\ calls = {} /\ (\A p \in Requests : projectAt[p] \notin {"count", "store"}) => ShownAs(index)
    /\ \A p \in Requests :
          /\ projectAt[p] \in {"count", "store"} /\ status = "active" => index # None
          /\ projectAt[p] = "store" => count[p] = units

ProjectInv ==
    /\ Project!TypeOK /\ UnitsBound
    /\ status = "none" => /\ calls = {} /\ units = 0 /\ totalUnits = 0 /\ index = None
                          /\ \A p \in Requests : projectAt[p] = "idle"
    /\ ~disturbed => Undisturbed

\* The types, spelt out.
LEMMA ProjectTypes ==
  ASSUME Project!TypeOK
  PROVE  /\ MaxUnits \in Nat /\ None \notin Int
         /\ totalUnits \in Nat /\ units \in Nat /\ units <= MaxUnits
         /\ index \in Nat \cup {None}
         /\ \A c \in calls : c[1] \in {"index", "update", "delete"} /\ c[2] \in Nat
         /\ projectAt \in [Requests -> {"idle", "update", "addUnit", "count", "store"}]
         /\ count \in [Requests -> Nat] /\ disturbed \in BOOLEAN
BY CountsAssumption, NoneAssumption DEF Project!TypeOK, Project!Calls

LEMMA ProjectInit == Project!Init => ProjectInv
<1> SUFFICES ASSUME Project!Init PROVE ProjectInv
  OBVIOUS
<1>0. 0 \in 0..MaxUnits
  BY CountsAssumption
<1>1. Project!TypeOK
  <2>1. count \in [Requests -> 0..MaxUnits]
    BY <1>0 DEF Project!Init
  <2>2. QED
    BY <1>0, <2>1 DEF Project!Init, Project!TypeOK
<1>2. /\ status = "none" /\ totalUnits = 0 /\ units = 0 /\ index = None /\ calls = {}
      /\ \A p \in Requests : projectAt[p] = "idle" /\ count[p] = 0
  BY DEF Project!Init
<1>3. QED
  BY <1>1, <1>2 DEF ProjectInv, UnitsBound, Undisturbed, ShownAs

\* Types alone.
LEMMA ProjectTypesKept ==
  ASSUME Project!TypeOK, UnitsBound, [Project!Next]_(Project!vars)
  PROVE  Project!TypeOK'
<1> USE DEF Project!TypeOK, Project!Continue, Project!Send, Project!Begin
<1>0. MaxUnits \in Nat /\ 0 \in 0..MaxUnits
  BY CountsAssumption
<1>1. \A n \in 0..MaxUnits : /\ <<"index", n>> \in Project!Calls /\ <<"update", n>> \in Project!Calls
                             /\ <<"delete", 0>> \in Project!Calls
  BY DEF Project!Calls
<1>2. ASSUME NEW p \in Requests, Project!Create(p) \/ Project!Find(p) PROVE Project!TypeOK'
  BY <1>0, <1>1, <1>2 DEF Project!Create, Project!Find
<1>3. ASSUME NEW p \in Requests, NEW active \in BOOLEAN,
             Project!Update(p) \/ Project!Remove(p) \/ Project!UpdateStatus(p, active)
      PROVE  Project!TypeOK'
  BY <1>0, <1>1, <1>3 DEF Project!Update, Project!Remove, Project!UpdateStatus
<1>4. ASSUME NEW p \in Requests, Project!AddUnit(p) \/ Project!CountUnits(p) PROVE Project!TypeOK'
  BY <1>0, <1>4 DEF Project!AddUnit, Project!CountUnits
<1>5. ASSUME NEW p \in Requests, Project!StoreTotal(p) \/ Project!Crash(p) PROVE Project!TypeOK'
  <2>1. CASE Project!StoreTotal(p)
    <3>1. count[p] \in 0..MaxUnits
      OBVIOUS
    <3>2. calls' \subseteq Project!Calls /\ totalUnits' \in 0..MaxUnits
      BY <1>1, <2>1, <3>1 DEF Project!StoreTotal
    <3>3. count' \in [Requests -> 0..MaxUnits]
      BY <1>0, <2>1 DEF Project!StoreTotal
    <3>4. QED
      BY <2>1, <3>2, <3>3 DEF Project!StoreTotal
  <2>2. CASE Project!Crash(p)
    BY <1>0, <2>2 DEF Project!Crash
  <2>3. QED
    BY <1>5, <2>1, <2>2
<1>6. CASE Project!Deliver \/ Project!Lose
  <2>1. \A c \in calls : c[1] = "delete" \/ c[2] \in 0..MaxUnits
    BY DEF Project!Calls
  <2>2. QED
    BY <1>6, <2>1 DEF Project!Deliver, Project!Lose
<1>7. CASE UNCHANGED Project!vars
  BY <1>7 DEF Project!vars
<1>8. QED
  BY <1>2, <1>3, <1>4, <1>5, <1>6, <1>7 DEF Project!Next

\* A step keeps what was counted below what there is ...
LEMMA UnitsStep ==
  ASSUME Project!TypeOK, UnitsBound, Project!Next
  PROVE  UnitsBound'
<1> USE ProjectTypes DEF UnitsBound, Project!Continue, Project!Send, Project!Begin
<1>1. ASSUME NEW p \in Requests, Project!Create(p) \/ Project!Find(p) PROVE UnitsBound'
  BY <1>1 DEF Project!Create, Project!Find
<1>2. ASSUME NEW p \in Requests, NEW active \in BOOLEAN,
             Project!Update(p) \/ Project!Remove(p) \/ Project!UpdateStatus(p, active)
      PROVE  UnitsBound'
  BY <1>2 DEF Project!Update, Project!Remove, Project!UpdateStatus
<1>3. ASSUME NEW p \in Requests,
             Project!AddUnit(p) \/ Project!CountUnits(p) \/ Project!StoreTotal(p) \/ Project!Crash(p)
      PROVE  UnitsBound'
  BY <1>3 DEF Project!AddUnit, Project!CountUnits, Project!StoreTotal, Project!Crash
<1>4. CASE Project!Deliver \/ Project!Lose
  BY <1>4 DEF Project!Deliver, Project!Lose
<1>5. QED
  BY <1>1, <1>2, <1>3, <1>4 DEF Project!Next

\* ... and, while requests take turns, the index on its way.
LEMMA CallLeft ==
  ASSUME NEW c, calls' = {c}, \A q \in Requests : projectAt'[q] = "idle", ShownAs(After(c))'
  PROVE  Undisturbed'
BY DEF Undisturbed

LEMMA TurnStep ==
  ASSUME ProjectInv, ~disturbed, Project!Next, ~disturbed'
  PROVE  Undisturbed'
<1> USE ProjectTypes DEF ProjectInv, UnitsBound
<1>1. ASSUME NEW p \in Requests, Project!Create(p) PROVE Undisturbed'
  <2>1. /\ calls' = {<<"index", 0>>} /\ status' = "active" /\ units' = 0 /\ totalUnits' = 0
        /\ \A q \in Requests : projectAt'[q] = "idle"
    BY <1>1 DEF Project!Create, Project!Send
  <2>2. index' = None
    BY <1>1 DEF Project!Create
  <2>3. ShownAs(After(<<"index", 0>>))'
    BY <2>1, <2>2 DEF ShownAs, After
  <2>4. QED
    BY <2>1, <2>3, CallLeft
<1>2. ASSUME NEW p \in Requests, Project!Find(p) PROVE Undisturbed'
  <2>1. /\ calls = {} /\ \A q \in Requests : projectAt[q] = "idle"
        /\ projectAt'[p] \in {"update", "addUnit"}
        /\ \A q \in Requests \ {p} : projectAt'[q] = "idle"
        /\ UNCHANGED <<status, totalUnits, units, index, calls, count>>
        /\ status \in {"active", "inactive"}
    BY <1>2 DEF Project!Find, Project!Begin, Project!Quiet, Project!Exists
  <2>2. QED
    BY <2>1 DEF Undisturbed, ShownAs, After
\* A request that is alone; the index is what the row says, and stays so.
<1>3. ASSUME NEW p \in Requests, NEW active \in BOOLEAN,
             Project!Update(p) \/ Project!Remove(p) \/ Project!UpdateStatus(p, active)
      PROVE  Undisturbed'
  <2>1. /\ projectAt[p] = "update" /\ \A q \in Requests : projectAt'[q] = "idle"
        /\ UNCHANGED <<totalUnits, units, index, count>>
    BY <1>3 DEF Project!Update, Project!Remove, Project!UpdateStatus, Project!Continue, Undisturbed
  <2>2. calls = {} /\ status \in {"active", "inactive"} /\ totalUnits = units
    BY <2>1 DEF Undisturbed, ShownAs
  <2>3. \/ status' \in {"active", "inactive"} /\ calls' = {<<"index", totalUnits>>}
        \/ status' \in {"inactive", "removed"} /\ calls' = {<<"delete", 0>>}
    BY <1>3, <2>2 DEF Project!Update, Project!Remove, Project!UpdateStatus, Project!Send
  <2>4. CASE status' \in {"active", "inactive"} /\ calls' = {<<"index", totalUnits>>}
    <3>1. PICK n \in Nat : n = totalUnits
      OBVIOUS
    <3>2. ShownAs(After(<<"index", n>>))'
      BY <2>1, <2>2, <2>4, <3>1 DEF ShownAs, After
    <3>3. QED
      BY <2>1, <2>4, <3>1, <3>2, CallLeft
  <2>5. CASE status' \in {"inactive", "removed"} /\ calls' = {<<"delete", 0>>}
    <3>1. ShownAs(After(<<"delete", 0>>))'
      BY <2>1, <2>2, <2>5 DEF ShownAs, After
    <3>2. QED
      BY <2>1, <2>5, <3>1, CallLeft
  <2>6. QED
    BY <2>3, <2>4, <2>5
<1>4. ASSUME NEW p \in Requests, Project!AddUnit(p) PROVE Undisturbed'
  <2>1. /\ projectAt[p] = "addUnit" /\ projectAt'[p] = "count"
        /\ \A q \in Requests \ {p} : projectAt'[q] = "idle"
        /\ UNCHANGED <<status, totalUnits, index, calls, count>>
    BY <1>4 DEF Project!AddUnit, Project!Continue, Undisturbed
  <2>2. calls = {} /\ status \in {"active", "inactive"} /\ ShownAs(index)
    BY <2>1 DEF Undisturbed
  <2>3. QED
    BY <2>1, <2>2 DEF Undisturbed, ShownAs
<1>5. ASSUME NEW p \in Requests, Project!CountUnits(p) PROVE Undisturbed'
  <2>1. /\ projectAt[p] = "count" /\ projectAt'[p] = "store" /\ count'[p] = units
        /\ \A q \in Requests \ {p} : projectAt'[q] = "idle"
        /\ UNCHANGED <<status, totalUnits, units, index, calls>>
    BY <1>5 DEF Project!CountUnits, Project!Continue, Undisturbed
  <2>2. QED
    BY <2>1 DEF Undisturbed, ShownAs
<1>6. ASSUME NEW p \in Requests, Project!StoreTotal(p) PROVE Undisturbed'
  <2>1. /\ projectAt[p] = "store" /\ \A q \in Requests : projectAt'[q] = "idle"
        /\ UNCHANGED <<status, units, index>>
    BY <1>6 DEF Project!StoreTotal, Project!Continue, Undisturbed
  <2>2. /\ calls = {} /\ count[p] = units /\ status \in {"active", "inactive"}
        /\ status = "active" => index # None
    BY <2>1 DEF Undisturbed
  <2>3. totalUnits' = units /\ calls' = {<<"update", units>>}
    BY <1>6, <2>2 DEF Project!StoreTotal, Project!Send
  <2>4. PICK n \in Nat : n = units
    OBVIOUS
  <2>5. ShownAs(After(<<"update", n>>))'
    BY <2>1, <2>2, <2>3, <2>4 DEF ShownAs, After
  <2>6. QED
    BY <2>1, <2>3, <2>4, <2>5, CallLeft
<1>7. CASE Project!Deliver
  <2>1. PICK c \in calls : /\ calls' = calls \ {c} /\ index' = After(c)
                           /\ UNCHANGED <<status, totalUnits, units, projectAt, count>>
    BY <1>7 DEF Project!Deliver, After
  <2>2. calls' = {} /\ \A q \in Requests : projectAt[q] = "idle"
    BY <2>1 DEF Undisturbed
  <2>3. ShownAs(After(c))
    BY <2>1 DEF Undisturbed
  <2>4. ShownAs(index)'
    BY <2>1, <2>3 DEF ShownAs
  <2>5. QED
    BY <2>1, <2>2, <2>4 DEF Undisturbed
<1>8. QED
  BY <1>1, <1>2, <1>3, <1>4, <1>5, <1>6, <1>7 DEF Project!Next, Project!Lose, Project!Crash

LEMMA ProjectInvariant == ServicesSpec => []ProjectInv
<1>1. ProjectInv /\ [Project!Next]_(Project!vars) => ProjectInv'
  <2> SUFFICES ASSUME ProjectInv, [Project!Next]_(Project!vars) PROVE ProjectInv'
    OBVIOUS
  <2>1. Project!TypeOK'
    BY ProjectTypesKept DEF ProjectInv
  <2>2. CASE UNCHANGED Project!vars
    BY <2>1, <2>2 DEF Project!vars, ProjectInv, UnitsBound, Undisturbed, ShownAs, After
  <2>3. CASE Project!Next
    <3>1. UnitsBound'
      BY <2>3, UnitsStep DEF ProjectInv
    <3>2. status' = "none" => UNCHANGED <<status, units, totalUnits, index, calls, projectAt>>
      BY <2>3 DEF ProjectInv, Project!Next, Project!Create, Project!Find, Project!Begin,
                  Project!Exists, Project!Update, Project!Remove, Project!UpdateStatus,
                  Project!AddUnit, Project!CountUnits, Project!StoreTotal, Project!Crash,
                  Project!Deliver, Project!Lose
    <3>3. disturbed => disturbed'
      BY <2>3 DEF ProjectInv, Project!TypeOK, Project!Next, Project!Create, Project!Find,
                  Project!Begin, Project!Update, Project!Remove, Project!UpdateStatus,
                  Project!AddUnit, Project!CountUnits, Project!StoreTotal, Project!Crash,
                  Project!Deliver, Project!Lose, Project!Continue
    <3>4. ~disturbed' => Undisturbed'
      BY <2>3, <3>3, TurnStep
    <3>5. QED
      BY <2>1, <3>1, <3>2, <3>4 DEF ProjectInv
  <2>4. QED
    BY <2>2, <2>3
<1>2. QED
  BY ProjectInit, <1>1, EachServiceSteps, PTL DEF Project!Spec

\* No project, and no object of one, is said to have more units than it has,
\* in whatever order units are added, counted and written; and while requests
\* take turns and calls arrive, an active project can be found, with all its
\* units, and a removed one cannot (addUnit, updateStatus, remove).
THEOREM ProjectsShow == ServicesSpec => []ProjectShows
<1>1. ProjectInv => ProjectShows
  BY ProjectTypes
     DEF ProjectInv, UnitsBound, Undisturbed, ShownAs, ProjectShows, Project!ProjectShows,
         Project!TotalsNeverAbove, Project!IndexFollows, Project!Quiet
<1>2. QED
  BY ProjectInvariant, <1>1, PTL

\* A removed project stays removed, also while its developer updates it.
LEMMA RemovedProjectsStay == ServicesSpec => Project!RemovedStays
<1>1. [Project!Next]_(Project!vars) => (status = "removed" => status' = "removed")
  BY DEF Project!Next, Project!vars, Project!Create, Project!Find, Project!Exists,
         Project!Update, Project!Remove, Project!UpdateStatus, Project!AddUnit,
         Project!CountUnits, Project!StoreTotal, Project!Crash, Project!Deliver, Project!Lose
<1>2. QED
  BY <1>1, EachServiceSteps, PTL DEF Project!Spec, Project!RemovedStays

-----------------------------------------------------------------------------
(* Alerts.                                                                 *)

\* Filters and listings as numbers and choices.
LEMMA FilterTypes ==
  /\ \A f \in Alert!Filters :
        /\ f.rooms \in Int \cup {None} /\ f.from \in Int \cup {None} /\ f.to \in Int \cup {None}
  /\ \A l \in Alert!Listings : l.rooms \in Int \cup {None} /\ l.price \in Int
  /\ None \notin Int
BY AmountsAssumption, NoneAssumption DEF Alert!Filters, Alert!Listings

\* What the index finds, the service's own comparison finds as well; and the
\* other way round, but for what is not PUBLISHED, filters by maxGuests, and
\* listings without rooms, which count as 0 (or fewer, as nothing keeps a
\* filter from being negative).
LEMMA MatchesAsFound ==
  ASSUME NEW l \in Alert!Listings, NEW f \in Alert!Filters
  PROVE  /\ Alert!AlgoliaFinds(l, f) => Alert!MatchesFilters(l, f)
         /\ Alert!MatchesFilters(l, f) => Alert!AlgoliaFinds(l, f) \/ Alert!Differs(l, f)
<1>1. (f.from # None => l.price >= f.from) /\ (f.to # None => l.price <= f.to)
        <=> \/ f.from # None /\ f.to # None /\ l.price \in f.from .. f.to
            \/ f.from # None /\ f.to = None /\ l.price >= f.from
            \/ f.from = None /\ (f.to # None => l.price <= f.to)
  BY FilterTypes
<1>2. /\ l.rooms # None /\ l.rooms >= f.rooms => Alert!Number(l.rooms) >= f.rooms
      /\ f.rooms # None /\ Alert!Number(l.rooms) >= f.rooms =>
            \/ l.rooms # None /\ l.rooms >= f.rooms
            \/ l.rooms = None /\ f.rooms <= 0
  BY FilterTypes DEF Alert!Number
<1>3. Alert!AlgoliaFinds(l, f) => Alert!MatchesFilters(l, f)
  BY <1>1, <1>2 DEF Alert!MatchesFilters, Alert!AlgoliaFinds
<1>4. ASSUME Alert!MatchesFilters(l, f), ~Alert!Differs(l, f) PROVE Alert!AlgoliaFinds(l, f)
  BY <1>1, <1>2, <1>4 DEF Alert!MatchesFilters, Alert!AlgoliaFinds, Alert!Differs, Alert!Listings
<1>5. QED
  BY <1>3, <1>4

Matches(s) == searches[s] # None /\ Alert!MatchesFilters(listing, searches[s].filters)

\* Checks raise alerts for what matches and pass over what does not; a
\* search that is switched on or off is there, or was deleted meanwhile.
AlertInv ==
    /\ Alert!TypeOK
    /\ alertWhat = [p \in Checks |-> alertWhat[p]]
    /\ \A p \in Checks : alertAt[p] = "alert" =>
          alertWhat[p][1] \subseteq {s \in SearchIds : Matches(s)}
    /\ \A s \in passedOver : searches[s] # None /\ ~Matches(s)
    /\ \A p \in Checks : alertAt[p] = "toggle" =>
          /\ alertWhat[p][2] \in BOOLEAN
          /\ \A s \in alertWhat[p][1] :
                /\ s \in SearchIds /\ searches[s] # None
                /\ searches[s].removed => s \in alertCrossed

LEMMA AlertInit == Alert!Init => AlertInv
<1> SUFFICES ASSUME Alert!Init PROVE AlertInv
  OBVIOUS
<1>1. 0 \in 0..MaxAlerts
  BY CountsAssumption
<1>2. Alert!TypeOK
  BY <1>1 DEF Alert!Init, Alert!TypeOK
<1>3. QED
  BY <1>2 DEF Alert!Init, AlertInv

\* What a saved search asks for stays, and so does the listing.
FiltersKept ==
    /\ listing' = listing
    /\ \A s \in SearchIds : searches[s] # None =>
          searches'[s] # None /\ searches'[s].filters = searches[s].filters

LEMMA MatchesKept ==
  ASSUME FiltersKept, NEW s \in SearchIds, searches[s] # None
  PROVE  Matches(s)' <=> Matches(s)
BY DEF FiltersKept, Matches

\* One search's row is written.
LEMMA SearchWritten ==
  ASSUME Alert!TypeOK, NEW s \in SearchIds, NEW row \in Alert!Searches, listing' = listing,
         searches' = [searches EXCEPT ![s] = row],
         searches[s] # None => row.filters = searches[s].filters
  PROVE  /\ searches' \in [SearchIds -> Alert!Searches \cup {None}] /\ FiltersKept
         /\ searches'[s] = row /\ row # None
         /\ \A t \in SearchIds \ {s} : searches'[t] = searches[t]
<1>1. row # None
  BY NoneAssumption
<1>2. QED
  BY <1>1 DEF Alert!TypeOK, FiltersKept

LEMMA SearchStep ==
  ASSUME AlertInv, NEW s \in SearchIds,
         Alert!SaveSearch(s) \/ Alert!DeleteSavedSearch(s)
  PROVE  AlertInv'
<1>1. PICK row \in Alert!Searches :
        /\ searches' = [searches EXCEPT ![s] = row]
        /\ searches[s] # None => row.filters = searches[s].filters
        /\ row.removed => searches[s] # None
  <2>1. CASE Alert!SaveSearch(s)
    <3>1. PICK f \in Alert!Few :
            searches' = [searches EXCEPT ![s] =
                            [filters |-> f, alertEnabled |-> TRUE, removed |-> FALSE]]
      BY <2>1 DEF Alert!SaveSearch
    <3>2. [filters |-> f, alertEnabled |-> TRUE, removed |-> FALSE] \in Alert!Searches
      BY DEF Alert!Few, Alert!Searches
    <3>3. QED
      BY <2>1, <3>1, <3>2 DEF Alert!SaveSearch
  <2>2. CASE Alert!DeleteSavedSearch(s)
    <3>1. searches[s] \in Alert!Searches /\ searches[s] # None
      BY <2>2 DEF Alert!DeleteSavedSearch, Alert!Exists, AlertInv, Alert!TypeOK
    <3>2. /\ [searches[s] EXCEPT !.removed = TRUE] \in Alert!Searches
          /\ [searches[s] EXCEPT !.removed = TRUE].filters = searches[s].filters
      BY <3>1 DEF Alert!Searches
    <3>3. searches' = [searches EXCEPT ![s] = [searches[s] EXCEPT !.removed = TRUE]]
      BY <2>2 DEF Alert!DeleteSavedSearch
    <3>4. QED
      BY <3>1, <3>2, <3>3
  <2>3. QED
    BY <2>1, <2>2
<1>2. /\ UNCHANGED <<listing, alerts, alertAt, alertWhat, passedOver>>
      /\ alertCrossed \subseteq alertCrossed' /\ alertCrossed' \subseteq SearchIds
      /\ searches[s] # None =>
            \A p \in Checks : alertAt[p] = "toggle" /\ s \in alertWhat[p][1] => s \in alertCrossed'
  BY DEF Alert!SaveSearch, Alert!DeleteSavedSearch, AlertInv, Alert!TypeOK
<1>3. /\ searches' \in [SearchIds -> Alert!Searches \cup {None}] /\ FiltersKept
      /\ searches'[s] = row
      /\ \A t \in SearchIds \ {s} : searches'[t] = searches[t]
  BY <1>1, <1>2, SearchWritten DEF AlertInv
<1>4. Alert!TypeOK'
  BY <1>2, <1>3 DEF AlertInv, Alert!TypeOK
<1>5. \A t \in SearchIds : searches[t] # None => searches'[t] # None /\ (Matches(t)' <=> Matches(t))
  BY <1>3, MatchesKept DEF FiltersKept
<1>6. /\ \A p \in Checks : alertAt'[p] = "alert" =>
            alertWhat'[p][1] \subseteq {t \in SearchIds : Matches(t)'}
      /\ \A t \in passedOver' : searches'[t] # None /\ ~Matches(t)'
  BY <1>2, <1>5 DEF AlertInv, Matches, Alert!TypeOK
<1>7. \A p \in Checks : alertAt'[p] = "toggle" =>
          /\ alertWhat'[p][2] \in BOOLEAN
          /\ \A t \in alertWhat'[p][1] :
                /\ t \in SearchIds /\ searches'[t] # None
                /\ searches'[t].removed => t \in alertCrossed'
  BY <1>1, <1>2, <1>3, <1>5 DEF AlertInv
<1>8. alertWhat' = [p \in Checks |-> alertWhat'[p]]
  BY <1>2 DEF AlertInv
<1>9. QED
  BY <1>4, <1>6, <1>7, <1>8 DEF AlertInv

LEMMA CheckStep ==
  ASSUME AlertInv, NEW p \in Checks,
         \/ \E s \in SearchIds, on \in BOOLEAN : Alert!ToggleAlert(p, s, on)
         \/ Alert!CheckNewListing(p) \/ Alert!RaiseAlerts(p)
  PROVE  AlertInv'
<1>1. UNCHANGED <<listing, searches, alertCrossed>>
  BY DEF Alert!ToggleAlert, Alert!CheckNewListing, Alert!RaiseAlerts
<1>2. \A s : Matches(s)' <=> Matches(s)
  BY <1>1 DEF Matches
<1>3. ASSUME NEW s \in SearchIds, NEW on \in BOOLEAN, Alert!ToggleAlert(p, s, on) PROVE AlertInv'
  <2>1. /\ Alert!TypeOK' /\ alertWhat' = [q \in Checks |-> alertWhat'[q]]
        /\ alertAt'[p] = "toggle" /\ alertWhat'[p] = <<{s}, on>>
        /\ \A q \in Checks \ {p} : alertAt'[q] = alertAt[q] /\ alertWhat'[q] = alertWhat[q]
        /\ UNCHANGED passedOver
    BY <1>1, <1>3 DEF Alert!ToggleAlert, Alert!Goto, AlertInv, Alert!TypeOK
  <2>2. searches[s] # None /\ ~searches[s].removed
    BY <1>3 DEF Alert!ToggleAlert, Alert!Exists
  <2>3. QED
    BY <1>1, <1>2, <2>1, <2>2 DEF AlertInv
<1>4. CASE Alert!CheckNewListing(p)
  <2>1. /\ Alert!Matched \subseteq {s \in SearchIds : Matches(s)}
        /\ \A s \in Alert!Watching \ Alert!Matched : searches[s] # None /\ ~Matches(s)
        /\ Alert!Watching \subseteq SearchIds
    BY DEF Alert!Matched, Alert!Watching, Alert!Exists, Matches
  <2>2. passedOver' = passedOver \cup (Alert!Watching \ Alert!Matched)
    BY <1>4 DEF Alert!CheckNewListing
  <2>3. \A t \in passedOver' : searches[t] # None /\ ~Matches(t)
    BY <2>1, <2>2 DEF AlertInv
  <2>4. CASE UNCHANGED <<alertAt, alertWhat>>
    <3>1. Alert!TypeOK'
      BY <1>1, <1>4, <2>1, <2>2, <2>4 DEF Alert!CheckNewListing, AlertInv, Alert!TypeOK
    <3>2. QED
      BY <1>1, <1>2, <2>3, <2>4, <3>1 DEF AlertInv
  <2>5. CASE Alert!Goto(p, "alert", <<Alert!Matched, TRUE>>)
    <3>1. /\ alertAt' \in [Checks -> {"idle", "toggle", "alert"}]
          /\ alertWhat' = [q \in Checks |-> alertWhat'[q]]
          /\ alertAt'[p] = "alert" /\ alertWhat'[p][1] = Alert!Matched
          /\ \A q \in Checks \ {p} : alertAt'[q] = alertAt[q] /\ alertWhat'[q] = alertWhat[q]
      BY <2>5 DEF Alert!Goto, AlertInv, Alert!TypeOK
    <3>2. Alert!TypeOK'
      BY <1>1, <1>4, <2>1, <2>2, <3>1 DEF Alert!CheckNewListing, AlertInv, Alert!TypeOK
    <3>3. QED
      BY <1>1, <1>2, <2>1, <2>3, <3>1, <3>2 DEF AlertInv
  <2>6. QED
    BY <1>4, <2>4, <2>5 DEF Alert!CheckNewListing
<1>5. CASE Alert!RaiseAlerts(p)
  <2>1. alerts' \in [SearchIds -> 0..MaxAlerts]
    <3>1. \A n \in 0..MaxAlerts : n < MaxAlerts => n + 1 \in 0..MaxAlerts
      BY CountsAssumption
    <3>2. \A n \in 0..MaxAlerts : n + 0 \in 0..MaxAlerts
      BY CountsAssumption
    <3>3. QED
      BY <1>5, <3>1, <3>2 DEF Alert!RaiseAlerts, AlertInv, Alert!TypeOK
  <2>2. /\ alertAt' \in [Checks -> {"idle", "toggle", "alert"}]
        /\ alertWhat' = [q \in Checks |-> alertWhat'[q]]
        /\ alertAt'[p] = "idle"
        /\ \A q \in Checks \ {p} : alertAt'[q] = alertAt[q] /\ alertWhat'[q] = alertWhat[q]
        /\ UNCHANGED passedOver
    BY <1>5 DEF Alert!RaiseAlerts, Alert!Goto, AlertInv, Alert!TypeOK
  <2>3. Alert!TypeOK'
    BY <1>1, <2>1, <2>2 DEF AlertInv, Alert!TypeOK
  <2>4. QED
    BY <1>1, <1>2, <2>2, <2>3 DEF AlertInv
<1>6. QED
  BY <1>3, <1>4, <1>5

LEMMA SaveToggleStep ==
  ASSUME AlertInv, NEW p \in Checks, Alert!SaveToggle(p)
  PROVE  /\ AlertInv'
         /\ \A s \in SearchIds \ alertCrossed :
               searches[s] # None /\ searches[s].removed => searches'[s].removed
<1>1. PICK s \in alertWhat[p][1] :
        searches' = [searches EXCEPT ![s] =
                        [searches[s] EXCEPT !.alertEnabled = alertWhat[p][2], !.removed = FALSE]]
  BY DEF Alert!SaveToggle
<1>2. /\ alertAt[p] = "toggle" /\ alertAt'[p] = "idle"
      /\ \A q \in Checks \ {p} : alertAt'[q] = alertAt[q] /\ alertWhat'[q] = alertWhat[q]
      /\ alertAt' \in [Checks -> {"idle", "toggle", "alert"}]
      /\ alertWhat' = [q \in Checks |-> alertWhat'[q]]
      /\ UNCHANGED <<listing, alerts, passedOver, alertCrossed>>
  BY DEF Alert!SaveToggle, Alert!Goto, AlertInv, Alert!TypeOK
<1>3. /\ s \in SearchIds /\ searches[s] # None /\ searches[s] \in Alert!Searches
      /\ alertWhat[p][2] \in BOOLEAN
      /\ searches[s].removed => s \in alertCrossed
  BY <1>2 DEF AlertInv, Alert!TypeOK
<1>4. PICK row \in Alert!Searches :
        /\ searches' = [searches EXCEPT ![s] = row]
        /\ row.filters = searches[s].filters /\ ~row.removed
  <2> DEFINE row == [searches[s] EXCEPT !.alertEnabled = alertWhat[p][2], !.removed = FALSE]
  <2>1. row \in Alert!Searches /\ row.filters = searches[s].filters /\ ~row.removed
    BY <1>3 DEF Alert!Searches
  <2>2. QED
    BY <1>1, <2>1
<1>5. /\ searches' \in [SearchIds -> Alert!Searches \cup {None}] /\ FiltersKept
      /\ searches'[s] = row
      /\ \A t \in SearchIds \ {s} : searches'[t] = searches[t]
  BY <1>2, <1>3, <1>4, SearchWritten DEF AlertInv
<1>6. Alert!TypeOK'
  BY <1>2, <1>5 DEF AlertInv, Alert!TypeOK
<1>7. \A t \in SearchIds : searches[t] # None => searches'[t] # None /\ (Matches(t)' <=> Matches(t))
  BY <1>5, MatchesKept DEF FiltersKept
<1>8. /\ \A q \in Checks : alertAt'[q] = "alert" =>
            alertWhat'[q][1] \subseteq {t \in SearchIds : Matches(t)'}
      /\ \A t \in passedOver' : searches'[t] # None /\ ~Matches(t)'
  BY <1>2, <1>7 DEF AlertInv, Matches, Alert!TypeOK
<1>9. \A q \in Checks : alertAt'[q] = "toggle" =>
          /\ alertWhat'[q][2] \in BOOLEAN
          /\ \A t \in alertWhat'[q][1] :
                /\ t \in SearchIds /\ searches'[t] # None
                /\ searches'[t].removed => t \in alertCrossed'
  BY <1>2, <1>4, <1>5, <1>7 DEF AlertInv
<1>10. \A t \in SearchIds \ alertCrossed :
          searches[t] # None /\ searches[t].removed => searches'[t].removed
  BY <1>3, <1>5
<1>11. QED
  BY <1>2, <1>6, <1>8, <1>9, <1>10 DEF AlertInv

LEMMA AlertNext ==
  ASSUME AlertInv, [Alert!Next]_(Alert!vars)
  PROVE  /\ AlertInv'
         /\ \A s \in SearchIds \ alertCrossed :
               searches[s] # None /\ searches[s].removed => searches'[s].removed
<1>1. ASSUME NEW s \in SearchIds, Alert!SaveSearch(s) \/ Alert!DeleteSavedSearch(s)
      PROVE  /\ AlertInv'
             /\ \A t \in SearchIds : searches[t] # None /\ searches[t].removed => searches'[t].removed
  BY <1>1, SearchStep DEF Alert!SaveSearch, Alert!DeleteSavedSearch, Alert!Exists, AlertInv,
                          Alert!TypeOK
<1>2. ASSUME NEW p \in Checks,
             \/ \E s \in SearchIds, on \in BOOLEAN : Alert!ToggleAlert(p, s, on)
             \/ Alert!CheckNewListing(p) \/ Alert!RaiseAlerts(p)
      PROVE  AlertInv' /\ UNCHANGED searches
  BY <1>2, CheckStep DEF Alert!ToggleAlert, Alert!CheckNewListing, Alert!RaiseAlerts
<1>3. CASE UNCHANGED Alert!vars
  BY <1>3 DEF Alert!vars, AlertInv, Alert!TypeOK, Matches
<1>4. QED
  BY <1>1, <1>2, <1>3, SaveToggleStep DEF Alert!Next

LEMMA AlertInvariant == ServicesSpec => []AlertInv
BY AlertInit, AlertNext, EachServiceSteps, PTL DEF Alert!Spec

\* A new listing raises an alert for every watched search that would find it in
\* the index, and for no other but in the three cases of Differs: the same
\* filters, compared here and as a query that is built elsewhere
\* (listingMatchesFilters, buildAlgoliaFilters).
THEOREM AlertsAsFound == ServicesSpec => []AlertsAgree
<1>1. ASSUME AlertInv PROVE AlertsAgree
  <2>1. \A s \in Alert!Raised : s \in SearchIds /\ Matches(s)
    BY <1>1 DEF AlertInv, Alert!Raised
  <2>2. \A s \in passedOver : s \in SearchIds /\ searches[s] # None /\ ~Matches(s)
    BY <1>1 DEF AlertInv, Alert!TypeOK
  <2>3. /\ listing \in Alert!Listings
        /\ \A s \in SearchIds : searches[s] # None => searches[s].filters \in Alert!Filters
    BY <1>1 DEF AlertInv, Alert!TypeOK, Alert!Searches
  <2>4. QED
    BY <2>1, <2>2, <2>3, MatchesAsFound DEF Matches, AlertsAgree, Alert!AlertsAgree
<1>2. QED
  BY AlertInvariant, <1>1, PTL

\* A search that was deleted stays deleted, unless it was being switched on or
\* off meanwhile.
LEMMA DeletedSearchesStay == ServicesSpec => Alert!DeletedStaysDeleted
BY AlertInvariant, AlertNext, EachServiceSteps, PTL DEF Alert!Spec, Alert!DeletedStaysDeleted

\* What is deleted stays deleted, while others work on it from what they have
\* read: searches, projects, and a broker's clients and reminders.
THEOREM DeletedIsGone == ServicesSpec => DeletedStays
BY DeletedSearchesStay, RemovedProjectsStay, DeletedClientsStay, PTL DEF DeletedStays
=============================================================================
