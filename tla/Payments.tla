------------------------------ MODULE Payments ------------------------------
(***************************************************************************)
(* Top-ups of wallets through MyFatoorah (payment.service.ts): an invoice  *)
(* is made there and then saved here; whether it was paid is only heard    *)
(* from the webhook, which MyFatoorah calls for every attempt to pay and   *)
(* calls again until it is answered 200.                                   *)
(*                                                                         *)
(* The handlers' statements are transactions of their own, and neither the *)
(* payment's state nor anything else tells a handler that the event was    *)
(* handled before.  A call is refused only if its signature is wrong, and  *)
(* that is looked at only if there is one, and a secret to check it with:  *)
(* what any caller says without a signature is taken as MyFatoorah's.      *)
(* Refusals are left out: they change nothing.                             *)
(***************************************************************************)
EXTENDS Naturals

CONSTANTS
    Invoices,
    Deliveries,     \* concurrent calls of the webhook
    MaxCalls,       \* bound on MyFatoorah's calls for one event
    MaxUnsigned,    \* bound on the calls of others that say the same
    MaxCrashes      \* bound on calls and requests that die

VARIABLES
    paid,           \* MyFatoorah: invoices that are paid
    tried,          \* events there are to tell, and how often they were told
    answered,       \* MyFatoorah: events the webhook answered with 200
    payment,        \* payments rows
    credits,        \* how often the wallet was topped up for an invoice
    at, event,      \* each call of the webhook: where it is, what it is about
    dropped,        \* those of them answered when there was no payments row
    crashes

vars == <<paid, tried, answered, payment, credits, at, event, dropped, crashes>>
myFatoorah == <<paid, tried, answered>>

\* What a call says of an invoice, and who says so.
Events == Invoices \X {"SUCCESS", "FAILED"} \X {"MyFatoorah", "unsigned"}
NoEvent == <<"none", "none", "none">>

Theirs == {e \in Events : e[3] = "MyFatoorah"}
Limit(e) == IF e \in Theirs THEN MaxCalls ELSE MaxUnsigned

TypeOK ==
    /\ paid \subseteq Invoices /\ answered \subseteq Events /\ dropped \subseteq Events
    /\ tried \in [Events -> Nat] /\ \A e \in Events : tried[e] <= Limit(e) + 1
    /\ payment \in [Invoices -> {"none", "invoiced", "lost", "pending", "paid", "failed"}]
    /\ credits \in [Invoices -> 0..MaxCalls + MaxUnsigned]
    /\ at \in [Deliveries -> {"idle", "markPaid", "topUp", "getStatus", "markFailed"}]
    /\ event \in [Deliveries -> Events \cup {NoEvent}]
    /\ crashes \in 0..MaxCrashes

\* tried: 0 while there is nothing to tell, else 1 more than the calls made.
\* Others than MyFatoorah do not need anything to have happened.
Init ==
    /\ paid = {} /\ answered = {} /\ dropped = {}
    /\ tried = [e \in Events |-> IF e \in Theirs THEN 0 ELSE 1]
    /\ payment = [i \in Invoices |-> "none"]
    /\ credits = [i \in Invoices |-> 0]
    /\ at = [d \in Deliveries |-> "idle"]
    /\ event = [d \in Deliveries |-> NoEvent]
    /\ crashes = 0

HasRow(i) == payment[i] \in {"pending", "paid", "failed"}

-----------------------------------------------------------------------------
\* executeTopUp: the invoice is made at MyFatoorah ("invoiced") ...
ExecutePayment(i) ==
    /\ payment[i] = "none"
    /\ payment' = [payment EXCEPT ![i] = "invoiced"]
    /\ UNCHANGED <<myFatoorah, credits, at, event, dropped, crashes>>

\* ... and saved here, unless the server dies before ("lost").
SavePayment(i) ==
    /\ payment[i] = "invoiced"
    /\ \/ payment' = [payment EXCEPT ![i] = "pending"] /\ UNCHANGED crashes
       \/ /\ crashes < MaxCrashes
          /\ payment' = [payment EXCEPT ![i] = "lost"] /\ crashes' = crashes + 1
    /\ UNCHANGED <<myFatoorah, credits, at, event, dropped>>

\* The customer tries to pay: any number of times in vain, once with success.
Pay(i) ==
    /\ payment[i] # "none" /\ i \notin paid
    /\ \/ /\ tried' = [tried EXCEPT ![<<i, "FAILED", "MyFatoorah">>] = IF @ = 0 THEN 1 ELSE @]
          /\ UNCHANGED paid
       \/ /\ tried' = [tried EXCEPT ![<<i, "SUCCESS", "MyFatoorah">>] = 1]
          /\ paid' = paid \cup {i}
    /\ UNCHANGED <<answered, payment, credits, at, event, dropped, crashes>>

\* The webhook is called.  Without a row for the invoice it answers at once.
CallWebhook(d, e) ==
    /\ at[d] = "idle" /\ tried[e] \in 1..Limit(e)
    /\ tried' = [tried EXCEPT ![e] = @ + 1]
    /\ IF HasRow(e[1])
       THEN /\ at' = [at EXCEPT ![d] = IF e[2] = "SUCCESS" THEN "markPaid" ELSE "getStatus"]
            /\ event' = [event EXCEPT ![d] = e]
            /\ UNCHANGED <<answered, dropped>>
       ELSE /\ answered' = answered \cup ({e} \cap Theirs)
            /\ dropped' = dropped \cup ({e} \cap Theirs)
            /\ UNCHANGED <<at, event>>
    /\ UNCHANGED <<paid, payment, credits, crashes>>

Answer(d, ok) ==
    /\ at' = [at EXCEPT ![d] = "idle"]
    /\ event' = [event EXCEPT ![d] = NoEvent]
    /\ answered' = IF ok THEN answered \cup ({event[d]} \cap Theirs) ELSE answered
    /\ UNCHANGED <<paid, tried, dropped>>

\* Mutant of MarkPaid: what is PAID already is not handled again.
MarkPaidOnce(d) ==
    LET i == event[d][1] IN
    /\ at[d] = "markPaid"
    /\ IF payment[i] = "paid"
       THEN Answer(d, TRUE) /\ UNCHANGED payment
       ELSE /\ payment' = [payment EXCEPT ![i] = "paid"]
            /\ at' = [at EXCEPT ![d] = "topUp"]
            /\ UNCHANGED <<myFatoorah, event, dropped>>
    /\ UNCHANGED <<credits, crashes>>

MarkPaid(d) ==
    /\ at[d] = "markPaid"
    /\ payment' = [payment EXCEPT ![event[d][1]] = "paid"]
    /\ at' = [at EXCEPT ![d] = "topUp"]
    /\ UNCHANGED <<myFatoorah, credits, event, dropped, crashes>>

\* topUp commits as a whole (Bookings has it).
TopUp(d) ==
    /\ at[d] = "topUp"
    /\ credits' = [credits EXCEPT ![event[d][1]] = @ + 1]
    /\ Answer(d, TRUE)
    /\ UNCHANGED <<payment, crashes>>

\* Mutant of GetPaymentStatus: the event's own status is not looked at.
GetPaymentStatusOrPay(d) ==
    /\ at[d] = "getStatus"
    /\ at' = [at EXCEPT ![d] = "topUp"]
    /\ UNCHANGED <<myFatoorah, event, dropped, payment, credits, crashes>>

\* A failure is looked up, which may fail itself ...
GetPaymentStatus(d) ==
    /\ at[d] = "getStatus"
    /\ \/ Answer(d, FALSE)
       \/ /\ at' = [at EXCEPT ![d] = "markFailed"]
          /\ UNCHANGED <<myFatoorah, event, dropped>>
    /\ UNCHANGED <<payment, credits, crashes>>

\* ... and written over whatever the payment's state is by then.
MarkFailed(d) ==
    /\ at[d] = "markFailed"
    /\ payment' = [payment EXCEPT ![event[d][1]] = "failed"]
    /\ Answer(d, TRUE)
    /\ UNCHANGED <<credits, crashes>>

\* The server dies: no answer.
Crash(d) ==
    /\ at[d] # "idle" /\ crashes < MaxCrashes
    /\ crashes' = crashes + 1
    /\ Answer(d, FALSE)
    /\ UNCHANGED <<payment, credits>>

HandlerStep(d) == MarkPaid(d) \/ TopUp(d) \/ GetPaymentStatus(d) \/ MarkFailed(d)

Next ==
    \/ \E i \in Invoices : ExecutePayment(i) \/ SavePayment(i) \/ Pay(i)
    \/ \E d \in Deliveries, e \in Events : CallWebhook(d, e)
    \/ \E d \in Deliveries : HandlerStep(d) \/ Crash(d)

\* MyFatoorah calls until it is answered.
Fairness ==
    /\ \A d \in Deliveries : WF_vars(HandlerStep(d))
    /\ \A e \in Theirs : WF_vars(e \notin answered /\ \E d \in Deliveries : CallWebhook(d, e))

Spec == Init /\ [][Next]_vars /\ Fairness

-----------------------------------------------------------------------------
\* How often a success was told, of an invoice that may not be paid.
Unsigned(i) == tried[<<i, "SUCCESS", "unsigned">>] - 1

\* As long as all that calls the webhook is MyFatoorah, the wallet is topped up,
\* and the payment marked PAID, only for an invoice that is paid there,
\* whatever order its attempts are told in.  What others say without a
\* signature counts as well, but no more than once each (handleWebhook).
OnlyPaidCredited ==
    \A i \in Invoices \ paid :
        credits[i] <= Unsigned(i) /\ (payment[i] = "paid" => Unsigned(i) > 0)

\* Money that is paid reaches the wallet, though servers die between
\* marking the payment and topping up: what makes up for that is that a
\* handler does not mind a payment that is PAID already.  The exception is a
\* success that is told before the payment is saved.
PaidReachesWallet ==
    \A i \in Invoices :
        i \in paid ~> credits[i] > 0 \/ <<i, "SUCCESS", "MyFatoorah">> \in dropped
=============================================================================
