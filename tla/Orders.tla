------------------------------- MODULE Orders -------------------------------
(***************************************************************************)
(* The order demos: the client test-orders sends one order after the       *)
(* other to a gateway, which creates it in service A and has it paid in    *)
(* service B.  The plain gateway leaves an order behind whose payment      *)
(* fails, or repeats everything; the saga gateway repeats the payment and  *)
(* cancels the order in the end.  At last the client reads both services   *)
(* and prints a scorecard.                                                 *)
(*                                                                         *)
(* Every call can fail before it takes effect, or after, and is given up   *)
(* when it takes too long.  What has been given up goes on for a while:    *)
(* the server drops a handler when it sees that the connection is closed,  *)
(* and the handler may be done before.                                     *)
(*                                                                         *)
(* Left out: items, amounts, the numbers of payments, latencies and the    *)
(* report files.  Operators named X_Y are X with a plausible mistake Y.    *)
(***************************************************************************)
EXTENDS Integers, Sequences, FiniteSets

CONSTANT Orders     \* how many the client sends

ASSUME OrdersAssumption == Orders \in Nat \ {0}

Requests == 1..Orders
None == 0

\* The demos: which gateway, RETRY, SLOW_MODE of the payments.
OrderScenarios ==
  { [key |-> "saga-lost-payment", saga |-> FALSE, retry |-> FALSE, slow |-> FALSE],
    [key |-> "saga-lost-payment-solution", saga |-> TRUE, retry |-> FALSE, slow |-> FALSE],
    [key |-> "saga-double-charge", saga |-> FALSE, retry |-> TRUE, slow |-> TRUE],
    [key |-> "saga-double-charge-solution", saga |-> TRUE, retry |-> TRUE, slow |-> TRUE] }

VARIABLES
  demo,       \* the scenario
  orders,     \* service A: order -> "created" or "cancelled"
  payments,   \* service B: <<order, try>> of the payments made
  paying,     \* handlers of /pay under way, named likewise
  pc,         \* request -> where its handler in the gateway stands
  order,      \* request -> the order it pays, None before there is one
  tries,      \* request -> payments tried
  told,       \* request -> what the client makes of it
  listed,     \* what the client has read
  verdict,    \* of the scorecard
  lost,       \* history: orders whose creation or cancellation got lost
  unsure      \* history: tries that were given up without an answer

services == <<orders, payments, paying>>
handlers == <<pc, order, tries>>
client == <<told, listed, verdict>>
orderVars == <<demo, services, handlers, client, lost, unsure>>

Working == {"order", "pay", "paying", "again", "cancel"}
Unread == [orders |-> {}, payments |-> {}, whole |-> TRUE]

-----------------------------------------------------------------------------
(* The services.                                                             *)

\* create_order and cancel_order hold the lock throughout.
Created == Append(orders, "created")
Cancelled(o) == [orders EXCEPT ![o] = "cancelled"]
Active == {o \in DOMAIN orders : orders[o] = "created"}

-----------------------------------------------------------------------------
(* A gateway.                                                                *)

Try(r) == <<order[r], tries[r]>>

Goes(r, place) == pc' = [pc EXCEPT ![r] = place]

\* max_retries of the saga.
MaxRetries == IF demo.retry THEN 2 ELSE 0

\* The saga pays again with the same key, which service B ignores, and at last
\* cancels; the plain gateway starts over once or gives up.
AfterFailure(r) ==
  IF demo.saga
  THEN IF tries[r] > MaxRetries THEN "cancel" ELSE "pay"
  ELSE IF demo.retry /\ tries[r] = 1 THEN "again" ELSE "error"

\* POST /order: answered, done without an answer, or not done.
Create(r) ==
  /\ pc[r] = "order"
  /\ \/ /\ orders' = Created /\ order' = [order EXCEPT ![r] = Len(orders) + 1]
        /\ Goes(r, "pay") /\ UNCHANGED lost
     \/ /\ orders' = Created /\ lost' = lost \cup {Len(orders) + 1}
        /\ Goes(r, "error") /\ UNCHANGED order
     \/ Goes(r, "error") /\ UNCHANGED <<orders, order, lost>>
  /\ UNCHANGED <<demo, payments, paying, tries, client, unsure>>

\* The repeated flow creates a second order; paid is the first one again.
CreateAgain(r) ==
  /\ pc[r] = "again"
  /\ \/ orders' = Created /\ pc' \in {[pc EXCEPT ![r] = p] : p \in {"pay", "error"}}
     \/ Goes(r, "error") /\ UNCHANGED orders
  /\ UNCHANGED <<demo, payments, paying, order, tries, client, lost, unsure>>

\* POST /pay sets out.
Pay(r) ==
  /\ pc[r] = "pay"
  /\ tries' = [tries EXCEPT ![r] = @ + 1]
  /\ paying' = paying \cup {<<order[r], tries[r] + 1>>}
  /\ Goes(r, "paying")
  /\ UNCHANGED <<demo, orders, payments, order, client, lost, unsure>>

\* The payment is made before the failure is thrown.
Refuse_Recorded(p) ==
  /\ p \in paying /\ ~demo.slow
  /\ paying' = paying \ {p}
  /\ payments' = payments \cup {p}
  /\ \/ \E r \in Requests : pc[r] = "paying" /\ Try(r) = p /\ Goes(r, AfterFailure(r))
     \/ UNCHANGED pc
  /\ UNCHANGED <<demo, orders, order, tries, client, lost, unsure>>

\* Service B fails at once, unless it is slow; the answer may get lost.
Refuse(p) ==
  /\ p \in paying /\ ~demo.slow
  /\ paying' = paying \ {p}
  /\ \/ \E r \in Requests : pc[r] = "paying" /\ Try(r) = p /\ Goes(r, AfterFailure(r))
     \/ UNCHANGED pc
  /\ UNCHANGED <<demo, orders, payments, order, tries, client, lost, unsure>>

\* It makes the payment, looking at no key; again the answer may get lost.
Record(p) ==
  /\ p \in paying
  /\ paying' = paying \ {p}
  /\ payments' = payments \cup {p}
  /\ \/ \E r \in Requests : pc[r] = "paying" /\ Try(r) = p /\ Goes(r, "ok")
     \/ UNCHANGED pc
  /\ UNCHANGED <<demo, orders, order, tries, client, lost, unsure>>

\* The gateway gives the call up: a timeout or a broken connection.
GiveUp(r) ==
  /\ pc[r] = "paying"
  /\ Goes(r, AfterFailure(r))
  /\ unsure' = unsure \cup {Try(r)}
  /\ UNCHANGED <<demo, services, order, tries, client, lost>>

\* The handler of a call that was given up is dropped.
DropPayment(p) ==
  /\ p \in paying /\ p \in unsure
  /\ paying' = paying \ {p}
  /\ UNCHANGED <<demo, orders, payments, handlers, client, lost, unsure>>

\* No compensation.
Cancel_Skipped(r) ==
  /\ pc[r] = "cancel" /\ Goes(r, "error")
  /\ UNCHANGED <<demo, services, order, tries, client, lost, unsure>>

\* cancel: whether it is done or not, the answer says "order rolled back".
Cancel(r) ==
  /\ pc[r] = "cancel"
  /\ \/ orders' = Cancelled(order[r]) /\ UNCHANGED lost
     \/ lost' = lost \cup {order[r]} /\ UNCHANGED orders
  /\ Goes(r, "error")
  /\ UNCHANGED <<demo, payments, paying, order, tries, client, unsure>>

\* The client is gone: the handler of its request is dropped where it waits.
DropRequest(r) ==
  /\ told[r] = "failed" /\ pc[r] \in Working
  /\ Goes(r, "gone")
  /\ lost' = IF order[r] = None THEN lost ELSE lost \cup {order[r]}
  /\ unsure' = IF pc[r] = "paying" THEN unsure \cup {Try(r)} ELSE unsure
  /\ UNCHANGED <<demo, services, order, tries, client>>

-----------------------------------------------------------------------------
(* The client.                                                               *)

\* One order after the other.
Send(r) ==
  /\ told[r] = "unsent" /\ \A q \in 1..r - 1 : told[q] \in {"ok", "failed"}
  /\ told' = [told EXCEPT ![r] = "waiting"]
  /\ Goes(r, "order")
  /\ UNCHANGED <<demo, services, order, tries, listed, verdict, lost, unsure>>

\* Only a 200 is a success.
Hear(r) ==
  /\ told[r] = "waiting" /\ pc[r] \in {"ok", "error"}
  /\ told' = [told EXCEPT ![r] = IF pc[r] = "ok" THEN "ok" ELSE "failed"]
  /\ UNCHANGED <<demo, services, handlers, listed, verdict, lost, unsure>>

\* 15 s are over, or the connection broke.
HangUp(r) ==
  /\ told[r] = "waiting"
  /\ told' = [told EXCEPT ![r] = "failed"]
  /\ UNCHANGED <<demo, services, handlers, listed, verdict, lost, unsure>>

Sent == \A r \in Requests : told[r] \in {"ok", "failed"}

\* GET /api/orders; a list that cannot be read is empty.
ReadOrders ==
  /\ Sent /\ verdict = "open"
  /\ listed' \in {[listed EXCEPT !.orders = Active], [listed EXCEPT !.whole = FALSE]}
  /\ verdict' = "reading"
  /\ UNCHANGED <<demo, services, handlers, told, lost, unsure>>

Successes == Cardinality({r \in Requests : told[r] = "ok"})

Scored_NoPhantoms(created, paid) ==
  CASE created > paid -> "orphaned"
    [] paid > created -> "double charges"
    [] OTHER -> "consistent"

\* consistency, and the verdict.
Scored(created, paid) ==
  CASE created > paid -> "orphaned"
    [] paid > created -> "double charges"
    [] paid = created /\ created > Successes -> "phantom"
    [] OTHER -> "consistent"

\* GET /api/payments, later, and the scorecard.
ReadPayments ==
  /\ verdict = "reading"
  /\ listed' \in {[listed EXCEPT !.payments = payments], [listed EXCEPT !.whole = FALSE]}
  /\ verdict' = Scored(Cardinality(listed.orders), Cardinality(listed'.payments))
  /\ UNCHANGED <<demo, services, handlers, told, lost, unsure>>

-----------------------------------------------------------------------------

OrderRest ==
  /\ orders = <<>> /\ payments = {} /\ paying = {}
  /\ pc = [r \in Requests |-> "idle"] /\ order = [r \in Requests |-> None]
  /\ tries = [r \in Requests |-> 0]
  /\ told = [r \in Requests |-> "unsent"]
  /\ listed = Unread /\ verdict = "open"
  /\ lost = {} /\ unsure = {}

OrderInit == demo \in OrderScenarios /\ OrderRest

OrderNext ==
  \/ \E r \in Requests :
       \/ Create(r) \/ CreateAgain(r) \/ Pay(r) \/ GiveUp(r) \/ Cancel(r) \/ DropRequest(r)
       \/ Send(r) \/ Hear(r) \/ HangUp(r)
  \/ \E p \in paying : Refuse(p) \/ Record(p) \/ DropPayment(p)
  \/ ReadOrders
  \/ ReadPayments

-----------------------------------------------------------------------------
(* Properties.                                                               *)

Tries == (Nat \ {0}) \X (Nat \ {0})

OrderTypeOK ==
  /\ orders \in Seq({"created", "cancelled"})
  /\ payments \subseteq Tries /\ paying \subseteq Tries /\ unsure \subseteq Tries
  /\ pc \in [Requests -> Working \cup {"idle", "ok", "error", "gone"}]
  /\ order \in [Requests -> Nat] /\ tries \in [Requests -> Nat]
  /\ told \in [Requests -> {"unsent", "waiting", "ok", "failed"}]
  /\ verdict \in {"open", "reading", "orphaned", "double charges", "phantom", "consistent"}
  /\ lost \subseteq Nat

\* With the saga, an active order without a payment, on which nobody works any
\* more, is one whose creation or cancellation got lost on the way, or whose
\* request was dropped: failed payments alone leave nothing behind
\* (services.rs:601-634).
OrphanExplained ==
  demo.saga => \A o \in Active :
    \/ o \in lost
    \/ \E p \in payments : p[1] = o
    \/ \E r \in Requests : order[r] = o /\ pc[r] \in Working

\* A charge too many, a payment of a cancelled order or a second one of the same
\* order, comes from a call that was given up and took effect all the same:
\* never from one that was refused, whatever is repeated (services.rs:609).
ChargeExplained ==
  \A p \in payments :
    /\ p[1] \in DOMAIN orders
    /\ orders[p[1]] = "cancelled" => p \in unsure
    /\ \A q \in payments \ {p} : q[1] = p[1] => p \in unsure \/ q \in unsure

\* The scorecard compares counts of two lists read one after the other, while
\* requests and payments that were given up may still go on.  If it says
\* consistent and both lists could be read, then every active order it has seen
\* has one payment and there are no others (clients.rs:204-210, 265-286).
VerdictSound ==
  verdict = "consistent" /\ listed.whole =>
    /\ \A o \in listed.orders : Cardinality({p \in listed.payments : p[1] = o}) = 1
    /\ \A p \in listed.payments : p[1] \in listed.orders
=============================================================================
