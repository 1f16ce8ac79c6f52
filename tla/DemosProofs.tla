----------------------------- MODULE DemosProofs -----------------------------
(***************************************************************************)
(* Proofs about Demos: types, that orphans and double charges have no      *)
(* cause but the stated ones, that a demo breaker rests after it has       *)
(* opened, and that the scorecard says consistent only of a consistent     *)
(* system, for every number of orders, requests and services.              *)
(***************************************************************************)
EXTENDS Demos, FiniteSetTheorems, SequenceTheorems, TLAPS

-----------------------------------------------------------------------------
(* The invariant of the orders.                                              *)

Places == Working \cup {"idle", "ok", "error", "gone"}
Verdicts == {"open", "reading", "orphaned", "double charges", "phantom", "consistent"}

\* OrderTypeOK, the scenario and, of what the client has read, no more than
\* is needed.
OTypes == demo \in OrderScenarios /\ OrderTypeOK

\* Who pays, or has paid or cancelled, has an order, and no two requests have
\* the same.
Owners ==
  /\ \A r \in Requests :
       /\ pc[r] \in {"pay", "paying", "again", "cancel", "ok"} => order[r] # None
       /\ pc[r] = "again" => ~demo.saga
       /\ order[r] # None => order[r] \in DOMAIN orders /\ pc[r] \notin {"idle", "order"}
  /\ \A q, r \in Requests : q # r /\ order[q] = order[r] => order[r] = None

\* While a request is worked on, or after it has succeeded, its order is active.
Standing ==
  \A r \in Requests :
    order[r] # None /\ pc[r] \in Working \cup {"ok"} => orders[order[r]] = "created"

\* A payment, made or under way, is for an order, is one of the tries of the
\* request that has this order, and is in one place.
Numbered ==
  /\ \A p \in payments \cup paying :
       /\ p[1] \in DOMAIN orders
       /\ \A r \in Requests : order[r] = p[1] => p[2] <= tries[r]
  /\ payments \cap paying = {}

\* If its call was not given up then the gateway waits for it or has heard of it.
Heard ==
  \A p \in payments \cup paying :
    p \notin unsure =>
      \E r \in Requests : order[r] = p[1] /\ tries[r] = p[2] /\ pc[r] \in {"paying", "ok"}

\* Nothing has begun for an order that was not sent.
Unsent == \A r \in Requests : told[r] = "unsent" => pc[r] = "idle"

\* The try that is waited for has a number.
Counted == \A r \in Requests : pc[r] = "paying" => tries[r] # 0

OInv ==
  /\ OTypes /\ Owners /\ Standing /\ Numbered /\ Heard /\ Unsent /\ Counted
  /\ OrphanExplained

LEMMA AfterFailurePlaces ==
  ASSUME OTypes, NEW r \in Requests
  PROVE  /\ AfterFailure(r) \in {"pay", "cancel", "again", "error"}
         /\ demo.saga => AfterFailure(r) \in {"pay", "cancel"}
         /\ AfterFailure(r) = "again" => ~demo.saga
  BY DEF AfterFailure

LEMMA OInit == OrderRest /\ demo \in OrderScenarios => OInv
<1> SUFFICES ASSUME OrderRest, demo \in OrderScenarios PROVE OInv
  OBVIOUS
<1>1. OTypes
  BY DEF OrderRest, OTypes, OrderTypeOK, Working, None
<1>2. Owners /\ Standing /\ Numbered /\ Heard /\ Unsent /\ Counted
  BY DEF OrderRest, Owners, Standing, Numbered, Heard, Unsent, Counted, None, Working
<1>3. OrphanExplained
  BY DEF OrderRest, OrphanExplained, Active
<1> QED BY <1>1, <1>2, <1>3 DEF OInv

LEMMA OStutter == OInv /\ UNCHANGED orderVars => OInv'
<1> SUFFICES ASSUME OInv, UNCHANGED orderVars PROVE OInv'
  OBVIOUS
<1> USE DEF orderVars, services, handlers, client
<1>1. OTypes' /\ Owners' /\ Standing'
  BY DEF OInv, OTypes, OrderTypeOK, Owners, Standing
<1>2. Numbered' /\ Heard' /\ Unsent' /\ Counted'
  BY DEF OInv, Numbered, Heard, Unsent, Counted
<1>3. OrphanExplained'
  BY DEF OInv, OrphanExplained, Active
<1> QED BY <1>1, <1>2, <1>3 DEF OInv

\* Steps of the client change nothing that the invariant speaks of.
ClientOnly == UNCHANGED <<demo, orders, payments, paying, pc, order, tries, lost, unsure>>

LEMMA ClientKeeps ==
  ASSUME OInv, ClientOnly,
         told' \in [Requests -> {"unsent", "waiting", "ok", "failed"}], verdict' \in Verdicts,
         \A r \in Requests : told'[r] = "unsent" => told[r] = "unsent"
  PROVE  OInv'
<1>1. OTypes'
  BY DEF OInv, OTypes, OrderTypeOK, ClientOnly, Verdicts
<1>2. Owners' /\ Standing'
  BY DEF OInv, Owners, Standing, ClientOnly
<1>3. Numbered' /\ Heard' /\ Unsent' /\ Counted'
  BY DEF OInv, Numbered, Heard, Unsent, Counted, ClientOnly
<1>4. OrphanExplained'
  BY DEF OInv, OrphanExplained, Active, ClientOnly
<1> QED BY <1>1, <1>2, <1>3, <1>4 DEF OInv

\* What every step of a handler has to show, part by part.
LEMMA ClientSteps ==
  ASSUME OInv, NEW r \in Requests
  PROVE  /\ Hear(r) => OInv'
         /\ HangUp(r) => OInv'
         /\ ReadOrders => OInv'
         /\ ReadPayments => OInv'
<1> USE DEF services, handlers
<1>1. ASSUME Hear(r) PROVE OInv'
  <2>1. ClientOnly BY <1>1 DEF Hear, ClientOnly
  <2>2. /\ told' \in [Requests -> {"unsent", "waiting", "ok", "failed"}]
        /\ verdict' \in Verdicts
        /\ \A q \in Requests : told'[q] = "unsent" => told[q] = "unsent"
    BY <1>1 DEF Hear, OInv, OTypes, OrderTypeOK, Verdicts
  <2> QED BY <2>1, <2>2, ClientKeeps
<1>2. ASSUME HangUp(r) PROVE OInv'
  <2>1. ClientOnly BY <1>2 DEF HangUp, ClientOnly
  <2>2. /\ told' \in [Requests -> {"unsent", "waiting", "ok", "failed"}]
        /\ verdict' \in Verdicts
        /\ \A q \in Requests : told'[q] = "unsent" => told[q] = "unsent"
    BY <1>2 DEF HangUp, OInv, OTypes, OrderTypeOK, Verdicts
  <2> QED BY <2>1, <2>2, ClientKeeps
<1>3. ASSUME ReadOrders PROVE OInv'
  <2>1. ClientOnly BY <1>3 DEF ReadOrders, ClientOnly
  <2>2. /\ told' \in [Requests -> {"unsent", "waiting", "ok", "failed"}]
        /\ verdict' \in Verdicts
        /\ \A q \in Requests : told'[q] = "unsent" => told[q] = "unsent"
    BY <1>3 DEF ReadOrders, OInv, OTypes, OrderTypeOK, Verdicts
  <2> QED BY <2>1, <2>2, ClientKeeps
<1>4. ASSUME ReadPayments PROVE OInv'
  <2>1. ClientOnly BY <1>4 DEF ReadPayments, ClientOnly
  <2>2. /\ told' \in [Requests -> {"unsent", "waiting", "ok", "failed"}]
        /\ \A q \in Requests : told'[q] = "unsent" => told[q] = "unsent"
    BY <1>4 DEF ReadPayments, OInv, OTypes, OrderTypeOK
  <2>3. verdict' \in Verdicts
    <3> DEFINE c == Cardinality(listed.orders)  d == Cardinality(listed'.payments)
    <3> HIDE DEF c, d
    <3>1. Scored(c, d) \in Verdicts BY DEF Scored, Verdicts
    <3> QED BY <1>4, <3>1 DEF ReadPayments, c, d
  <2> QED BY <2>1, <2>2, <2>3, ClientKeeps
<1> QED BY <1>1, <1>2, <1>3, <1>4

LEMMA SendStep ==
  ASSUME OInv, NEW r \in Requests, Send(r)
  PROVE  OInv'
<1> USE DEF services, handlers, Goes
<1>0. pc[r] = "idle" /\ order[r] = None
  BY DEF Send, OInv, Unsent, Owners
<1>1. OTypes'
  BY DEF Send, OInv, OTypes, OrderTypeOK, Working
<1>2. Owners'
  BY <1>0 DEF Send, OInv, OTypes, OrderTypeOK, Owners
<1>3. Standing'
  BY <1>0 DEF Send, OInv, OTypes, OrderTypeOK, Standing
<1>4. Numbered'
  BY DEF Send, OInv, Numbered
<1>5. Heard'
  BY <1>0 DEF Send, OInv, OTypes, OrderTypeOK, Heard
<1>6. Unsent' /\ Counted'
  BY DEF Send, OInv, OTypes, OrderTypeOK, Unsent, Counted
<1>7. OrphanExplained'
  BY <1>0 DEF Send, OInv, OTypes, OrderTypeOK, OrphanExplained, Active, Working
<1> QED BY <1>1, <1>2, <1>3, <1>4, <1>5, <1>6, <1>7 DEF OInv

-----------------------------------------------------------------------------
(* A new order.                                                              *)

LEMMA Appended ==
  ASSUME OTypes
  PROVE  /\ Created \in Seq({"created", "cancelled"})
         /\ DOMAIN orders = 1..Len(orders) /\ Len(orders) \in Nat
         /\ DOMAIN Created = 1..Len(orders) + 1
         /\ Created[Len(orders) + 1] = "created"
         /\ \A o \in DOMAIN orders : Created[o] = orders[o]
<1>1. orders \in Seq({"created", "cancelled"})
  BY DEF OTypes, OrderTypeOK
<1>2. DOMAIN orders = 1..Len(orders) /\ Len(orders) \in Nat
  BY <1>1
<1>3. /\ Created \in Seq({"created", "cancelled"}) /\ Len(Created) = Len(orders) + 1
      /\ \A o \in 1..Len(orders) : Created[o] = orders[o]
      /\ Created[Len(orders) + 1] = "created"
  BY <1>1, AppendProperties DEF Created
<1>4. DOMAIN Created = 1..Len(orders) + 1
  BY <1>3
<1> QED BY <1>2, <1>3, <1>4

LEMMA CreateStep ==
  ASSUME OInv, NEW r \in Requests, Create(r)
  PROVE  OInv'
<1> USE DEF services, handlers, client, Goes
<1> DEFINE new == Len(orders) + 1
<1>0. /\ order[r] = None /\ new \in Nat \ {0} /\ new \notin DOMAIN orders
      /\ pc[r] = "order"
  BY Appended DEF Create, OInv, Owners, None
<1>a. /\ DOMAIN orders \subseteq DOMAIN orders'
      /\ \A o \in DOMAIN orders : orders'[o] = orders[o]
      /\ orders' \in Seq({"created", "cancelled"})
  <2>1. CASE orders' = Created
    BY <2>1, Appended DEF OInv
  <2>2. CASE UNCHANGED orders
    BY <2>2 DEF OInv, OTypes, OrderTypeOK
  <2> QED BY <2>1, <2>2 DEF Create
<1>b. CASE /\ orders' = Created /\ order' = [order EXCEPT ![r] = new]
           /\ Goes(r, "pay") /\ UNCHANGED lost
  <2>0. new \in DOMAIN orders' /\ orders'[new] = "created" /\ DOMAIN orders' = DOMAIN orders \cup {new}
    BY <1>b, Appended DEF OInv
  <2> HIDE DEF new
  <2>a. /\ \A q \in Requests : order'[q] = IF q = r THEN new ELSE order[q]
        /\ \A q \in Requests : pc'[q] = IF q = r THEN "pay" ELSE pc[q]
        /\ demo' = demo
    BY <1>b DEF Create, OInv, OTypes, OrderTypeOK
  <2>1. OTypes'
    BY <1>0, <1>a, <1>b DEF Create, OInv, OTypes, OrderTypeOK, Working
  <2>2. Owners'
    BY <1>0, <2>a, <2>0 DEF OInv, Owners, None
  <2>3. Standing'
    BY <1>0, <1>a, <2>a, <2>0 DEF OInv, Standing, Owners, None
  <2>4. Numbered'
    BY <1>0, <1>a, <1>b DEF Create, OInv, OTypes, OrderTypeOK, Numbered
  <2>5. Heard'
    BY <1>0, <1>a, <1>b DEF Create, OInv, OTypes, OrderTypeOK, Heard
  <2>6. Unsent' /\ Counted'
    BY <1>0, <1>b DEF Create, OInv, OTypes, OrderTypeOK, Unsent, Counted
  <2>7. OrphanExplained'
    <3> SUFFICES ASSUME demo.saga, NEW o \in Active'
                 PROVE  (\/ o \in lost
                         \/ \E p \in payments : p[1] = o
                         \/ \E q \in Requests : order[q] = o /\ pc[q] \in Working)'
      BY DEF OrphanExplained, Create
    <3>1. CASE o = new
      BY <3>1, <1>b DEF OInv, OTypes, OrderTypeOK, Working
    <3>2. CASE o # new
      <4>1. o \in Active /\ o \in DOMAIN orders
        BY <3>2, <2>0, <1>a DEF Active
      <4>2. o # None
        BY <4>1, Appended DEF OInv, None
      <4> QED BY <4>1, <4>2, <1>0, <1>b DEF Create, OInv, OTypes, OrderTypeOK, OrphanExplained
    <3> QED BY <3>1, <3>2
  <2> QED BY <2>1, <2>2, <2>3, <2>4, <2>5, <2>6, <2>7 DEF OInv
<1>c. CASE Goes(r, "error") /\ UNCHANGED order
           /\ \/ orders' = Created /\ lost' = lost \cup {new}
              \/ UNCHANGED <<orders, lost>>
  <2>0. /\ DOMAIN orders' \subseteq DOMAIN orders \cup {new}
        /\ lost \subseteq lost' /\ (new \in DOMAIN orders' => new \in lost')
    BY <1>0, <1>c, Appended DEF OInv
  <2> HIDE DEF new
  <2>1. OTypes'
    BY <1>0, <1>a, <1>c DEF Create, OInv, OTypes, OrderTypeOK, Working
  <2>2. Owners'
    BY <1>0, <1>a, <1>c DEF Create, OInv, OTypes, OrderTypeOK, Owners
  <2>3. Standing'
    BY <1>0, <1>a, <1>c DEF Create, OInv, OTypes, OrderTypeOK, Standing, Owners
  <2>4. Numbered'
    BY <1>0, <1>a, <1>c DEF Create, OInv, OTypes, OrderTypeOK, Numbered
  <2>5. Heard'
    BY <1>0, <1>a, <1>c DEF Create, OInv, OTypes, OrderTypeOK, Heard
  <2>6. Unsent' /\ Counted'
    BY <1>0, <1>c DEF Create, OInv, OTypes, OrderTypeOK, Unsent, Counted
  <2>7. OrphanExplained'
    <3> SUFFICES ASSUME demo.saga, NEW o \in Active'
                 PROVE  (\/ o \in lost
                         \/ \E p \in payments : p[1] = o
                         \/ \E q \in Requests : order[q] = o /\ pc[q] \in Working)'
      BY DEF OrphanExplained, Create
    <3>1. CASE o = new
      BY <3>1, <2>0 DEF Active
    <3>2. CASE o # new
      <4>1. o \in Active /\ o \in DOMAIN orders
        BY <3>2, <2>0, <1>a DEF Active
      <4>2. o # None
        BY <4>1, Appended DEF OInv, None
      <4> QED BY <4>1, <4>2, <1>0, <1>c, <2>0
            DEF Create, OInv, OTypes, OrderTypeOK, OrphanExplained
    <3> QED BY <3>1, <3>2
  <2> QED BY <2>1, <2>2, <2>3, <2>4, <2>5, <2>6, <2>7 DEF OInv
<1> QED BY <1>b, <1>c DEF Create

LEMMA CreateAgainStep ==
  ASSUME OInv, NEW r \in Requests, CreateAgain(r)
  PROVE  OInv'
<1> USE DEF services, client, Goes
<1>0. pc[r] = "again" /\ ~demo.saga
  BY DEF CreateAgain, OInv, Owners
<1>1. /\ DOMAIN orders \subseteq DOMAIN orders'
      /\ \A o \in DOMAIN orders : orders'[o] = orders[o]
      /\ orders' \in Seq({"created", "cancelled"})
  <2>1. CASE orders' = Created
    BY <2>1, Appended DEF OInv
  <2>2. CASE UNCHANGED orders
    BY <2>2 DEF OInv, OTypes, OrderTypeOK
  <2> QED BY <2>1, <2>2 DEF CreateAgain
<1>2. PICK p \in {"pay", "error"} : pc' = [pc EXCEPT ![r] = p]
  BY DEF CreateAgain
<1>3. OTypes'
  BY <1>1, <1>2 DEF CreateAgain, OInv, OTypes, OrderTypeOK, Working
<1>a. /\ \A q \in Requests : pc'[q] = IF q = r THEN p ELSE pc[q]
      /\ UNCHANGED <<demo, order, tries, payments, paying, unsure, told>>
  BY <1>2 DEF CreateAgain, OInv, OTypes, OrderTypeOK
<1>4. Owners'
  BY <1>0, <1>1, <1>a DEF OInv, Owners
<1>5. Standing'
  BY <1>0, <1>1, <1>a DEF OInv, Standing, Owners, Working
<1>6. Numbered'
  BY <1>1, <1>a DEF OInv, Numbered
<1>7. Heard'
  BY <1>0, <1>a DEF OInv, Heard
<1>8. Unsent' /\ Counted'
  BY <1>0, <1>a DEF OInv, Unsent, Counted
<1>9. OrphanExplained'
  BY <1>0, <1>a DEF OrphanExplained
<1> QED BY <1>3, <1>4, <1>5, <1>6, <1>7, <1>8, <1>9 DEF OInv

-----------------------------------------------------------------------------
(* A payment.                                                                *)

LEMMA SameTry ==
  ASSUME NEW p \in Tries, NEW q \in Tries, p[1] = q[1], p[2] = q[2]
  PROVE  p = q
  BY DEF Tries

LEMMA PayStep ==
  ASSUME OInv, NEW r \in Requests, Pay(r)
  PROVE  OInv'
<1> USE DEF client, Goes
<1> DEFINE t == <<order[r], tries[r] + 1>>
<1>0. pc[r] = "pay" /\ order[r] \in DOMAIN orders /\ order[r] \in Nat \ {0} /\ tries[r] \in Nat
  BY DEF Pay, OInv, OTypes, OrderTypeOK, Owners, None
<1>a. /\ \A q \in Requests : pc'[q] = IF q = r THEN "paying" ELSE pc[q]
      /\ \A q \in Requests : tries'[q] = IF q = r THEN tries[r] + 1 ELSE tries[q]
      /\ paying' = paying \cup {t}
      /\ UNCHANGED <<demo, orders, order, payments, unsure, told, lost>>
  BY DEF Pay, OInv, OTypes, OrderTypeOK
<1>b. t \in Tries /\ t[1] = order[r] /\ t[2] = tries[r] + 1
  BY <1>0 DEF Tries
<1> HIDE DEF t
<1>c. t \notin payments \cup paying
  <2>1. ASSUME t \in payments \cup paying PROVE t[2] <= tries[r]
    BY <2>1, <1>b DEF OInv, Numbered
  <2> QED BY <2>1, <1>0, <1>b
<1>1. OTypes'
  <2>1. tries' \in [Requests -> Nat]
    <3>1. tries \in [Requests -> Nat]
      BY DEF OInv, OTypes, OrderTypeOK
    <3>2. tries[r] + 1 \in Nat
      BY <1>0
    <3>3. tries' = [tries EXCEPT ![r] = tries[r] + 1]
      BY DEF Pay
    <3> QED BY <3>1, <3>2, <3>3
  <2>2. pc' \in [Requests -> Working \cup {"idle", "ok", "error", "gone"}]
    BY DEF Pay, OInv, OTypes, OrderTypeOK, Working
  <2>3. paying' \subseteq Tries
    BY <1>a, <1>b DEF OInv, OTypes, OrderTypeOK
  <2> QED BY <2>1, <2>2, <2>3 DEF Pay, OInv, OTypes, OrderTypeOK
<1>2. Owners'
  BY <1>0, <1>a DEF OInv, Owners
<1>3. Standing'
  BY <1>0, <1>a DEF OInv, Standing, Working
<1>4. Numbered'
  <2>1. ASSUME NEW p \in payments' \cup paying'
        PROVE  /\ p[1] \in DOMAIN orders'
               /\ \A q \in Requests : order'[q] = p[1] => p[2] <= tries'[q]
    <3>1. CASE p = t
      <4>1. ASSUME NEW q \in Requests, order[q] = order[r] PROVE q = r
        BY <4>1, <1>0 DEF OInv, Owners, None
      <4> QED BY <3>1, <4>1, <1>0, <1>a, <1>b
    <3>2. CASE p # t
      <4>1. p \in payments \cup paying
        BY <3>2, <1>a
      <4>2. /\ p[1] \in DOMAIN orders
            /\ \A q \in Requests : order[q] = p[1] => p[2] <= tries[q]
        BY <4>1 DEF OInv, Numbered
      <4>3. p[2] \in Nat
        BY <4>1 DEF OInv, OTypes, OrderTypeOK, Tries
      <4> QED BY <4>2, <4>3, <1>0, <1>a
    <3> QED BY <3>1, <3>2
  <2>2. (payments \cap paying = {})'
    BY <1>a, <1>c DEF OInv, Numbered
  <2> QED BY <2>1, <2>2 DEF Numbered
<1>5. Heard'
  <2> SUFFICES ASSUME NEW p \in payments' \cup paying', p \notin unsure
               PROVE  \E q \in Requests :
                        order[q] = p[1] /\ tries'[q] = p[2] /\ pc'[q] \in {"paying", "ok"}
    BY <1>a DEF Heard
  <2>1. CASE p = t
    BY <2>1, <1>a, <1>b
  <2>2. CASE p # t
    <3>1. PICK q \in Requests : order[q] = p[1] /\ tries[q] = p[2] /\ pc[q] \in {"paying", "ok"}
      BY <2>2, <1>a DEF OInv, Heard
    <3> QED BY <3>1, <1>0, <1>a
  <2> QED BY <2>1, <2>2
<1>6. Unsent' /\ Counted'
  BY <1>0, <1>a DEF OInv, Unsent, Counted
<1>7. OrphanExplained'
  BY <1>a DEF OInv, OrphanExplained, Active, Working
<1> QED BY <1>1, <1>2, <1>3, <1>4, <1>5, <1>6, <1>7 DEF OInv

\* A refused payment goes on to where AfterFailure says, or the gateway does
\* not hear of it.
LEMMA RefuseStep ==
  ASSUME OInv, NEW p \in paying, Refuse(p)
  PROVE  OInv'
<1> USE DEF Goes
<1>0. /\ paying' = paying \ {p}
      /\ UNCHANGED <<demo, orders, order, tries, payments, unsure, told, lost>>
  BY DEF Refuse, client
<1>1. CASE UNCHANGED pc
  <2>1. OTypes'
    BY <1>0, <1>1 DEF Refuse, client, OInv, OTypes, OrderTypeOK
  <2>2. Owners' /\ Standing'
    BY <1>0, <1>1 DEF OInv, Owners, Standing
  <2>3. Numbered' /\ Heard' /\ Unsent' /\ Counted'
    BY <1>0, <1>1 DEF OInv, Numbered, Heard, Unsent, Counted
  <2>4. OrphanExplained'
    BY <1>0, <1>1 DEF OInv, OrphanExplained, Active
  <2> QED BY <2>1, <2>2, <2>3, <2>4 DEF OInv
<1>2. CASE \E r \in Requests : pc[r] = "paying" /\ Try(r) = p /\ Goes(r, AfterFailure(r))
  <2>1. PICK r \in Requests : pc[r] = "paying" /\ Try(r) = p /\ Goes(r, AfterFailure(r))
    BY <1>2
  <2>2. PICK place \in {"pay", "cancel", "again", "error"} :
          /\ demo.saga => place \in {"pay", "cancel"}
          /\ place = "again" => ~demo.saga
          /\ pc' = [pc EXCEPT ![r] = place]
    BY <2>1, AfterFailurePlaces DEF OInv
  <2>3. \A q \in Requests : pc'[q] = IF q = r THEN place ELSE pc[q]
    BY <2>2 DEF OInv, OTypes, OrderTypeOK
  <2>4. OTypes'
    BY <1>0, <2>2 DEF Refuse, client, OInv, OTypes, OrderTypeOK, Working
  <2>5. Owners'
    BY <1>0, <2>1, <2>2, <2>3 DEF OInv, Owners
  <2>6. Standing'
    BY <1>0, <2>1, <2>2, <2>3 DEF OInv, Standing, Working
  <2>7. Numbered'
    BY <1>0 DEF OInv, Numbered
  <2>8. Heard'
    <3> SUFFICES ASSUME NEW u \in payments' \cup paying', u \notin unsure
                 PROVE  \E q \in Requests :
                          order[q] = u[1] /\ tries[q] = u[2] /\ pc'[q] \in {"paying", "ok"}
      BY <1>0 DEF Heard
    <3>1. u # p /\ u \in payments \cup paying
      BY <1>0 DEF OInv, Numbered
    <3>2. PICK q \in Requests : order[q] = u[1] /\ tries[q] = u[2] /\ pc[q] \in {"paying", "ok"}
      BY <3>1 DEF OInv, Heard
    <3>3. q # r
      <4>1. u \in Tries /\ p \in Tries
        BY <3>1 DEF OInv, OTypes, OrderTypeOK
      <4>2. p[1] = order[r] /\ p[2] = tries[r]
        BY <2>1 DEF Try
      <4> QED BY <3>1, <3>2, <4>1, <4>2, SameTry
    <3> QED BY <3>2, <3>3, <2>3
  <2>9. Unsent' /\ Counted'
    BY <1>0, <2>1, <2>3 DEF OInv, Unsent, Counted
  <2>10. OrphanExplained'
    BY <1>0, <2>1, <2>2, <2>3 DEF OInv, OrphanExplained, Active, Working
  <2> QED BY <2>4, <2>5, <2>6, <2>7, <2>8, <2>9, <2>10 DEF OInv
<1> QED BY <1>1, <1>2 DEF Refuse

\* A payment made is heard of, or not.
LEMMA RecordStep ==
  ASSUME OInv, NEW p \in paying, Record(p)
  PROVE  OInv'
<1> USE DEF Goes
<1>0. /\ paying' = paying \ {p} /\ payments' = payments \cup {p}
      /\ payments' \cup paying' = payments \cup paying
      /\ UNCHANGED <<demo, orders, order, tries, unsure, told, lost>>
  BY DEF Record, client
<1>1. payments' \cap paying' = {}
  BY <1>0 DEF OInv, Numbered
<1>2. Numbered'
  BY <1>0, <1>1 DEF OInv, Numbered
<1>3. CASE UNCHANGED pc
  <2>1. OTypes'
    BY <1>0, <1>3 DEF Record, client, OInv, OTypes, OrderTypeOK
  <2>2. Owners' /\ Standing'
    BY <1>0, <1>3 DEF OInv, Owners, Standing
  <2>3. Heard' /\ Unsent' /\ Counted'
    BY <1>0, <1>3 DEF OInv, Heard, Unsent, Counted
  <2>4. OrphanExplained'
    BY <1>0, <1>3 DEF OInv, OrphanExplained, Active
  <2> QED BY <1>2, <2>1, <2>2, <2>3, <2>4 DEF OInv
<1>4. CASE \E r \in Requests : pc[r] = "paying" /\ Try(r) = p /\ Goes(r, "ok")
  <2>1. PICK r \in Requests : pc[r] = "paying" /\ Try(r) = p /\ Goes(r, "ok")
    BY <1>4
  <2>2. \A q \in Requests : pc'[q] = IF q = r THEN "ok" ELSE pc[q]
    BY <2>1 DEF OInv, OTypes, OrderTypeOK
  <2>3. p \in payments' /\ p[1] = order[r]
    BY <1>0, <2>1 DEF Try
  <2>4. OTypes'
    BY <1>0, <2>1 DEF Record, client, OInv, OTypes, OrderTypeOK, Working
  <2>5. Owners'
    BY <1>0, <2>1, <2>2 DEF OInv, Owners
  <2>6. Standing'
    BY <1>0, <2>1, <2>2 DEF OInv, Standing, Working
  <2>7. Heard'
    BY <1>0, <2>2 DEF OInv, Heard
  <2>8. Unsent' /\ Counted'
    BY <1>0, <2>1, <2>2 DEF OInv, Unsent, Counted
  <2>9. OrphanExplained'
    BY <1>0, <2>2, <2>3 DEF OInv, OrphanExplained, Active
  <2> QED BY <1>2, <2>4, <2>5, <2>6, <2>7, <2>8, <2>9 DEF OInv
<1> QED BY <1>3, <1>4 DEF Record

LEMMA GiveUpStep ==
  ASSUME OInv, NEW r \in Requests, GiveUp(r)
  PROVE  OInv'
<1> USE DEF Goes
<1>0. /\ pc[r] = "paying" /\ unsure' = unsure \cup {Try(r)}
      /\ UNCHANGED <<demo, orders, payments, paying, order, tries, told, lost>>
  BY DEF GiveUp, services, client
<1>a. Try(r) \in Tries /\ Try(r)[1] = order[r] /\ Try(r)[2] = tries[r]
  <2>1. tries[r] # 0
    BY <1>0 DEF OInv, Counted
  <2>2. order[r] # 0
    BY <1>0 DEF OInv, Owners, None
  <2> QED BY <2>1, <2>2 DEF Try, Tries, OInv, OTypes, OrderTypeOK
<1>1. PICK place \in {"pay", "cancel", "again", "error"} :
        /\ demo.saga => place \in {"pay", "cancel"}
        /\ place = "again" => ~demo.saga
        /\ pc' = [pc EXCEPT ![r] = place]
  BY AfterFailurePlaces DEF OInv, GiveUp
<1>2. \A q \in Requests : pc'[q] = IF q = r THEN place ELSE pc[q]
  BY <1>1 DEF OInv, OTypes, OrderTypeOK
<1>3. OTypes'
  BY <1>0, <1>a, <1>1 DEF GiveUp, client, OInv, OTypes, OrderTypeOK, Working
<1>4. Owners'
  BY <1>0, <1>1, <1>2 DEF OInv, Owners
<1>5. Standing'
  BY <1>0, <1>1, <1>2 DEF OInv, Standing, Working
<1>6. Numbered'
  BY <1>0 DEF OInv, Numbered
<1>7. Heard'
  <2> SUFFICES ASSUME NEW u \in payments \cup paying, u \notin unsure, u # Try(r)
               PROVE  \E q \in Requests :
                        order[q] = u[1] /\ tries[q] = u[2] /\ pc'[q] \in {"paying", "ok"}
    BY <1>0 DEF Heard
  <2>1. PICK q \in Requests : order[q] = u[1] /\ tries[q] = u[2] /\ pc[q] \in {"paying", "ok"}
    BY DEF OInv, Heard
  <2>2. u \in Tries
    BY DEF OInv, OTypes, OrderTypeOK
  <2>3. q # r
    BY <1>a, <2>1, <2>2, SameTry
  <2> QED BY <2>1, <2>3, <1>2
<1>8. Unsent'
  BY <1>0, <1>2 DEF OInv, Unsent
<1>9. OrphanExplained'
  BY <1>0, <1>1, <1>2 DEF OInv, OrphanExplained, Active, Working
<1>10. Counted'
  BY <1>0, <1>1, <1>2 DEF OInv, Counted
<1> QED BY <1>3, <1>4, <1>5, <1>6, <1>7, <1>8, <1>9, <1>10 DEF OInv

LEMMA DropPaymentStep ==
  ASSUME OInv, NEW p \in paying, DropPayment(p)
  PROVE  OInv'
<1> USE DEF DropPayment, client, handlers
<1>1. OTypes'
  BY DEF OInv, OTypes, OrderTypeOK
<1>2. Owners' /\ Standing'
  BY DEF OInv, Owners, Standing
<1>3. Numbered' /\ Heard' /\ Unsent' /\ Counted'
  BY DEF OInv, Numbered, Heard, Unsent, Counted
<1>4. OrphanExplained'
  BY DEF OInv, OrphanExplained, Active
<1> QED BY <1>1, <1>2, <1>3, <1>4 DEF OInv

-----------------------------------------------------------------------------
(* The end of an order, or of its request.                                   *)

LEMMA CancelStep ==
  ASSUME OInv, NEW r \in Requests, Cancel(r)
  PROVE  OInv'
<1> USE DEF client, Goes
<1>0. /\ pc[r] = "cancel" /\ order[r] \in DOMAIN orders /\ order[r] # None
      /\ UNCHANGED <<demo, payments, paying, order, tries, told, unsure>>
  BY DEF Cancel, OInv, Owners
<1>a. \A q \in Requests : pc'[q] = IF q = r THEN "error" ELSE pc[q]
  BY DEF Cancel, OInv, OTypes, OrderTypeOK
<1>b. /\ orders' \in Seq({"created", "cancelled"}) /\ DOMAIN orders' = DOMAIN orders
      /\ \A o \in DOMAIN orders : o # order[r] => orders'[o] = orders[o]
  <2>1. orders \in Seq({"created", "cancelled"})
    BY DEF OInv, OTypes, OrderTypeOK
  <2>2. CASE orders' = Cancelled(order[r])
    <3>1. orders' \in Seq({"created", "cancelled"})
      BY <2>1, <2>2, <1>0, ExceptSeq DEF Cancelled
    <3> QED BY <3>1, <2>1, <2>2, <1>0 DEF Cancelled
  <2>3. CASE UNCHANGED orders
    BY <2>1, <2>3
  <2> QED BY <2>2, <2>3 DEF Cancel
<1>c. /\ lost \subseteq lost' /\ lost' \subseteq lost \cup {order[r]}
      /\ order[r] \in lost' \/ orders'[order[r]] = "cancelled"
  BY <1>0 DEF Cancel, Cancelled
<1>d. order[r] \in Nat
  BY DEF OInv, OTypes, OrderTypeOK
<1>1. OTypes'
  BY <1>0, <1>b, <1>c, <1>d DEF Cancel, OInv, OTypes, OrderTypeOK, Working
<1>2. Owners'
  BY <1>0, <1>a, <1>b DEF OInv, Owners
<1>3. Standing'
  <2> SUFFICES ASSUME NEW q \in Requests, order[q] # None, pc'[q] \in Working \cup {"ok"}
               PROVE  orders'[order[q]] = "created"
    BY <1>0 DEF Standing
  <2>1. q # r
    BY <1>a DEF Working
  <2>2. order[q] \in DOMAIN orders /\ order[q] # order[r]
    BY <2>1 DEF OInv, Owners
  <2> QED BY <2>1, <2>2, <1>a, <1>b DEF OInv, Standing
<1>4. Numbered'
  BY <1>0, <1>b DEF OInv, Numbered
<1>5. Heard'
  BY <1>0, <1>a DEF OInv, Heard
<1>6. Unsent' /\ Counted'
  BY <1>0, <1>a DEF OInv, Unsent, Counted
<1>7. OrphanExplained'
  BY <1>0, <1>a, <1>b, <1>c DEF OInv, OrphanExplained, Active
<1> QED BY <1>1, <1>2, <1>3, <1>4, <1>5, <1>6, <1>7 DEF OInv

LEMMA DropRequestStep ==
  ASSUME OInv, NEW r \in Requests, DropRequest(r)
  PROVE  OInv'
<1> USE DEF client, services, Goes
<1>0. /\ pc[r] \in Working /\ told[r] = "failed"
      /\ UNCHANGED <<demo, orders, payments, paying, order, tries, told>>
      /\ lost \subseteq lost' /\ lost' \subseteq Nat /\ (order[r] # None => order[r] \in lost')
      /\ unsure \subseteq unsure'
      /\ pc[r] = "paying" => Try(r) \in unsure'
  BY DEF DropRequest, OInv, OTypes, OrderTypeOK
<1>a. \A q \in Requests : pc'[q] = IF q = r THEN "gone" ELSE pc[q]
  BY DEF DropRequest, OInv, OTypes, OrderTypeOK
<1>b. unsure' \subseteq Tries
  <2>1. CASE pc[r] = "paying"
    <3>1. tries[r] # 0 /\ order[r] # 0
      BY <2>1 DEF OInv, Counted, Owners, None
    <3>2. Try(r) \in Tries
      BY <3>1 DEF Try, Tries, OInv, OTypes, OrderTypeOK
    <3> QED BY <2>1, <3>2 DEF DropRequest, OInv, OTypes, OrderTypeOK
  <2>2. CASE pc[r] # "paying"
    BY <2>2 DEF DropRequest, OInv, OTypes, OrderTypeOK
  <2> QED BY <2>1, <2>2
<1>1. OTypes'
  BY <1>0, <1>b DEF DropRequest, OInv, OTypes, OrderTypeOK, Working
<1>2. Owners'
  BY <1>0, <1>a DEF OInv, Owners, Working
<1>3. Standing'
  BY <1>0, <1>a DEF OInv, Standing, Working
<1>4. Numbered'
  BY <1>0 DEF OInv, Numbered
<1>5. Heard'
  <2> SUFFICES ASSUME NEW u \in payments \cup paying, u \notin unsure'
               PROVE  \E q \in Requests :
                        order[q] = u[1] /\ tries[q] = u[2] /\ pc'[q] \in {"paying", "ok"}
    BY <1>0 DEF Heard
  <2>1. PICK q \in Requests : order[q] = u[1] /\ tries[q] = u[2] /\ pc[q] \in {"paying", "ok"}
    BY <1>0 DEF OInv, Heard
  <2>2. u \in Tries
    BY DEF OInv, OTypes, OrderTypeOK
  <2>3. q # r
    <3>1. CASE pc[r] = "paying"
      <4>1. u # Try(r) /\ Try(r) \in Tries
        BY <3>1, <1>0, <1>b
      <4>2. Try(r)[1] = order[r] /\ Try(r)[2] = tries[r]
        BY DEF Try
      <4> QED BY <4>1, <4>2, <2>1, <2>2, SameTry
    <3>2. CASE pc[r] # "paying"
      BY <3>2, <1>0, <2>1 DEF Working
    <3> QED BY <3>1, <3>2
  <2> QED BY <2>1, <2>3, <1>a
<1>6. Unsent' /\ Counted'
  BY <1>0, <1>a DEF OInv, Unsent, Counted
<1>7. OrphanExplained'
  <2> SUFFICES ASSUME demo.saga, NEW o \in Active
               PROVE  \/ o \in lost'
                      \/ \E p \in payments : p[1] = o
                      \/ \E q \in Requests : order[q] = o /\ pc'[q] \in Working
    BY <1>0 DEF OrphanExplained, Active
  <2>1. o # None
    BY Appended DEF OInv, Active, None
  <2>2. \/ o \in lost
        \/ \E p \in payments : p[1] = o
        \/ \E q \in Requests : order[q] = o /\ pc[q] \in Working
    BY DEF OInv, OrphanExplained
  <2> QED BY <2>1, <2>2, <1>0, <1>a
<1> QED BY <1>1, <1>2, <1>3, <1>4, <1>5, <1>6, <1>7 DEF OInv

LEMMA OStep == OInv /\ OrderNext => OInv'
<1> SUFFICES ASSUME OInv, OrderNext PROVE OInv'
  OBVIOUS
<1>1. ASSUME NEW r \in Requests,
             \/ Create(r) \/ CreateAgain(r) \/ Pay(r) \/ GiveUp(r) \/ Cancel(r) \/ DropRequest(r)
             \/ Send(r) \/ Hear(r) \/ HangUp(r)
      PROVE  OInv'
  BY <1>1, CreateStep, CreateAgainStep, PayStep, GiveUpStep, CancelStep, DropRequestStep,
     SendStep, ClientSteps
<1>2. ASSUME NEW p \in paying, Refuse(p) \/ Record(p) \/ DropPayment(p)
      PROVE  OInv'
  BY <1>2, RefuseStep, RecordStep, DropPaymentStep
<1>3. ASSUME ReadOrders \/ ReadPayments PROVE OInv'
  <2>1. 1 \in Requests
    BY OrdersAssumption DEF Requests
  <2> QED BY <1>3, <2>1, ClientSteps
<1> QED BY <1>1, <1>2, <1>3 DEF OrderNext

\* What the invariant says of charges.
LEMMA OCharges == OInv => ChargeExplained
<1> SUFFICES ASSUME OInv, NEW p \in payments
             PROVE  /\ p[1] \in DOMAIN orders
                    /\ orders[p[1]] = "cancelled" => p \in unsure
                    /\ \A q \in payments \ {p} : q[1] = p[1] => p \in unsure \/ q \in unsure
  BY DEF ChargeExplained
<1>1. p[1] \in DOMAIN orders
  BY DEF OInv, Numbered
<1>2. ASSUME p \notin unsure
      PROVE  /\ orders[p[1]] # "cancelled"
             /\ \E r \in Requests : order[r] = p[1] /\ tries[r] = p[2] /\ order[r] # None
  <2>1. PICK r \in Requests : order[r] = p[1] /\ tries[r] = p[2] /\ pc[r] \in {"paying", "ok"}
    BY <1>2 DEF OInv, Heard
  <2>2. order[r] # None
    BY <2>1 DEF OInv, Owners
  <2> QED BY <2>1, <2>2 DEF OInv, Standing, Working
<1>3. ASSUME NEW q \in payments \ {p}, q[1] = p[1], p \notin unsure, q \notin unsure
      PROVE  FALSE
  <2>1. PICK r \in Requests : order[r] = p[1] /\ tries[r] = p[2] /\ order[r] # None
    BY <1>2, <1>3
  <2>2. PICK o \in Requests : order[o] = q[1] /\ tries[o] = q[2]
    BY <1>3 DEF OInv, Heard
  <2>3. o = r
    BY <1>3, <2>1, <2>2 DEF OInv, Owners
  <2>4. p \in Tries /\ q \in Tries
    BY DEF OInv, OTypes, OrderTypeOK
  <2> QED BY <1>3, <2>1, <2>2, <2>3, <2>4, SameTry
<1> QED BY <1>1, <1>2, <1>3

-----------------------------------------------------------------------------
(* The invariant of the breakers.                                            *)

\* A trial has been let in after the opening, by a clock that was read before.
Overdue == \A s \in Services : breaker[s].state = "half-open" => breaker[s].next <= clock
Begun == \A p \in Asks \X Services : began[p] <= clock

CInv == CombineTypeOK /\ Overdue /\ Begun

LEMMA CInit == gateway \in Gateways /\ CombineRest => CInv
  BY CombineAssumption
     DEF CombineRest, CInv, CombineTypeOK, Overdue, Begun, NewBreaker, Gateways

LEMMA CStutter == CInv /\ UNCHANGED combineVars => CInv'
  BY DEF combineVars, breakerVars, CInv, CombineTypeOK, Overdue, Begun

BreakerTypes ==
  breaker \in [Services -> [state: {"closed", "open", "half-open"}, failures: Nat, next: Nat]]
BreakerSound == \A s \in Services : breaker[s].state = "closed" <=> breaker[s].failures < Threshold[s]

\* A step of one breaker, whatever becomes of the call.
LEMMA BreakerStep ==
  ASSUME CInv, UNCHANGED clock, NEW s \in Services,
         NEW b \in [state: {"closed", "open", "half-open"}, failures: Nat, next: Nat],
         b.state = "closed" <=> b.failures < Threshold[s],
         b.state = "half-open" => b.next <= clock,
         breaker' = [breaker EXCEPT ![s] = b]
  PROVE  BreakerTypes' /\ BreakerSound' /\ Overdue'
<1>1. BreakerTypes /\ BreakerSound
  BY DEF CInv, CombineTypeOK, BreakerTypes, BreakerSound
<1>2. BreakerTypes'
  BY <1>1 DEF BreakerTypes
<1>3. \A q \in Services : breaker'[q] = IF q = s THEN b ELSE breaker[q]
  BY <1>1 DEF BreakerTypes
<1>4. BreakerSound'
  BY <1>1, <1>3 DEF BreakerSound
<1>5. Overdue'
  BY <1>3 DEF CInv, Overdue
<1> QED BY <1>2, <1>4, <1>5

LEMMA OfCall ==
  ASSUME NEW T, NEW f \in [Asks \X Services -> T], NEW a \in Asks, NEW s \in Services, NEW v \in T
  PROVE  /\ [f EXCEPT ![<<a, s>>] = v] \in [Asks \X Services -> T]
         /\ \A p \in Asks \X Services :
              [f EXCEPT ![<<a, s>>] = v][p] = IF p = <<a, s>> THEN v ELSE f[p]
<1> DEFINE c == <<a, s>>
<1>1. c \in Asks \X Services
  OBVIOUS
<1> HIDE DEF c
<1>2. /\ [f EXCEPT ![c] = v] \in [Asks \X Services -> T]
      /\ \A p \in Asks \X Services : [f EXCEPT ![c] = v][p] = IF p = c THEN v ELSE f[p]
  BY <1>1
<1> QED BY <1>2 DEF c

LEMMA StartStep ==
  ASSUME CInv, NEW a \in Asks, NEW s \in Services, Start(a, s)
  PROVE  CInv'
<1>1. CombineTypeOK'
  <2>1. PICK place \in {"timed", "out"} : fetch' = [fetch EXCEPT ![<<a, s>>] = place]
    BY DEF Start, Becomes
  <2>2. clock \in Nat /\ began \in [Asks \X Services -> Nat]
    BY DEF CInv, CombineTypeOK
  <2>3. fetch' \in [Asks \X Services -> {"idle", "timed", "out", "ok", "failed"}]
    <3>1. /\ fetch \in [Asks \X Services -> {"idle", "timed", "out", "ok", "failed"}]
          /\ place \in {"idle", "timed", "out", "ok", "failed"}
      BY DEF CInv, CombineTypeOK
    <3> QED BY <2>1, <3>1, OfCall
  <2>4. began' = [began EXCEPT ![<<a, s>>] = clock] \/ began' = began
    BY DEF Start
  <2>5. [began EXCEPT ![<<a, s>>] = clock] \in [Asks \X Services -> Nat]
    BY <2>2, OfCall
  <2>6. began' \in [Asks \X Services -> Nat]
    BY <2>2, <2>4, <2>5
  <2> QED BY <2>3, <2>6 DEF Start, CInv, CombineTypeOK
<1>2. Overdue'
  BY DEF Start, CInv, Overdue
<1>3. Begun'
  <2>1. clock' = clock /\ clock \in Nat /\ began \in [Asks \X Services -> Nat]
    BY DEF Start, CInv, CombineTypeOK
  <2>2. began' = [began EXCEPT ![<<a, s>>] = clock] \/ began' = began
    BY DEF Start
  <2>3. CASE began' = [began EXCEPT ![<<a, s>>] = clock]
    <3>1. \A p \in Asks \X Services : began'[p] = IF p = <<a, s>> THEN clock ELSE began[p]
      BY <2>1, <2>3, OfCall
    <3> QED BY <3>1, <2>1 DEF CInv, Begun
  <2>4. CASE began' = began
    BY <2>1, <2>4 DEF CInv, Begun
  <2> QED BY <2>2, <2>3, <2>4
<1> QED BY <1>1, <1>2, <1>3 DEF CInv

\* A call that ends has no time any more.
LEMMA EndedCall ==
  ASSUME CInv, UNCHANGED clock, NEW a \in Asks, NEW s \in Services,
         began' = [began EXCEPT ![<<a, s>>] = 0] \/ began' = began
  PROVE  began' \in [Asks \X Services -> Nat] /\ Begun'
<1>1. clock \in Nat /\ began \in [Asks \X Services -> Nat]
  BY DEF CInv, CombineTypeOK
<1>2. CASE began' = [began EXCEPT ![<<a, s>>] = 0]
  <2>1. /\ began' \in [Asks \X Services -> Nat]
        /\ \A p \in Asks \X Services : began'[p] = IF p = <<a, s>> THEN 0 ELSE began[p]
    BY <1>1, <1>2, OfCall
  <2> QED BY <2>1, <1>1 DEF CInv, Begun
<1>3. CASE began' = began
  BY <1>1, <1>3 DEF CInv, Begun
<1> QED BY <1>2, <1>3

LEMMA EnterStep ==
  ASSUME CInv, NEW a \in Asks, NEW s \in Services, Enter(a, s)
  PROVE  CInv'
<1> DEFINE b == breaker[s]
<1>1. /\ b \in [state: {"closed", "open", "half-open"}, failures: Nat, next: Nat]
      /\ b.state = "closed" <=> b.failures < Threshold[s]
      /\ b.state = "half-open" => b.next <= clock
      /\ began[<<a, s>>] <= clock /\ began[<<a, s>>] \in Nat /\ clock \in Nat
  BY DEF CInv, CombineTypeOK, Overdue, Begun
<1>2. UNCHANGED <<gateway, clock, attempt, answer>>
  BY DEF Enter
<1>3. /\ fetch' \in [Asks \X Services -> {"idle", "timed", "out", "ok", "failed"}]
      /\ began' \in [Asks \X Services -> Nat] /\ Begun'
  <2>1. began' = [began EXCEPT ![<<a, s>>] = 0] \/ began' = began
    BY DEF Enter, Ends
  <2>2. \E place \in {"out", "failed"} : fetch' = [fetch EXCEPT ![<<a, s>>] = place]
    BY DEF Enter, Becomes, Ends
  <2>3. fetch' \in [Asks \X Services -> {"idle", "timed", "out", "ok", "failed"}]
    BY <2>2, OfCall DEF CInv, CombineTypeOK
  <2> QED BY <2>1, <2>3, <1>2, EndedCall
<1>4. BreakerTypes' /\ BreakerSound' /\ Overdue'
  <2>1. CASE breaker' = breaker
    BY <2>1, <1>2 DEF CInv, CombineTypeOK, BreakerTypes, BreakerSound, Overdue
  <2>2. CASE LetsIn(b, began[<<a, s>>]) /\ breaker' = [breaker EXCEPT ![s] = Before(b)]
    <3>1. /\ Before(b) \in [state: {"closed", "open", "half-open"}, failures: Nat, next: Nat]
          /\ Before(b).state = "closed" <=> Before(b).failures < Threshold[s]
          /\ Before(b).state = "half-open" => Before(b).next <= clock
      BY <2>2, <1>1 DEF Before, LetsIn
    <3> QED BY <3>1, <2>2, <1>2, BreakerStep
  <2> QED BY <2>1, <2>2 DEF Enter
<1>5. CombineTypeOK'
  BY <1>2, <1>3, <1>4 DEF CInv, CombineTypeOK, BreakerTypes, BreakerSound
<1> QED BY <1>3, <1>4, <1>5 DEF CInv

LEMMA EndStep ==
  ASSUME CInv, NEW a \in Asks, NEW s \in Services, Good(a, s) \/ Bad(a, s)
  PROVE  CInv'
<1> DEFINE b == breaker[s]
<1>1. /\ b \in [state: {"closed", "open", "half-open"}, failures: Nat, next: Nat]
      /\ b.state = "closed" <=> b.failures < Threshold[s]
      /\ b.state = "half-open" => b.next <= clock
      /\ began[<<a, s>>] \in Nat /\ clock \in Nat
      /\ Threshold[s] \in Nat \ {0} /\ OpenTimeout[s] \in Nat
      /\ attempt[<<a, s>>] \in 1..3
  BY CombineAssumption DEF CInv, CombineTypeOK, Overdue, Begun
<1>2. UNCHANGED <<gateway, clock, answer>>
  BY DEF Good, Bad
<1>3. /\ fetch' \in [Asks \X Services -> {"idle", "timed", "out", "ok", "failed"}]
      /\ began' \in [Asks \X Services -> Nat] /\ Begun'
  <2>1. began' = [began EXCEPT ![<<a, s>>] = 0] \/ began' = began
    BY DEF Good, Bad, Ends
  <2>2. \/ \E place \in {"ok", "failed"} : fetch' = [fetch EXCEPT ![<<a, s>>] = place]
        \/ fetch' = fetch
    BY DEF Good, Bad, Becomes, Ends
  <2>3. fetch' \in [Asks \X Services -> {"idle", "timed", "out", "ok", "failed"}]
    BY <2>2, OfCall DEF CInv, CombineTypeOK
  <2> QED BY <2>1, <2>3, <1>2, EndedCall
<1>4. attempt' \in [Asks \X Services -> 1..3]
  <2>1. CASE attempt' = attempt
    BY <2>1 DEF CInv, CombineTypeOK
  <2>2. CASE attempt[<<a, s>>] < Retries /\ attempt' = [attempt EXCEPT ![<<a, s>>] = @ + 1]
    <3>1. attempt[<<a, s>>] + 1 \in 1..3
      BY <2>2, <1>1 DEF Retries
    <3> QED BY <3>1, <2>2 DEF CInv, CombineTypeOK
  <2> QED BY <2>1, <2>2 DEF Good, Bad
<1>5. BreakerTypes' /\ BreakerSound' /\ Overdue'
  <2>1. CASE breaker' = breaker
    BY <2>1, <1>2 DEF CInv, CombineTypeOK, BreakerTypes, BreakerSound, Overdue
  <2>2. CASE breaker' = [breaker EXCEPT ![s] = Success(b)]
    <3> DEFINE t == Success(b)
    <3>0. /\ t \in [state: {"closed", "open", "half-open"}, failures: Nat, next: Nat]
          /\ t.state = "closed" /\ t.failures = 0
      BY <1>1 DEF Success
    <3>1. /\ t.state = "closed" <=> t.failures < Threshold[s]
          /\ t.state = "half-open" => t.next <= clock
      BY <3>0, <1>1
    <3> QED BY <3>0, <3>1, <2>2, <1>2, BreakerStep
  <2>3. CASE breaker' = [breaker EXCEPT ![s] = Failure(b, s, began[<<a, s>>])]
    <3> DEFINE f == Failure(b, s, began[<<a, s>>])
    <3>1. /\ f \in [state: {"closed", "open", "half-open"}, failures: Nat, next: Nat]
          /\ f.state = "closed" <=> f.failures < Threshold[s]
          /\ f.state = "half-open" => f.next <= clock
      BY <1>1 DEF Failure
    <3> QED BY <3>1, <2>3, <1>2, BreakerStep
  <2> QED BY <2>1, <2>2, <2>3 DEF Good, Bad
<1>6. CombineTypeOK'
  BY <1>2, <1>3, <1>4, <1>5 DEF CInv, CombineTypeOK, BreakerTypes, BreakerSound
<1> QED BY <1>3, <1>5, <1>6 DEF CInv

LEMMA CStep == CInv /\ CombineNext => CInv'
<1> SUFFICES ASSUME CInv, CombineNext PROVE CInv'
  OBVIOUS
<1>1. ASSUME NEW a \in Asks, NEW s \in Services,
             Start(a, s) \/ Enter(a, s) \/ Good(a, s) \/ Bad(a, s)
      PROVE  CInv'
  BY <1>1, StartStep, EnterStep, EndStep
<1>2. ASSUME NEW a \in Asks, Reply(a) PROVE CInv'
  BY <1>2 DEF Reply, breakerVars, CInv, CombineTypeOK, Overdue, Begun
<1>3. ASSUME Tick PROVE CInv'
  BY <1>3 DEF Tick, breakerVars, CInv, CombineTypeOK, Overdue, Begun
<1> QED BY <1>1, <1>2, <1>3 DEF CombineNext

-----------------------------------------------------------------------------
(* The theorems.                                                             *)

DInv == family \in {"saga", "circuit-breaker"} /\ OInv /\ CInv

LEMMA DInit == Init => DInv
<1>1. (CHOOSE d \in OrderScenarios : TRUE) \in OrderScenarios
  BY DEF OrderScenarios
<1>2. "gateway" \in Gateways
  BY DEF Gateways
<1> QED BY <1>1, <1>2, OInit, CInit DEF Init, OrderInit, CombineInit, DInv

LEMMA DStep == DInv /\ [Next]_demosVars => DInv'
  BY OStep, OStutter, CStep, CStutter DEF Next, demosVars, DInv

THEOREM Invariant == Spec => []DInv
  BY DInit, DStep, PTL DEF Spec

\* Both halves keep their types; above all a demo breaker is closed exactly as
\* long as fewer failures than its threshold have come in a row, whatever late
\* answers still arrive (services.rs:348-394).
THEOREM DemosTypes == Spec => []DemosTypeOK
<1>1. DInv => DemosTypeOK
  BY DEF DInv, OInv, OTypes, CInv, DemosTypeOK
<1> QED BY <1>1, Invariant, PTL

\* However many orders are placed: what the saga leaves behind unpaid had its
\* creation, its cancellation or its request lost (services.rs:601-634).
THEOREM OrphansExplained == Spec => []OrphanExplained
<1>1. DInv => OrphanExplained
  BY DEF DInv, OInv
<1> QED BY <1>1, Invariant, PTL

\* However many orders are placed, and in every demo: a charge too many was made
\* by a call that had been given up (services.rs:609).
THEOREM ChargesExplained == Spec => []ChargeExplained
<1>1. DInv => ChargeExplained
  BY OCharges DEF DInv
<1> QED BY <1>1, Invariant, PTL

\* For any number of concurrent requests, whatever the thresholds and periods:
\* no call begins in the open period of its breaker (services.rs:365-395).
THEOREM OpeningsRest == Spec => RestsAfterOpening
<1>1. ASSUME DInv, [Next]_demosVars, NEW a \in Asks, NEW s \in Services,
             fetch[<<a, s>>] = "timed", fetch'[<<a, s>>] = "out", breaker[s].state # "closed"
      PROVE  clock >= breaker[s].next
  <2>0. CInv
    BY <1>1 DEF DInv
  <2>1. fetch' # fetch
    BY <1>1
  <2>2. CombineNext
    BY <1>1, <2>1 DEF Next, demosVars, combineVars
  <2>3. PICK b \in Asks, t \in Services : Start(b, t) \/ Enter(b, t) \/ Good(b, t) \/ Bad(b, t)
    BY <2>1, <2>2 DEF CombineNext, Reply, Tick
  <2>4. \E place \in {"timed", "out", "ok", "failed"} : fetch' = [fetch EXCEPT ![<<b, t>>] = place]
    BY <2>1, <2>3 DEF Start, Enter, Good, Bad, Becomes, Ends
  <2>5. <<b, t>> = <<a, s>>
    <3>1. fetch \in [Asks \X Services -> {"idle", "timed", "out", "ok", "failed"}]
      BY <2>0 DEF CInv, CombineTypeOK
    <3>2. fetch'[<<a, s>>] = fetch[<<a, s>>] \/ <<b, t>> = <<a, s>>
      BY <3>1, <2>4, OfCall
    <3> QED BY <1>1, <3>2
  <2>6. b = a /\ t = s
    BY <2>5
  <2>7. Enter(a, s)
    BY <1>1, <2>3, <2>6 DEF Start, Good, Bad
  <2>8. LetsIn(breaker[s], began[<<a, s>>])
    <3>1. CASE fetch' = [fetch EXCEPT ![<<a, s>>] = "failed"]
      <4>1. fetch \in [Asks \X Services -> {"idle", "timed", "out", "ok", "failed"}]
        BY <2>0 DEF CInv, CombineTypeOK
      <4>2. fetch'[<<a, s>>] = "failed"
        BY <3>1, <4>1, OfCall
      <4> QED BY <4>2, <1>1
    <3> QED BY <3>1, <2>7 DEF Enter, Ends, Becomes
  <2>9. /\ breaker[s].state \in {"open", "half-open"} /\ breaker[s].next \in Nat
        /\ clock \in Nat /\ began[<<a, s>>] \in Nat /\ began[<<a, s>>] <= clock
        /\ breaker[s].state = "half-open" => breaker[s].next <= clock
    BY <1>1, <2>0 DEF CInv, CombineTypeOK, Overdue, Begun
  <2> QED BY <2>8, <2>9 DEF LetsIn
<1>2. DInv /\ [Next]_demosVars =>
        [\A a \in Asks, s \in Services :
           fetch[<<a, s>>] = "timed" /\ fetch'[<<a, s>>] = "out" /\ breaker[s].state # "closed"
             => clock >= breaker[s].next]_combineVars
  BY <1>1
<1> QED BY <1>2, Invariant, PTL DEF Spec, RestsAfterOpening

-----------------------------------------------------------------------------
(* The scorecard.  Its verdict is a matter of counting: every success has an *)
(* order of its own in the first list and a payment of its own in the        *)
(* second, so if neither list is longer than there are successes then there  *)
(* is nothing else in them.                                                  *)

ListedTypes ==
  /\ listed \in [orders: SUBSET Nat, payments: SUBSET Tries, whole: BOOLEAN]
  /\ IsFiniteSet(listed.orders) /\ IsFiniteSet(listed.payments) /\ IsFiniteSet(payments)

\* A request that was answered with success has been paid.
Paid == \A r \in Requests : pc[r] = "ok" => \E p \in payments : p[1] = order[r]

Told == \A r \in Requests : told[r] = "ok" => pc[r] = "ok"

\* The first list is read when no order is sent any more.
Read ==
  verdict # "open" =>
    /\ Sent
    /\ listed.whole => \A r \in Requests : told[r] = "ok" => order[r] \in listed.orders

Compared ==
  verdict \notin {"open", "reading"} =>
    /\ listed.whole =>
         \A r \in Requests : told[r] = "ok" => \E p \in listed.payments : p[1] = order[r]
    /\ verdict = Scored(Cardinality(listed.orders), Cardinality(listed.payments))

VInv == ListedTypes /\ Paid /\ Told /\ Read /\ Compared

LEMMA VInit == OrderRest => VInv
<1> SUFFICES ASSUME OrderRest PROVE VInv
  OBVIOUS
<1>1. ListedTypes
  BY FS_EmptySet DEF OrderRest, Unread, ListedTypes
<1>2. Paid /\ Told /\ Read /\ Compared
  BY DEF OrderRest, Paid, Told, Read, Compared
<1> QED BY <1>1, <1>2 DEF VInv

\* While the client does nothing, payments only become more and successes stay.
LEMMA ServicesKeep ==
  ASSUME VInv, UNCHANGED client, payments \subseteq payments', IsFiniteSet(payments'),
         \A r \in Requests : pc[r] = "ok" => pc'[r] = "ok" /\ order'[r] = order[r],
         \A r \in Requests :
           pc'[r] = "ok" => pc[r] = "ok" \/ \E p \in payments' : p[1] = order'[r]
  PROVE  VInv'
<1> USE DEF client
<1>1. ListedTypes'
  BY DEF VInv, ListedTypes
<1>2. Paid'
  BY DEF VInv, Paid
<1>3. Told'
  BY DEF VInv, Told
<1>4. Read'
  BY DEF VInv, Read, Sent, Told
<1>5. Compared'
  BY DEF VInv, Compared, Scored, Successes, Told
<1> QED BY <1>1, <1>2, <1>3, <1>4, <1>5 DEF VInv

LEMMA VStutter == VInv /\ UNCHANGED orderVars => VInv'
  BY ServicesKeep DEF orderVars, services, handlers, VInv, ListedTypes

\* As long as an order is to be sent, or its answer to be heard, nothing is read.
LEMMA AsksKeep ==
  ASSUME VInv, NEW r \in Requests, told[r] \notin {"ok", "failed"},
         UNCHANGED <<payments, order, listed, verdict>>,
         \A q \in Requests : (pc[q] = "ok") <=> (pc'[q] = "ok"),
         \A q \in Requests : told'[q] = "ok" => pc[q] = "ok"
  PROVE  VInv'
<1>1. verdict = "open"
  BY DEF VInv, Read, Sent
<1>2. ListedTypes' /\ Paid' /\ Told'
  BY DEF VInv, ListedTypes, Paid, Told
<1>3. Read' /\ Compared'
  BY <1>1 DEF Read, Compared
<1> QED BY <1>2, <1>3 DEF VInv

LEMMA VSend ==
  ASSUME OInv, VInv, NEW r \in Requests, Send(r)
  PROVE  VInv'
<1>1. pc[r] = "idle"
  BY DEF OInv, Unsent, Send
<1>2. \A q \in Requests : pc'[q] = IF q = r THEN "order" ELSE pc[q]
  BY DEF Send, Goes, OInv, OTypes, OrderTypeOK
<1>3. \A q \in Requests : told'[q] = "ok" => pc[q] = "ok"
  BY DEF Send, VInv, Told, OInv, OTypes, OrderTypeOK
<1>4. told[r] \notin {"ok", "failed"} /\ UNCHANGED <<payments, order, listed, verdict>>
  BY DEF Send, services
<1> QED BY <1>1, <1>2, <1>3, <1>4, AsksKeep

LEMMA VHear ==
  ASSUME OInv, VInv, NEW r \in Requests, Hear(r) \/ HangUp(r)
  PROVE  VInv'
<1>1. \A q \in Requests : told'[q] = "ok" => pc[q] = "ok"
  BY DEF Hear, HangUp, VInv, Told, OInv, OTypes, OrderTypeOK
<1>2. told[r] \notin {"ok", "failed"} /\ UNCHANGED <<payments, order, listed, verdict, pc>>
  BY DEF Hear, HangUp, services, handlers
<1> QED BY <1>1, <1>2, AsksKeep

LEMMA VReadOrders == OInv /\ VInv /\ ReadOrders => VInv'
<1> SUFFICES ASSUME OInv, VInv, ReadOrders PROVE VInv'
  OBVIOUS
<1> USE DEF services, handlers
<1>1. Active \subseteq 1..Len(orders) /\ Len(orders) \in Nat
  BY Appended DEF OInv, Active
<1>2. IsFiniteSet(Active) /\ Active \subseteq Nat
  <2>1. IsFiniteSet(1..Len(orders))
    BY <1>1, FS_Interval
  <2>2. IsFiniteSet(Active)
    BY <2>1, <1>1, FS_Subset
  <2> QED BY <2>2, <1>1
<1>3. listed' = [listed EXCEPT !.orders = Active] \/ listed' = [listed EXCEPT !.whole = FALSE]
  BY DEF ReadOrders
<1>4. ListedTypes'
  BY <1>2, <1>3 DEF ReadOrders, VInv, ListedTypes
<1>5. Paid' /\ Told'
  BY DEF ReadOrders, VInv, Paid, Told
<1>6. \A r \in Requests : told[r] = "ok" => order[r] \in Active
  BY DEF VInv, Told, OInv, Owners, Standing, Active
<1>7. listed'.whole => listed'.orders = Active
  BY <1>3 DEF VInv, ListedTypes
<1>8. Read'
  BY <1>6, <1>7 DEF ReadOrders, Read, Sent
<1>9. Compared'
  BY DEF ReadOrders, Compared
<1> QED BY <1>4, <1>5, <1>8, <1>9 DEF VInv

LEMMA VReadPayments == OInv /\ VInv /\ ReadPayments => VInv'
<1> SUFFICES ASSUME OInv, VInv, ReadPayments PROVE VInv'
  OBVIOUS
<1> USE DEF services, handlers
<1>1. \/ listed' = [listed EXCEPT !.payments = payments]
      \/ listed' = [listed EXCEPT !.whole = FALSE]
  BY DEF ReadPayments
<1>2. payments \subseteq Tries
  BY DEF OInv, OTypes, OrderTypeOK
<1>3. ListedTypes'
  BY <1>1, <1>2 DEF ReadPayments, VInv, ListedTypes
<1>4. Paid' /\ Told'
  BY DEF ReadPayments, VInv, Paid, Told
<1>5. /\ listed'.orders = listed.orders
      /\ listed'.whole => listed.whole /\ listed'.payments = payments
  BY <1>1 DEF VInv, ListedTypes
<1>6. Read'
  BY <1>5 DEF ReadPayments, VInv, Read, Sent
<1>7. \A r \in Requests : told[r] = "ok" => \E p \in payments : p[1] = order[r]
  BY DEF VInv, Told, Paid
<1>8. Compared'
  <2>1. UNCHANGED told
    BY DEF ReadPayments
  <2>2. Cardinality(listed'.orders) = Cardinality(listed.orders)
    BY <1>5
  <2>3. Successes' = Successes
    BY <2>1 DEF Successes
  <2>4. verdict' = Scored(Cardinality(listed.orders), Cardinality(listed'.payments))
    BY DEF ReadPayments
  <2>5. (verdict = Scored(Cardinality(listed.orders), Cardinality(listed.payments)))'
    BY <2>2, <2>3, <2>4 DEF Scored
  <2>6. listed'.whole => \A r \in Requests : told'[r] = "ok" => \E p \in listed'.payments : p[1] = order'[r]
    BY <2>1, <1>5, <1>7 DEF ReadPayments
  <2> QED BY <2>5, <2>6 DEF Compared
<1> QED BY <1>3, <1>4, <1>6, <1>8 DEF VInv

LEMMA VStep == OInv /\ VInv /\ OrderNext => VInv'
<1> SUFFICES ASSUME OInv, VInv, OrderNext PROVE VInv'
  OBVIOUS
<1> USE DEF Goes
<1>0. IsFiniteSet(payments) /\ pc \in [Requests -> Working \cup {"idle", "ok", "error", "gone"}]
  BY DEF VInv, ListedTypes, OInv, OTypes, OrderTypeOK
<1>1. ASSUME NEW r \in Requests, Create(r) PROVE VInv'
  <2>1. /\ \A q \in Requests : q # r => pc'[q] = pc[q] /\ order'[q] = order[q]
        /\ pc[r] # "ok" /\ pc'[r] # "ok" /\ UNCHANGED <<payments, client>>
    BY <1>0, <1>1 DEF Create, OInv, OTypes, OrderTypeOK
  <2> QED BY <1>0, <2>1, ServicesKeep
<1>2. ASSUME NEW r \in Requests,
             CreateAgain(r) \/ Pay(r) \/ GiveUp(r) \/ Cancel(r) \/ DropRequest(r)
      PROVE  VInv'
  <2>1. UNCHANGED <<payments, order, client>> /\ pc[r] # "ok"
    BY <1>2 DEF CreateAgain, Pay, GiveUp, Cancel, DropRequest, services, Working
  <2>2. PICK place \in {"pay", "paying", "again", "cancel", "error", "gone"} :
          pc' = [pc EXCEPT ![r] = place]
    BY <1>2, AfterFailurePlaces DEF OInv, CreateAgain, Pay, GiveUp, Cancel, DropRequest
  <2>3. \A q \in Requests : (pc'[q] = "ok") <=> (pc[q] = "ok")
    BY <1>0, <2>1, <2>2
  <2> QED BY <1>0, <2>1, <2>3, ServicesKeep
<1>3. ASSUME NEW p \in paying, Refuse(p) PROVE VInv'
  <2>1. UNCHANGED <<payments, order, client>>
    BY <1>3 DEF Refuse
  <2>2. \A q \in Requests : (pc'[q] = "ok") <=> (pc[q] = "ok")
    <3>1. CASE UNCHANGED pc
      BY <3>1
    <3>2. CASE \E r \in Requests : pc[r] = "paying" /\ Try(r) = p /\ Goes(r, AfterFailure(r))
      <4>1. PICK r \in Requests : pc[r] = "paying" /\ pc' = [pc EXCEPT ![r] = AfterFailure(r)]
        BY <3>2
      <4>2. AfterFailure(r) # "ok"
        BY AfterFailurePlaces DEF OInv
      <4> QED BY <1>0, <4>1, <4>2
    <3> QED BY <1>3, <3>1, <3>2 DEF Refuse
  <2> QED BY <1>0, <2>1, <2>2, ServicesKeep
<1>4. ASSUME NEW p \in paying, Record(p) PROVE VInv'
  <2>1. UNCHANGED <<order, client>> /\ payments' = payments \cup {p}
    BY <1>4 DEF Record
  <2>2. IsFiniteSet(payments')
    BY <1>0, <2>1, FS_AddElement
  <2>3. CASE UNCHANGED pc
    BY <2>1, <2>2, <2>3, ServicesKeep
  <2>4. CASE \E r \in Requests : pc[r] = "paying" /\ Try(r) = p /\ Goes(r, "ok")
    <3>1. PICK r \in Requests : pc[r] = "paying" /\ Try(r) = p /\ Goes(r, "ok")
      BY <2>4
    <3>2. p[1] = order[r]
      BY <3>1 DEF Try
    <3>3. \A q \in Requests : pc'[q] = IF q = r THEN "ok" ELSE pc[q]
      BY <1>0, <3>1
    <3> QED BY <2>1, <2>2, <3>2, <3>3, ServicesKeep
  <2> QED BY <1>4, <2>3, <2>4 DEF Record
<1>5. ASSUME NEW p \in paying, DropPayment(p) PROVE VInv'
  BY <1>0, <1>5, ServicesKeep DEF DropPayment, handlers
<1> QED BY <1>1, <1>2, <1>3, <1>4, <1>5, VSend, VHear, VReadOrders, VReadPayments DEF OrderNext

-----------------------------------------------------------------------------
(* The counting.                                                             *)

Served == {r \in Requests : told[r] = "ok"}

LEMMA ServedOrders ==
  ASSUME OInv, VInv
  PROVE  /\ \A r \in Served : order[r] \in Nat /\ order[r] # None
         /\ \A q, r \in Served : order[q] = order[r] => q = r
  BY DEF OInv, VInv, Told, Owners, OTypes, OrderTypeOK, Served

LEMMA VerdictCounts == OInv /\ VInv => VerdictSound
<1> SUFFICES ASSUME OInv, VInv, verdict = "consistent", listed.whole
             PROVE  /\ \A o \in listed.orders : Cardinality({p \in listed.payments : p[1] = o}) = 1
                    /\ \A p \in listed.payments : p[1] \in listed.orders
  BY DEF VerdictSound
<1> DEFINE O == listed.orders  P == listed.payments
<1>1. /\ \A r \in Served : order[r] \in O
      /\ \A r \in Served : \E p \in P : p[1] = order[r]
      /\ "consistent" = Scored(Cardinality(O), Cardinality(P))
      /\ IsFiniteSet(O) /\ IsFiniteSet(P)
  BY DEF VInv, ListedTypes, Read, Compared, Served
<1>2. IsFiniteSet(Served)
  <2>1. IsFiniteSet(Requests)
    BY OrdersAssumption, FS_Interval DEF Requests
  <2> QED BY <2>1, FS_Subset DEF Served
<1>3. /\ Cardinality(O) \in Nat /\ Cardinality(P) \in Nat /\ Cardinality(Served) \in Nat
      /\ Successes = Cardinality(Served)
  BY <1>1, <1>2, FS_CardinalityType DEF Successes, Served
<1>4. Cardinality(O) = Cardinality(P) /\ Cardinality(O) <= Cardinality(Served)
  <2> DEFINE c == Cardinality(O)  d == Cardinality(P)
  <2> HIDE DEF c, d
  <2>1. "consistent" = Scored(c, d) => c = d /\ ~(c > Successes)
    <3>1. CASE c > d
      BY <3>1 DEF Scored
    <3>2. CASE d > c
      BY <3>2, <1>3 DEF Scored, c, d
    <3>3. CASE c = d /\ c > Successes
      BY <3>3, <1>3 DEF Scored, c, d
    <3> QED BY <3>1, <3>2, <3>3, <1>3 DEF c, d
  <2> QED BY <2>1, <1>1, <1>3 DEF c, d
<1> DEFINE f == [r \in Served |-> order[r]]
           g == [r \in Served |-> CHOOSE p \in P : p[1] = order[r]]
<1>5. f \in Injection(Served, O)
  BY <1>1, ServedOrders DEF Injection, IsInjective
<1>6. \A r \in Served : g[r] \in P /\ g[r][1] = order[r]
  BY <1>1
<1>7. g \in Injection(Served, P)
  <2>1. g \in [Served -> P]
    BY <1>6
  <2>2. ASSUME NEW q \in Served, NEW r \in Served, g[q] = g[r] PROVE q = r
    BY <2>2, <1>6, ServedOrders
  <2> HIDE DEF g
  <2> QED BY <2>1, <2>2 DEF Injection, IsInjective
<1> HIDE DEF f, g
<1>8. f \in Surjection(Served, O)
  <2>1. Cardinality(Served) <= Cardinality(O)
    BY <1>1, <1>5, FS_Injection
  <2>2. Cardinality(Served) = Cardinality(O)
    BY <2>1, <1>3, <1>4
  <2> QED BY <2>2, <1>1, <1>5, FS_Injection
<1>9. g \in Surjection(Served, P)
  <2>1. Cardinality(Served) <= Cardinality(P)
    BY <1>1, <1>7, FS_Injection
  <2>2. Cardinality(Served) = Cardinality(P)
    BY <2>1, <1>3, <1>4
  <2> QED BY <2>2, <1>1, <1>7, FS_Injection
<1>10. \A p \in P : \E r \in Served : p = g[r]
  BY <1>9 DEF Surjection
<1>11. \A o \in O : \E r \in Served : o = order[r]
  BY <1>8 DEF Surjection, f
<1>12. ASSUME NEW p \in P PROVE p[1] \in O
  BY <1>1, <1>6, <1>10
<1>13. ASSUME NEW o \in O PROVE Cardinality({p \in P : p[1] = o}) = 1
  <2>1. PICK r \in Served : o = order[r]
    BY <1>11
  <2>2. ASSUME NEW p \in P, p[1] = o PROVE p = g[r]
    BY <2>1, <2>2, <1>6, <1>10, ServedOrders
  <2>3. {p \in P : p[1] = o} = {g[r]}
    BY <2>1, <2>2, <1>6
  <2>4. Cardinality({g[r]}) = 1
    BY FS_Singleton
  <2> QED BY <2>3, <2>4
<1> QED BY <1>12, <1>13

\* Whatever number of orders, with calls that fail, get lost or are given up and
\* go on while the client reads: of two lists that could be read the scorecard
\* says consistent only if every order seen has one payment and there are no
\* others (clients.rs:204-210, 265-286).
THEOREM VerdictsSound == Spec => []VerdictSound
<1>1. Init => VInv
  BY VInit DEF Init, OrderInit
<1>2. DInv /\ VInv /\ [Next]_demosVars => VInv'
  BY VStep, VStutter DEF Next, demosVars, DInv
<1>3. DInv /\ VInv => VerdictSound
  BY VerdictCounts DEF DInv
<1> QED BY <1>1, <1>2, <1>3, Invariant, PTL DEF Spec
=============================================================================
