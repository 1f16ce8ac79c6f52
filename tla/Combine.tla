------------------------------- MODULE Combine -------------------------------
(***************************************************************************)
(* The circuit-breaker demos: concurrent requests to /api/combine, each of *)
(* which asks all services at once and joins the answers.  The plain       *)
(* gateway asks once, gateway-retry up to three times, gateway-retry-cb    *)
(* once through a breaker per service.                                     *)
(*                                                                         *)
(* A call of the breaker takes the time first and the lock afterwards, and *)
(* `now` of a failure is still the time from before the call.              *)
(*                                                                         *)
(* Left out: bodies, latencies and the client's statistics.  Operators     *)
(* named X_Y are X with a plausible mistake Y.                             *)
(***************************************************************************)
EXTENDS Integers, FiniteSets

CONSTANTS
  Asks,          \* requests of the client
  Services,
  Threshold,     \* service -> failures in a row that open its breaker
  OpenTimeout,   \* service -> how long it stays open
  MaxClock       \* bound

ASSUME CombineAssumption ==
  /\ IsFiniteSet(Asks) /\ IsFiniteSet(Services)
  /\ Threshold \in [Services -> Nat \ {0}] /\ OpenTimeout \in [Services -> Nat]
  /\ MaxClock \in Nat

Gateways == {"gateway", "gateway-retry", "gateway-retry-cb"}

VARIABLES
  gateway,    \* the one that runs
  clock,
  breaker,    \* service -> its breaker
  fetch,      \* request, service -> where the call stands
  began,      \* request, service -> `now` of the call, 0 without one
  attempt,    \* request, service -> number of the attempt
  answer      \* request -> what the client got

breakerVars == <<breaker, began>>
combineVars == <<gateway, clock, breakerVars, fetch, attempt, answer>>

NewBreaker == [state |-> "closed", failures |-> 0, next |-> 0]

-----------------------------------------------------------------------------
(* The breaker.                                                              *)

\* before: calls are let in from when the open period is over, all of them.
LetsIn(b, now) == b.state = "open" => now >= b.next
Before(b) == IF b.state = "open" THEN [b EXCEPT !.state = "half-open"] ELSE b

\* The failures in a row are not forgotten.
Success_KeepsCount(b) == [b EXCEPT !.state = "closed"]

\* A success closes, in whatever state.
Success(b) == [b EXCEPT !.state = "closed", !.failures = 0]

\* A failed trial does not open again.
Failure_TrialForgiven(b, s, now) ==
  [state |-> IF b.failures + 1 = Threshold[s] THEN "open" ELSE b.state,
   failures |-> b.failures + 1, next |-> now + OpenTimeout[s]]

\* failure: the period counts from `now`, when the call was still to come.
Failure(b, s, now) ==
  IF b.state = "half-open" \/ b.failures + 1 >= Threshold[s]
  THEN [state |-> "open", failures |-> b.failures + 1, next |-> now + OpenTimeout[s]]
  ELSE [b EXCEPT !.failures = @ + 1]

-----------------------------------------------------------------------------
(* A request.                                                                *)

Guarded == gateway = "gateway-retry-cb"
Retries == IF gateway = "gateway-retry" THEN 3 ELSE 1

Becomes(a, s, place) == fetch' = [fetch EXCEPT ![<<a, s>>] = place]

Ends(a, s, how) == Becomes(a, s, how) /\ began' = [began EXCEPT ![<<a, s>>] = 0]

\* fetch_with_cb looks at the clock; the others just call.
Start(a, s) ==
  /\ fetch[<<a, s>>] = "idle"
  /\ \/ Guarded /\ Becomes(a, s, "timed") /\ began' = [began EXCEPT ![<<a, s>>] = clock]
     \/ ~Guarded /\ Becomes(a, s, "out") /\ UNCHANGED began
  /\ UNCHANGED <<gateway, clock, breaker, attempt, answer>>

\* ... and asks the breaker.
Enter(a, s) ==
  /\ fetch[<<a, s>>] = "timed"
  /\ \/ /\ LetsIn(breaker[s], began[<<a, s>>])
        /\ breaker' = [breaker EXCEPT ![s] = Before(@)]
        /\ Becomes(a, s, "out") /\ UNCHANGED began
     \/ ~LetsIn(breaker[s], began[<<a, s>>]) /\ Ends(a, s, "failed") /\ UNCHANGED breaker
  /\ UNCHANGED <<gateway, clock, attempt, answer>>

\* The service answers.
Good(a, s) ==
  /\ fetch[<<a, s>>] = "out"
  /\ Ends(a, s, "ok")
  /\ breaker' = IF Guarded THEN [breaker EXCEPT ![s] = Success(@)] ELSE breaker
  /\ UNCHANGED <<gateway, clock, attempt, answer>>

\* It fails, or cannot be reached: at once again, as often as that.
Bad(a, s) ==
  /\ fetch[<<a, s>>] = "out"
  /\ \/ /\ attempt[<<a, s>>] < Retries /\ attempt' = [attempt EXCEPT ![<<a, s>>] = @ + 1]
        /\ UNCHANGED <<fetch, began>>
     \/ attempt[<<a, s>>] = Retries /\ Ends(a, s, "failed") /\ UNCHANGED attempt
  /\ breaker' =
       IF Guarded THEN [breaker EXCEPT ![s] = Failure(@, s, began[<<a, s>>])] ELSE breaker
  /\ UNCHANGED <<gateway, clock, answer>>

Joined(a) == \A s \in Services : fetch[<<a, s>>] \in {"ok", "failed"}

\* The plain gateways need every service, the one with breakers any.
Reply(a) ==
  /\ answer[a] = "none" /\ Joined(a)
  /\ answer' = [answer EXCEPT ![a] =
       IF \/ \A s \in Services : fetch[<<a, s>>] = "ok"
          \/ Guarded /\ \E s \in Services : fetch[<<a, s>>] = "ok"
       THEN "200" ELSE "502"]
  /\ UNCHANGED <<gateway, clock, breakerVars, fetch, attempt>>

Tick ==
  /\ clock < MaxClock
  /\ clock' = clock + 1
  /\ UNCHANGED <<gateway, breakerVars, fetch, attempt, answer>>

CombineRest ==
  /\ clock = 0
  /\ breaker = [s \in Services |-> NewBreaker]
  /\ fetch = [p \in Asks \X Services |-> "idle"]
  /\ began = [p \in Asks \X Services |-> 0]
  /\ attempt = [p \in Asks \X Services |-> 1]
  /\ answer = [a \in Asks |-> "none"]

CombineInit == gateway \in Gateways /\ CombineRest

CombineNext ==
  \/ \E a \in Asks, s \in Services : Start(a, s) \/ Enter(a, s) \/ Good(a, s) \/ Bad(a, s)
  \/ \E a \in Asks : Reply(a)
  \/ Tick

-----------------------------------------------------------------------------
(* Properties.                                                               *)

\* Types; and a breaker is closed exactly as long as fewer failures than its
\* threshold have come in a row, though late answers of calls from before its
\* opening still change it.
CombineTypeOK ==
  /\ gateway \in Gateways /\ clock \in Nat
  /\ breaker \in [Services -> [state: {"closed", "open", "half-open"}, failures: Nat, next: Nat]]
  /\ \A s \in Services : breaker[s].state = "closed" <=> breaker[s].failures < Threshold[s]
  /\ fetch \in [Asks \X Services -> {"idle", "timed", "out", "ok", "failed"}]
  /\ began \in [Asks \X Services -> Nat]
  /\ attempt \in [Asks \X Services -> 1..3]
  /\ answer \in [Asks -> {"none", "200", "502"}]

\* While a breaker is not closed no call of its service begins before the time
\* its last opening has set, however old the time is that the call has looked
\* up, and however many calls are let in when the period is over (services.rs:
\* 365-395).
RestsAfterOpening ==
  [][\A a \in Asks, s \in Services :
       fetch[<<a, s>>] = "timed" /\ fetch'[<<a, s>>] = "out" /\ breaker[s].state # "closed"
         => clock >= breaker[s].next]_combineVars
=============================================================================
