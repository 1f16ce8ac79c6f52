----------------------------- MODULE FaultInjector -----------------------------
(***************************************************************************)
(* The fault injector of one service (faults/): handlers of POST /faults/* *)
(* and of the soft reset run tc and iptables commands and keep books of    *)
(* them.  A handler awaits each of its commands, and other handlers run    *)
(* meanwhile.  The books are the set of blocked peers and the handle of    *)
(* the ramp task of slow-degradation.                                      *)
(*                                                                         *)
(* A command is a process of its own.  When the task that waits for it is  *)
(* aborted, or dropped because the client hung up, nothing kills the       *)
(* process: it may take effect later ("stray").  Any command may fail; the *)
(* error is logged and ignored.                                            *)
(*                                                                         *)
(* Left out: the parameters of a fault (loss, delay, corruption).  A       *)
(* SIGKILL of cascade-crash to the first process of a container is         *)
(* ignored, so that fault does nothing here.                               *)
(*                                                                         *)
(* An operator named X_Y is X with a plausible mistake Y; no specification *)
(* uses it.  It is there to show that the properties would notice.         *)
(***************************************************************************)
EXTENDS Integers, FiniteSets

CONSTANTS
  Handlers,    \* requests, each with a task of its own; a ramp bears the name
               \* of the handler that spawned it
  Peers,       \* addresses that can be blocked
  RampSteps    \* commands of a ramp (60 in the code)

ASSUME HandlersAssumption == IsFiniteSet(Handlers)
ASSUME RampAssumption == RampSteps \in Nat \ {0}

CONSTANT None
ASSUME NoneAssumption == None \notin Handlers \cup Peers

Chains == {"INPUT", "OUTPUT"}

\* Where a handler stands: which command it awaits, or what it does next.
Commands == {"tcDel", "tcAdd", "addInput", "addOutput", "delInput", "delOutput"}
Steps == Commands \cup {"idle", "spawn", "record", "drain", "done"}

Requests == {"tc", "slow-degradation", "network-partition",
             "recover", "recover-tc", "recover-partition"}

VARIABLES
  rules,     \* kernel: chain -> peer -> how many DROP rules
  qdisc,     \* kernel: what netem does on eth0
  blocked,   \* blocked_ips
  handle,    \* degradation: the ramp the handle belongs to, or None
  ramp,      \* handler -> commands its ramp task has left, 0 without a task
  pc,        \* handler -> step
  request,   \* handler -> what it was asked for
  left,      \* handler -> peers it still has to add or delete
  peer,      \* handler -> the one under way, or None
  stray,     \* commands nobody waits for that have not taken effect
  tidy,      \* history: no iptables command failed or was left behind, no
             \* peer was partitioned twice
  rival,     \* history: two slow-degradation injections overlapped
  recovering,\* history: the recoveries with no injection into tc under way
             \* when they began, or begun since
  cleared    \* history: one of those has cleared tc

kernel == <<rules, qdisc>>
books == <<blocked, handle>>
tasks == <<pc, request, left, peer>>
history == <<tidy, rival, recovering, cleared>>
vars == <<kernel, books, ramp, tasks, stray, history>>

FaultTypeOK ==
  /\ rules \in [Chains -> [Peers -> Nat]]
  /\ qdisc \in {"none", "fault", "delay"}
  /\ blocked \subseteq Peers
  /\ handle \in Handlers \cup {None}
  /\ ramp \in [Handlers -> 0..RampSteps]
  /\ pc \in [Handlers -> Steps]
  /\ request \in [Handlers -> Requests \cup {None}]
  /\ left \in [Handlers -> SUBSET Peers]
  /\ peer \in [Handlers -> Peers \cup {None}]
  /\ stray \subseteq [by : Handlers, cmd : Commands \cup {"replace"}, peer : Peers \cup {None}]
  /\ recovering \subseteq Handlers
  /\ tidy \in BOOLEAN /\ rival \in BOOLEAN /\ cleared \in BOOLEAN

-----------------------------------------------------------------------------
(* The kernel.                                                               *)

Changed(chain, p, n) == [rules EXCEPT ![chain][p] = n]

\* What a command does.  tc add fails when there is a qdisc, iptables -D when
\* there is no such rule.
Effect(cmd, p) ==
  \/ /\ cmd = "tcDel" /\ qdisc' = "none" /\ UNCHANGED rules
  \/ /\ cmd = "tcAdd"
     /\ qdisc' = IF qdisc = "none" THEN "fault" ELSE qdisc
     /\ UNCHANGED rules
  \/ /\ cmd = "replace" /\ qdisc' = "delay" /\ UNCHANGED rules
  \/ \E chain \in Chains :
       /\ \/ /\ cmd = (IF chain = "INPUT" THEN "addInput" ELSE "addOutput")
             /\ rules' = Changed(chain, p, rules[chain][p] + 1)
          \/ /\ cmd = (IF chain = "INPUT" THEN "delInput" ELSE "delOutput")
             /\ rules' = IF rules[chain][p] = 0 THEN rules
                                                ELSE Changed(chain, p, rules[chain][p] - 1)
       /\ UNCHANGED qdisc

\* FaultInjector::run: the command takes effect or fails.
Run(cmd, p) ==
  \/ Effect(cmd, p) /\ UNCHANGED tidy
  \/ UNCHANGED kernel /\ tidy' = (tidy /\ p = None)

-----------------------------------------------------------------------------
(* Handlers.                                                                 *)

Goes(h, step) == pc' = [pc EXCEPT ![h] = step]

InjectsTc(h) == request[h] \in {"tc", "slow-degradation"}
Active(h) == pc[h] \notin {"idle", "done"}
Degrading(h) == Active(h) /\ request[h] = "slow-degradation"

\* degradation.take() and abort(): the task ends at its await.  If it awaits a
\* command, the command goes on.
TakeAndAbort_OnlyTakes == handle' = None /\ UNCHANGED <<ramp, stray>>

TakeAndAbort ==
  /\ handle' = None
  /\ IF handle = None
       THEN UNCHANGED <<ramp, stray>>
       ELSE /\ ramp' = [ramp EXCEPT ![handle] = 0]
            /\ \/ UNCHANGED stray
               \/ /\ ramp[handle] > 0
                  /\ stray' = stray \cup {[by |-> handle, cmd |-> "replace", peer |-> None]}

\* The first step of inject: tc profiles clear the layer before anything else,
\* the partition starts with a peer of its list, taken to name each at most once;
\* without peers it does nothing.
Inject(h, what) ==
  /\ pc[h] = "idle"
  /\ request' = [request EXCEPT ![h] = what]
  /\ \/ /\ what \in {"tc", "slow-degradation"}
        /\ TakeAndAbort
        /\ Goes(h, "tcDel")
        /\ recovering' = {}
        /\ cleared' = FALSE
        /\ rival' = (rival \/ (what = "slow-degradation" /\ \E g \in Handlers : Degrading(g)))
        /\ UNCHANGED left
     \/ /\ what = "network-partition"
        /\ \E ips \in SUBSET Peers :
             /\ left' = [left EXCEPT ![h] = ips]
             /\ Goes(h, IF ips = {} THEN "done" ELSE "addInput")
        /\ UNCHANGED <<handle, ramp, stray, rival, recovering, cleared>>
  /\ UNCHANGED <<kernel, blocked, peer, tidy>>

\* The first step of recover and recover_by_type.
Recover(h, what) ==
  /\ pc[h] = "idle"
  /\ request' = [request EXCEPT ![h] = what]
  /\ \/ /\ what \in {"recover", "recover-tc"}
        /\ TakeAndAbort
        /\ Goes(h, "tcDel")
        /\ recovering' = IF \E g \in Handlers : InjectsTc(g) /\ Active(g)
                            THEN recovering ELSE recovering \cup {h}
     \/ /\ what = "recover-partition"
        /\ Goes(h, "drain")
        /\ UNCHANGED <<handle, ramp, stray, recovering>>
  /\ UNCHANGED <<kernel, blocked, left, peer, tidy, rival, cleared>>

AfterTcDel(h) ==
  IF InjectsTc(h) THEN {"tcAdd", "done"}   \* done: its options are invalid
                  ELSE IF request[h] = "recover" THEN {"drain"} ELSE {"done"}

TcDel(h) ==
  /\ pc[h] = "tcDel"
  /\ Run("tcDel", None)
  /\ \E next \in AfterTcDel(h) : Goes(h, next)
  /\ cleared' = (cleared \/ (h \in recovering /\ qdisc' = "none"))
  /\ UNCHANGED <<books, ramp, request, left, peer, stray, rival, recovering>>

\* A ramp with invalid options is not spawned.
TcAdd(h) ==
  /\ pc[h] = "tcAdd"
  /\ Run("tcAdd", None)
  /\ \/ request[h] = "slow-degradation" /\ Goes(h, "spawn")
     \/ Goes(h, "done")
  /\ UNCHANGED <<books, ramp, request, left, peer, stray, rival, recovering, cleared>>

\* spawn and set_degradation_handle, with no await in between: a handle that is
\* already there is replaced.
Spawn(h) ==
  /\ pc[h] = "spawn"
  /\ ramp' = [ramp EXCEPT ![h] = RampSteps]
  /\ handle' = h
  /\ Goes(h, "done")
  /\ UNCHANGED <<kernel, blocked, request, left, peer, stray, history>>

AddInput(h) ==
  /\ pc[h] = "addInput"
  /\ \E p \in left[h] : Run("addInput", p) /\ peer' = [peer EXCEPT ![h] = p]
  /\ Goes(h, "addOutput")
  /\ UNCHANGED <<books, ramp, request, left, stray, rival, recovering, cleared>>

AddOutput(h) ==
  /\ pc[h] = "addOutput"
  /\ Run("addOutput", peer[h])
  /\ Goes(h, "record")
  /\ UNCHANGED <<books, ramp, request, left, peer, stray, rival, recovering, cleared>>

\* add_blocked_ip: a peer is in the set at most once.
Record(h) ==
  /\ pc[h] = "record"
  /\ blocked' = blocked \cup {peer[h]}
  /\ tidy' = (tidy /\ peer[h] \notin blocked)
  /\ left' = [left EXCEPT ![h] = @ \ {peer[h]}]
  /\ peer' = [peer EXCEPT ![h] = None]
  /\ Goes(h, IF left[h] = {peer[h]} THEN "done" ELSE "addInput")
  /\ UNCHANGED <<kernel, handle, ramp, request, stray, rival, recovering, cleared>>

Drain_Copies(h) ==
  /\ pc[h] = "drain"
  /\ left' = [left EXCEPT ![h] = blocked]
  /\ Goes(h, IF blocked = {} THEN "done" ELSE "delInput")
  /\ UNCHANGED <<kernel, books, ramp, request, peer, stray, history>>

\* clear_network_partition takes the whole set before it deletes the first rule.
Drain(h) ==
  /\ pc[h] = "drain"
  /\ left' = [left EXCEPT ![h] = blocked]
  /\ blocked' = {}
  /\ Goes(h, IF blocked = {} THEN "done" ELSE "delInput")
  /\ UNCHANGED <<kernel, handle, ramp, request, peer, stray, history>>

DelInput(h) ==
  /\ pc[h] = "delInput"
  /\ \E p \in left[h] : Run("delInput", p) /\ peer' = [peer EXCEPT ![h] = p]
  /\ Goes(h, "delOutput")
  /\ UNCHANGED <<books, ramp, request, left, stray, rival, recovering, cleared>>

DelOutput(h) ==
  /\ pc[h] = "delOutput"
  /\ Run("delOutput", peer[h])
  /\ left' = [left EXCEPT ![h] = @ \ {peer[h]}]
  /\ peer' = [peer EXCEPT ![h] = None]
  /\ Goes(h, IF left[h] = {peer[h]} THEN "done" ELSE "delInput")
  /\ UNCHANGED <<books, ramp, request, stray, rival, recovering, cleared>>

\* The client's request times out and the handler is dropped while it awaits a
\* command, which may already have taken effect, or take effect later.
Drop(h) ==
  /\ pc[h] \in Commands
  /\ Goes(h, "done")
  /\ tidy' = (tidy /\ pc[h] \in {"tcDel", "tcAdd"})
  /\ \/ UNCHANGED stray
     \/ \E p \in IF pc[h] \in {"addInput", "delInput"} THEN left[h] ELSE {peer[h]} :
          stray' = stray \cup {[by |-> h, cmd |-> pc[h], peer |-> p]}
  /\ left' = [left EXCEPT ![h] = {}]
  /\ peer' = [peer EXCEPT ![h] = None]
  /\ UNCHANGED <<kernel, books, ramp, request, rival, recovering, cleared>>

HandlerStep(h) ==
  \/ TcDel(h) \/ TcAdd(h) \/ Spawn(h)
  \/ AddInput(h) \/ AddOutput(h) \/ Record(h)
  \/ Drain(h) \/ DelInput(h) \/ DelOutput(h)

-----------------------------------------------------------------------------
(* Ramps and stray commands.                                                 *)

\* One period of a ramp: tc qdisc replace.
RampStep(h) ==
  /\ ramp[h] > 0
  /\ ramp' = [ramp EXCEPT ![h] = @ - 1]
  /\ \/ Effect("replace", None) \/ UNCHANGED kernel
  /\ UNCHANGED <<books, tasks, stray, history>>

Land(s) ==
  /\ s \in stray
  /\ Effect(s.cmd, s.peer)
  /\ stray' = stray \ {s}
  /\ UNCHANGED <<books, ramp, tasks, history>>

Init ==
  /\ rules = [chain \in Chains |-> [p \in Peers |-> 0]]
  /\ qdisc = "none"
  /\ blocked = {}
  /\ handle = None
  /\ ramp = [h \in Handlers |-> 0]
  /\ pc = [h \in Handlers |-> "idle"]
  /\ request = [h \in Handlers |-> None]
  /\ left = [h \in Handlers |-> {}]
  /\ peer = [h \in Handlers |-> None]
  /\ stray = {}
  /\ tidy = TRUE
  /\ rival = FALSE
  /\ recovering = {}
  /\ cleared = FALSE

Next ==
  \/ \E h \in Handlers, what \in Requests : Inject(h, what) \/ Recover(h, what)
  \/ \E h \in Handlers : HandlerStep(h) \/ Drop(h) \/ RampStep(h)
  \/ \E s \in stray : Land(s)

Spec == Init /\ [][Next]_vars

-----------------------------------------------------------------------------
(* Properties.                                                               *)

\* Handlers that have added a rule for p and not yet recorded the peer, and
\* those that took p out of the books and have its rule still to delete.
Unrecorded(chain, p) ==
  {h \in Handlers : /\ peer[h] = p
                    /\ pc[h] \in IF chain = "INPUT" THEN {"addOutput", "record"} ELSE {"record"}}

ToDelete(chain, p) ==
  {h \in Handlers : /\ p \in left[h]
                    /\ pc[h] \in {"delInput", "delOutput"}
                    /\ chain = "INPUT" => ~(pc[h] = "delOutput" /\ peer[h] = p)}

\* As long as no iptables command fails, no handler is dropped and no peer is partitioned
\* twice, the books are exact in every interleaving of injections, recoveries
\* and soft resets: each rule in the kernel is recorded, about to be recorded,
\* or about to be deleted, and no rule is ever deleted for another one
\* (network_partition.rs:44-49, mod.rs:313-319).
RulesAccounted ==
  tidy => \A chain \in Chains, p \in Peers :
            rules[chain][p] = (IF p \in blocked THEN 1 ELSE 0)
                                + Cardinality(Unrecorded(chain, p))
                                + Cardinality(ToDelete(chain, p))

\* A ramp that runs can be aborted through the handle, and is the only one, unless
\* two injections of slow-degradation overlapped: recoveries, resets and other
\* injections may interleave with them at will (mod.rs:102-114, 283-287, 306-311).
RampHeld == ~rival => \A h \in Handlers : ramp[h] > 0 => handle = h

\* "Reset or recovery must stop this process" (spec.md:122): once a recovery that
\* overlaps no injection into tc has cleared tc, and until the next injection, no
\* ramp puts a fault back, even if no two ramps were ever mixed up.
RecoveryStopsRamp == cleared /\ ~rival => qdisc # "delay"
=============================================================================
