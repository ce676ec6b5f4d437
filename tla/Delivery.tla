------------------------------ MODULE Delivery ------------------------------
(***************************************************************************)
(* At-least-once delivery of the Python services: the RabbitMQ queues a    *)
(* service consumes and the task wrap_with_retry runs for each delivery.   *)
(*                                                                         *)
(* Each service is one asyncio process with one connection and one queue,  *)
(* and sets no prefetch, so a task may be in flight for every message.     *)
(* Tasks interleave only where the code awaits: a task's pc names the      *)
(* await it is suspended at.                                               *)
(*                                                                         *)
(* This module is composed by EXTENDS: each operator constrains the        *)
(* delivery variables only.                                                *)
(***************************************************************************)
EXTENDS RetryPolicy, FiniteSets

CONSTANTS
  Queue,      \* main queues, one per consuming service
  CopyId,     \* names telling apart broker copies with the same header
  FaultKinds, \* the kinds of fault a run lets happen (FaultKind: all of them)
  MaxFaults,  \* bound: how many of them happen
  MaxDrops    \* bound: how many connections one consumer loses

\* A database error, a failed email, a failed publish, a dropped connection,
\* a dead process, an operator's intervention.
FaultKind == {"database", "email", "publish", "connection", "crash", "replay"}

ASSUME FaultsAssumption == FaultKinds \subseteq FaultKind /\ MaxFaults \in Nat /\ MaxDrops \in Nat
ASSUME CopyIdAssumption == CopyId \subseteq Nat /\ 0 \in CopyId

VARIABLES
  ready,      \* messages in the main queues
  waiting,    \* messages in the retry-stage queues, until their TTL
  dlq,        \* messages in the dead-letter queues
  tasks,      \* dispatch() calls in flight
  epoch,      \* epoch[q]: connections the consumer of q has lost so far
  faults      \* faults so far

deliveryVars == <<ready, waiting, dlq, tasks, epoch, faults>>

-----------------------------------------------------------------------------
(* A message is a copy of an event: x-retry-count is its header, copy its  *)
(* identity in the broker.                                                 *)
Message(Event) ==
  [queue : Queue, event : Event, retries : 0 .. MaxRetries, copy : CopyId]

\* publish: the handler publishes what it decided   ack: the handler acks
\* republish: the dispatcher publishes the retry copy   settle: then acks
\* nack: the dispatcher nacks without requeue
\* stuck: the dispatcher raised and left the delivery unsettled
TaskPc == {"publish", "ack", "republish", "settle", "nack", "stuck"}

Task(Event) ==
  [msg : Message(Event), pc : TaskPc, out : SUBSET Event, epoch : Nat]

\* A delivery dies with the connection it came on; its task runs on.
Live(t) == t.epoch = epoch[t.msg.queue]

\* What the broker and the tasks still know of, settled copies excluded.
InPlay == ready \cup waiting \cup dlq \cup {t.msg : t \in tasks}

\* The broker's unsettled copies: requeued when the connection goes.
Unacked(q) == {t.msg : t \in {u \in tasks : u.msg.queue = q /\ Live(u)}}

\* Message m is new: no copy in play has its name, and it has the least one.
NewCopy(m) ==
  /\ m \notin InPlay
  /\ \A c \in CopyId : c < m.copy => [m EXCEPT !.copy = c] \in InPlay

\* The delivery variables are typed, for messages about events in E.
DeliveryTypeOK(E) ==
  /\ ready \subseteq Message(E) /\ waiting \subseteq Message(E)
  /\ dlq \subseteq Message(E) /\ tasks \subseteq Task(E)
  /\ epoch \in [Queue -> Nat] /\ faults \in 0 .. MaxFaults

DeliveryInit ==
  /\ ready = {} /\ waiting = {} /\ dlq = {} /\ tasks = {}
  /\ epoch = [q \in Queue |-> 0]
  /\ faults = 0

-----------------------------------------------------------------------------
(* Pieces of a step.                                                       *)

Fault(kind) ==
  /\ kind \in FaultKinds /\ faults < MaxFaults
  /\ faults' = faults + 1

NoFault == UNCHANGED faults

\* The task the delivery of m starts, run to its first await.
NewTask(m, pc, out) ==
  [msg |-> m, pc |-> pc, out |-> out, epoch |-> epoch[m.queue]]

\* What the dispatcher does next about a message whose handler failed.
FailurePc(m, errorClass) ==
  IF DecideRetry(m.retries, errorClass).action = "RETRY" THEN "republish" ELSE "nack"

\* The except block of dispatch, run to its first await.
Fail(t, errorClass) == [t EXCEPT !.pc = FailurePc(t.msg, errorClass), !.out = {}]

\* The retry copy: same body, x-retry-count as the policy says.
RetryCopy(m, c) ==
  [m EXCEPT !.retries = DecideRetry(m.retries, "TRANSIENT").next, !.copy = c]

\* The broker hands m to its consumer, which runs to its first await as t.
Deliver(m, t) ==
  /\ m \in ready
  /\ ready' = ready \ {m}
  /\ tasks' = tasks \cup {t}
  /\ UNCHANGED <<waiting, dlq, epoch>>

\* Task t moves on to its next await, as u.
Resume(t, u) ==
  /\ t \in tasks
  /\ tasks' = (tasks \ {t}) \cup {u}

EndTask(t) ==
  /\ t \in tasks
  /\ tasks' = tasks \ {t}

-----------------------------------------------------------------------------
(* The steps of a delivery that touch no service state.                    *)

\* The handler's own message.ack(); the broker forgets the message.
Ack(t) ==
  /\ t.pc = "ack" /\ Live(t)
  /\ EndTask(t) /\ NoFault
  /\ UNCHANGED <<ready, waiting, dlq, epoch>>

\* An ack on the lost connection: dropped, or raised inside the handler and
\* so caught by the dispatcher as a failure of the handler.
AckOnLostConnection(t) ==
  /\ t.pc = "ack" /\ ~ Live(t)
  /\ EndTask(t) \/ Resume(t, Fail(t, "TRANSIENT"))
  /\ NoFault
  /\ UNCHANGED <<ready, waiting, dlq, epoch>>

\* The retry copy reaches its stage's queue and is confirmed.
Republish(t) ==
  /\ t.pc = "republish"
  /\ \E c \in CopyId : /\ NewCopy(RetryCopy(t.msg, c))
                       /\ waiting' = waiting \cup {RetryCopy(t.msg, c)}
  /\ Resume(t, [t EXCEPT !.pc = "settle"]) /\ NoFault
  /\ UNCHANGED <<ready, dlq, epoch>>

\* The publish raises, whether or not the copy reached the queue: nothing
\* catches it, and the original stays unsettled while the connection lasts.
RepublishFails(t) ==
  /\ t.pc = "republish"
  /\ \/ UNCHANGED waiting
     \/ \E c \in CopyId : /\ NewCopy(RetryCopy(t.msg, c))
                          /\ waiting' = waiting \cup {RetryCopy(t.msg, c)}
  /\ IF Live(t) THEN Resume(t, [t EXCEPT !.pc = "stuck"]) ELSE EndTask(t)
  /\ Fault("publish")
  /\ UNCHANGED <<ready, dlq, epoch>>

\* The ack after the republish; on a lost connection it settles nothing.
Settle(t) ==
  /\ t.pc = "settle"
  /\ EndTask(t) /\ NoFault
  /\ UNCHANGED <<ready, waiting, dlq, epoch>>

\* Seeded bug: the main queue dead-letters to an exchange the DLQ is not
\* bound to (declare_topology recalls that it once did).
Nack_Unbound(t) ==
  /\ t.pc = "nack"
  /\ EndTask(t) /\ NoFault
  /\ UNCHANGED <<ready, waiting, dlq, epoch>>

\* nack(requeue=False): the queue's dead-letter argument moves the message.
Nack(t) ==
  /\ t.pc = "nack"
  /\ dlq' = IF Live(t) THEN dlq \cup {t.msg} ELSE dlq
  /\ EndTask(t) /\ NoFault
  /\ UNCHANGED <<ready, waiting, epoch>>

\* Seeded bug: a retry queue declared without x-dead-letter-routing-key.
RetryExpires_Dropped(m) ==
  /\ m \in waiting
  /\ waiting' = waiting \ {m}
  /\ NoFault
  /\ UNCHANGED <<ready, dlq, tasks, epoch>>

\* The stage's TTL runs out: dead-lettered back to the main queue.
RetryExpires(m) ==
  /\ m \in waiting
  /\ waiting' = waiting \ {m}
  /\ ready' = ready \cup {m}
  /\ NoFault
  /\ UNCHANGED <<dlq, tasks, epoch>>

\* The connection of q's consumer drops: the broker requeues what was
\* unacked; the tasks run on, with deliveries they can no longer settle.
LoseConnection(q) ==
  /\ Fault("connection") /\ epoch[q] < MaxDrops
  /\ ready' = ready \cup Unacked(q)
  /\ epoch' = [epoch EXCEPT ![q] = @ + 1]
  /\ tasks' = {t \in tasks : ~ (t.msg.queue = q /\ t.pc = "stuck")}
  /\ UNCHANGED <<waiting, dlq>>

\* Seeded bug: a consumer set to acknowledge on delivery.
CrashConsumer_AutoAck(q) ==
  /\ Fault("crash")
  /\ tasks' = {t \in tasks : t.msg.queue # q}
  /\ UNCHANGED <<ready, waiting, dlq, epoch>>

\* The consumer's process dies and restarts: its tasks are gone too.
CrashConsumer(q) ==
  /\ Fault("crash")
  /\ ready' = ready \cup Unacked(q)
  /\ tasks' = {t \in tasks : t.msg.queue # q}
  /\ UNCHANGED <<waiting, dlq, epoch>>

\* An operator moves a dead-lettered message back, its retry count kept or
\* reset (the dispatcher expects messages "republished by hand").
ReplayDeadLetter(m) ==
  /\ m \in dlq
  /\ \E r \in {0, m.retries}, c \in CopyId :
       LET n == [m EXCEPT !.retries = r, !.copy = c]
       IN  /\ n \notin InPlay \ {m}
           /\ \A d \in CopyId : d < c => [n EXCEPT !.copy = d] \in InPlay \ {m}
           /\ ready' = ready \cup {n}
  /\ dlq' = dlq \ {m}
  /\ Fault("replay")
  /\ UNCHANGED <<waiting, tasks, epoch>>

DeliveryStep(t) ==
  Ack(t) \/ AckOnLostConnection(t) \/ Republish(t) \/ Settle(t) \/ Nack(t)
=============================================================================
