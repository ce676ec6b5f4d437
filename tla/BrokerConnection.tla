-------------------------- MODULE BrokerConnection --------------------------
(***************************************************************************)
(* How a Python service gets to its broker and stays with it: lifespan,    *)
(* its watchdog and connect_with_retry around RabbitMQConnection.  The     *)
(* three services share this code but for the queue they consume.          *)
(*                                                                         *)
(* One coroutine connects: lifespan itself before it yields, then the      *)
(* watchdog task.  aio-pika's RobustConnection reconnects and restores     *)
(* channels and consumers by itself once it has been opened.               *)
(***************************************************************************)
EXTENDS Naturals

CONSTANTS
  MaxAttempts,       \* max_attempts, before lifespan leaves it to the watchdog
  FloatMaxExponent,  \* 1023: a float holds no power of two beyond 2 ** 1023
  MaxOutages         \* bound: times the broker goes away

ASSUME ConnectionAssumption ==
  /\ MaxAttempts \in Nat \ {0} /\ MaxOutages \in Nat
  /\ FloatMaxExponent \in Nat /\ MaxAttempts <= FloatMaxExponent

VARIABLES
  up,          \* the broker can be reached
  outages,     \* outages so far
  app,         \* "starting": before lifespan yields, "serving", "stopped"
  task,        \* the await the connecting coroutine is suspended at
  attempt,     \* attempts that have failed in this connect_with_retry
  half,        \* a RobustConnection is making its first attempt, in a task of its
               \* own that goes on until the attempt succeeds or close is called
  connection,  \* _connection; "lost": RobustConnection is reconnecting
  channel,     \* _channel is set
  consumer     \* the consumer is registered on the robust channel

vars == <<up, outages, app, task, attempt, half, connection, channel, consumer>>

\* connect: about to call connect   cancelled: CancelledError is to be raised in it
\* idle: not running any more   dead: ended by an exception nobody awaits
TaskPc == {"connect", "connecting", "channel", "sleep", "declare", "consume",
           "cancelled", "idle", "dead"}

Init ==
  /\ up \in BOOLEAN /\ outages = 0
  /\ app = "starting" /\ task = "connect" /\ attempt = 0
  /\ half = FALSE /\ connection = "none" /\ channel = FALSE /\ consumer = FALSE

-----------------------------------------------------------------------------
(* connect and connect_with_retry.                                         *)

\* Seeded bug: max_attempts is not compared while starting.
AttemptFails_NoLimit ==
  IF attempt > FloatMaxExponent
  THEN task' = "dead" /\ UNCHANGED <<app, attempt>>
  ELSE task' = "sleep" /\ attempt' = attempt + 1 /\ UNCHANGED app

\* connect raised.  While starting, the last attempt hands over to a new
\* watchdog, whose own attempts have no limit; the delay is a float times
\* 2 ** (attempt - 1), and raises OverflowError out of the watchdog when
\* the power does not fit one.
AttemptFails ==
  CASE app = "starting" /\ attempt + 1 >= MaxAttempts ->
         app' = "serving" /\ task' = "connect" /\ attempt' = 0
    [] app = "serving" /\ attempt > FloatMaxExponent ->
         task' = "dead" /\ UNCHANGED <<app, attempt>>
    [] OTHER ->
         task' = "sleep" /\ attempt' = attempt + 1 /\ UNCHANGED app

\* Not idle: a connection that is not closed is taken for a finished connect.
AlreadyConnected ==
  /\ task = "connect" /\ connection \in {"open", "lost"}
  /\ task' = "declare"
  /\ UNCHANGED <<up, outages, app, attempt, half, connection, channel, consumer>>

Connect ==
  /\ task = "connect" /\ connection = "none"
  /\ half' = TRUE /\ task' = "connecting"
  /\ UNCHANGED <<up, outages, app, attempt, connection, channel, consumer>>

Connected ==
  /\ task = "connecting" /\ up
  /\ half' = FALSE /\ connection' = "open" /\ task' = "channel"
  /\ UNCHANGED <<up, outages, app, attempt, channel, consumer>>

\* The connection that failed is closed.
ConnectFails ==
  /\ task = "connecting" /\ ~ up
  /\ half' = FALSE /\ AttemptFails
  /\ UNCHANGED <<up, outages, connection, channel, consumer>>

OpenChannel ==
  /\ task = "channel"
  /\ channel' = TRUE /\ task' = "declare"
  /\ UNCHANGED <<up, outages, app, attempt, half, connection, consumer>>

\* The backoff is over.
Wake ==
  /\ task = "sleep"
  /\ task' = "connect"
  /\ UNCHANGED <<up, outages, app, attempt, half, connection, channel, consumer>>

-----------------------------------------------------------------------------
(* _start_consuming, after which lifespan yields or the watchdog ends.     *)

Started == task' = "idle" /\ app' = "serving"

\* Seeded bug: a missing channel is not refused.
Declare_AnyChannel ==
  /\ task = "declare"
  /\ task' = "consume"
  /\ UNCHANGED <<up, outages, app, attempt, half, connection, channel, consumer>>

\* declare_topology, on a channel that must be there.
Declare ==
  /\ task = "declare" /\ channel
  /\ task' = "consume"
  /\ UNCHANGED <<up, outages, app, attempt, half, connection, channel, consumer>>

\* broker.channel raises RuntimeError: caught, logged, and degraded.
NoChannel ==
  /\ task = "declare" /\ ~ channel
  /\ Started
  /\ UNCHANGED <<up, outages, attempt, half, connection, channel, consumer>>

Consume ==
  /\ task = "consume"
  /\ consumer' = TRUE /\ Started
  /\ UNCHANGED <<up, outages, attempt, half, connection, channel>>

-----------------------------------------------------------------------------
(* The broker and RobustConnection.                                        *)

\* The broker goes away: what was awaiting it raises.  An unopened channel
\* is an attempt that failed; a failed _start_consuming is only logged.
Outage ==
  /\ up /\ outages < MaxOutages
  /\ up' = FALSE /\ outages' = outages + 1
  /\ connection' = IF connection = "open" THEN "lost" ELSE connection
  /\ CASE task = "channel" -> AttemptFails
       [] task \in {"declare", "consume"} -> Started /\ UNCHANGED attempt
       [] OTHER -> UNCHANGED <<task, app, attempt>>
  /\ UNCHANGED <<half, channel, consumer>>

Recovery ==
  /\ ~ up
  /\ up' = TRUE
  /\ UNCHANGED <<outages, app, task, attempt, half, connection, channel, consumer>>

\* Seeded bug: a plain connection, whose consumers are not restored.
Reconnect_NotRobust ==
  /\ connection = "lost" /\ up
  /\ connection' = "open" /\ consumer' = FALSE
  /\ UNCHANGED <<up, outages, app, task, attempt, half, channel>>

\* RobustConnection reconnects and restores its channels and consumers.
Reconnect ==
  /\ connection = "lost" /\ up
  /\ connection' = "open"
  /\ UNCHANGED <<up, outages, app, task, attempt, half, channel, consumer>>

\* The end of lifespan: the watchdog, if it has one that runs, is told to stop,
\* and _connection is closed.
Shutdown ==
  /\ app = "serving" /\ app' = "stopped"
  /\ task' = IF task \in {"idle", "dead"} THEN task ELSE "cancelled"
  /\ connection' = IF connection = "none" THEN "none" ELSE "closed"
  /\ UNCHANGED <<up, outages, attempt, half, channel, consumer>>

\* Seeded bug: except Exception, which CancelledError is not.
Cancelled_NotClosed ==
  /\ task = "cancelled" /\ task' = "idle"
  /\ UNCHANGED <<up, outages, app, attempt, half, connection, channel, consumer>>

\* CancelledError is raised in the watchdog, which catches it in connect only, to
\* close the half-open connection.
Cancelled ==
  /\ task = "cancelled" /\ task' = "idle" /\ half' = FALSE
  /\ UNCHANGED <<up, outages, app, attempt, connection, channel, consumer>>

-----------------------------------------------------------------------------
\* is_connected, which GET /health reports: RobustConnection's own event, so
\* that a connection being re-established does not count.
IsConnected == connection = "open"

\* What the event loop and aio-pika do on their own.
System ==
  \/ AlreadyConnected \/ Connect \/ Connected \/ ConnectFails \/ OpenChannel
  \/ Wake \/ Declare \/ NoChannel \/ Consume \/ Cancelled

Next == System \/ Reconnect \/ Outage \/ Recovery \/ Shutdown

Spec == Init /\ [][Next]_vars

\* The event loop runs the coroutine and aio-pika reconnects; the broker
\* need not come back, and nobody has to shut the service down.
FairSpec == Spec /\ WF_vars(System) /\ WF_vars(Reconnect)

-----------------------------------------------------------------------------
(* Properties.                                                             *)

\* The variables are typed; consumers are on a channel of a connection.
TypeOK ==
  /\ up \in BOOLEAN /\ outages \in 0 .. MaxOutages
  /\ app \in {"starting", "serving", "stopped"} /\ task \in TaskPc
  /\ attempt \in 0 .. FloatMaxExponent + 1
  /\ connection \in {"none", "open", "lost", "closed"}
  /\ half \in BOOLEAN /\ channel \in BOOLEAN /\ consumer \in BOOLEAN
  /\ consumer => channel
  /\ channel => connection # "none"

Consuming == consumer /\ IsConnected

\* A connection that still tries to connect would keep asyncio.run from
\* returning.  So one that connect has begun is waited for, or about to be
\* closed by the cancelled watchdog; and once the service has stopped and its
\* watchdog has ended, none is left, however far that one had got.
NothingLeftBehind ==
  /\ half => task = "connecting" \/ (task = "cancelled" /\ app = "stopped")
  /\ app = "stopped" => connection \in {"none", "closed"}
                        /\ task \in {"cancelled", "idle", "dead"}

\* "A failed broker connection must NOT crash the app": lifespan yields
\* whatever the broker does.
ServesRegardless == <>(app # "starting")

\* "The process never needs a manual restart": it ends up consuming once the
\* broker stays up.
NeverNeedsRestart ==
  <>[]up => <>(Consuming \/ app = "stopped")

\* "max_attempts=None retries forever": the watchdog does not die.
RetriesForever == task # "dead"
=============================================================================
