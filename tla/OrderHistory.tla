---------------------------- MODULE OrderHistory ----------------------------
(***************************************************************************)
(* The order history of assistant-service: a consumer projects the events  *)
(* of the saga into an event log and one view row per order.  Up to        *)
(* PREFETCH handlers are in flight, each in a READ COMMITTED transaction;  *)
(* its statements interleave with those of the others, under Postgres'     *)
(* row locks and the optimistic lock on order_view.version.                *)
(*                                                                         *)
(* The events of one order are those OrderSaga shows there can be.  The    *)
(* cache, invalidated after the commit, is in TimelineCache.               *)
(***************************************************************************)
EXTENDS Delivery, FiniteSetsExt

CONSTANTS
  Order,       \* order ids
  Prefetch,    \* PREFETCH: unacked messages the channel may hold
  OccurredAt   \* OccurredAt[type]: an event's occurred_at, by clocks that may disagree

EventType == {"order.created", "stock.reserved", "stock.rejected",
              "order.confirmed", "order.rejected"}

ASSUME HistoryAssumption ==
  /\ Queue = {"history"}
  /\ Prefetch \in Nat \ {0}
  /\ OccurredAt \in [EventType -> Nat \ {0}]

VARIABLES
  decision,   \* decision[o]: what inventory-service decides about order o
  published,  \* events published so far
  log,        \* order_event_log
  view        \* order_view; version 0 stands for no row

historyVars == <<decision, published, log, view>>
vars == <<deliveryVars, historyVars>>

-----------------------------------------------------------------------------
HistoryEvent == [type : EventType, order : Order]

\* The events of order o, each published after the one before.
Story(o) ==
  << "order.created" >> \o
  (IF decision[o] = "reserved" THEN << "stock.reserved", "order.confirmed" >>
                               ELSE << "stock.rejected", "order.rejected" >>)

\* OrderView.  Of customer, items, total and creation time the properties
\* tell apart whether they are known; of a reason, which event gave it.
View ==
  [status : {"pending", "confirmed", "rejected"},
   stock : {"none", "reserved", "rejected"},
   reason : {"none", "stock.rejected", "order.rejected"},
   customer : BOOLEAN, details : BOOLEAN, last : Nat, version : Nat]

\* OrderView.start: no event has been projected.
Start == [status |-> "pending", stock |-> "none", reason |-> "none",
          customer |-> FALSE, details |-> FALSE, last |-> 0, version |-> 0]

-----------------------------------------------------------------------------
(* OrderView.apply.                                                        *)

\* The impossible flips, which throw DomainError.
Refuses(v, e) ==
  \/ e.type = "stock.reserved" /\ v.stock = "rejected"
  \/ e.type = "stock.rejected" /\ v.stock = "reserved"
  \/ e.type = "order.confirmed" /\ v.status = "rejected"
  \/ e.type = "order.rejected" /\ v.status = "confirmed"

StatusAfter(v, e) ==
  CASE e.type = "order.confirmed" -> "confirmed"
    [] e.type = "order.rejected" -> "rejected"
    [] OTHER -> v.status

\* order.rejected states the reason; stock.rejected only fills it in.
ReasonAfter(v, e) ==
  CASE e.type = "order.rejected" -> "order.rejected"
    [] e.type = "stock.rejected" /\ v.reason = "none" -> "stock.rejected"
    [] OTHER -> v.reason

Apply(v, e) ==
  [status   |-> StatusAfter(v, e),
   stock    |-> CASE e.type = "stock.reserved" -> "reserved"
                  [] e.type = "stock.rejected" -> "rejected"
                  [] OTHER -> v.stock,
   reason   |-> ReasonAfter(v, e),
   customer |-> v.customer \/ e.type \in {"order.created", "order.confirmed", "order.rejected"},
   details  |-> v.details \/ e.type = "order.created",
   last     |-> IF OccurredAt[e.type] > v.last THEN OccurredAt[e.type] ELSE v.last,
   version  |-> v.version]

-----------------------------------------------------------------------------
(* The consumer.  A task's pc names the statement it is about to run:      *)
(* record, find, save and commit are those of the transaction, then ack.   *)

HistoryTask ==
  [msg : Message(HistoryEvent),
   pc : {"record", "find", "save", "commit", "ack", "republish", "settle", "nack"},
   read : View, epoch : Nat]

Event(t) == t.msg.event

HistoryInit ==
  /\ DeliveryInit
  /\ decision \in [Order -> {"reserved", "rejected"}]
  /\ published = {} /\ log = {}
  /\ view = [o \in Order |-> Start]

\* The next event of order o reaches the exchange and the queue.
Publish(o) ==
  /\ \E i \in 1 .. 3 :
       LET e == [type |-> Story(o)[i], order |-> o]
       IN  /\ e \notin published
           /\ \A j \in 1 .. (i - 1) : [type |-> Story(o)[j], order |-> o] \in published
           /\ published' = published \cup {e}
           /\ ready' = ready \cup {[queue |-> "history", event |-> e,
                                    retries |-> 0, copy |-> 0]}
  /\ NoFault
  /\ UNCHANGED <<waiting, dlq, tasks, epoch, decision, log, view>>

\* A delivery starts a handler, within the channel's prefetch.
StartHandler(m) ==
  /\ Cardinality({t \in tasks : Live(t)}) < Prefetch
  /\ Deliver(m, [msg |-> m, pc |-> "record", read |-> Start, epoch |-> epoch[m.queue]])
  /\ NoFault /\ UNCHANGED historyVars

\* The transaction of u has inserted its event and is not over: an insert of
\* the same event_id waits for it.
Inserted(u) == u.pc \in {"find", "save", "commit"}

\* Seeded bug: the log is looked up before the insert, with no unique key.
RecordEvent_Unlocked(t) ==
  /\ t.pc = "record"
  /\ Resume(t, [t EXCEPT !.pc = IF Event(t) \in log THEN "ack" ELSE "find"])
  /\ NoFault
  /\ UNCHANGED <<ready, waiting, dlq, epoch, historyVars>>

\* Event log insert; a redelivered event inserts no row and ends the
\* transaction.
RecordEvent(t) ==
  /\ t.pc = "record"
  /\ ~ \E u \in tasks : Inserted(u) /\ Event(u) = Event(t)
  /\ Resume(t, [t EXCEPT !.pc = IF Event(t) \in log THEN "ack" ELSE "find"])
  /\ NoFault
  /\ UNCHANGED <<ready, waiting, dlq, epoch, historyVars>>

\* The handler throws: the transaction rolls back and the dispatcher decides.
HandlerFails(t, errorClass) ==
  Resume(t, [t EXCEPT !.pc = FailurePc(t.msg, errorClass), !.read = Start])

\* The view is read and the event applied to it, in memory.
FindView(t) ==
  /\ t.pc = "find"
  /\ LET v == view[Event(t).order]
     IN  IF Refuses(v, Event(t))
         THEN HandlerFails(t, "PERMANENT")
         ELSE Resume(t, [t EXCEPT !.pc = "save", !.read = v])
  /\ NoFault
  /\ UNCHANGED <<ready, waiting, dlq, epoch, historyVars>>

\* The transaction of u has written its view row, and holds its lock.
Locks(u, o) == u.pc = "commit" /\ Event(u).order = o

\* Seeded bug: the view is written by order id alone.
SaveView_AnyVersion(t) ==
  /\ t.pc = "save"
  /\ ~ \E u \in tasks : Locks(u, Event(t).order)
  /\ Resume(t, [t EXCEPT !.pc = "commit"])
  /\ NoFault
  /\ UNCHANGED <<ready, waiting, dlq, epoch, historyVars>>

\* The insert of the first version, or the update of the version read: waits
\* for the row's lock, then throws ConcurrentUpdateError if somebody else
\* created or changed the row in the meantime.
SaveView(t) ==
  /\ t.pc = "save"
  /\ ~ \E u \in tasks : Locks(u, Event(t).order)
  /\ IF view[Event(t).order].version = t.read.version
     THEN Resume(t, [t EXCEPT !.pc = "commit"])
     ELSE HandlerFails(t, "TRANSIENT")
  /\ NoFault
  /\ UNCHANGED <<ready, waiting, dlq, epoch, historyVars>>

\* The event log row and the view row become visible together.
Committed(t) ==
  /\ t.pc = "commit"
  /\ log' = log \cup {Event(t)}
  /\ view' = [view EXCEPT ![Event(t).order] =
                [Apply(t.read, Event(t)) EXCEPT !.version = @ + 1]]
  /\ UNCHANGED <<ready, waiting, dlq, epoch, decision, published>>

Commit(t) ==
  /\ Committed(t)
  /\ Resume(t, [t EXCEPT !.pc = "ack", !.read = Start]) /\ NoFault

\* The answer to the commit is lost: the handler throws.
CommitUnanswered(t) ==
  /\ Committed(t)
  /\ HandlerFails(t, "TRANSIENT") /\ Fault("database")

\* A statement fails, or the transaction times out, and rolls back.
DatabaseFails(t) ==
  /\ t.pc \in {"record", "find", "save", "commit"}
  /\ HandlerFails(t, "TRANSIENT") /\ Fault("database")
  /\ UNCHANGED <<ready, waiting, dlq, epoch, historyVars>>

\* The channel of the delivery is closed: ack, nack and sendToQueue throw,
\* and wrapWithRetry logs "could not settle message".
Abandon(t) ==
  /\ ~ Live(t) /\ t.pc \in {"ack", "republish", "nack"}
  /\ EndTask(t) /\ NoFault
  /\ UNCHANGED <<ready, waiting, dlq, epoch>>

\* sendToQueue and ack leave in one go; the broker takes them in order, and
\* the connection may die in between.
Settlement(t) ==
  \/ Ack(t)
  \/ Live(t) /\ Republish(t)
  \/ Settle(t)
  \/ Live(t) /\ Nack(t)
  \/ Abandon(t)

BrokerOrDispatcher ==
  /\ (\E t \in tasks : Settlement(t)) \/ (\E m \in waiting : RetryExpires(m))
  /\ UNCHANGED historyVars

BrokerFault ==
  /\ \/ \E q \in Queue : LoseConnection(q) \/ CrashConsumer(q)
     \/ \E m \in dlq : ReplayDeadLetter(m)
  /\ UNCHANGED historyVars

-----------------------------------------------------------------------------
\* What the event loop, Postgres and the broker do on their own.
System ==
  \/ BrokerOrDispatcher
  \/ \E m \in ready : StartHandler(m)
  \/ \E t \in tasks : RecordEvent(t) \/ FindView(t) \/ SaveView(t) \/ Commit(t)

\* What goes wrong, at most MaxFaults times.
Faults ==
  \/ BrokerFault
  \/ \E t \in tasks : CommitUnanswered(t) \/ DatabaseFails(t)

Next == System \/ Faults \/ \E o \in Order : Publish(o)

Spec == HistoryInit /\ [][Next]_vars

\* Handlers and the broker keep going; faults and the saga are under no
\* obligation.
FairSpec == Spec /\ WF_vars(System)

-----------------------------------------------------------------------------
(* Properties.                                                             *)

TypeOK ==
  /\ ready \cup waiting \cup dlq \subseteq Message(HistoryEvent)
  /\ tasks \subseteq HistoryTask
  /\ epoch \in [Queue -> Nat] /\ faults \in 0 .. MaxFaults
  /\ decision \in [Order -> {"reserved", "rejected"}]
  /\ published \subseteq HistoryEvent /\ log \subseteq published
  /\ view \in [Order -> View]

\* The view a set of events of one order amounts to, in whatever order they
\* came: the reference that apply and the projection are measured against.
ViewOf(L) ==
  LET types == {e.type : e \in L}
  IN  [status   |-> IF "order.confirmed" \in types THEN "confirmed"
                    ELSE IF "order.rejected" \in types THEN "rejected" ELSE "pending",
       stock    |-> IF "stock.reserved" \in types THEN "reserved"
                    ELSE IF "stock.rejected" \in types THEN "rejected" ELSE "none",
       reason   |-> IF "order.rejected" \in types THEN "order.rejected"
                    ELSE IF "stock.rejected" \in types THEN "stock.rejected" ELSE "none",
       customer |-> types \cap {"order.created", "order.confirmed", "order.rejected"} # {},
       details  |-> "order.created" \in types,
       last     |-> Max({OccurredAt[y] : y \in types} \cup {0}),
       version  |-> Cardinality(L)]

\* No lost update: whatever the order and the concurrency in which events are
\* projected, the view is the one its logged events amount to, and its
\* version counts them.
ViewMatchesLog ==
  \A o \in Order : view[o] = ViewOf({e \in log : e.order = o})

\* At-least-once: a published event is in the log, or in a copy that will
\* yet be processed or that a person can replay.
NoEventDropped ==
  \A e \in published \ log :
    \/ \E m \in ready \cup waiting \cup dlq : m.event = e
    \/ \E t \in tasks : Live(t) /\ Event(t) = e /\ t.pc # "settle"

\* Contention alone never dead-letters an event: the other two events of its
\* order can make it lose the optimistic lock twice, and it has four tries.
DeadLetterTakesFaults == dlq # {} => faults >= 2

\* Every event ends up in the log, or else in the dead-letter queue.
EventsProjected ==
  []<>(\A e \in published : e \in log \/ \E m \in dlq : m.event = e)
=============================================================================
