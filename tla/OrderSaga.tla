----------------------------- MODULE OrderSaga -----------------------------
(***************************************************************************)
(* The choreographed order saga: order-service accepts an order and        *)
(* publishes OrderCreated; inventory-service reserves its stock or does    *)
(* not, and publishes StockReserved or StockRejected; order-service        *)
(* confirms or rejects the order and publishes the outcome.                *)
(*                                                                         *)
(* Every use case commits its transaction (no await inside it) and only    *)
(* then publishes, so a transaction is one step and the publication        *)
(* another, with any other task, a lost connection or a crash between.     *)
(***************************************************************************)
EXTENDS Delivery, FiniteSetsExt

CONSTANTS
  Order,         \* order ids
  Sku,           \* product ids
  InitialStock,  \* InitialStock[s]: units of s the catalog starts with
  Demand         \* Demand[o][s]: units of s the lines of order o ask for

ASSUME StockAssumption == InitialStock \in [Sku -> Nat]
ASSUME DemandAssumption == Demand \in [Order -> [Sku -> Nat]]

ASSUME QueueAssumption == Queue = {"inventory", "order"}

VARIABLES
  status,        \* orders.status, "none" while the row does not exist
  orderSeen,     \* processed_events of the order database
  stock,         \* products.available_quantity
  inventorySeen, \* processed_events of the inventory database
  decision,      \* history: what the inventory transaction decided per order
  requests,      \* OrderCreated events whose POST /orders awaits the publish
  minted,        \* history: every event constructed (each with a fresh id)
  published      \* history: every event that reached the exchange

orderVars == <<status, orderSeen, requests>>
inventoryVars == <<stock, inventorySeen, decision>>
vars == <<deliveryVars, orderVars, inventoryVars, minted, published>>

-----------------------------------------------------------------------------
Kind == {"order.created", "stock.reserved", "stock.rejected",
         "order.confirmed", "order.rejected"}

SagaEvent == [kind : Kind, order : Order, id : Nat]

\* A fresh event_id: how many such events there were before.
NewEvent(kind, o) ==
  [kind |-> kind, order |-> o,
   id |-> Cardinality({e \in minted : e.kind = kind /\ e.order = o})]

\* The bindings of the topic exchange; the outcome events go to the
\* notification and assistant queues, which other modules model.
Binding == [inventory |-> {"order.created"},
            order     |-> {"stock.reserved", "stock.rejected"}]

\* The copies the exchange makes of an event, one per bound queue.
Routed(e) ==
  {[queue |-> q, event |-> e, retries |-> 0, copy |-> 0] :
     q \in {r \in Queue : e.kind \in Binding[r]}}

Publish(e) ==
  /\ published' = published \cup {e}
  /\ ready' = ready \cup Routed(e)

SagaInit ==
  /\ DeliveryInit
  /\ status = [o \in Order |-> "none"]
  /\ orderSeen = {} /\ inventorySeen = {} /\ requests = {}
  /\ stock = InitialStock
  /\ decision = [o \in Order |-> "none"]
  /\ minted = {} /\ published = {}

-----------------------------------------------------------------------------
(* POST /orders.                                                           *)

CreateOrder(o) ==
  /\ status[o] = "none"
  /\ status' = [status EXCEPT ![o] = "pending"]
  /\ minted' = minted \cup {NewEvent("order.created", o)}
  /\ requests' = requests \cup {NewEvent("order.created", o)}
  /\ UNCHANGED <<deliveryVars, inventoryVars, orderSeen, published>>

\* The commit goes through but its answer is lost: the caller gets an error
\* and no event is constructed.
CreateCommitUnanswered(o) ==
  /\ status[o] = "none"
  /\ status' = [status EXCEPT ![o] = "pending"]
  /\ Fault("database")
  /\ UNCHANGED <<ready, waiting, dlq, tasks, epoch, inventoryVars, orderSeen, requests,
                 minted, published>>

PublishCreated(e) ==
  /\ e \in requests
  /\ requests' = requests \ {e}
  /\ Publish(e) /\ NoFault
  /\ UNCHANGED <<waiting, dlq, tasks, epoch, inventoryVars, status, orderSeen, minted>>

\* The publish raises (the caller gets an error): the order stays committed.
\* A confirm lost on the way back means the event did reach the exchange.
PublishCreatedFails(e) ==
  /\ e \in requests
  /\ requests' = requests \ {e}
  /\ Publish(e) \/ UNCHANGED <<published, ready>>
  /\ Fault("publish")
  /\ UNCHANGED <<waiting, dlq, tasks, epoch, inventoryVars, status, orderSeen, minted>>

-----------------------------------------------------------------------------
(* inventory-service: OrderCreated -> ReserveStock.                        *)

\* Seeded bug: one sufficient line is enough.
Fits_AnyLine(o) == \E s \in Sku : Demand[o][s] <= stock[s]

Fits(o) == \A s \in Sku : Demand[o][s] <= stock[s]

\* Seeded bug: a rejection does not record the event id.
Reserve_RejectionUnrecorded(e) ==
  /\ e \notin inventorySeen
  /\ inventorySeen' = IF Fits(e.order) THEN inventorySeen \cup {e} ELSE inventorySeen
  /\ stock' = IF Fits(e.order)
              THEN [s \in Sku |-> stock[s] - Demand[e.order][s]] ELSE stock
  /\ decision' = [decision EXCEPT ![e.order] =
                    IF Fits(e.order) THEN "reserved" ELSE "rejected"]

\* Seeded bug: no rollback to the savepoint, so a rejection keeps the lines
\* that did fit.
Reserve_NoSavepoint(e) ==
  /\ e \notin inventorySeen
  /\ inventorySeen' = inventorySeen \cup {e}
  /\ stock' = [s \in Sku |-> IF Demand[e.order][s] <= stock[s]
                             THEN stock[s] - Demand[e.order][s] ELSE stock[s]]
  /\ decision' = [decision EXCEPT ![e.order] =
                    IF Fits(e.order) THEN "reserved" ELSE "rejected"]

\* Seeded bug: a duplicate is not recognised.
Reserve_NoDedup(e) ==
  /\ inventorySeen' = inventorySeen \cup {e}
  /\ stock' = IF Fits(e.order)
              THEN [s \in Sku |-> stock[s] - Demand[e.order][s]] ELSE stock
  /\ decision' = [decision EXCEPT ![e.order] =
                    IF Fits(e.order) THEN "reserved" ELSE "rejected"]

\* The reservation transaction on a first delivery: all lines or none, and
\* the event id recorded either way.
Reserve(e) ==
  /\ e \notin inventorySeen
  /\ inventorySeen' = inventorySeen \cup {e}
  /\ stock' = IF Fits(e.order)
              THEN [s \in Sku |-> stock[s] - Demand[e.order][s]] ELSE stock
  /\ decision' = [decision EXCEPT ![e.order] =
                    IF Fits(e.order) THEN "reserved" ELSE "rejected"]

StockEvent(o) ==
  NewEvent(IF Fits(o) THEN "stock.reserved" ELSE "stock.rejected", o)

HandleOrderCreated(m) ==
  /\ m.queue = "inventory"
  /\ Reserve(m.event)
  /\ minted' = minted \cup {StockEvent(m.event.order)}
  /\ Deliver(m, NewTask(m, "publish", {StockEvent(m.event.order)})) /\ NoFault
  /\ UNCHANGED <<orderVars, published>>

\* The commit goes through but its answer is lost: the handler raises.
ReserveCommitUnanswered(m) ==
  /\ m.queue = "inventory"
  /\ Reserve(m.event)
  /\ Deliver(m, Fail(NewTask(m, "ack", {}), "TRANSIENT")) /\ Fault("database")
  /\ UNCHANGED <<orderVars, minted, published>>

-----------------------------------------------------------------------------
(* order-service: StockReserved -> ConfirmOrder, StockRejected ->          *)
(* RejectOrder.                                                            *)

\* Seeded bug: the consumer does not dispatch on event_type.
Verdict_Ignored(e) == "confirmed"

Verdict(e) == IF e.kind = "stock.reserved" THEN "confirmed" ELSE "rejected"

OutcomeEvent(e) ==
  NewEvent(IF e.kind = "stock.reserved" THEN "order.confirmed" ELSE "order.rejected",
           e.order)

\* The transaction on a first delivery of e to a pending order.
Conclude(e) ==
  /\ orderSeen' = orderSeen \cup {e}
  /\ status' = [status EXCEPT ![e.order] = Verdict(e)]

\* Order.confirm and Order.reject refuse any other order: NotFoundError when
\* there is none, ValueError when it is already concluded; both roll back.
Refusal(o) == IF status[o] = "none" THEN ClassifyException("NotFoundError")
                                    ELSE ClassifyException("ValueError")

\* Seeded bug: processed_events is not consulted.
HandleStockResult_NoDedup(m) ==
  /\ m.queue = "order"
  /\ IF status[m.event.order] = "pending"
     THEN /\ Conclude(m.event)
          /\ minted' = minted \cup {OutcomeEvent(m.event)}
          /\ Deliver(m, NewTask(m, "publish", {OutcomeEvent(m.event)}))
     ELSE /\ Deliver(m, Fail(NewTask(m, "ack", {}), Refusal(m.event.order)))
          /\ UNCHANGED <<status, orderSeen, minted>>
  /\ NoFault
  /\ UNCHANGED <<inventoryVars, requests, published>>

HandleStockResult(m) ==
  /\ m.queue = "order"
  /\ m.event \notin orderSeen
  /\ IF status[m.event.order] = "pending"
     THEN /\ Conclude(m.event)
          /\ minted' = minted \cup {OutcomeEvent(m.event)}
          /\ Deliver(m, NewTask(m, "publish", {OutcomeEvent(m.event)}))
     ELSE /\ Deliver(m, Fail(NewTask(m, "ack", {}), Refusal(m.event.order)))
          /\ UNCHANGED <<status, orderSeen, minted>>
  /\ NoFault
  /\ UNCHANGED <<inventoryVars, requests, published>>

ConcludeCommitUnanswered(m) ==
  /\ m.queue = "order"
  /\ m.event \notin orderSeen
  /\ status[m.event.order] = "pending"
  /\ Conclude(m.event)
  /\ Deliver(m, Fail(NewTask(m, "ack", {}), "TRANSIENT")) /\ Fault("database")
  /\ UNCHANGED <<inventoryVars, requests, minted, published>>

-----------------------------------------------------------------------------
(* Steps both consumers have.                                              *)

Seen(q) == IF q = "inventory" THEN inventorySeen ELSE orderSeen

\* A redelivered event_id: acked without processing or publishing again.
SkipDuplicate(m) ==
  /\ m.event \in Seen(m.queue)
  /\ Deliver(m, NewTask(m, "ack", {})) /\ NoFault
  /\ UNCHANGED <<orderVars, inventoryVars, minted, published>>

\* Seeded bug: the event id is committed ahead of the work.
TransactionFails_IdCommitted(m) ==
  /\ Deliver(m, Fail(NewTask(m, "ack", {}), "TRANSIENT")) /\ Fault("database")
  /\ inventorySeen' = IF m.queue = "inventory" THEN inventorySeen \cup {m.event}
                                               ELSE inventorySeen
  /\ orderSeen' = IF m.queue = "order" THEN orderSeen \cup {m.event} ELSE orderSeen
  /\ UNCHANGED <<status, requests, stock, decision, minted, published>>

\* The transaction raises before its commit and rolls back.
TransactionFails(m) ==
  /\ Deliver(m, Fail(NewTask(m, "ack", {}), "TRANSIENT")) /\ Fault("database")
  /\ UNCHANGED <<orderVars, inventoryVars, minted, published>>

PublishOutcome(t) ==
  /\ t.pc = "publish"
  /\ \E e \in t.out : Publish(e)
  /\ Resume(t, [t EXCEPT !.pc = "ack", !.out = {}]) /\ NoFault
  /\ UNCHANGED <<waiting, dlq, epoch, orderVars, inventoryVars, minted>>

\* The publish raises, delivered or not: the dispatcher retries the input,
\* whose event_id is by now recorded.
PublishOutcomeFails(t) ==
  /\ t.pc = "publish"
  /\ (\E e \in t.out : Publish(e)) \/ UNCHANGED <<published, ready>>
  /\ Resume(t, Fail(t, "TRANSIENT")) /\ Fault("publish")
  /\ UNCHANGED <<waiting, dlq, epoch, orderVars, inventoryVars, minted>>

\* The HTTP handlers live in order-service's process.
Crash(q) ==
  /\ CrashConsumer(q)
  /\ requests' = IF q = "order" THEN {} ELSE requests
  /\ UNCHANGED <<status, orderSeen, inventoryVars, minted, published>>

BrokerOrDispatcher ==
  /\ \/ \E t \in tasks : DeliveryStep(t)
     \/ \E m \in waiting : RetryExpires(m)
  /\ UNCHANGED <<orderVars, inventoryVars, minted, published>>

BrokerOrDispatcherFault ==
  /\ \/ \E t \in tasks : RepublishFails(t)
     \/ \E q \in Queue : LoseConnection(q)
     \/ \E m \in dlq : ReplayDeadLetter(m)
  /\ UNCHANGED <<orderVars, inventoryVars, minted, published>>

-----------------------------------------------------------------------------
\* What the event loops and the broker do on their own.
System ==
  \/ BrokerOrDispatcher
  \/ \E e \in requests : PublishCreated(e)
  \/ \E m \in ready : HandleOrderCreated(m) \/ HandleStockResult(m) \/ SkipDuplicate(m)
  \/ \E t \in tasks : PublishOutcome(t)

\* What goes wrong, at most MaxFaults times.
Faults ==
  \/ BrokerOrDispatcherFault
  \/ \E e \in requests : PublishCreatedFails(e)
  \/ \E m \in ready : \/ TransactionFails(m)
                      \/ ReserveCommitUnanswered(m)
                      \/ ConcludeCommitUnanswered(m)
  \/ \E t \in tasks : PublishOutcomeFails(t)
  \/ \E q \in Queue : Crash(q)
  \/ \E o \in Order : CreateCommitUnanswered(o)

Next == System \/ Faults \/ \E o \in Order : CreateOrder(o)

Spec == SagaInit /\ [][Next]_vars

\* The event loops run every task that can run and the broker delivers what
\* it can; faults, operators and customers are under no obligation.
FairSpec == Spec /\ WF_vars(System)

-----------------------------------------------------------------------------
(* Properties.                                                             *)

\* Every variable has its type; copies and tasks only carry events that were
\* constructed somewhere.
TypeOK ==
  /\ DeliveryTypeOK(minted)
  /\ status \in [Order -> {"none", "pending", "confirmed", "rejected"}]
  /\ decision \in [Order -> {"none", "reserved", "rejected"}]
  /\ stock \in [Sku -> Nat]
  /\ minted \subseteq SagaEvent
  /\ requests \subseteq minted /\ published \subseteq minted
  /\ orderSeen \subseteq minted /\ inventorySeen \subseteq minted

StockKinds == {"stock.reserved", "stock.rejected"}
OutcomeKinds == {"order.confirmed", "order.rejected"}

\* However often its events are redelivered, retried or replayed, an order
\* gets one stock result and one outcome, over all event ids: what
\* processed_events and publish-after-commit are for.
AtMostOneOutcome ==
  \A e, f \in minted :
    /\ e.order = f.order
    /\ {e.kind, f.kind} \subseteq StockKinds \/ {e.kind, f.kind} \subseteq OutcomeKinds
    => e = f

\* What customers are told agrees with the order row, and the order row with
\* what was done to the stock in the other service's database.
OutcomeTruthful ==
  /\ \A e \in minted : /\ e.kind = "order.confirmed" => status[e.order] = "confirmed"
                       /\ e.kind = "order.rejected" => status[e.order] = "rejected"
  /\ \A o \in Order : /\ status[o] = "confirmed" => decision[o] = "reserved"
                      /\ status[o] = "rejected" => decision[o] = "rejected"

\* Order.confirm and Order.reject never meet an order that is missing or
\* already concluded: a stock result is dead-lettered only when its retries
\* are used up, never as a PERMANENT failure.
NoDomainConflict ==
  \A t \in tasks : t.pc = "nack" => t.msg.retries = MaxRetries

Reserved == {o \in Order : decision[o] = "reserved"}

\* The units of s that a set of orders asks for.
UnitsOf(s, orders) == MapThenSumSet(LAMBDA o : Demand[o][s], orders)

\* Units leave the catalog exactly once per reserved order, all its lines or
\* none, whatever was redelivered.
StockConserved == \A s \in Sku : stock[s] + UnitsOf(s, Reserved) = InitialStock[s]

\* The copies through which the consumer of q may still process e: queued
\* ones and unsettled deliveries that will not be acked as they stand.
Holds(q, e) ==
  \/ \E m \in ready \cup waiting \cup dlq : m.queue = q /\ m.event = e
  \/ \E t \in tasks : /\ t.msg.queue = q /\ t.msg.event = e
                      /\ Live(t) /\ t.pc # "settle"

\* At-least-once: an event that reached the exchange is processed by the
\* service bound to it or is still held for it (a republish and the ack of
\* the original are two steps, and either may be the last one).
NoEventDropped ==
  \A e \in published, q \in Queue :
    e.kind \in Binding[q] => e \in Seen(q) \/ Holds(q, e)

\* The publication a pending order o waits for: OrderCreated, or its stock
\* result once inventory-service has decided.
Awaited(o) == IF decision[o] = "none" THEN {"order.created"} ELSE StockKinds

ToBePublished(o) ==
  \E e \in requests \cup UNION {t.out : t \in {u \in tasks : u.pc = "publish"}} :
    e.order = o /\ e.kind \in Awaited(o)

WasPublished(o) == \E e \in published : e.order = o /\ e.kind \in Awaited(o)

\* The dual-write window of publish-after-commit has swallowed the event.
PublicationLost(o) == ~ WasPublished(o) /\ ~ ToBePublished(o)

\* The event order o waits for is held for a consumer that has yet to
\* process it.
HeldFor(o) ==
  \E e \in published, q \in Queue :
    /\ e.order = o /\ e.kind \in Awaited(o) \cap Binding[q]
    /\ e \notin Seen(q) /\ Holds(q, e)

\* ... where only a person, or the end of the connection, moves it.
Parked(o) ==
  \/ \E m \in dlq : m.event.order = o /\ m.event \notin Seen(m.queue)
  \/ \E t \in tasks : /\ t.pc = "stuck" /\ t.msg.event.order = o
                      /\ t.msg.event \notin Seen(t.msg.queue)

\* A pending order always has a reason to be pending: an event about to be
\* published, an event held for its consumer, or a publication lost.
PendingIsAccountedFor ==
  \A o \in Order : status[o] = "pending"
                    => ToBePublished(o) \/ HeldFor(o) \/ PublicationLost(o)

\* No order is left pending for good except by the dual-write window, a dead
\* letter or a delivery left unsettled by a failed republish.
OrdersConclude ==
  \A o \in Order :
    status[o] = "pending"
      ~> status[o] # "pending" \/ PublicationLost(o) \/ Parked(o)

\* The saga implements the order lifecycle: for stock, decisions and statuses,
\* all the messaging comes to one step each per order.
Lifecycle == INSTANCE OrderLifecycle
LifecycleSpec == Lifecycle!LifecycleSpec

-----------------------------------------------------------------------------
(* The inductive invariant behind the safety properties.                   *)

\* Each database is in step with the events it has recorded.
DatabasesInStep ==
  /\ \A e \in inventorySeen : e.kind = "order.created" /\ decision[e.order] # "none"
  /\ \A o \in Order : decision[o] # "none" => \E e \in inventorySeen : e.order = o
  /\ \A e \in orderSeen : e.kind \in StockKinds /\ status[e.order] = Verdict(e)
  /\ \A o \in Order : status[o] \in {"confirmed", "rejected"}
                      => \E e \in orderSeen : e.order = o

\* An event is constructed once per order and kind of news, and says what
\* the database of its service says.
EventsInStep ==
  /\ \A e \in minted :
       /\ e.kind = "order.created" => status[e.order] # "none"
       /\ e.kind = "stock.reserved" => decision[e.order] = "reserved"
       /\ e.kind = "stock.rejected" => decision[e.order] = "rejected"
       /\ e.kind = "order.confirmed" => status[e.order] = "confirmed"
       /\ e.kind = "order.rejected" => status[e.order] = "rejected"
  /\ \A e, f \in minted :
       e.order = f.order /\ e.kind = "order.created" /\ f.kind = "order.created" => e = f

\* Copies are where the exchange routes them; a task that is past its
\* transaction has its event recorded; dead letters have no retry left.
DeliveriesInStep ==
  /\ \A m \in InPlay : m.event.kind \in Binding[m.queue]
  /\ \A t \in tasks : /\ t.pc \in {"publish", "ack"} => t.msg.event \in Seen(t.msg.queue)
                      /\ t.pc = "nack" => t.msg.retries = MaxRetries

\* What the proofs show to be inductive; it implies every safety property
\* above but StockConserved, which follows from the refinement.
SagaInv ==
  /\ TypeOK /\ IsFiniteSet(minted)
  /\ DatabasesInStep /\ EventsInStep /\ DeliveriesInStep
  /\ AtMostOneOutcome /\ NoEventDropped
=============================================================================
