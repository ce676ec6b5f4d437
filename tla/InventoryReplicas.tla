------------------------- MODULE InventoryReplicas -------------------------
(***************************************************************************)
(* Several replicas of inventory-service over one PostgreSQL database:     *)
(* they race to migrate it when they start, and then reserve stock, one    *)
(* SQL statement at a time.                                                *)
(*                                                                         *)
(* A transaction runs without an await, so a replica has at most one, and  *)
(* only statements of different replicas interleave.  PostgreSQL is READ   *)
(* COMMITTED: an UPDATE tests its WHERE against the committed row and the  *)
(* transaction's own changes, waits for a row that another transaction has *)
(* changed, and tests it again.  OrderLifecycle is what all this amounts   *)
(* to; OrderSaga takes a reservation as one step.                          *)
(***************************************************************************)
EXTENDS RetryPolicy, FiniteSetsExt

CONSTANTS
  Replica,       \* processes of inventory-service
  Order,         \* orders; the id of their order.created is theirs
  Sku,           \* product ids
  InitialStock,  \* the quantities the first migration seeds
  Lines,         \* Lines[o]: the lines of order o, in the order of the event
  FaultKinds,    \* the kinds of fault a run lets happen
  MaxFaults      \* bound: how many of them happen

ASSUME StockAssumption == InitialStock \in [Sku -> Nat]
ASSUME LinesAssumption ==
  Lines \in [Order -> Seq([sku : Sku, quantity : Nat \ {0}]) \ {<<>>}]
ASSUME FaultsAssumption ==
  /\ FaultKinds \subseteq {"database", "publish", "connection", "crash"}
  /\ MaxFaults \in Nat

VARIABLES
  schema,      \* alembic_version: "base" or "head"
  products,    \* committed available_quantity
  processed,   \* committed processed_events
  decision,    \* history: what the committed transaction decided
  placed,      \* orders whose order.created was published
  ready,       \* deliveries queued; a retry delay is left out
  dlq,         \* dead-lettered deliveries
  pc,          \* the statement or await each replica is at
  delivery,    \* delivery[r]: the delivery r handles
  live,        \* the connection that delivery came on is still there
  line,        \* line[r]: the next line to reserve
  taken,       \* taken[r][s]: what r's open transaction took from row s
  faults       \* faults so far

brokerVars == <<placed, ready, dlq>>
databaseVars == <<schema, products, processed, decision>>
vars == <<brokerVars, databaseVars, pc, delivery, live, line, taken, faults>>

Delivery == [order : Order, retries : 0 .. MaxRetries]
NoDelivery == [order |-> "none", retries |-> 0]

\* boot, upgrade, upgraded: alembic upgrade head, before uvicorn runs
\* register, lines, commit: the statements of the reservation
\* publish: awaiting the broker after the commit   settle: before the ack
ReplicaPc == {"boot", "upgrade", "upgraded", "idle", "register", "lines",
              "commit", "publish", "settle"}

InTransaction(r) == pc[r] \in {"lines", "commit"}
Handling(r) == pc[r] \in {"register", "lines", "commit", "publish", "settle"}

Nothing == [s \in Sku |-> 0]
Goto(r, p) == pc' = [pc EXCEPT ![r] = p]

Init ==
  /\ schema = "base"
  /\ products = Nothing /\ processed = {}
  /\ decision = [o \in Order |-> "none"]
  /\ placed = {} /\ ready = {} /\ dlq = {}
  /\ pc = [r \in Replica |-> "boot"]
  /\ delivery = [r \in Replica |-> NoDelivery]
  /\ live = [r \in Replica |-> FALSE]
  /\ line = [r \in Replica |-> 1]
  /\ taken = [r \in Replica |-> Nothing]
  /\ faults = 0

Fault(kind) ==
  /\ kind \in FaultKinds /\ faults < MaxFaults
  /\ faults' = faults + 1

-----------------------------------------------------------------------------
(* alembic upgrade head: one transaction, over what it read before.        *)

ReadRevision(r) ==
  /\ pc[r] = "boot"
  /\ Goto(r, IF schema = "head" THEN "idle" ELSE "upgrade")
  /\ UNCHANGED <<brokerVars, databaseVars, delivery, live, line, taken, faults>>

\* CREATE TABLE waits for an uncommitted one of the same name.  It fails if
\* the table is there by then, and the container is started again.
Upgrade(r) ==
  /\ pc[r] = "upgrade"
  /\ \A q \in Replica : pc[q] # "upgraded"
  /\ Goto(r, IF schema = "head" THEN "boot" ELSE "upgraded")
  /\ UNCHANGED <<brokerVars, databaseVars, delivery, live, line, taken, faults>>

CommitUpgrade(r) ==
  /\ pc[r] = "upgraded"
  /\ schema' = "head" /\ products' = InitialStock
  /\ Goto(r, "idle")
  /\ UNCHANGED <<brokerVars, processed, decision, delivery, live, line, taken, faults>>

-----------------------------------------------------------------------------
(* Deliveries.                                                             *)

Place(o) ==
  /\ o \notin placed
  /\ placed' = placed \cup {o}
  /\ ready' = ready \cup {[order |-> o, retries |-> 0]}
  /\ UNCHANGED <<dlq, databaseVars, pc, delivery, live, line, taken, faults>>

Take(r, d) ==
  /\ pc[r] = "idle" /\ d \in ready
  /\ ready' = ready \ {d}
  /\ delivery' = [delivery EXCEPT ![r] = d]
  /\ live' = [live EXCEPT ![r] = TRUE]
  /\ Goto(r, "register")
  /\ UNCHANGED <<placed, dlq, databaseVars, line, taken, faults>>

\* r is done with its delivery.
Done(r) ==
  /\ Goto(r, "idle")
  /\ delivery' = [delivery EXCEPT ![r] = NoDelivery]
  /\ live' = [live EXCEPT ![r] = FALSE]
  /\ line' = [line EXCEPT ![r] = 1]

\* Seeded bug: a failed delivery is logged and acked.
Dispatch_Swallows(r) == UNCHANGED <<ready, dlq>>

\* The dispatcher's answer to a transient failure; a nack on a connection
\* that is gone reaches nobody.
Dispatch(r) ==
  LET d == delivery[r]
      decided == DecideRetry(d.retries, "TRANSIENT")
  IN  IF decided.action = "RETRY"
      THEN /\ ready' = ready \cup {[d EXCEPT !.retries = decided.next]}
           /\ UNCHANGED dlq
      ELSE /\ dlq' = IF live[r] THEN dlq \cup {d} ELSE dlq
           /\ UNCHANGED ready

\* SqlAlchemyUnitOfWork.__exit__ on an exception.
Rollback(r) == taken' = [taken EXCEPT ![r] = Nothing]

\* An exception leaves the use case: rolled back and dispatched.
HandlerFails(r) ==
  /\ Rollback(r) /\ Dispatch(r) /\ Done(r)
  /\ UNCHANGED placed

-----------------------------------------------------------------------------
(* _run_transaction, statement by statement.                               *)

TheOrder(r) == delivery[r].order
Item(r) == Lines[TheOrder(r)][line[r]]

\* The INSERT of q has the same primary key and is not committed yet.
Registering(r, q) ==
  q # r /\ InTransaction(q) /\ delivery[q].order = delivery[r].order

\* INSERT ... ON CONFLICT DO NOTHING, which waits for an uncommitted insert
\* of the same key.  A duplicate is acked, with nothing to commit.
Register(r) ==
  /\ pc[r] = "register"
  /\ \A q \in Replica : ~ Registering(r, q)
  /\ Goto(r, IF TheOrder(r) \in processed THEN "settle" ELSE "lines")
  /\ UNCHANGED <<brokerVars, databaseVars, delivery, live, line, taken, faults>>

\* available_quantity of row s as r's transaction sees it.
Available(r, s) == products[s] - taken[r][s]

\* Row s carries an uncommitted change of q.
Locked(q, s) == taken[q][s] > 0

\* Seeded bug: the quantity is read and compared in a SELECT of its own.
Decrement_CheckThenAct(r) ==
  /\ pc[r] = "lines"
  /\ Item(r).quantity <= Available(r, Item(r).sku)
  /\ taken' = [taken EXCEPT ![r][Item(r).sku] = @ + Item(r).quantity]
  /\ line' = [line EXCEPT ![r] = @ + 1]
  /\ Goto(r, IF line[r] = Len(Lines[TheOrder(r)]) THEN "commit" ELSE "lines")
  /\ UNCHANGED <<brokerVars, databaseVars, delivery, live, faults>>

\* One UPDATE that matches its row, and after the last the savepoint's
\* release.
Decrement(r) ==
  /\ pc[r] = "lines"
  /\ Item(r).quantity <= Available(r, Item(r).sku)
  /\ \A q \in Replica \ {r} : ~ Locked(q, Item(r).sku)
  /\ taken' = [taken EXCEPT ![r][Item(r).sku] = @ + Item(r).quantity]
  /\ line' = [line EXCEPT ![r] = @ + 1]
  /\ Goto(r, IF line[r] = Len(Lines[TheOrder(r)]) THEN "commit" ELSE "lines")
  /\ UNCHANGED <<brokerVars, databaseVars, delivery, live, faults>>

\* Seeded bug: no ROLLBACK TO SAVEPOINT.
FallShort_KeepsRows(r) ==
  /\ pc[r] = "lines"
  /\ Item(r).quantity > Available(r, Item(r).sku)
  /\ Goto(r, "commit")
  /\ UNCHANGED <<brokerVars, databaseVars, delivery, live, line, taken, faults>>

\* rowcount = 0: ROLLBACK TO SAVEPOINT, which also frees the rows.
FallShort(r) ==
  /\ pc[r] = "lines"
  /\ Item(r).quantity > Available(r, Item(r).sku)
  /\ taken' = [taken EXCEPT ![r] = Nothing]
  /\ Goto(r, "commit")
  /\ UNCHANGED <<brokerVars, databaseVars, delivery, live, line, faults>>

\* reserve_all returned no failed sku.
Verdict(r) ==
  IF line[r] > Len(Lines[TheOrder(r)]) THEN "reserved" ELSE "rejected"

\* The database's part of a commit.
Committed(r) ==
  /\ pc[r] = "commit"
  /\ products' = [s \in Sku |-> products[s] - taken[r][s]]
  /\ processed' = processed \cup {TheOrder(r)}
  /\ decision' = [decision EXCEPT ![TheOrder(r)] = Verdict(r)]
  /\ UNCHANGED schema

Commit(r) ==
  /\ Committed(r)
  /\ taken' = [taken EXCEPT ![r] = Nothing]
  /\ Goto(r, "publish")
  /\ UNCHANGED <<brokerVars, delivery, live, line, faults>>

\* The commit goes through and its answer is lost.
CommitUnanswered(r) ==
  /\ Committed(r)
  /\ HandlerFails(r) /\ Fault("database")

\* Publish the result (a duplicate has none), then ack.
PublishAndAck(r) ==
  /\ pc[r] \in {"publish", "settle"}
  /\ Done(r)
  /\ UNCHANGED <<brokerVars, databaseVars, taken, faults>>

PublishFails(r) ==
  /\ pc[r] = "publish"
  /\ HandlerFails(r) /\ Fault("publish")
  /\ UNCHANGED databaseVars

-----------------------------------------------------------------------------
(* What can happen to a transaction from outside.                          *)

\* r waits for q to commit or roll back.
WaitsFor(r, q) ==
  \/ pc[r] = "register" /\ Registering(r, q)
  \/ /\ q # r /\ pc[r] = "lines"
     /\ Item(r).quantity <= Available(r, Item(r).sku)
     /\ Locked(q, Item(r).sku)

\* A transaction waits for at most one other, so this is a cycle, or some.
Deadlocked(C) ==
  \A r \in C : /\ \E q \in C : WaitsFor(r, q)
               /\ \E q \in C : WaitsFor(q, r)

\* PostgreSQL aborts one transaction of a cycle: OperationalError.
DeadlockDetected(r) ==
  /\ \E C \in SUBSET Replica : r \in C /\ Deadlocked(C)
  /\ HandlerFails(r)
  /\ UNCHANGED <<databaseVars, faults>>

\* Any statement may fail, and undo what was not committed.
DatabaseFails(r) ==
  /\ pc[r] \in {"register", "lines", "commit"}
  /\ HandlerFails(r) /\ Fault("database")
  /\ UNCHANGED databaseVars

\* The broker gives up on r's connection, say while r is blocked on a row,
\* and requeues the delivery; the transaction goes on.
LoseConnection(r) ==
  /\ Handling(r) /\ live[r] /\ Fault("connection")
  /\ live' = [live EXCEPT ![r] = FALSE]
  /\ ready' = ready \cup {delivery[r]}
  /\ UNCHANGED <<placed, dlq, databaseVars, pc, delivery, line, taken>>

\* The container dies and is started again; its transaction is undone.
Crash(r) ==
  /\ Fault("crash")
  /\ taken' = [taken EXCEPT ![r] = Nothing]
  /\ ready' = IF live[r] THEN ready \cup {delivery[r]} ELSE ready
  /\ pc' = [pc EXCEPT ![r] = "boot"]
  /\ delivery' = [delivery EXCEPT ![r] = NoDelivery]
  /\ live' = [live EXCEPT ![r] = FALSE]
  /\ line' = [line EXCEPT ![r] = 1]
  /\ UNCHANGED <<placed, dlq, databaseVars>>

-----------------------------------------------------------------------------
\* What a replica and its database do on their own.
Step(r) ==
  \/ ReadRevision(r) \/ Upgrade(r) \/ CommitUpgrade(r)
  \/ \E d \in ready : Take(r, d)
  \/ Register(r) \/ Decrement(r) \/ FallShort(r) \/ Commit(r)
  \/ PublishAndAck(r) \/ DeadlockDetected(r)

Fails(r) ==
  \/ CommitUnanswered(r) \/ PublishFails(r) \/ DatabaseFails(r)
  \/ LoseConnection(r) \/ Crash(r)

Next ==
  \/ \E o \in Order : Place(o)
  \/ \E r \in Replica : Step(r) \/ Fails(r)

Spec == Init /\ [][Next]_vars

\* Docker restarts a container that stopped, the event loop runs the
\* handler, and PostgreSQL runs statements and its deadlock check.
FairSpec == Spec /\ \A r \in Replica : WF_vars(Step(r))

-----------------------------------------------------------------------------
(* Properties.                                                             *)

\* The variables are typed.
TypeOK ==
  /\ schema \in {"base", "head"} /\ products \in [Sku -> Int]
  /\ processed \subseteq Order
  /\ decision \in [Order -> {"none", "reserved", "rejected"}]
  /\ placed \subseteq Order /\ ready \subseteq Delivery /\ dlq \subseteq Delivery
  /\ pc \in [Replica -> ReplicaPc]
  /\ delivery \in [Replica -> Delivery \cup {NoDelivery}]
  /\ \A r \in Replica : IF Handling(r) THEN delivery[r] \in Delivery
                        ELSE delivery[r] = NoDelivery /\ ~ live[r]
  /\ live \in [Replica -> BOOLEAN] /\ line \in [Replica -> Nat \ {0}]
  /\ taken \in [Replica -> [Sku -> Nat]]
  /\ faults \in 0 .. MaxFaults

\* "Es imposible dejar stock negativo" (ADR-0007): one transaction at a time
\* has uncommitted changes to a row, and never more than the row holds.
RowsGuarded ==
  \A s \in Sku, r \in Replica :
    /\ taken[r][s] <= products[s]
    /\ \A q \in Replica \ {r} : Locked(r, s) => ~ Locked(q, s)

\* The units that the lines with the numbers in items, of order o, ask for.
UnitsIn(o, items) == MapThenSumSet(LAMBDA i : Lines[o][i].quantity, items)

\* The demand of an order, line by line, per product.
Demand == [o \in Order |-> [s \in Sku |->
            UnitsIn(o, {i \in 1 .. Len(Lines[o]) : Lines[o][i].sku = s})]]

\* The whole of it is what OrderLifecycle does in single steps: stock is
\* seeded once whoever wins the migration, and each order is decided once,
\* wholly or not at all, by the stock there is when its decision commits.
Lifecycle == INSTANCE OrderLifecycle WITH
  status <- [o \in Order |-> IF o \in placed THEN "pending" ELSE "none"],
  stock <- IF schema = "head" THEN products ELSE InitialStock

ReservesAtomically == Lifecycle!LifecycleSpec

\* Whatever the replicas block each other on, every order placed is decided
\* or, its four tries spent, dead-lettered for a person to see.
OrdersDecided ==
  \A o \in Order :
    o \in placed ~> \/ decision[o] # "none"
                    \/ \E d \in dlq : d.order = o
=============================================================================
