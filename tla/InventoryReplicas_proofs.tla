---------------------- MODULE InventoryReplicas_proofs ----------------------
(***************************************************************************)
(* Proofs about InventoryReplicas, for any number of replicas, every set   *)
(* of orders with any lines, every initial stock and any number of faults. *)
(***************************************************************************)
EXTENDS InventoryReplicas, SetSums, SequenceTheorems, TLAPS

-----------------------------------------------------------------------------
(* The inductive invariant.                                                *)

\* The lines of o before line n that are about product s.
Before(o, n, s) == {i \in 1 .. n - 1 : Lines[o][i].sku = s}

\* What r's transaction took from the rows is what the lines before its own
\* ask for; after the last it is the order's demand, or nothing because the
\* stock is short.
TakenInStep(r) ==
  /\ ~ InTransaction(r) => taken[r] = Nothing
  /\ pc[r] \notin {"lines", "commit", "publish", "settle"} => line[r] = 1
  /\ pc[r] = "lines" =>
       /\ line[r] <= Len(Lines[TheOrder(r)])
       /\ \A s \in Sku : taken[r][s] = UnitsIn(TheOrder(r), Before(TheOrder(r), line[r], s))
  /\ pc[r] = "commit" =>
       \/ /\ line[r] = Len(Lines[TheOrder(r)]) + 1
          /\ \A s \in Sku : taken[r][s] = Demand[TheOrder(r)][s]
       \/ /\ line[r] <= Len(Lines[TheOrder(r)])
          /\ taken[r] = Nothing
          /\ \E s \in Sku : Demand[TheOrder(r)][s] > products[s]

\* Nobody serves before the migration, and one replica at a time migrates.
MigrationGuarded ==
  /\ \A r \in Replica : /\ pc[r] = "idle" \/ Handling(r) => schema = "head"
                        /\ pc[r] = "upgraded" => schema = "base"
  /\ \A r, q \in Replica : pc[r] = "upgraded" /\ pc[q] = "upgraded" => r = q

\* An order is in at most one open transaction, and only while undecided.
OrdersGuarded ==
  /\ \A r, q \in Replica :
       InTransaction(r) /\ InTransaction(q) /\ TheOrder(r) = TheOrder(q) => r = q
  /\ \A r \in Replica : InTransaction(r) => TheOrder(r) \notin processed
  /\ \A o \in Order : o \in processed <=> decision[o] # "none"

\* Only orders that were placed are delivered.
OnlyPlaced ==
  /\ \A d \in ready : d.order \in placed
  /\ \A r \in Replica : Handling(r) => TheOrder(r) \in placed

ReplicasInv ==
  /\ TypeOK /\ RowsGuarded
  /\ \A r \in Replica : TakenInStep(r)
  /\ MigrationGuarded /\ OrdersGuarded /\ OnlyPlaced

-----------------------------------------------------------------------------
(* What the lines of an order add up to.                                   *)

LEMMA LinesType ==
  ASSUME NEW o \in Order
  PROVE  /\ Len(Lines[o]) \in Nat \ {0}
         /\ \A i \in 1 .. Len(Lines[o]) : /\ Lines[o][i].sku \in Sku
                                          /\ Lines[o][i].quantity \in Nat \ {0}
<1> DEFINE Line == [sku : Sku, quantity : Nat \ {0}]
<1>1. Lines[o] \in Seq(Line) /\ Lines[o] # <<>>
  BY LinesAssumption
<1>2. /\ Len(Lines[o]) \in Nat \ {0}
      /\ \A i \in 1 .. Len(Lines[o]) : Lines[o][i] \in Line
  <2> HIDE DEF Line
  <2>1. QED
    BY <1>1, LenProperties, ElementOfSeq, EmptySeq
<1>3. QED
  BY <1>2

Quantity(o) == [i \in 1 .. Len(Lines[o]) |-> Lines[o][i].quantity]

LEMMA UnitsInIsSum ==
  ASSUME NEW o \in Order, NEW T, T \subseteq 1 .. Len(Lines[o])
  PROVE  /\ UnitsIn(o, T) = SetSum(Quantity(o), T)
         /\ IsFiniteSet(T) /\ \A i \in T : Quantity(o)[i] \in Nat
<1>1. IsFiniteSet(T)
  <2>1. IsFiniteSet(1 .. Len(Lines[o]))
    BY LinesType, FS_Interval
  <2>2. QED
    BY <2>1, FS_Subset
<1>2. PICK g : PartialSums(g, Quantity(o), T)
  BY <1>1, PartialSumsExist
<1>3. \A t \in SUBSET T :
        t # {} => Quantity(o)[Picked(t)] = Lines[o][Picked(t)].quantity
  BY DEF Picked, Quantity
<1>4. g = [t \in SUBSET T |->
             IF t = {} THEN 0 ELSE Lines[o][Picked(t)].quantity + g[t \ {Picked(t)}]]
  BY <1>2, <1>3 DEF PartialSums
<1>5. PICK h :
        /\ h = [t \in SUBSET T |->
                 IF t = {} THEN 0 ELSE Lines[o][Picked(t)].quantity + h[t \ {Picked(t)}]]
        /\ UnitsIn(o, T) = h[T]
  BY <1>4 DEF UnitsIn, MapThenSumSet, MapThenFoldSet, Picked
<1>6. PartialSums(h, Quantity(o), T)
  BY <1>3, <1>5 DEF PartialSums
<1>7. UnitsIn(o, T) = SetSum(Quantity(o), T)
  BY <1>1, <1>5, <1>6, SetSumIs
<1>8. \A i \in T : Quantity(o)[i] \in Nat
  BY LinesType DEF Quantity
<1>9. QED
  BY <1>1, <1>7, <1>8

\* Line by line, the lines before it add up to the demand.
LEMMA LinesAddUp ==
  ASSUME NEW o \in Order, NEW s \in Sku, NEW n \in 1 .. Len(Lines[o])
  PROVE  /\ UnitsIn(o, Before(o, 1, s)) = 0
         /\ UnitsIn(o, Before(o, n, s)) \in Nat
         /\ UnitsIn(o, Before(o, n + 1, s)) =
              UnitsIn(o, Before(o, n, s))
                + IF Lines[o][n].sku = s THEN Lines[o][n].quantity ELSE 0
         /\ UnitsIn(o, Before(o, n + 1, s)) <= Demand[o][s]
         /\ UnitsIn(o, Before(o, Len(Lines[o]) + 1, s)) = Demand[o][s]
         /\ Demand[o][s] \in Nat
<1> DEFINE L == Len(Lines[o])
<1>1. L \in Nat \ {0} /\ n \in Nat /\ n >= 1 /\ n <= L
  BY LinesType
<1>2. Before(o, 1, s) = {}
  BY DEF Before
<1>3. \A k \in 1 .. L + 1 : Before(o, k, s) \subseteq 1 .. L
  BY <1>1 DEF Before
<1>4. n \in 1 .. L + 1 /\ n + 1 \in 1 .. L + 1 /\ L + 1 \in 1 .. L + 1 /\ 1 \in 1 .. L + 1
  BY <1>1
<1>5. \A k \in 1 .. L + 1 :
        /\ UnitsIn(o, Before(o, k, s)) = SetSum(Quantity(o), Before(o, k, s))
        /\ IsFiniteSet(Before(o, k, s))
        /\ \A i \in Before(o, k, s) : Quantity(o)[i] \in Nat
  BY <1>3, UnitsInIsSum
<1>6. UnitsIn(o, Before(o, 1, s)) = 0
  BY <1>2, <1>4, <1>5, SetSumEmpty
<1>7. UnitsIn(o, Before(o, n, s)) \in Nat
  BY <1>4, <1>5, SetSumTake
<1>8. UnitsIn(o, Before(o, n + 1, s)) =
        UnitsIn(o, Before(o, n, s)) + IF Lines[o][n].sku = s THEN Lines[o][n].quantity ELSE 0
  <2>1. CASE Lines[o][n].sku = s
    <3>1. /\ Before(o, n + 1, s) = Before(o, n, s) \cup {n}
          /\ n \notin Before(o, n, s)
      BY <1>1, <2>1 DEF Before
    <3>2. Quantity(o)[n] = Lines[o][n].quantity /\ Lines[o][n].quantity \in Nat
      BY LinesType DEF Quantity
    <3>3. \A i \in Before(o, n, s) \cup {n} : Quantity(o)[i] \in Nat
      BY <1>4, <1>5, <3>2
    <3>4. SetSum(Quantity(o), Before(o, n + 1, s))
            = Quantity(o)[n] + SetSum(Quantity(o), Before(o, n, s))
      BY <1>4, <1>5, <3>1, <3>3, SetSumAdd, ZenonT(40)
    <3>5. QED
      BY <1>4, <1>5, <1>7, <2>1, <3>2, <3>4
  <2>2. CASE Lines[o][n].sku # s
    <3>1. Before(o, n + 1, s) = Before(o, n, s)
      BY <1>1, <2>2 DEF Before
    <3>2. QED
      BY <1>7, <2>2, <3>1
  <2>3. QED
    BY <2>1, <2>2
<1>9. UnitsIn(o, Before(o, L + 1, s)) = Demand[o][s]
  <2>1. 1 .. (L + 1) - 1 = 1 .. L
    BY <1>1
  <2>2. QED
    BY <2>1 DEF Before, Demand
<1>10. UnitsIn(o, Before(o, n + 1, s)) <= Demand[o][s]
  <2>1. Before(o, n + 1, s) \subseteq Before(o, L + 1, s)
    BY <1>1 DEF Before
  <2>2. SetSum(Quantity(o), Before(o, n + 1, s))
          <= SetSum(Quantity(o), Before(o, L + 1, s))
    BY <1>4, <1>5, <2>1, SetSumGrows
  <2>3. QED
    BY <1>4, <1>5, <1>9, <2>2
<1>11. Demand[o][s] \in Nat
  BY <1>4, <1>5, <1>9, SetSumTake
<1>12. QED
  BY <1>6, <1>7, <1>8, <1>9, <1>10, <1>11

-----------------------------------------------------------------------------
(* Steps of one replica.                                                   *)

LEMMA FaultBound ==
  ASSUME faults \in 0 .. MaxFaults, NEW kind, Fault(kind)
  PROVE  faults' \in 0 .. MaxFaults
BY FaultsAssumption DEF Fault

\* A step of r leaves the other replicas where they are.
OnlyAt(r) ==
  \A q \in Replica \ {r} :
    /\ pc'[q] = pc[q] /\ delivery'[q] = delivery[q] /\ live'[q] = live[q]
    /\ line'[q] = line[q] /\ taken'[q] = taken[q]

\* The parts of the type invariant a step of r can disturb.
TypedAt(r) ==
  /\ pc[r] \in ReplicaPc /\ live[r] \in BOOLEAN /\ line[r] \in Nat \ {0}
  /\ taken[r] \in [Sku -> Nat]
  /\ IF Handling(r) THEN delivery[r] \in Delivery
     ELSE delivery[r] = NoDelivery /\ ~ live[r]
  /\ delivery[r] \in Delivery \cup {NoDelivery}

DatabaseTyped ==
  /\ schema \in {"base", "head"} /\ products \in [Sku -> Int]
  /\ processed \subseteq Order
  /\ decision \in [Order -> {"none", "reserved", "rejected"}]

BrokerTyped == placed \subseteq Order /\ ready \subseteq Delivery /\ dlq \subseteq Delivery

\* The replicas' variables are functions of the replicas.
ReplicaFunctions ==
  \A f \in {pc, delivery, live, line, taken} : f = [r \in Replica |-> f[r]]

LEMMA TypeFrame ==
  ASSUME TypeOK, NEW r \in Replica, OnlyAt(r), TypedAt(r)', DatabaseTyped', BrokerTyped',
         ReplicaFunctions', faults' \in 0 .. MaxFaults
  PROVE  TypeOK'
<1>1. \A q \in Replica : TypedAt(q)'
  <2>1. SUFFICES ASSUME NEW q \in Replica, q # r
                 PROVE  TypedAt(q)'
    OBVIOUS
  <2>2. TypedAt(q)
    BY DEF TypeOK, TypedAt
  <2>3. QED
    BY <2>1, <2>2 DEF TypedAt, OnlyAt, Handling
<1>2. QED
  BY <1>1 DEF TypeOK, TypedAt, DatabaseTyped, BrokerTyped, ReplicaFunctions

\* A step of r that commits nothing.
LEMMA ReplicaFrame ==
  ASSUME ReplicasInv, NEW r \in Replica, OnlyAt(r), UNCHANGED databaseVars,
         TypedAt(r)', BrokerTyped', ReplicaFunctions', faults' \in 0 .. MaxFaults,
         TakenInStep(r)',
         \A s \in Sku : /\ taken'[r][s] <= products[s]
                        /\ taken'[r][s] > 0 =>
                             taken[r][s] > 0 \/ \A q \in Replica \ {r} : ~ Locked(q, s),
         pc'[r] = "idle" \/ Handling(r)' => schema = "head",
         pc'[r] = "upgraded" =>
           schema = "base" /\ \A q \in Replica \ {r} : pc[q] # "upgraded",
         InTransaction(r)' =>
           \/ InTransaction(r) /\ delivery'[r] = delivery[r]
           \/ /\ delivery'[r].order \notin processed
              /\ \A q \in Replica \ {r} : InTransaction(q) => TheOrder(q) # delivery'[r].order,
         placed \subseteq placed',
         \A d \in ready' : d.order \in placed',
         Handling(r)' => delivery'[r].order \in placed'
  PROVE  ReplicasInv'
<1>1. /\ TypeOK /\ RowsGuarded /\ MigrationGuarded /\ OrdersGuarded /\ OnlyPlaced
      /\ \A q \in Replica : TakenInStep(q)
      /\ UNCHANGED <<schema, products, processed, decision>>
  BY DEF ReplicasInv, databaseVars
<1>2. TypeOK'
  <2>1. DatabaseTyped'
    BY <1>1 DEF TypeOK, DatabaseTyped
  <2>2. QED
    BY <1>1, <2>1, TypeFrame
<1>3. ASSUME NEW q \in Replica, q # r
      PROVE  /\ pc'[q] = pc[q] /\ delivery'[q] = delivery[q]
             /\ line'[q] = line[q] /\ taken'[q] = taken[q]
  BY <1>3 DEF OnlyAt
<1>4. RowsGuarded'
  <2>1. SUFFICES ASSUME NEW s \in Sku, NEW p \in Replica
                 PROVE  /\ taken'[p][s] <= products[s]
                        /\ \A q \in Replica \ {p} : Locked(p, s)' => ~ Locked(q, s)'
    BY <1>1 DEF RowsGuarded
  <2>2. taken'[p][s] <= products[s]
    BY <1>1, <1>3 DEF RowsGuarded
  <2>3. ASSUME NEW q \in Replica \ {p}, taken'[p][s] > 0
        PROVE  ~ taken'[q][s] > 0
    BY <1>1, <1>3, <2>3 DEF RowsGuarded, Locked
  <2>4. QED
    BY <2>2, <2>3 DEF Locked
<1>5. \A q \in Replica : TakenInStep(q)'
  <2>1. SUFFICES ASSUME NEW q \in Replica, q # r
                 PROVE  TakenInStep(q)'
    OBVIOUS
  <2>2. TakenInStep(q)
    BY <1>1
  <2>3. QED
    BY <1>1, <1>3, <2>1, <2>2, SMTT(30) DEF TakenInStep, InTransaction, TheOrder
<1>6. MigrationGuarded'
  BY <1>1, <1>3 DEF MigrationGuarded, Handling
<1>7. OrdersGuarded'
  <2>1. ASSUME NEW p \in Replica, NEW q \in Replica, InTransaction(p)', InTransaction(q)',
               delivery'[p].order = delivery'[q].order
        PROVE  p = q
    BY <1>1, <1>3, <2>1 DEF OrdersGuarded, InTransaction, TheOrder
  <2>2. ASSUME NEW p \in Replica, InTransaction(p)'
        PROVE  delivery'[p].order \notin processed
    BY <1>1, <1>3, <2>2 DEF OrdersGuarded, InTransaction, TheOrder
  <2>3. QED
    BY <1>1, <2>1, <2>2 DEF OrdersGuarded, TheOrder
<1>8. OnlyPlaced'
  BY <1>1, <1>3 DEF OnlyPlaced, Handling, TheOrder
<1>9. QED
  BY <1>2, <1>4, <1>5, <1>6, <1>7, <1>8 DEF ReplicasInv

\* What EXCEPT does to the variables of the replicas, one replica at a time.
LEMMA StepAt ==
  ASSUME TypeOK, NEW r \in Replica, NEW p, NEW d, NEW l, NEW n, NEW t,
         pc' = [pc EXCEPT ![r] = p], delivery' = [delivery EXCEPT ![r] = d],
         live' = [live EXCEPT ![r] = l], line' = [line EXCEPT ![r] = n],
         taken' = [taken EXCEPT ![r] = t]
  PROVE  /\ OnlyAt(r) /\ ReplicaFunctions'
         /\ pc'[r] = p /\ delivery'[r] = d /\ live'[r] = l /\ line'[r] = n /\ taken'[r] = t
BY DEF TypeOK, OnlyAt, ReplicaFunctions

\* r ends its delivery, or dies, and nothing of its transaction stays.
LEMMA EndFrame ==
  ASSUME ReplicasInv, NEW r \in Replica, NEW p \in {"boot", "idle"},
         pc' = [pc EXCEPT ![r] = p], delivery' = [delivery EXCEPT ![r] = NoDelivery],
         live' = [live EXCEPT ![r] = FALSE], line' = [line EXCEPT ![r] = 1],
         taken' = [taken EXCEPT ![r] = Nothing],
         p = "idle" => schema = "head",
         UNCHANGED databaseVars, UNCHANGED placed, faults' \in 0 .. MaxFaults,
         BrokerTyped', \A d \in ready' : d.order \in placed'
  PROVE  ReplicasInv'
<1>1. /\ OnlyAt(r) /\ ReplicaFunctions'
      /\ pc'[r] = p /\ delivery'[r] = NoDelivery /\ live'[r] = FALSE
      /\ line'[r] = 1 /\ taken'[r] = Nothing
  BY StepAt, ZenonT(40) DEF ReplicasInv
<1>2. TypeOK /\ RowsGuarded
  BY DEF ReplicasInv
<1>3. TypedAt(r)' /\ ~ Handling(r)' /\ ~ InTransaction(r)'
  <2>1. ~ Handling(r)' /\ ~ InTransaction(r)'
    BY <1>1 DEF Handling, InTransaction
  <2>2. pc'[r] \in ReplicaPc /\ taken'[r] \in [Sku -> Nat]
    BY <1>1 DEF ReplicaPc, Nothing
  <2>3. ~ live'[r] /\ live'[r] \in BOOLEAN
    BY <1>1, Zenon
  <2>4. line'[r] \in Nat \ {0}
    BY <1>1
  <2>5. QED
    BY <1>1, <2>1, <2>2, <2>3, <2>4, Zenon DEF TypedAt
<1>4. TakenInStep(r)'
  BY <1>1 DEF TakenInStep, InTransaction
<1>5. \A s \in Sku : taken'[r][s] <= products[s] /\ ~ taken'[r][s] > 0
  BY <1>1, <1>2 DEF Nothing, RowsGuarded, TypeOK
<1>6. pc'[r] # "upgraded"
  BY <1>1
<1>7. QED
  BY <1>1, <1>3, <1>4, <1>5, <1>6, ReplicaFrame

\* A delivery is put back, is dead-lettered or is left to the broker.
LEMMA DispatchLemma ==
  ASSUME TypeOK, NEW r \in Replica, Handling(r), Dispatch(r)
  PROVE  /\ ready' \subseteq Delivery /\ dlq' \subseteq Delivery
         /\ \A d \in ready' : d \in ready \/ d.order = TheOrder(r)
<1>1. delivery[r] \in Delivery /\ ready \subseteq Delivery /\ dlq \subseteq Delivery
  BY DEF TypeOK
<1>2. DecideRetry(delivery[r].retries, "TRANSIENT").action = "RETRY" =>
        DecideRetry(delivery[r].retries, "TRANSIENT").next \in 0 .. MaxRetries
  BY <1>1 DEF DecideRetry, Delivery, MaxRetries, RetryStages
<1>3. QED
  BY <1>1, <1>2 DEF Dispatch, Delivery, TheOrder

LEMMA HandlerFailsPreserves ==
  ASSUME ReplicasInv, NEW r \in Replica, Handling(r), HandlerFails(r),
         UNCHANGED databaseVars, faults' \in 0 .. MaxFaults
  PROVE  ReplicasInv'
<1>1. /\ pc' = [pc EXCEPT ![r] = "idle"] /\ delivery' = [delivery EXCEPT ![r] = NoDelivery]
      /\ live' = [live EXCEPT ![r] = FALSE] /\ line' = [line EXCEPT ![r] = 1]
      /\ taken' = [taken EXCEPT ![r] = Nothing]
      /\ Dispatch(r) /\ UNCHANGED placed
  BY DEF HandlerFails, Rollback, Done, Goto
<1>2. TypeOK /\ OnlyPlaced /\ schema = "head"
  BY DEF ReplicasInv, MigrationGuarded
<1>3. BrokerTyped' /\ \A d \in ready' : d.order \in placed'
  BY <1>1, <1>2, DispatchLemma DEF BrokerTyped, TypeOK, OnlyPlaced
<1>4. QED
  BY <1>1, <1>2, <1>3, EndFrame

LEMMA FailuresPreserve ==
  ASSUME ReplicasInv, NEW r \in Replica,
         PublishFails(r) \/ DatabaseFails(r) \/ DeadlockDetected(r)
  PROVE  ReplicasInv'
<1>1. faults \in 0 .. MaxFaults
  BY DEF ReplicasInv, TypeOK
<1>2. CASE PublishFails(r) \/ DatabaseFails(r)
  BY <1>1, <1>2, FaultBound, HandlerFailsPreserves DEF PublishFails, DatabaseFails, Handling
<1>3. CASE DeadlockDetected(r)
  <2>1. \E q \in Replica : WaitsFor(r, q)
    BY <1>3 DEF DeadlockDetected, Deadlocked
  <2>2. Handling(r)
    BY <2>1 DEF WaitsFor, Handling
  <2>3. QED
    BY <1>1, <1>3, <2>2, HandlerFailsPreserves DEF DeadlockDetected
<1>4. QED
  BY <1>2, <1>3

LEMMA PublishAndAckPreserves ==
  ASSUME ReplicasInv, NEW r \in Replica, PublishAndAck(r)
  PROVE  ReplicasInv'
<1>1. /\ pc' = [pc EXCEPT ![r] = "idle"] /\ delivery' = [delivery EXCEPT ![r] = NoDelivery]
      /\ live' = [live EXCEPT ![r] = FALSE] /\ line' = [line EXCEPT ![r] = 1]
      /\ UNCHANGED <<placed, ready, dlq, databaseVars, taken, faults>>
      /\ Handling(r) /\ ~ InTransaction(r)
  BY DEF PublishAndAck, Done, Goto, brokerVars, Handling, InTransaction
<1>2. TypeOK /\ OnlyPlaced /\ schema = "head" /\ taken[r] = Nothing
  BY <1>1 DEF ReplicasInv, MigrationGuarded, TakenInStep
<1>3. taken' = [taken EXCEPT ![r] = Nothing]
  BY <1>1, <1>2 DEF TypeOK
<1>4. /\ BrokerTyped' /\ faults' \in 0 .. MaxFaults
      /\ \A d \in ready' : d.order \in placed'
  BY <1>1, <1>2 DEF BrokerTyped, TypeOK, OnlyPlaced
<1>5. QED
  BY <1>1, <1>2, <1>3, <1>4, EndFrame

LEMMA CrashPreserves ==
  ASSUME ReplicasInv, NEW r \in Replica, Crash(r)
  PROVE  ReplicasInv'
<1>1. /\ pc' = [pc EXCEPT ![r] = "boot"] /\ delivery' = [delivery EXCEPT ![r] = NoDelivery]
      /\ live' = [live EXCEPT ![r] = FALSE] /\ line' = [line EXCEPT ![r] = 1]
      /\ taken' = [taken EXCEPT ![r] = Nothing]
      /\ ready' = (IF live[r] THEN ready \cup {delivery[r]} ELSE ready)
      /\ UNCHANGED <<placed, dlq>> /\ UNCHANGED databaseVars
  BY DEF Crash
<1>2. TypeOK /\ OnlyPlaced
  BY DEF ReplicasInv
<1>3. live[r] => Handling(r)
  BY <1>2 DEF TypeOK
<1>4. BrokerTyped' /\ \A d \in ready' : d.order \in placed'
  BY <1>1, <1>2, <1>3 DEF BrokerTyped, TypeOK, OnlyPlaced, TheOrder
<1>5. faults' \in 0 .. MaxFaults
  BY <1>2, FaultBound DEF Crash, TypeOK
<1>6. QED
  BY <1>1, <1>4, <1>5, EndFrame

\* Steps before a replica serves: the migration, up to its commit.
LEMMA BootPreserves ==
  ASSUME ReplicasInv, NEW r \in Replica, ReadRevision(r) \/ Upgrade(r)
  PROVE  ReplicasInv'
<1>1. PICK p \in {"boot", "idle", "upgrade", "upgraded"} :
        /\ pc' = [pc EXCEPT ![r] = p]
        /\ p = "idle" => schema = "head"
        /\ p = "upgraded" => schema = "base" /\ \A q \in Replica : pc[q] # "upgraded"
  BY DEF ReadRevision, Upgrade, Goto, ReplicasInv, TypeOK
<1>2. /\ pc[r] \in {"boot", "upgrade"}
      /\ UNCHANGED <<placed, ready, dlq, delivery, live, line, taken, faults>>
      /\ UNCHANGED databaseVars
  BY DEF ReadRevision, Upgrade, brokerVars
<1>3. TypeOK /\ RowsGuarded /\ OnlyPlaced /\ TakenInStep(r)
  BY DEF ReplicasInv
<1>4. /\ delivery' = [delivery EXCEPT ![r] = delivery[r]]
      /\ live' = [live EXCEPT ![r] = live[r]] /\ line' = [line EXCEPT ![r] = line[r]]
      /\ taken' = [taken EXCEPT ![r] = taken[r]]
  BY <1>2, <1>3 DEF TypeOK
<1>5. /\ OnlyAt(r) /\ ReplicaFunctions'
      /\ pc'[r] = p /\ delivery'[r] = delivery[r] /\ live'[r] = live[r]
      /\ line'[r] = line[r] /\ taken'[r] = taken[r]
  BY <1>1, <1>3, <1>4, StepAt, ZenonT(40)
<1>6. /\ ~ Handling(r) /\ ~ InTransaction(r) /\ line[r] = 1 /\ taken[r] = Nothing
      /\ ~ Handling(r)' /\ ~ InTransaction(r)'
  BY <1>2, <1>3, <1>5 DEF Handling, InTransaction, TakenInStep
<1>7. TypedAt(r)'
  <2>1. TypedAt(r)
    BY <1>3 DEF TypeOK, TypedAt
  <2>2. pc'[r] \in ReplicaPc
    BY <1>5 DEF ReplicaPc
  <2>3. QED
    BY <1>5, <1>6, <2>1, <2>2, Zenon DEF TypedAt
<1>8. TakenInStep(r)'
  BY <1>5, <1>6 DEF TakenInStep, InTransaction
<1>9. BrokerTyped' /\ faults' \in 0 .. MaxFaults /\ \A d \in ready' : d.order \in placed'
  BY <1>2, <1>3 DEF TypeOK, BrokerTyped, OnlyPlaced
<1>10. \A s \in Sku : taken'[r][s] <= products[s] /\ (taken'[r][s] > 0 => taken[r][s] > 0)
  BY <1>3, <1>5 DEF RowsGuarded
<1>11. /\ pc'[r] = "idle" \/ Handling(r)' => schema = "head"
       /\ pc'[r] = "upgraded" =>
            schema = "base" /\ \A q \in Replica \ {r} : pc[q] # "upgraded"
  BY <1>1, <1>5, <1>6
<1>12. QED
  BY <1>2, <1>5, <1>6, <1>7, <1>8, <1>9, <1>10, <1>11, ReplicaFrame

LEMMA PlacePreserves ==
  ASSUME ReplicasInv, NEW o \in Order, Place(o)
  PROVE  ReplicasInv'
<1>1. /\ UNCHANGED <<dlq, schema, products, processed, decision>>
      /\ UNCHANGED <<pc, delivery, live, line, taken, faults>>
      /\ placed' = placed \cup {o}
      /\ ready' = ready \cup {[order |-> o, retries |-> 0]}
  BY DEF Place, databaseVars
<1>2. /\ TypeOK /\ RowsGuarded /\ MigrationGuarded /\ OrdersGuarded /\ OnlyPlaced
      /\ \A q \in Replica : TakenInStep(q)
  BY DEF ReplicasInv
<1>3. [order |-> o, retries |-> 0] \in Delivery
  BY DEF Delivery, MaxRetries, RetryStages
<1>4. TypeOK'
  BY <1>1, <1>2, <1>3 DEF TypeOK, Handling
<1>5. RowsGuarded' /\ MigrationGuarded' /\ OrdersGuarded'
  BY <1>1, <1>2 DEF RowsGuarded, Locked, MigrationGuarded, OrdersGuarded, Handling,
                    InTransaction, TheOrder
<1>6. OnlyPlaced'
  BY <1>1, <1>2 DEF OnlyPlaced, Handling, TheOrder
<1>7. \A q \in Replica : TakenInStep(q)'
  BY <1>1, <1>2 DEF TakenInStep, InTransaction, TheOrder
<1>8. QED
  BY <1>4, <1>5, <1>6, <1>7 DEF ReplicasInv

LEMMA TakePreserves ==
  ASSUME ReplicasInv, NEW r \in Replica, NEW d \in ready, Take(r, d)
  PROVE  ReplicasInv'
<1>1. /\ pc[r] = "idle" /\ ready' = ready \ {d}
      /\ pc' = [pc EXCEPT ![r] = "register"] /\ delivery' = [delivery EXCEPT ![r] = d]
      /\ live' = [live EXCEPT ![r] = TRUE]
      /\ UNCHANGED <<placed, dlq, line, taken, faults>> /\ UNCHANGED databaseVars
  BY DEF Take, Goto
<1>2. TypeOK /\ RowsGuarded /\ MigrationGuarded /\ OnlyPlaced /\ TakenInStep(r)
  BY DEF ReplicasInv
<1>3. line' = [line EXCEPT ![r] = line[r]] /\ taken' = [taken EXCEPT ![r] = taken[r]]
  BY <1>1, <1>2 DEF TypeOK
<1>4. /\ OnlyAt(r) /\ ReplicaFunctions'
      /\ pc'[r] = "register" /\ delivery'[r] = d /\ live'[r] = TRUE
      /\ line'[r] = line[r] /\ taken'[r] = taken[r]
  <2>1. OnlyAt(r) /\ ReplicaFunctions'
    BY <1>1, <1>2 DEF TypeOK, OnlyAt, ReplicaFunctions
  <2>2. live'[r] = TRUE
    BY <1>1, <1>2, Zenon DEF TypeOK
  <2>3. QED
    BY <1>1, <1>2, <2>1, <2>2 DEF TypeOK
<1>5. /\ ~ InTransaction(r) /\ line[r] = 1 /\ taken[r] = Nothing
      /\ Handling(r)' /\ ~ InTransaction(r)'
  BY <1>1, <1>2, <1>4 DEF Handling, InTransaction, TakenInStep
<1>6. TypedAt(r)'
  <2>1. TypedAt(r)
    BY <1>2 DEF TypeOK, TypedAt
  <2>2. pc'[r] \in ReplicaPc /\ delivery'[r] \in Delivery
    BY <1>2, <1>4 DEF ReplicaPc, TypeOK
  <2>3. live'[r] \in BOOLEAN
    BY <1>4, Zenon
  <2>4. QED
    BY <1>4, <1>5, <2>1, <2>2, <2>3, Zenon DEF TypedAt
<1>7. TakenInStep(r)'
  BY <1>4, <1>5 DEF TakenInStep, InTransaction
<1>8. /\ BrokerTyped' /\ faults' \in 0 .. MaxFaults
      /\ \A e \in ready' : e.order \in placed'
      /\ delivery'[r].order \in placed'
  BY <1>1, <1>2, <1>4 DEF TypeOK, BrokerTyped, OnlyPlaced
<1>9. \A s \in Sku : taken'[r][s] <= products[s] /\ (taken'[r][s] > 0 => taken[r][s] > 0)
  BY <1>2, <1>4 DEF RowsGuarded
<1>10. schema = "head" /\ pc'[r] # "upgraded"
  BY <1>1, <1>2, <1>4 DEF MigrationGuarded
<1>11. QED
  BY <1>1, <1>4, <1>5, <1>6, <1>7, <1>8, <1>9, <1>10, ReplicaFrame

LEMMA RegisterPreserves ==
  ASSUME ReplicasInv, NEW r \in Replica, Register(r)
  PROVE  ReplicasInv'
<1>1. PICK p \in {"settle", "lines"} :
        /\ pc' = [pc EXCEPT ![r] = p]
        /\ p = "lines" => TheOrder(r) \notin processed
  BY DEF Register, Goto
<1>2. /\ pc[r] = "register" /\ \A q \in Replica : ~ Registering(r, q)
      /\ UNCHANGED <<placed, ready, dlq, delivery, live, line, taken, faults>>
      /\ UNCHANGED databaseVars
  BY DEF Register, brokerVars
<1>3. TypeOK /\ RowsGuarded /\ MigrationGuarded /\ OnlyPlaced /\ TakenInStep(r)
  BY DEF ReplicasInv
<1>4. /\ delivery' = [delivery EXCEPT ![r] = delivery[r]]
      /\ live' = [live EXCEPT ![r] = live[r]] /\ line' = [line EXCEPT ![r] = line[r]]
      /\ taken' = [taken EXCEPT ![r] = taken[r]]
  BY <1>2, <1>3 DEF TypeOK
<1>5. /\ OnlyAt(r) /\ ReplicaFunctions'
      /\ pc'[r] = p /\ delivery'[r] = delivery[r] /\ live'[r] = live[r]
      /\ line'[r] = line[r] /\ taken'[r] = taken[r]
  BY <1>1, <1>3, <1>4, StepAt, ZenonT(40)
<1>6. /\ Handling(r) /\ ~ InTransaction(r) /\ line[r] = 1 /\ taken[r] = Nothing
      /\ Handling(r)' /\ (InTransaction(r)' => p = "lines")
  BY <1>2, <1>3, <1>5 DEF Handling, InTransaction, TakenInStep
<1>7. TypedAt(r)'
  <2>1. TypedAt(r)
    BY <1>3 DEF TypeOK, TypedAt
  <2>2. pc'[r] \in ReplicaPc
    BY <1>5 DEF ReplicaPc
  <2>3. QED
    BY <1>5, <1>6, <2>1, <2>2, Zenon DEF TypedAt
<1>8. TakenInStep(r)'
  <2>1. TheOrder(r) \in Order
    BY <1>3, <1>6 DEF TypeOK, TheOrder, Delivery
  <2>2. 1 <= Len(Lines[TheOrder(r)]) /\ 1 \in 1 .. Len(Lines[TheOrder(r)])
    BY <2>1, LinesType
  <2>3. \A s \in Sku : taken[r][s] = UnitsIn(TheOrder(r), Before(TheOrder(r), 1, s))
    BY <1>6, <2>1, <2>2, LinesAddUp DEF Nothing
  <2>4. QED
    BY <1>5, <1>6, <2>2, <2>3 DEF TakenInStep, InTransaction, TheOrder
<1>9. /\ BrokerTyped' /\ faults' \in 0 .. MaxFaults /\ \A d \in ready' : d.order \in placed'
      /\ delivery'[r].order \in placed'
  BY <1>2, <1>3, <1>5, <1>6 DEF TypeOK, BrokerTyped, OnlyPlaced, TheOrder
<1>10. \A s \in Sku : taken'[r][s] <= products[s] /\ (taken'[r][s] > 0 => taken[r][s] > 0)
  BY <1>3, <1>5 DEF RowsGuarded
<1>11. schema = "head" /\ pc'[r] # "upgraded"
  BY <1>3, <1>5, <1>6 DEF MigrationGuarded
<1>12. InTransaction(r)' =>
         /\ delivery'[r].order \notin processed
         /\ \A q \in Replica \ {r} : InTransaction(q) => TheOrder(q) # delivery'[r].order
  BY <1>1, <1>2, <1>5, <1>6 DEF Registering, TheOrder
<1>13. QED
  BY <1>2, <1>5, <1>7, <1>8, <1>9, <1>10, <1>11, <1>12, ReplicaFrame

\* The steps of a transaction that commit nothing.
LEMMA StatementFrame ==
  ASSUME ReplicasInv, NEW r \in Replica, pc[r] = "lines",
         NEW p \in {"lines", "commit"}, NEW n \in Nat \ {0}, NEW t \in [Sku -> Nat],
         pc' = [pc EXCEPT ![r] = p], line' = [line EXCEPT ![r] = n],
         taken' = [taken EXCEPT ![r] = t],
         UNCHANGED <<placed, ready, dlq, delivery, live, faults>>, UNCHANGED databaseVars,
         TakenInStep(r)',
         \A s \in Sku : /\ t[s] <= products[s]
                        /\ t[s] > 0 =>
                             taken[r][s] > 0 \/ \A q \in Replica \ {r} : ~ Locked(q, s)
  PROVE  ReplicasInv'
<1>1. TypeOK /\ MigrationGuarded /\ OnlyPlaced
  BY DEF ReplicasInv
<1>3. /\ OnlyAt(r) /\ ReplicaFunctions'
      /\ pc'[r] = p /\ delivery'[r] = delivery[r] /\ live'[r] = live[r]
      /\ line'[r] = n /\ taken'[r] = t
  <2>1. OnlyAt(r) /\ ReplicaFunctions'
    BY <1>1 DEF TypeOK, OnlyAt, ReplicaFunctions
  <2>2. QED
    BY <1>1, <2>1 DEF TypeOK
<1>4. Handling(r) /\ InTransaction(r) /\ Handling(r)' /\ InTransaction(r)'
  BY <1>3 DEF Handling, InTransaction
<1>5. TypedAt(r)'
  <2>1. TypedAt(r)
    BY <1>1 DEF TypeOK, TypedAt
  <2>2. pc'[r] \in ReplicaPc
    BY <1>3 DEF ReplicaPc
  <2>3. line'[r] \in Nat \ {0} /\ taken'[r] \in [Sku -> Nat]
    BY <1>3
  <2>4. QED
    BY <1>3, <1>4, <2>1, <2>2, <2>3, Zenon DEF TypedAt
<1>6. /\ BrokerTyped' /\ faults' \in 0 .. MaxFaults /\ \A d \in ready' : d.order \in placed'
      /\ delivery'[r].order \in placed'
  BY <1>1, <1>3, <1>4 DEF TypeOK, BrokerTyped, OnlyPlaced, TheOrder
<1>7. schema = "head" /\ pc'[r] # "upgraded"
  BY <1>1, <1>3, <1>4 DEF MigrationGuarded
<1>8. QED
  BY <1>3, <1>4, <1>5, <1>6, <1>7, ReplicaFrame

LEMMA DecrementPreserves ==
  ASSUME ReplicasInv, NEW r \in Replica, Decrement(r)
  PROVE  ReplicasInv'
<1> DEFINE o == TheOrder(r)
           n == line[r]
           i == Lines[o][n]
           t == [taken[r] EXCEPT ![i.sku] = @ + i.quantity]
           p == IF n = Len(Lines[o]) THEN "commit" ELSE "lines"
<1>1. TypeOK /\ RowsGuarded /\ TakenInStep(r)
  BY DEF ReplicasInv
<1>2. /\ pc[r] = "lines" /\ i.quantity <= products[i.sku] - taken[r][i.sku]
      /\ \A q \in Replica \ {r} : ~ Locked(q, i.sku)
      /\ pc' = [pc EXCEPT ![r] = p] /\ line' = [line EXCEPT ![r] = n + 1]
      /\ taken' = [taken EXCEPT ![r] = t]
      /\ UNCHANGED <<placed, ready, dlq, delivery, live, faults>> /\ UNCHANGED databaseVars
  BY <1>1 DEF Decrement, Goto, Item, Available, TheOrder, brokerVars, TypeOK
<1>3. o \in Order
  BY <1>1, <1>2 DEF TypeOK, Handling, TheOrder, Delivery
<1>4. /\ n \in Nat \ {0} /\ n <= Len(Lines[o]) /\ Len(Lines[o]) \in Nat
      /\ \A s \in Sku : taken[r][s] = UnitsIn(o, Before(o, n, s))
  BY <1>1, <1>2, <1>3, LinesType DEF TypeOK, TakenInStep
<1>5. i.sku \in Sku /\ i.quantity \in Nat \ {0}
  BY <1>3, <1>4, LinesType
<1>6. taken[r] \in [Sku -> Nat] /\ products \in [Sku -> Int]
  BY <1>1 DEF TypeOK
<1>7. /\ t \in [Sku -> Nat]
      /\ \A s \in Sku : t[s] = taken[r][s] + IF i.sku = s THEN i.quantity ELSE 0
  BY <1>5, <1>6, SMTT(30)
<1>8. \A s \in Sku : t[s] = UnitsIn(o, Before(o, n + 1, s))
  <2>1. SUFFICES ASSUME NEW s \in Sku
                 PROVE  t[s] = UnitsIn(o, Before(o, n + 1, s))
    OBVIOUS
  <2>2. n \in 1 .. Len(Lines[o])
    BY <1>4
  <2>3. UnitsIn(o, Before(o, n + 1, s)) =
          UnitsIn(o, Before(o, n, s)) + IF i.sku = s THEN i.quantity ELSE 0
    BY <1>3, <2>2, LinesAddUp
  <2>4. QED
    BY <1>4, <1>7, <2>3
<1>9. /\ pc'[r] = p /\ line'[r] = n + 1 /\ taken'[r] = t /\ TheOrder(r)' = o
  <2>1. /\ pc \in [Replica -> ReplicaPc] /\ line \in [Replica -> Nat \ {0}]
        /\ taken \in [Replica -> [Sku -> Nat]]
    BY <1>1 DEF TypeOK
  <2> HIDE DEF p, t, n
  <2>2. QED
    BY <1>2, <2>1 DEF TheOrder
<1>10. TakenInStep(r)'
  <2>1. CASE n = Len(Lines[o])
    <3>1. pc'[r] = "commit" /\ line'[r] = Len(Lines[o]) + 1
      BY <1>9, <2>1
    <3>2. \A s \in Sku : taken'[r][s] = Demand[o][s]
      <4>1. 1 \in 1 .. Len(Lines[o])
        BY <1>3, LinesType
      <4>2. \A s \in Sku : t[s] = Demand[o][s]
        BY <1>3, <1>8, <2>1, <4>1, LinesAddUp
      <4>3. QED
        BY <1>9, <4>2
    <3>3. \A s \in Sku : taken'[r][s] = Demand[TheOrder(r)'][s]
      BY <1>9, <3>2
    <3> HIDE DEF o
    <3>4. QED
      BY <1>9, <3>1, <3>3 DEF TakenInStep, InTransaction
  <2>2. CASE n # Len(Lines[o])
    <3>1. pc'[r] = "lines" /\ line'[r] = n + 1 /\ n + 1 <= Len(Lines[o])
      BY <1>4, <1>9, <2>2
    <3>2. \A s \in Sku : taken'[r][s] = UnitsIn(o, Before(o, n + 1, s))
      BY <1>8, <1>9
    <3> HIDE DEF o, n
    <3>3. QED
      BY <1>9, <3>1, <3>2 DEF TakenInStep, InTransaction
  <2>3. QED
    BY <2>1, <2>2, SMTT(30)
<1>11. ASSUME NEW s \in Sku
       PROVE  /\ t[s] <= products[s]
              /\ t[s] > 0 => taken[r][s] > 0 \/ \A q \in Replica \ {r} : ~ Locked(q, s)
  <2>1. taken[r][s] <= products[s]
    BY <1>1, SMTT(30) DEF RowsGuarded
  <2>2. t[s] = taken[r][s] + IF i.sku = s THEN i.quantity ELSE 0
    BY <1>7
  <2> HIDE DEF t, i
  <2>3. CASE i.sku = s
    BY <1>2, <1>5, <1>6, <2>2, <2>3
  <2>4. CASE i.sku # s
    BY <1>6, <2>1, <2>2, <2>4
  <2>5. QED
    BY <2>3, <2>4
<1>12. p \in {"lines", "commit"} /\ n + 1 \in Nat \ {0}
  BY <1>4
<1> HIDE DEF p, t, n, i, o
<1>13. QED
  BY <1>2, <1>7, <1>10, <1>11, <1>12, StatementFrame

LEMMA FallShortPreserves ==
  ASSUME ReplicasInv, NEW r \in Replica, FallShort(r)
  PROVE  ReplicasInv'
<1> DEFINE o == TheOrder(r)
           n == line[r]
           i == Lines[o][n]
<1>1. TypeOK /\ RowsGuarded /\ TakenInStep(r)
  BY DEF ReplicasInv
<1>2. /\ pc[r] = "lines" /\ i.quantity > products[i.sku] - taken[r][i.sku]
      /\ pc' = [pc EXCEPT ![r] = "commit"] /\ line' = [line EXCEPT ![r] = n]
      /\ taken' = [taken EXCEPT ![r] = Nothing]
      /\ UNCHANGED <<placed, ready, dlq, delivery, live, line, faults>>
      /\ UNCHANGED databaseVars
  BY <1>1 DEF FallShort, Goto, Item, Available, TheOrder, brokerVars, TypeOK
<1>3. o \in Order
  BY <1>1, <1>2 DEF TypeOK, Handling, TheOrder, Delivery
<1>4. /\ n \in Nat \ {0} /\ n <= Len(Lines[o]) /\ Len(Lines[o]) \in Nat
      /\ \A s \in Sku : taken[r][s] = UnitsIn(o, Before(o, n, s))
  BY <1>1, <1>2, <1>3, LinesType DEF TypeOK, TakenInStep
<1>5. i.sku \in Sku /\ i.quantity \in Nat \ {0}
  BY <1>3, <1>4, LinesType
<1>6. taken[r] \in [Sku -> Nat] /\ products \in [Sku -> Int]
  BY <1>1 DEF TypeOK
<1>7. \E s \in Sku : Demand[o][s] > products[s]
  <2>1. n \in 1 .. Len(Lines[o])
    BY <1>4
  <2>2. /\ UnitsIn(o, Before(o, n + 1, i.sku))
             = UnitsIn(o, Before(o, n, i.sku)) + i.quantity
        /\ UnitsIn(o, Before(o, n + 1, i.sku)) <= Demand[o][i.sku]
        /\ UnitsIn(o, Before(o, n, i.sku)) \in Nat
    BY <1>3, <1>5, <2>1, LinesAddUp
  <2>3. Demand[o][i.sku] \in Nat
    BY <1>3, <1>5, <2>1, LinesAddUp
  <2>4. products[i.sku] \in Int /\ taken[r][i.sku] = UnitsIn(o, Before(o, n, i.sku))
    BY <1>4, <1>5, <1>6
  <2>5. Demand[o][i.sku] > products[i.sku]
    <3> HIDE DEF i, n, o
    <3>1. QED
      BY <1>2, <1>5, <2>2, <2>3, <2>4
  <2>6. QED
    BY <1>5, <2>5
<1>8. /\ pc'[r] = "commit" /\ line'[r] = n /\ taken'[r] = Nothing /\ TheOrder(r)' = o
  BY <1>1, <1>2 DEF TypeOK, TheOrder
<1>9. TakenInStep(r)'
  <2>1. \E s \in Sku : Demand[TheOrder(r)'][s] > products'[s]
    BY <1>2, <1>7, <1>8 DEF databaseVars
  <2>2. line'[r] <= Len(Lines[TheOrder(r)'])
    BY <1>4, <1>8
  <2> HIDE DEF o, n
  <2>3. QED
    BY <1>8, <2>1, <2>2 DEF TakenInStep, InTransaction
<1>10. ASSUME NEW s \in Sku
       PROVE  Nothing[s] <= products[s] /\ ~ Nothing[s] > 0
  BY <1>1, <1>6 DEF RowsGuarded, Nothing
<1>11. Nothing \in [Sku -> Nat]
  BY DEF Nothing
<1> HIDE DEF n, o, i
<1>12. QED
  BY <1>2, <1>4, <1>9, <1>10, <1>11, StatementFrame

LEMMA LoseConnectionPreserves ==
  ASSUME ReplicasInv, NEW r \in Replica, LoseConnection(r)
  PROVE  ReplicasInv'
<1>1. /\ Handling(r) /\ Fault("connection") /\ live' = [live EXCEPT ![r] = FALSE]
      /\ ready' = ready \cup {delivery[r]}
      /\ UNCHANGED <<placed, dlq, pc, delivery, line, taken>> /\ UNCHANGED databaseVars
  BY DEF LoseConnection
<1>2. TypeOK /\ RowsGuarded /\ MigrationGuarded /\ OnlyPlaced /\ TakenInStep(r)
  BY DEF ReplicasInv
<1>3. /\ OnlyAt(r) /\ ReplicaFunctions' /\ live'[r] = FALSE
      /\ pc'[r] = pc[r] /\ delivery'[r] = delivery[r]
      /\ line'[r] = line[r] /\ taken'[r] = taken[r]
  <2>1. OnlyAt(r) /\ ReplicaFunctions'
    BY <1>1, <1>2 DEF TypeOK, OnlyAt, ReplicaFunctions
  <2>2. live'[r] = FALSE
    BY <1>1, <1>2, Zenon DEF TypeOK
  <2>3. QED
    BY <1>1, <2>1, <2>2
<1>4. Handling(r)' /\ (InTransaction(r)' => InTransaction(r))
  BY <1>1 DEF Handling, InTransaction
<1>5. TypedAt(r)'
  <2>1. TypedAt(r)
    BY <1>2 DEF TypeOK, TypedAt
  <2>2. live'[r] \in BOOLEAN
    BY <1>3, Zenon
  <2>3. QED
    BY <1>1, <1>3, <1>4, <2>1, <2>2, Zenon DEF TypedAt
<1>6. TakenInStep(r)'
  BY <1>1, <1>2 DEF TakenInStep, InTransaction, TheOrder, databaseVars
<1>7. /\ BrokerTyped' /\ \A d \in ready' : d.order \in placed'
      /\ delivery'[r].order \in placed'
  BY <1>1, <1>2 DEF TypeOK, BrokerTyped, OnlyPlaced, TheOrder
<1>8. faults' \in 0 .. MaxFaults
  BY <1>1, <1>2, FaultBound DEF TypeOK
<1>9. \A s \in Sku : taken'[r][s] <= products[s] /\ (taken'[r][s] > 0 => taken[r][s] > 0)
  BY <1>2, <1>3 DEF RowsGuarded
<1>10. schema = "head" /\ pc'[r] # "upgraded"
  BY <1>1, <1>2, <1>3 DEF MigrationGuarded, Handling
<1>11. QED
  BY <1>1, <1>3, <1>4, <1>5, <1>6, <1>7, <1>8, <1>9, <1>10, ReplicaFrame

-----------------------------------------------------------------------------
(* Steps that change the database.                                         *)

LEMMA CommitUpgradePreserves ==
  ASSUME ReplicasInv, NEW r \in Replica, CommitUpgrade(r)
  PROVE  ReplicasInv'
<1>1. /\ pc[r] = "upgraded" /\ schema' = "head" /\ products' = InitialStock
      /\ pc' = [pc EXCEPT ![r] = "idle"]
      /\ UNCHANGED <<placed, ready, dlq, processed, decision>>
      /\ UNCHANGED <<delivery, live, line, taken, faults>>
  BY DEF CommitUpgrade, Goto, brokerVars
<1>2. /\ TypeOK /\ RowsGuarded /\ MigrationGuarded /\ OrdersGuarded /\ OnlyPlaced
      /\ \A q \in Replica : TakenInStep(q)
  BY DEF ReplicasInv
<1>3. /\ \A q \in Replica : ~ Handling(q) /\ ~ InTransaction(q)
      /\ \A q \in Replica \ {r} : pc[q] \notin {"idle", "upgraded"}
  BY <1>1, <1>2 DEF MigrationGuarded, Handling, InTransaction
<1>4. \A q \in Replica : taken[q] = Nothing /\ line[q] = 1
  BY <1>2, <1>3 DEF TakenInStep, Handling, InTransaction
<1>5. /\ \A q \in Replica : pc'[q] = IF q = r THEN "idle" ELSE pc[q]
      /\ pc' \in [Replica -> ReplicaPc]
  BY <1>1, <1>2 DEF TypeOK, ReplicaPc
<1>6. \A q \in Replica : ~ Handling(q)' /\ ~ InTransaction(q)' /\ pc'[q] # "upgraded"
  BY <1>3, <1>5 DEF Handling, InTransaction
<1>7. TypeOK'
  <2>1. products' \in [Sku -> Int]
    BY <1>1, StockAssumption
  <2>2. QED
    BY <1>1, <1>2, <1>3, <1>5, <1>6, <2>1 DEF TypeOK
<1>8. RowsGuarded'
  <2>1. \A s \in Sku, q \in Replica : taken'[q][s] = 0
    BY <1>1, <1>4 DEF Nothing
  <2>2. \A s \in Sku : products'[s] \in Nat
    BY <1>1, StockAssumption
  <2>3. QED
    BY <2>1, <2>2 DEF RowsGuarded, Locked
<1>9. \A q \in Replica : TakenInStep(q)'
  BY <1>1, <1>4, <1>6 DEF TakenInStep, InTransaction
<1>10. MigrationGuarded' /\ OrdersGuarded' /\ OnlyPlaced'
  BY <1>1, <1>2, <1>6 DEF MigrationGuarded, OrdersGuarded, OnlyPlaced
<1>11. QED
  BY <1>7, <1>8, <1>9, <1>10 DEF ReplicasInv

\* A commit, whether or not its answer comes back.
LEMMA CommitFrame ==
  ASSUME ReplicasInv, NEW r \in Replica, Committed(r),
         OnlyAt(r), TypedAt(r)', BrokerTyped', ReplicaFunctions',
         faults' \in 0 .. MaxFaults,
         taken'[r] = Nothing, pc'[r] \in {"publish", "idle"},
         pc'[r] = "idle" => line'[r] = 1,
         Handling(r)' => delivery'[r] = delivery[r],
         UNCHANGED placed, \A d \in ready' : d.order \in placed'
  PROVE  ReplicasInv'
<1> DEFINE o == TheOrder(r)
<1>1. /\ TypeOK /\ RowsGuarded /\ MigrationGuarded /\ OrdersGuarded /\ OnlyPlaced
      /\ \A q \in Replica : TakenInStep(q)
  BY DEF ReplicasInv
<1>2. /\ pc[r] = "commit"
      /\ products' = [s \in Sku |-> products[s] - taken[r][s]]
      /\ processed' = processed \cup {o}
      /\ decision' = [decision EXCEPT ![o] = Verdict(r)] /\ schema' = schema
  BY DEF Committed
<1>3. Handling(r) /\ InTransaction(r) /\ o \in Order /\ o \in placed /\ schema = "head"
  BY <1>1, <1>2 DEF TypeOK, Handling, InTransaction, TheOrder, Delivery, OnlyPlaced,
                    MigrationGuarded
<1>4. ASSUME NEW q \in Replica, q # r
      PROVE  /\ pc'[q] = pc[q] /\ delivery'[q] = delivery[q]
             /\ line'[q] = line[q] /\ taken'[q] = taken[q]
  BY <1>4 DEF OnlyAt
<1>5. ~ InTransaction(r)' /\ pc'[r] # "upgraded"
  BY DEF InTransaction
<1>6. /\ products \in [Sku -> Int] /\ taken \in [Replica -> [Sku -> Nat]]
      /\ decision \in [Order -> {"none", "reserved", "rejected"}]
  BY <1>1 DEF TypeOK
<1>7. \A s \in Sku : products'[s] = products[s] - taken[r][s] /\ products'[s] <= products[s]
  BY <1>2, <1>6
<1>8. Verdict(r) \in {"reserved", "rejected"}
  BY DEF Verdict
<1>9. TypeOK'
  <2>1. DatabaseTyped'
    BY <1>1, <1>2, <1>3, <1>6, <1>8 DEF TypeOK, DatabaseTyped
  <2>2. QED
    BY <1>1, <2>1, TypeFrame
<1>10. RowsGuarded'
  <2>1. SUFFICES ASSUME NEW s \in Sku, NEW p \in Replica
                 PROVE  /\ taken'[p][s] <= products'[s]
                        /\ \A q \in Replica \ {p} : Locked(p, s)' => ~ Locked(q, s)'
    BY DEF RowsGuarded
  <2>2. \A q \in Replica : /\ taken[q][s] \in Nat /\ taken[q][s] <= products[s]
    BY <1>1, <1>6 DEF RowsGuarded
  <2>3. taken'[p][s] <= products'[s]
    <3>1. CASE p = r
      BY <1>6, <1>7, <2>2, <3>1 DEF Nothing
    <3>2. CASE p # r
      <4>1. ~ taken[r][s] > 0 \/ ~ taken[p][s] > 0
        BY <1>1, <3>2 DEF RowsGuarded, Locked
      <4>2. QED
        BY <1>4, <1>6, <1>7, <2>2, <3>2, <4>1
    <3>3. QED
      BY <3>1, <3>2
  <2>4. ASSUME NEW q \in Replica \ {p}, taken'[p][s] > 0
        PROVE  ~ taken'[q][s] > 0
    <3>1. p # r
      BY <2>4 DEF Nothing
    <3>2. CASE q = r
      BY <3>2 DEF Nothing
    <3>3. CASE q # r
      BY <1>1, <1>4, <2>4, <3>1, <3>3 DEF RowsGuarded, Locked
    <3>4. QED
      BY <3>2, <3>3
  <2>5. QED
    BY <2>3, <2>4 DEF Locked
<1>11. \A q \in Replica : TakenInStep(q)'
  <2>1. SUFFICES ASSUME NEW q \in Replica
                 PROVE  TakenInStep(q)'
    OBVIOUS
  <2>2. CASE q = r
    BY <1>5, <2>2 DEF TakenInStep, InTransaction
  <2>3. CASE q # r
    <3>1. TakenInStep(q)
      BY <1>1
    <3>2. ASSUME NEW x \in Order, \E s \in Sku : Demand[x][s] > products[s]
          PROVE  \E s \in Sku : Demand[x][s] > products'[s]
      <4>1. PICK s \in Sku : Demand[x][s] > products[s]
        BY <3>2
      <4>2. Demand[x][s] \in Nat
        BY LinesType, LinesAddUp
      <4>3. Demand[x][s] > products'[s]
        BY <1>6, <1>7, <4>1, <4>2
      <4>4. QED
        BY <4>3
    <3>3. pc[q] = "commit" => TheOrder(q) \in Order
      BY <1>1 DEF TypeOK, Handling, TheOrder, Delivery
    <3>4. QED
      BY <1>4, <2>3, <3>1, <3>2, <3>3, SMTT(30) DEF TakenInStep, InTransaction, TheOrder
  <2>4. QED
    BY <2>2, <2>3
<1>12. MigrationGuarded'
  BY <1>1, <1>2, <1>3, <1>4, <1>5 DEF MigrationGuarded, Handling
<1>13. OrdersGuarded'
  <2>1. ASSUME NEW p \in Replica, NEW q \in Replica, InTransaction(p)', InTransaction(q)',
               delivery'[p].order = delivery'[q].order
        PROVE  p = q
    BY <1>1, <1>4, <1>5, <2>1 DEF OrdersGuarded, InTransaction, TheOrder
  <2>2. ASSUME NEW q \in Replica, InTransaction(q)'
        PROVE  delivery'[q].order \notin processed'
    BY <1>1, <1>2, <1>3, <1>4, <1>5, <2>2 DEF OrdersGuarded, InTransaction, TheOrder
  <2>3. ASSUME NEW x \in Order
        PROVE  x \in processed' <=> decision'[x] # "none"
    BY <1>1, <1>2, <1>3, <1>6, <1>8 DEF OrdersGuarded
  <2>4. QED
    BY <2>1, <2>2, <2>3 DEF OrdersGuarded, TheOrder
<1>14. OnlyPlaced'
  BY <1>1, <1>3, <1>4 DEF OnlyPlaced, Handling, TheOrder
<1>15. QED
  BY <1>9, <1>10, <1>11, <1>12, <1>13, <1>14 DEF ReplicasInv

LEMMA CommitPreserves ==
  ASSUME ReplicasInv, NEW r \in Replica, Commit(r)
  PROVE  ReplicasInv'
<1>1. /\ Committed(r) /\ pc[r] = "commit" /\ taken' = [taken EXCEPT ![r] = Nothing]
      /\ pc' = [pc EXCEPT ![r] = "publish"]
      /\ UNCHANGED <<placed, ready, dlq, delivery, live, line, faults>>
  BY DEF Commit, Committed, Goto, brokerVars
<1>2. TypeOK /\ OnlyPlaced
  BY DEF ReplicasInv
<1>3. /\ OnlyAt(r) /\ ReplicaFunctions'
      /\ pc'[r] = "publish" /\ delivery'[r] = delivery[r] /\ live'[r] = live[r]
      /\ line'[r] = line[r] /\ taken'[r] = Nothing
  <2>1. OnlyAt(r) /\ ReplicaFunctions'
    BY <1>1, <1>2 DEF TypeOK, OnlyAt, ReplicaFunctions
  <2>2. QED
    BY <1>1, <1>2, <2>1 DEF TypeOK
<1>4. Handling(r) /\ Handling(r)'
  BY <1>1, <1>3 DEF Handling
<1>5. TypedAt(r)'
  <2>1. TypedAt(r)
    BY <1>2 DEF TypeOK, TypedAt
  <2>2. pc'[r] \in ReplicaPc /\ taken'[r] \in [Sku -> Nat]
    BY <1>3 DEF ReplicaPc, Nothing
  <2>3. QED
    BY <1>3, <1>4, <2>1, <2>2, Zenon DEF TypedAt
<1>6. BrokerTyped' /\ faults' \in 0 .. MaxFaults /\ \A d \in ready' : d.order \in placed'
  BY <1>1, <1>2 DEF TypeOK, BrokerTyped, OnlyPlaced
<1>7. QED
  BY <1>1, <1>3, <1>5, <1>6, CommitFrame

LEMMA CommitUnansweredPreserves ==
  ASSUME ReplicasInv, NEW r \in Replica, CommitUnanswered(r)
  PROVE  ReplicasInv'
<1>1. /\ Committed(r) /\ pc[r] = "commit" /\ Dispatch(r) /\ Fault("database")
      /\ pc' = [pc EXCEPT ![r] = "idle"] /\ delivery' = [delivery EXCEPT ![r] = NoDelivery]
      /\ live' = [live EXCEPT ![r] = FALSE] /\ line' = [line EXCEPT ![r] = 1]
      /\ taken' = [taken EXCEPT ![r] = Nothing] /\ UNCHANGED placed
  BY DEF CommitUnanswered, Committed, HandlerFails, Rollback, Done, Goto
<1>2. TypeOK /\ OnlyPlaced
  BY DEF ReplicasInv
<1>3. /\ OnlyAt(r) /\ ReplicaFunctions'
      /\ pc'[r] = "idle" /\ delivery'[r] = NoDelivery /\ line'[r] = 1 /\ taken'[r] = Nothing
  BY <1>1, <1>2 DEF TypeOK, OnlyAt, ReplicaFunctions
<1>4. live'[r] = FALSE
  BY <1>1, <1>2, Zenon DEF TypeOK
<1>5. Handling(r) /\ ~ Handling(r)'
  BY <1>1, <1>3 DEF Handling
<1>6. TypedAt(r)'
  <2>1. pc'[r] \in ReplicaPc /\ taken'[r] \in [Sku -> Nat] /\ line'[r] \in Nat \ {0}
    BY <1>3 DEF ReplicaPc, Nothing
  <2>2. ~ live'[r] /\ live'[r] \in BOOLEAN
    BY <1>4, Zenon
  <2>3. QED
    BY <1>3, <1>5, <2>1, <2>2, Zenon DEF TypedAt
<1>7. BrokerTyped' /\ \A d \in ready' : d.order \in placed'
  BY <1>1, <1>2, <1>5, DispatchLemma DEF BrokerTyped, TypeOK, OnlyPlaced
<1>8. faults' \in 0 .. MaxFaults
  BY <1>1, <1>2, FaultBound DEF TypeOK
<1>9. QED
  BY <1>1, <1>3, <1>5, <1>6, <1>7, <1>8, CommitFrame

-----------------------------------------------------------------------------
(* The theorems.                                                           *)

LEMMA InitHolds == Init => ReplicasInv
<1> SUFFICES ASSUME Init PROVE ReplicasInv
  OBVIOUS
<1>1. /\ \A r \in Replica : /\ pc[r] = "boot" /\ delivery[r] = NoDelivery /\ ~ live[r]
                            /\ line[r] = 1 /\ taken[r] = Nothing
                            /\ ~ Handling(r) /\ ~ InTransaction(r)
  BY DEF Init, Handling, InTransaction
<1>2. TypeOK
  <2>1. /\ products \in [Sku -> Int] /\ pc \in [Replica -> ReplicaPc]
        /\ delivery \in [Replica -> Delivery \cup {NoDelivery}]
        /\ line \in [Replica -> Nat \ {0}] /\ taken \in [Replica -> [Sku -> Nat]]
        /\ decision \in [Order -> {"none", "reserved", "rejected"}]
    BY DEF Init, Nothing, ReplicaPc
  <2>2. live \in [Replica -> BOOLEAN]
    BY DEF Init
  <2>3. faults \in 0 .. MaxFaults
    BY FaultsAssumption DEF Init
  <2>4. QED
    BY <1>1, <2>1, <2>2, <2>3 DEF Init, TypeOK
<1>3. RowsGuarded
  <2>1. \A s \in Sku : products[s] = 0 /\ \A r \in Replica : taken[r][s] = 0
    BY <1>1 DEF Init, Nothing
  <2>2. QED
    BY <2>1 DEF RowsGuarded, Locked
<1>4. \A r \in Replica : TakenInStep(r)
  BY <1>1 DEF TakenInStep, InTransaction
<1>5. MigrationGuarded /\ OrdersGuarded /\ OnlyPlaced
  BY <1>1 DEF Init, MigrationGuarded, OrdersGuarded, OnlyPlaced
<1>6. QED
  BY <1>2, <1>3, <1>4, <1>5 DEF ReplicasInv

LEMMA NextPreserves ==
  ASSUME ReplicasInv, [Next]_vars
  PROVE  ReplicasInv'
<1>1. CASE \E o \in Order : Place(o)
  BY <1>1, PlacePreserves
<1>2. ASSUME NEW r \in Replica, Step(r)
      PROVE  ReplicasInv'
  BY <1>2, BootPreserves, CommitUpgradePreserves, TakePreserves, RegisterPreserves,
     DecrementPreserves, FallShortPreserves, CommitPreserves, PublishAndAckPreserves,
     FailuresPreserve DEF Step
<1>3. ASSUME NEW r \in Replica, Fails(r)
      PROVE  ReplicasInv'
  BY <1>3, CommitUnansweredPreserves, FailuresPreserve, LoseConnectionPreserves,
     CrashPreserves DEF Fails
<1>4. CASE UNCHANGED vars
  <2>1. UNCHANGED <<schema, products, processed, decision, placed, ready, dlq>>
        /\ UNCHANGED <<pc, delivery, live, line, taken, faults>>
    BY <1>4 DEF vars, brokerVars, databaseVars
  <2>2. /\ TypeOK' /\ RowsGuarded' /\ MigrationGuarded' /\ OrdersGuarded' /\ OnlyPlaced'
    BY <2>1 DEF ReplicasInv, TypeOK, RowsGuarded, Locked, MigrationGuarded, OrdersGuarded,
                OnlyPlaced, Handling, InTransaction, TheOrder
  <2>3. \A q \in Replica : TakenInStep(q)'
    BY <2>1 DEF ReplicasInv, TakenInStep, InTransaction, TheOrder
  <2>4. QED
    BY <2>2, <2>3 DEF ReplicasInv
<1>5. QED
  BY <1>1, <1>2, <1>3, <1>4 DEF Next

\* Whatever the replicas, however their statements interleave and whatever
\* fails: what a transaction took is what its lines ask for so far, an order
\* is in one open transaction at most, and a refusal the database has not
\* committed yet is still right when it commits.
THEOREM ReplicasInvariant == Spec => []ReplicasInv
<1>1. Init => ReplicasInv
  BY InitHolds
<1>2. ReplicasInv /\ [Next]_vars => ReplicasInv'
  BY NextPreserves
<1>3. QED
  BY <1>1, <1>2, PTL DEF Spec

\* The variables are typed.
THEOREM ReplicasTyped == Spec => []TypeOK
<1>1. ReplicasInv => TypeOK
  BY DEF ReplicasInv
<1>2. QED
  BY <1>1, ReplicasInvariant, PTL

\* One transaction at a time has uncommitted changes to a row, and never
\* takes more than the row holds: stock does not go below zero.
THEOREM StockNeverNegative == Spec => []RowsGuarded
<1>1. ReplicasInv => RowsGuarded
  BY DEF ReplicasInv
<1>2. QED
  BY <1>1, ReplicasInvariant, PTL

-----------------------------------------------------------------------------
(* The refinement.                                                         *)

\* A commit is the lifecycle's decision of the order, by the stock there is.
LEMMA CommitDecides ==
  ASSUME ReplicasInv, NEW r \in Replica, Committed(r), UNCHANGED placed
  PROVE  Lifecycle!LifecycleNext
<1> DEFINE o == TheOrder(r)
           status == [x \in Order |-> IF x \in placed THEN "pending" ELSE "none"]
<1>1. TypeOK /\ MigrationGuarded /\ OrdersGuarded /\ OnlyPlaced /\ TakenInStep(r)
  BY DEF ReplicasInv
<1>2. /\ pc[r] = "commit" /\ schema' = schema
      /\ products' = [s \in Sku |-> products[s] - taken[r][s]]
      /\ decision' = [decision EXCEPT ![o] = Verdict(r)]
  BY DEF Committed
<1>3. /\ schema = "head" /\ o \in Order /\ o \in placed /\ decision[o] = "none"
  BY <1>1, <1>2 DEF TypeOK, MigrationGuarded, OrdersGuarded, OnlyPlaced, Handling,
                    InTransaction, TheOrder, Delivery
<1>4. /\ products \in [Sku -> Int] /\ line[r] \in Nat /\ Len(Lines[o]) \in Nat
  BY <1>1, <1>3, LinesType DEF TypeOK
<1>5. status[o] = "pending"
  BY <1>3
<1>6. CASE /\ line[r] = Len(Lines[o]) + 1
           /\ \A s \in Sku : taken[r][s] = Demand[o][s]
  <2>1. Verdict(r) = "reserved"
    BY <1>4, <1>6 DEF Verdict
  <2>2. \A s \in Sku : Demand[o][s] <= products[s]
    BY <1>6 DEF ReplicasInv, RowsGuarded
  <2>3. products' = [s \in Sku |-> products[s] - Demand[o][s]]
    BY <1>2, <1>6
  <2>4. Lifecycle!SetAside(o)
    BY <1>2, <1>3, <1>5, <2>1, <2>2, <2>3 DEF Lifecycle!SetAside
  <2>5. QED
    BY <1>3, <2>4 DEF Lifecycle!LifecycleNext
<1>7. CASE /\ line[r] <= Len(Lines[o]) /\ taken[r] = Nothing
           /\ \E s \in Sku : Demand[o][s] > products[s]
  <2>1. Verdict(r) = "rejected"
    BY <1>4, <1>7 DEF Verdict
  <2>2. products' = products
    BY <1>2, <1>4, <1>7 DEF Nothing
  <2>3. Lifecycle!TurnDown(o)
    BY <1>2, <1>3, <1>5, <1>7, <2>1, <2>2 DEF Lifecycle!TurnDown
  <2>4. QED
    BY <1>3, <2>3 DEF Lifecycle!LifecycleNext
<1>8. QED
  BY <1>1, <1>2, <1>6, <1>7 DEF TakenInStep

\* Every other step places an order or is none of the lifecycle's.
LEMMA StepRefines ==
  ASSUME ReplicasInv, [Next]_vars
  PROVE  \/ Lifecycle!LifecycleNext
         \/ /\ UNCHANGED <<placed, decision>>
            /\ (IF schema' = "head" THEN products' ELSE InitialStock)
                 = IF schema = "head" THEN products ELSE InitialStock
<1>1. CASE \E o \in Order : Place(o)
  <2>1. PICK o \in Order : Place(o)
    BY <1>1
  <2>2. Lifecycle!Place(o)
    BY <2>1 DEF Place, databaseVars, Lifecycle!Place
  <2>3. QED
    BY <2>2 DEF Lifecycle!LifecycleNext
<1>2. CASE \E r \in Replica : Commit(r) \/ CommitUnanswered(r)
  BY <1>2, CommitDecides DEF Commit, CommitUnanswered, HandlerFails, brokerVars
<1>3. CASE \E r \in Replica : CommitUpgrade(r)
  BY <1>3 DEF CommitUpgrade, brokerVars, ReplicasInv, MigrationGuarded
<1>4. ASSUME NEW r \in Replica,
             \/ ReadRevision(r) \/ Upgrade(r) \/ \E d \in ready : Take(r, d)
             \/ Register(r) \/ Decrement(r) \/ FallShort(r) \/ PublishAndAck(r)
             \/ DeadlockDetected(r) \/ PublishFails(r) \/ DatabaseFails(r)
             \/ LoseConnection(r) \/ Crash(r)
      PROVE  UNCHANGED <<placed, decision, schema, products>>
  BY <1>4 DEF ReadRevision, Upgrade, Take, Register, Decrement, FallShort, PublishAndAck,
              DeadlockDetected, PublishFails, DatabaseFails, LoseConnection, Crash,
              HandlerFails, brokerVars, databaseVars
<1>5. CASE UNCHANGED vars
  BY <1>5 DEF vars, brokerVars, databaseVars
<1>6. QED
  BY <1>1, <1>2, <1>3, <1>4, <1>5 DEF Next, Step, Fails

\* However the replicas' statements interleave, the stock is seeded once and
\* each order is decided once, wholly or not at all, by the stock there is
\* when its decision commits.
THEOREM ReplicasImplementLifecycle == Spec => ReservesAtomically
<1>1. Init => Lifecycle!LifecycleInit
  BY DEF Init, Lifecycle!LifecycleInit
<1>2. ReplicasInv /\ [Next]_vars => [Lifecycle!LifecycleNext]_(Lifecycle!lifecycleVars)
  BY StepRefines DEF Lifecycle!lifecycleVars
<1>3. QED
  BY <1>1, <1>2, ReplicasInvariant, PTL
     DEF Spec, ReservesAtomically, Lifecycle!LifecycleSpec
=============================================================================
