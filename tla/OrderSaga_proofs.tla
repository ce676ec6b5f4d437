-------------------------- MODULE OrderSaga_proofs --------------------------
(***************************************************************************)
(* Proofs about OrderSaga, for every set of orders and products, every     *)
(* demand and stock, and any number of faults.                             *)
(***************************************************************************)
EXTENDS OrderSaga, SetSums, TLAPS

LEMMA MaxRetriesIs3 == MaxRetries = 3
BY DEF MaxRetries, RetryStages

-----------------------------------------------------------------------------
(* The pieces a delivery's step is built from.                             *)

\* A failed task stays with its message; it nacks a transient failure only
\* when the message has used all its retries.
LEMMA FailLemma ==
  ASSUME NEW t \in Task(minted), NEW class \in ErrorClass
  PROVE  /\ Fail(t, class) \in Task(minted)
         /\ Fail(t, class).msg = t.msg /\ Fail(t, class).epoch = t.epoch
         /\ Fail(t, class).pc \in {"republish", "nack"}
         /\ class = "TRANSIENT" /\ Fail(t, class).pc = "nack"
              => t.msg.retries = MaxRetries
<1>1. t.msg.retries \in 0 .. 3
  BY MaxRetriesIs3 DEF Task, Message
<1>2. DecideRetry(t.msg.retries, "TRANSIENT").action # "RETRY" => t.msg.retries = 3
  BY <1>1, MaxRetriesIs3 DEF DecideRetry
<1>3. QED
  BY <1>2, MaxRetriesIs3 DEF Fail, FailurePc, Task, TaskPc

\* The retry copy is a message for the same queue about the same event.
LEMMA RetryCopyLemma ==
  ASSUME NEW m \in Message(minted), NEW c \in CopyId
  PROVE  /\ RetryCopy(m, c) \in Message(minted)
         /\ RetryCopy(m, c).queue = m.queue /\ RetryCopy(m, c).event = m.event
<1>1. m.retries \in 0 .. 3
  BY MaxRetriesIs3 DEF Message
<1>2. DecideRetry(m.retries, "TRANSIENT").next \in 0 .. 3
  BY <1>1, MaxRetriesIs3 DEF DecideRetry
<1>3. QED
  BY <1>2, MaxRetriesIs3 DEF RetryCopy, Message

\* The task a delivery starts carries the message it was started for.
LEMMA NewTaskLemma ==
  ASSUME NEW E, NEW m \in Message(E), NEW pc \in TaskPc, NEW out \in SUBSET E,
         epoch \in [Queue -> Nat]
  PROVE  /\ NewTask(m, pc, out) \in Task(E)
         /\ NewTask(m, pc, out).msg = m /\ NewTask(m, pc, out).pc = pc
         /\ Live(NewTask(m, pc, out))
BY DEF NewTask, Task, Message, Live

\* A fault stays within the bound on faults.
LEMMA FaultLemma ==
  ASSUME faults \in 0 .. MaxFaults, NEW kind, Fault(kind)
  PROVE  faults' \in 0 .. MaxFaults
BY FaultsAssumption DEF Fault

\* Message and task types grow with the events constructed.
LEMMA TypesGrow ==
  ASSUME NEW E, NEW F, E \subseteq F
  PROVE  Message(E) \subseteq Message(F) /\ Task(E) \subseteq Task(F)
<1>1. Message(E) \subseteq Message(F)
  BY DEF Message
<1>2. Task(E) \subseteq Task(F)
  BY <1>1 DEF Task
<1>3. QED
  BY <1>1, <1>2

-----------------------------------------------------------------------------
(* Steps of the broker and the dispatcher.                                 *)

ServicesUnchanged == UNCHANGED <<orderVars, inventoryVars, minted, published>>

\* Of a step that leaves the databases alone and constructs no event, only
\* the delivery parts of the invariant are in question.
LEMMA DatabasesFrame ==
  ASSUME SagaInv, UNCHANGED <<status, orderSeen, inventoryVars, minted>>,
         requests' \subseteq minted, published' \subseteq minted,
         DeliveryTypeOK(minted)', DeliveriesInStep',
         \A q \in Queue, e \in published :
           e \notin Seen(q) /\ Holds(q, e) => Holds(q, e)',
         \A q \in Queue, e \in published' \ published :
           e.kind \in Binding[q] => Holds(q, e)'
  PROVE  SagaInv'
<1>1. TypeOK' /\ IsFiniteSet(minted)'
  BY DEF SagaInv, TypeOK, inventoryVars
<1>2. DatabasesInStep' /\ EventsInStep' /\ AtMostOneOutcome'
  BY DEF SagaInv, DatabasesInStep, EventsInStep, AtMostOneOutcome, Verdict, inventoryVars
<1>3. NoEventDropped'
  <2>1. SUFFICES ASSUME NEW e \in published', NEW q \in Queue, e.kind \in Binding[q],
                        e \notin Seen(q)'
                 PROVE  Holds(q, e)'
    BY DEF NoEventDropped, Binding
  <2>2. e \notin Seen(q)
    BY <2>1 DEF Seen, inventoryVars
  <2>3. CASE e \in published
    <3>1. Holds(q, e)
      BY <2>1, <2>2, <2>3 DEF SagaInv, NoEventDropped
    <3>2. QED
      BY <2>2, <2>3, <3>1
  <2>4. QED
    BY <2>1, <2>3
<1>4. QED
  BY <1>1, <1>2, <1>3 DEF SagaInv

\* The same for a step that changes delivery variables only.
LEMMA DeliveryFrame ==
  ASSUME SagaInv, ServicesUnchanged, DeliveryTypeOK(minted)', DeliveriesInStep',
         \A q \in Queue, e \in published :
           e \notin Seen(q) /\ Holds(q, e) => Holds(q, e)'
  PROVE  SagaInv'
<1>1. /\ UNCHANGED <<status, orderSeen, inventoryVars, minted>>
      /\ requests' \subseteq minted /\ published' \subseteq minted
      /\ published' \ published = {}
  BY DEF SagaInv, TypeOK, ServicesUnchanged, orderVars
<1>2. QED
  BY <1>1, DatabasesFrame

LEMMA AckPreserves ==
  ASSUME SagaInv, ServicesUnchanged, NEW t \in tasks, Ack(t)
  PROVE  SagaInv'
<1>1. DeliveryTypeOK(minted)'
  BY DEF SagaInv, TypeOK, DeliveryTypeOK, Ack, EndTask, NoFault, ServicesUnchanged
<1>2. DeliveriesInStep'
  BY DEF SagaInv, DeliveriesInStep, InPlay, Ack, EndTask, Seen,
         ServicesUnchanged, orderVars, inventoryVars
<1>3. ASSUME NEW q \in Queue, NEW e \in published, e \notin Seen(q), Holds(q, e)
      PROVE  Holds(q, e)'
  BY <1>3 DEF SagaInv, DeliveriesInStep, Holds, Live, Ack, EndTask
<1>4. QED
  BY <1>1, <1>2, <1>3, DeliveryFrame

LEMMA AckOnLostConnectionPreserves ==
  ASSUME SagaInv, ServicesUnchanged, NEW t \in tasks, AckOnLostConnection(t)
  PROVE  SagaInv'
<1> DEFINE u == Fail(t, "TRANSIENT")
<1>0. /\ u \in Task(minted) /\ u.msg = t.msg /\ u.epoch = t.epoch
      /\ u.pc \in {"republish", "nack"} /\ (u.pc = "nack" => t.msg.retries = MaxRetries)
  BY FailLemma DEF SagaInv, TypeOK, DeliveryTypeOK, ErrorClass
<1>1. tasks' \subseteq (tasks \ {t}) \cup {u} /\ tasks \ {t} \subseteq tasks'
  BY DEF AckOnLostConnection, EndTask, Resume
<1>2. UNCHANGED <<ready, waiting, dlq, epoch, faults>>
  BY DEF AckOnLostConnection, NoFault
<1> HIDE DEF u
<1>3. DeliveryTypeOK(minted)'
  BY <1>0, <1>1, <1>2 DEF SagaInv, TypeOK, DeliveryTypeOK, ServicesUnchanged
<1>4. DeliveriesInStep'
  BY <1>0, <1>1, <1>2
     DEF SagaInv, DeliveriesInStep, InPlay, Seen, ServicesUnchanged, orderVars, inventoryVars
<1>5. ASSUME NEW q \in Queue, NEW e \in published, e \notin Seen(q), Holds(q, e)
      PROVE  Holds(q, e)'
  BY <1>1, <1>2, <1>5 DEF Holds, Live, AckOnLostConnection
<1>6. QED
  BY <1>3, <1>4, <1>5, DeliveryFrame

\* A republish and the failure of one: t moves on or ends, and at most a
\* retry copy is added.
LEMMA RepublishPreserves ==
  ASSUME SagaInv, ServicesUnchanged, NEW t \in tasks, Republish(t) \/ RepublishFails(t)
  PROVE  SagaInv'
<1>1. t \in Task(minted) /\ t.msg \in Message(minted) /\ t.pc = "republish"
  BY DEF SagaInv, TypeOK, DeliveryTypeOK, Task, Republish, RepublishFails
<1>2. PICK pc \in {"settle", "stuck"} :
        /\ tasks' = (tasks \ {t}) \cup {[t EXCEPT !.pc = pc]} \/ tasks' = tasks \ {t}
        /\ pc = "settle" => waiting' # waiting
        /\ pc = "stuck" /\ Live(t) => [t EXCEPT !.pc = "stuck"] \in tasks'
        /\ faults' \in 0 .. MaxFaults
  BY FaultsAssumption
     DEF SagaInv, TypeOK, DeliveryTypeOK, Republish, RepublishFails, Resume, EndTask,
         Fault, NoFault, NewCopy, InPlay
<1>3. PICK new \in SUBSET Message(minted) :
        /\ waiting' = waiting \cup new
        /\ \A m \in new : m.queue = t.msg.queue /\ m.event = t.msg.event
  <2>1. CASE waiting' = waiting
    <3>1. WITNESS {} \in SUBSET Message(minted)
    <3>2. QED
      BY <2>1
  <2>2. CASE \E c \in CopyId : waiting' = waiting \cup {RetryCopy(t.msg, c)}
    <3>1. PICK c \in CopyId : waiting' = waiting \cup {RetryCopy(t.msg, c)}
      BY <2>2
    <3>2. /\ RetryCopy(t.msg, c) \in Message(minted)
          /\ RetryCopy(t.msg, c).queue = t.msg.queue
          /\ RetryCopy(t.msg, c).event = t.msg.event
      BY <1>1, RetryCopyLemma
    <3> DEFINE N == {RetryCopy(t.msg, c)}
    <3>3. /\ N \in SUBSET Message(minted) /\ waiting' = waiting \cup N
          /\ \A m \in N : m.queue = t.msg.queue /\ m.event = t.msg.event
      BY <3>1, <3>2
    <3> HIDE DEF N
    <3>4. QED
      BY <3>3
  <2>3. QED
    BY <2>1, <2>2 DEF Republish, RepublishFails
<1>4. UNCHANGED <<ready, dlq, epoch>>
  BY DEF Republish, RepublishFails
<1> DEFINE u == [t EXCEPT !.pc = pc]
<1>5. u \in Task(minted) /\ u.msg = t.msg /\ u.epoch = t.epoch /\ u.pc = pc
  BY <1>1 DEF Task, TaskPc
<1> HIDE DEF u
<1>6. tasks' \subseteq (tasks \ {t}) \cup {u} /\ tasks \ {t} \subseteq tasks'
  BY <1>2 DEF u
<1>7. DeliveryTypeOK(minted)'
  BY <1>2, <1>3, <1>4, <1>5, <1>6 DEF SagaInv, TypeOK, DeliveryTypeOK, ServicesUnchanged
<1>8. DeliveriesInStep'
  <2>1. InPlay' \subseteq InPlay \cup new
    BY <1>3, <1>4, <1>5, <1>6 DEF InPlay
  <2>2. \A m \in new : m.event.kind \in Binding[m.queue]
    BY <1>3 DEF SagaInv, DeliveriesInStep, InPlay
  <2>3. \A m \in InPlay' : m.event.kind \in Binding[m.queue]
    BY <2>1, <2>2 DEF SagaInv, DeliveriesInStep
  <2>4. QED
    BY <1>5, <1>6, <2>3
       DEF SagaInv, DeliveriesInStep, Seen, ServicesUnchanged, orderVars, inventoryVars, Binding
<1>9. ASSUME NEW q \in Queue, NEW e \in published, e \notin Seen(q), Holds(q, e)
      PROVE  Holds(q, e)'
  <2>1. CASE pc = "settle"
    <3>1. new # {}
      BY <1>2, <1>3, <2>1
    <3>2. QED
      BY <1>3, <1>4, <1>6, <1>9, <3>1 DEF Holds, Live
  <2>2. CASE pc = "stuck"
    <3>1. Live(t) => u \in tasks'
      BY <1>2, <2>2 DEF u
    <3>2. QED
      BY <1>3, <1>4, <1>5, <1>6, <1>9, <2>2, <3>1 DEF Holds, Live
  <2>3. QED
    BY <2>1, <2>2
<1>10. QED
  BY <1>7, <1>8, <1>9, DeliveryFrame

LEMMA SettlePreserves ==
  ASSUME SagaInv, ServicesUnchanged, NEW t \in tasks, Settle(t)
  PROVE  SagaInv'
<1>1. DeliveryTypeOK(minted)'
  BY DEF SagaInv, TypeOK, DeliveryTypeOK, Settle, EndTask, NoFault, ServicesUnchanged
<1>2. DeliveriesInStep'
  BY DEF SagaInv, DeliveriesInStep, InPlay, Settle, EndTask, Seen,
         ServicesUnchanged, orderVars, inventoryVars
<1>3. ASSUME NEW q \in Queue, NEW e \in published, e \notin Seen(q), Holds(q, e)
      PROVE  Holds(q, e)'
  BY <1>3 DEF Holds, Live, Settle, EndTask
<1>4. QED
  BY <1>1, <1>2, <1>3, DeliveryFrame

LEMMA NackPreserves ==
  ASSUME SagaInv, ServicesUnchanged, NEW t \in tasks, Nack(t)
  PROVE  SagaInv'
<1>1. DeliveryTypeOK(minted)'
  BY DEF SagaInv, TypeOK, DeliveryTypeOK, Nack, EndTask, NoFault, ServicesUnchanged, Task
<1>2. DeliveriesInStep'
  BY DEF SagaInv, DeliveriesInStep, InPlay, Nack, EndTask, Seen,
         ServicesUnchanged, orderVars, inventoryVars
<1>3. ASSUME NEW q \in Queue, NEW e \in published, e \notin Seen(q), Holds(q, e)
      PROVE  Holds(q, e)'
  BY <1>3 DEF Holds, Live, Nack, EndTask
<1>4. QED
  BY <1>1, <1>2, <1>3, DeliveryFrame

LEMMA RetryExpiresPreserves ==
  ASSUME SagaInv, ServicesUnchanged, NEW m \in waiting, RetryExpires(m)
  PROVE  SagaInv'
<1>1. DeliveryTypeOK(minted)'
  BY DEF SagaInv, TypeOK, DeliveryTypeOK, RetryExpires, NoFault, ServicesUnchanged
<1>2. DeliveriesInStep'
  BY DEF SagaInv, DeliveriesInStep, InPlay, RetryExpires, Seen,
         ServicesUnchanged, orderVars, inventoryVars
<1>3. ASSUME NEW q \in Queue, NEW e \in published, e \notin Seen(q), Holds(q, e)
      PROVE  Holds(q, e)'
  BY <1>3 DEF Holds, Live, RetryExpires
<1>4. QED
  BY <1>1, <1>2, <1>3, DeliveryFrame

\* Losing the connection requeues what was held by a live delivery.
LEMMA LoseConnectionPreserves ==
  ASSUME SagaInv, ServicesUnchanged, NEW q \in Queue, LoseConnection(q)
  PROVE  SagaInv'
<1>1. Unacked(q) \subseteq {t.msg : t \in tasks}
  BY DEF Unacked
<1>2. DeliveryTypeOK(minted)'
  <2>1. Unacked(q) \subseteq Message(minted)
    BY <1>1 DEF SagaInv, TypeOK, DeliveryTypeOK, Task
  <2>2. epoch' \in [Queue -> Nat]
    BY DEF SagaInv, TypeOK, DeliveryTypeOK, LoseConnection
  <2>3. faults' \in 0 .. MaxFaults
    BY FaultLemma DEF SagaInv, TypeOK, DeliveryTypeOK, LoseConnection
  <2>4. QED
    BY <2>1, <2>2, <2>3
       DEF SagaInv, TypeOK, DeliveryTypeOK, LoseConnection, ServicesUnchanged
<1>3. DeliveriesInStep'
  <2>1. InPlay' \subseteq InPlay
    BY <1>1 DEF InPlay, LoseConnection
  <2>2. tasks' \subseteq tasks
    BY DEF LoseConnection
  <2>3. QED
    BY <2>1, <2>2
       DEF SagaInv, DeliveriesInStep, Seen, ServicesUnchanged, orderVars, inventoryVars, Binding
<1>4. ASSUME NEW r \in Queue, NEW e \in published, e \notin Seen(r), Holds(r, e)
      PROVE  Holds(r, e)'
  <2>1. CASE \E m \in ready \cup waiting \cup dlq : m.queue = r /\ m.event = e
    BY <2>1 DEF Holds, LoseConnection
  <2>2. ASSUME NEW t \in tasks, t.msg.queue = r, t.msg.event = e, Live(t), t.pc # "settle"
        PROVE  Holds(r, e)'
    <3>1. CASE r = q
      BY <2>2, <3>1 DEF Holds, LoseConnection, Unacked
    <3>2. CASE r # q
      <4>1. t \in tasks' /\ Live(t)'
        BY <2>2, <3>2 DEF LoseConnection, Live, SagaInv, TypeOK, DeliveryTypeOK
      <4>2. QED
        BY <2>2, <4>1 DEF Holds
    <3>3. QED
      BY <3>1, <3>2
  <2>3. QED
    BY <1>4, <2>1, <2>2 DEF Holds
<1>5. QED
  BY <1>2, <1>3, <1>4, DeliveryFrame

LEMMA ReplayDeadLetterPreserves ==
  ASSUME SagaInv, ServicesUnchanged, NEW m \in dlq, ReplayDeadLetter(m)
  PROVE  SagaInv'
<1>1. m \in Message(minted)
  BY DEF SagaInv, TypeOK, DeliveryTypeOK
<1>2. PICK n \in Message(minted) :
        n.queue = m.queue /\ n.event = m.event /\ ready' = ready \cup {n}
  <2>1. PICK r \in {0, m.retries}, c \in CopyId :
          ready' = ready \cup {[m EXCEPT !.retries = r, !.copy = c]}
    BY DEF ReplayDeadLetter
  <2>2. r \in 0 .. MaxRetries
    BY <1>1, MaxRetriesIs3 DEF Message
  <2>3. QED
    BY <1>1, <2>1, <2>2 DEF Message
<1>3. dlq' = dlq \ {m} /\ UNCHANGED <<waiting, tasks, epoch>>
  BY DEF ReplayDeadLetter
<1>4. DeliveryTypeOK(minted)'
  <2>1. faults' \in 0 .. MaxFaults
    BY FaultLemma DEF SagaInv, TypeOK, DeliveryTypeOK, ReplayDeadLetter
  <2>2. QED
    BY <1>2, <1>3, <2>1 DEF SagaInv, TypeOK, DeliveryTypeOK, ServicesUnchanged
<1>5. DeliveriesInStep'
  BY <1>2, <1>3
     DEF SagaInv, DeliveriesInStep, InPlay, Seen, ServicesUnchanged, orderVars, inventoryVars,
         Binding
<1>6. ASSUME NEW q \in Queue, NEW e \in published, e \notin Seen(q), Holds(q, e)
      PROVE  Holds(q, e)'
  BY <1>2, <1>3, <1>6 DEF Holds, Live
<1>7. QED
  BY <1>4, <1>5, <1>6, DeliveryFrame

LEMMA BrokerPreserves ==
  SagaInv /\ (BrokerOrDispatcher \/ BrokerOrDispatcherFault) => SagaInv'
<1>1. ASSUME SagaInv, BrokerOrDispatcher
      PROVE  SagaInv'
  <2>1. ServicesUnchanged
    BY <1>1 DEF BrokerOrDispatcher, ServicesUnchanged
  <2>2. ASSUME NEW t \in tasks, DeliveryStep(t)
        PROVE  SagaInv'
    BY <1>1, <2>1, <2>2, AckPreserves, AckOnLostConnectionPreserves, RepublishPreserves,
       SettlePreserves, NackPreserves DEF DeliveryStep
  <2>3. QED
    BY <1>1, <2>1, <2>2, RetryExpiresPreserves DEF BrokerOrDispatcher
<1>2. ASSUME SagaInv, BrokerOrDispatcherFault
      PROVE  SagaInv'
  <2>1. ServicesUnchanged
    BY <1>2 DEF BrokerOrDispatcherFault, ServicesUnchanged
  <2>2. QED
    BY <1>2, <2>1, RepublishPreserves, LoseConnectionPreserves, ReplayDeadLetterPreserves
       DEF BrokerOrDispatcherFault
<1>3. QED
  BY <1>1, <1>2

-----------------------------------------------------------------------------
(* Steps of the services that commit nothing.                              *)

\* The delivery of m starts a task that may still process m's event.
LEMMA DeliverLemma ==
  ASSUME DeliveryTypeOK(minted), minted \subseteq minted',
         NEW m, NEW t \in Task(minted'), t.msg = m, Live(t), t.pc # "settle",
         Deliver(m, t), faults' \in 0 .. MaxFaults
  PROVE  /\ DeliveryTypeOK(minted)' /\ InPlay' \subseteq InPlay
         /\ m \in Message(minted) /\ m \in InPlay
         /\ \A q \in Queue, e \in published : Holds(q, e) => Holds(q, e)'
<1>1. DeliveryTypeOK(minted)'
  <2>1. Message(minted) \subseteq Message(minted') /\ Task(minted) \subseteq Task(minted')
    BY TypesGrow
  <2>2. QED
    BY <2>1 DEF DeliveryTypeOK, Deliver
<1>2. InPlay' \subseteq InPlay
  BY DEF InPlay, Deliver
<1>3. m \in Message(minted) /\ m \in InPlay
  BY DEF DeliveryTypeOK, Deliver, InPlay
<1>4. ASSUME NEW q \in Queue, NEW e \in published, Holds(q, e)
      PROVE  Holds(q, e)'
  BY <1>4 DEF Holds, Live, Deliver
<1>5. QED
  BY <1>1, <1>2, <1>3, <1>4

LEMMA SkipDuplicatePreserves ==
  ASSUME SagaInv, NEW m \in ready, SkipDuplicate(m)
  PROVE  SagaInv'
<1> DEFINE t == NewTask(m, "ack", {})
<1>1. m \in Message(minted) /\ DeliveryTypeOK(minted) /\ epoch \in [Queue -> Nat]
  BY DEF SagaInv, TypeOK, DeliveryTypeOK
<1>2. t \in Task(minted) /\ t.msg = m /\ t.pc = "ack" /\ Live(t)
  BY <1>1, NewTaskLemma DEF TaskPc
<1>3. Deliver(m, t) /\ ServicesUnchanged /\ m.event \in Seen(m.queue)
  BY DEF SkipDuplicate, ServicesUnchanged
<1>4. faults' \in 0 .. MaxFaults
  BY <1>1 DEF SkipDuplicate, NoFault, DeliveryTypeOK
<1> HIDE DEF t
<1>5. minted' = minted
  BY <1>3 DEF ServicesUnchanged
<1>6. /\ DeliveryTypeOK(minted)' /\ InPlay' \subseteq InPlay
      /\ \A q \in Queue, e \in published : Holds(q, e) => Holds(q, e)'
  BY <1>1, <1>2, <1>3, <1>4, <1>5, DeliverLemma
<1>7. DeliveriesInStep'
  BY <1>2, <1>3, <1>6
     DEF SagaInv, DeliveriesInStep, Seen, ServicesUnchanged, orderVars, inventoryVars,
         Binding, Deliver
<1>8. QED
  BY <1>3, <1>6, <1>7, DeliveryFrame

LEMMA TransactionFailsPreserves ==
  ASSUME SagaInv, NEW m \in ready, TransactionFails(m)
  PROVE  SagaInv'
<1> DEFINE n == NewTask(m, "ack", {})
           t == Fail(n, "TRANSIENT")
<1>1. m \in Message(minted) /\ DeliveryTypeOK(minted) /\ epoch \in [Queue -> Nat]
  BY DEF SagaInv, TypeOK, DeliveryTypeOK
<1>2. n \in Task(minted) /\ n.msg = m /\ Live(n)
  BY <1>1, NewTaskLemma DEF TaskPc
<1>3. /\ t \in Task(minted) /\ t.msg = m /\ t.epoch = n.epoch
      /\ t.pc \in {"republish", "nack"} /\ (t.pc = "nack" => m.retries = MaxRetries)
  BY <1>2, FailLemma DEF ErrorClass
<1>4. Deliver(m, t) /\ ServicesUnchanged /\ faults' \in 0 .. MaxFaults
  BY <1>1, FaultLemma DEF TransactionFails, ServicesUnchanged, DeliveryTypeOK
<1> HIDE DEF t, n
<1>5. Live(t)
  BY <1>2, <1>3 DEF Live
<1>6. minted' = minted
  BY <1>4 DEF ServicesUnchanged
<1>7. /\ DeliveryTypeOK(minted)' /\ InPlay' \subseteq InPlay
      /\ \A q \in Queue, e \in published : Holds(q, e) => Holds(q, e)'
  BY <1>1, <1>3, <1>4, <1>5, <1>6, DeliverLemma
<1>8. DeliveriesInStep'
  BY <1>3, <1>4, <1>7
     DEF SagaInv, DeliveriesInStep, Seen, ServicesUnchanged, orderVars, inventoryVars,
         Binding, Deliver
<1>9. QED
  BY <1>4, <1>7, <1>8, DeliveryFrame

\* What an exchange makes of a published event: one copy per bound queue.
LEMMA RoutedLemma ==
  ASSUME NEW e \in minted
  PROVE  /\ Routed(e) \subseteq Message(minted)
         /\ \A m \in Routed(e) : m.event = e /\ e.kind \in Binding[m.queue]
         /\ \A q \in Queue : e.kind \in Binding[q] => \E m \in Routed(e) : m.queue = q
<1> DEFINE Copy(q) == [queue |-> q, event |-> e, retries |-> 0, copy |-> 0]
<1>1. 0 \in 0 .. MaxRetries
  BY MaxRetriesIs3
<1>2. ASSUME NEW q \in Queue
      PROVE  Copy(q) \in Message(minted) /\ Copy(q).event = e /\ Copy(q).queue = q
  BY <1>1, CopyIdAssumption DEF Message
<1>3. Routed(e) = {Copy(q) : q \in {r \in Queue : e.kind \in Binding[r]}}
  BY DEF Routed
<1> HIDE DEF Copy
<1>4. QED
  BY <1>2, <1>3

\* A publication, or a failed one, with the publishing task moving on.
LEMMA PublicationLemma ==
  ASSUME SagaInv, NEW e \in minted,
         Publish(e) \/ UNCHANGED <<published, ready>>,
         UNCHANGED <<waiting, dlq, epoch, status, orderSeen, inventoryVars, minted>>,
         requests' \subseteq minted, faults' \in 0 .. MaxFaults,
         \A u \in tasks' : \/ u \in tasks
                           \/ /\ u \in Task(minted)
                              /\ \E t \in tasks : u.msg = t.msg
                              /\ u.pc \in {"publish", "ack"}
                                   => u.msg.event \in Seen(u.msg.queue)
                              /\ u.pc = "nack" => u.msg.retries = MaxRetries,
         \A t \in tasks : \E u \in tasks' :
           u.msg = t.msg /\ u.epoch = t.epoch /\ (u.pc = "settle" => t.pc = "settle")
  PROVE  SagaInv'
<1>1. PICK new \in SUBSET Routed(e) :
        /\ ready' = ready \cup new
        /\ \/ published' = published
           \/ published' = published \cup {e} /\ new = Routed(e)
  <2> DEFINE R == Routed(e)
             N == {}
  <2>1. CASE Publish(e)
    <3>1. R \in SUBSET R /\ ready' = ready \cup R /\ published' = published \cup {e}
      BY <2>1 DEF Publish
    <3> HIDE DEF R
    <3>2. QED
      BY <3>1 DEF R
  <2>2. CASE UNCHANGED <<published, ready>>
    <3>1. N \subseteq Routed(e) /\ ready' = ready \cup N /\ published' = published
      BY <2>2
    <3> HIDE DEF N
    <3>2. QED
      BY <3>1
  <2>3. QED
    BY <2>1, <2>2
<1>2. published' \subseteq minted
  BY <1>1 DEF SagaInv, TypeOK
<1>3. DeliveryTypeOK(minted)'
  BY <1>1, RoutedLemma DEF SagaInv, TypeOK, DeliveryTypeOK
<1>4. DeliveriesInStep'
  <2>1. InPlay' \subseteq InPlay \cup new
    BY <1>1 DEF InPlay
  <2>2. \A m \in new : m.event.kind \in Binding[m.queue]
    BY <1>1, RoutedLemma
  <2>3. \A m \in InPlay' : m.event.kind \in Binding[m.queue]
    BY <2>1, <2>2 DEF SagaInv, DeliveriesInStep
  <2>4. \A q \in Queue : Seen(q)' = Seen(q)
    BY DEF Seen, inventoryVars
  <2>5. \A t \in tasks : t.msg.queue \in Queue
    BY DEF SagaInv, TypeOK, DeliveryTypeOK, Task, Message
  <2>6. \A u \in tasks' : /\ u.pc \in {"publish", "ack"} => u.msg.event \in Seen(u.msg.queue)
                          /\ u.pc = "nack" => u.msg.retries = MaxRetries
    BY DEF SagaInv, DeliveriesInStep
  <2>7. \A u \in tasks' : u.msg.queue \in Queue
    BY <2>5
  <2>8. QED
    BY <2>3, <2>4, <2>6, <2>7 DEF DeliveriesInStep, Binding
<1>5. ASSUME NEW q \in Queue, NEW f \in published, f \notin Seen(q), Holds(q, f)
      PROVE  Holds(q, f)'
  BY <1>1, <1>5 DEF Holds, Live
<1>6. ASSUME NEW q \in Queue, NEW f \in published' \ published, f.kind \in Binding[q]
      PROVE  Holds(q, f)'
  <2>1. f = e /\ ready' = ready \cup Routed(e)
    BY <1>1, <1>6
  <2>2. QED
    BY <1>6, <2>1, RoutedLemma DEF Holds
<1>7. QED
  BY <1>2, <1>3, <1>4, <1>5, <1>6, DatabasesFrame

LEMMA PublishCreatedPreserves ==
  ASSUME SagaInv, NEW e \in requests, PublishCreated(e) \/ PublishCreatedFails(e)
  PROVE  SagaInv'
<1>1. e \in minted /\ requests' \subseteq minted
  BY DEF SagaInv, TypeOK, PublishCreated, PublishCreatedFails
<1>2. Publish(e) \/ UNCHANGED <<published, ready>>
  BY DEF PublishCreated, PublishCreatedFails
<1>3. faults' \in 0 .. MaxFaults
  BY FaultLemma
     DEF SagaInv, TypeOK, DeliveryTypeOK, PublishCreated, PublishCreatedFails, NoFault
<1>4. UNCHANGED <<waiting, dlq, tasks, epoch, status, orderSeen, inventoryVars, minted>>
  BY DEF PublishCreated, PublishCreatedFails
<1>5. QED
  BY <1>1, <1>2, <1>3, <1>4, PublicationLemma

LEMMA PublishOutcomePreserves ==
  ASSUME SagaInv, NEW t \in tasks, PublishOutcome(t) \/ PublishOutcomeFails(t)
  PROVE  SagaInv'
<1>1. t \in Task(minted) /\ t.out \subseteq minted /\ t.pc = "publish"
  BY DEF SagaInv, TypeOK, DeliveryTypeOK, Task, PublishOutcome, PublishOutcomeFails
<1>2. t.msg.event \in Seen(t.msg.queue)
  BY <1>1 DEF SagaInv, DeliveriesInStep
<1>3. PICK u \in Task(minted) :
        /\ tasks' = (tasks \ {t}) \cup {u}
        /\ u.msg = t.msg /\ u.epoch = t.epoch /\ u.pc \in {"ack", "republish", "nack"}
        /\ u.pc = "nack" => t.msg.retries = MaxRetries
  <2>1. CASE PublishOutcome(t)
    <3> DEFINE u == [t EXCEPT !.pc = "ack", !.out = {}]
    <3>1. u \in Task(minted) /\ u.msg = t.msg /\ u.epoch = t.epoch /\ u.pc = "ack"
      BY <1>1 DEF Task, TaskPc
    <3>2. tasks' = (tasks \ {t}) \cup {u}
      BY <2>1 DEF PublishOutcome, Resume
    <3> HIDE DEF u
    <3>3. QED
      BY <3>1, <3>2
  <2>2. CASE PublishOutcomeFails(t)
    BY <1>1, <2>2, FailLemma DEF PublishOutcomeFails, Resume, ErrorClass
  <2>3. QED
    BY <2>1, <2>2
<1>4. faults' \in 0 .. MaxFaults
  BY FaultLemma
     DEF SagaInv, TypeOK, DeliveryTypeOK, PublishOutcome, PublishOutcomeFails, NoFault
<1>5. UNCHANGED <<waiting, dlq, epoch, status, orderSeen, inventoryVars, minted, requests>>
  BY DEF PublishOutcome, PublishOutcomeFails, orderVars
<1>6. requests' \subseteq minted
  BY <1>5 DEF SagaInv, TypeOK
<1>7. CASE \E e \in t.out : Publish(e)
  BY <1>1, <1>2, <1>3, <1>4, <1>5, <1>6, <1>7, PublicationLemma
<1>8. CASE UNCHANGED <<published, ready>>
  <2>1. DeliveryTypeOK(minted)'
    BY <1>3, <1>4, <1>5, <1>8 DEF SagaInv, TypeOK, DeliveryTypeOK
  <2>2. ServicesUnchanged
    BY <1>5, <1>8 DEF ServicesUnchanged, orderVars
  <2>3. DeliveriesInStep'
    BY <1>2, <1>3, <1>5, <1>8
       DEF SagaInv, DeliveriesInStep, InPlay, Seen, inventoryVars, Binding
  <2>4. \A q \in Queue, e \in published : Holds(q, e) => Holds(q, e)'
    BY <1>3, <1>5, <1>8 DEF Holds, Live
  <2>5. QED
    BY <2>1, <2>2, <2>3, <2>4, DeliveryFrame
<1>9. QED
  BY <1>7, <1>8 DEF PublishOutcome, PublishOutcomeFails

LEMMA CrashPreserves ==
  ASSUME SagaInv, NEW q \in Queue, Crash(q)
  PROVE  SagaInv'
<1>1. /\ ready' = ready \cup Unacked(q) /\ tasks' = {t \in tasks : t.msg.queue # q}
      /\ UNCHANGED <<waiting, dlq, epoch, status, orderSeen, inventoryVars, minted, published>>
  BY DEF Crash, CrashConsumer
<1>2. Unacked(q) \subseteq {t.msg : t \in tasks}
  BY DEF Unacked
<1>3. requests' \subseteq minted /\ published' \subseteq minted /\ published' \ published = {}
  BY <1>1 DEF SagaInv, TypeOK, Crash
<1>4. faults' \in 0 .. MaxFaults
  BY FaultLemma DEF SagaInv, TypeOK, DeliveryTypeOK, Crash, CrashConsumer
<1>5. DeliveryTypeOK(minted)'
  <2>1. Unacked(q) \subseteq Message(minted)
    BY <1>2 DEF SagaInv, TypeOK, DeliveryTypeOK, Task
  <2>2. QED
    BY <1>1, <1>4, <2>1 DEF SagaInv, TypeOK, DeliveryTypeOK
<1>6. DeliveriesInStep'
  <2>1. InPlay' \subseteq InPlay
    BY <1>1, <1>2 DEF InPlay
  <2>2. QED
    BY <1>1, <2>1 DEF SagaInv, DeliveriesInStep, Seen, inventoryVars, Binding
<1>7. ASSUME NEW r \in Queue, NEW e \in published, e \notin Seen(r), Holds(r, e)
      PROVE  Holds(r, e)'
  <2>1. CASE \E m \in ready \cup waiting \cup dlq : m.queue = r /\ m.event = e
    BY <1>1, <2>1 DEF Holds
  <2>2. ASSUME NEW t \in tasks, t.msg.queue = r, t.msg.event = e, Live(t), t.pc # "settle"
        PROVE  Holds(r, e)'
    <3>1. CASE r = q
      BY <1>1, <2>2, <3>1 DEF Holds, Unacked
    <3>2. CASE r # q
      BY <1>1, <2>2, <3>2 DEF Holds, Live
    <3>3. QED
      BY <3>1, <3>2
  <2>3. QED
    BY <1>7, <2>1, <2>2 DEF Holds
<1>8. QED
  BY <1>1, <1>3, <1>5, <1>6, <1>7, DatabasesFrame

-----------------------------------------------------------------------------
(* Steps that construct an event or commit a transaction.                  *)

\* A new event is an event, and constructing it keeps minted finite.
LEMMA NewEventLemma ==
  ASSUME IsFiniteSet(minted), NEW kind \in Kind, NEW o \in Order
  PROVE  /\ NewEvent(kind, o) \in SagaEvent
         /\ NewEvent(kind, o).kind = kind /\ NewEvent(kind, o).order = o
         /\ IsFiniteSet(minted \cup {NewEvent(kind, o)})
<1> DEFINE Like == {e \in minted : e.kind = kind /\ e.order = o}
<1>1. IsFiniteSet(Like)
  BY FS_Subset
<1>2. Cardinality(Like) \in Nat
  BY <1>1, FS_CardinalityType
<1>3. IsFiniteSet(minted \cup {NewEvent(kind, o)})
  BY FS_AddElement
<1>4. QED
  BY <1>2, <1>3 DEF NewEvent, SagaEvent

\* A delivery whose handler ran up to task t, whatever it committed.
LEMMA HandledLemma ==
  ASSUME SagaInv, NEW m \in ready, NEW t \in Task(minted'), t.msg = m, Live(t),
         t.pc # "settle", (t.pc = "nack" => m.retries = MaxRetries),
         (t.pc \in {"publish", "ack"} => m.event \in Seen(m.queue)'),
         Deliver(m, t), faults' \in 0 .. MaxFaults, published' = published,
         minted \subseteq minted', orderSeen \subseteq orderSeen',
         inventorySeen \subseteq inventorySeen'
  PROVE  DeliveryTypeOK(minted)' /\ DeliveriesInStep' /\ NoEventDropped'
<1>1. DeliveryTypeOK(minted)
  BY DEF SagaInv, TypeOK
<1>2. /\ DeliveryTypeOK(minted)' /\ InPlay' \subseteq InPlay
      /\ \A q \in Queue, e \in published : Holds(q, e) => Holds(q, e)'
  BY <1>1, DeliverLemma
<1>3. \A q \in Queue : Seen(q) \subseteq Seen(q)'
  BY DEF Seen
<1>4. DeliveriesInStep'
  <2>1. \A u \in tasks : u.msg.queue \in Queue
    BY <1>1 DEF DeliveryTypeOK, Task, Message
  <2>2. \A u \in tasks' : u \in tasks \/ u = t
    BY DEF Deliver
  <2>3. \A u \in tasks' : /\ u.pc \in {"publish", "ack"} => u.msg.event \in Seen(u.msg.queue)'
                          /\ u.pc = "nack" => u.msg.retries = MaxRetries
    BY <1>3, <2>1, <2>2 DEF SagaInv, DeliveriesInStep
  <2>4. \A n \in InPlay' : n.event.kind \in Binding[n.queue]
    BY <1>2 DEF SagaInv, DeliveriesInStep
  <2>5. QED
    BY <2>3, <2>4 DEF DeliveriesInStep, Seen, Binding
<1>5. NoEventDropped'
  BY <1>2, <1>3 DEF SagaInv, NoEventDropped, Binding
<1>6. QED
  BY <1>2, <1>4, <1>5

LEMMA CreateOrderPreserves ==
  ASSUME SagaInv, NEW o \in Order, CreateOrder(o) \/ CreateCommitUnanswered(o)
  PROVE  SagaInv'
<1> DEFINE n == NewEvent("order.created", o)
<1>1. /\ n \in SagaEvent /\ n.kind = "order.created" /\ n.order = o
      /\ IsFiniteSet(minted \cup {n})
  BY NewEventLemma DEF SagaInv, Kind
<1>2. /\ \/ minted' = minted \cup {n} /\ requests' = requests \cup {n}
         \/ minted' = minted /\ requests' = requests
      /\ status[o] = "none" /\ status' = [status EXCEPT ![o] = "pending"]
      /\ UNCHANGED <<ready, waiting, dlq, tasks, epoch, stock, inventorySeen,
                     decision, orderSeen, published>>
      /\ faults' \in 0 .. MaxFaults
  BY FaultLemma
     DEF CreateOrder, CreateCommitUnanswered, deliveryVars, inventoryVars,
         SagaInv, TypeOK, DeliveryTypeOK
<1> HIDE DEF n
<1>3. DeliveryTypeOK(minted)'
  <2>1. Message(minted) \subseteq Message(minted') /\ Task(minted) \subseteq Task(minted')
    BY <1>2, TypesGrow
  <2>2. QED
    BY <1>2, <2>1 DEF SagaInv, TypeOK, DeliveryTypeOK
<1>4. TypeOK' /\ IsFiniteSet(minted)'
  BY <1>1, <1>2, <1>3 DEF SagaInv, TypeOK
<1>5. DatabasesInStep'
  BY <1>2 DEF SagaInv, TypeOK, SagaEvent, DatabasesInStep, Verdict
<1>6. EventsInStep' /\ AtMostOneOutcome'
  BY <1>1, <1>2
     DEF SagaInv, TypeOK, SagaEvent, EventsInStep, AtMostOneOutcome, StockKinds, OutcomeKinds
<1>7. DeliveriesInStep' /\ NoEventDropped'
  BY <1>2 DEF SagaInv, DeliveriesInStep, InPlay, NoEventDropped, Seen, Holds, Live
<1>8. QED
  BY <1>4, <1>5, <1>6, <1>7 DEF SagaInv

\* The reservation transaction only ever runs once for an order.
LEMMA ReserveLemma ==
  ASSUME SagaInv, NEW m \in ready, m.queue = "inventory", Reserve(m.event)
  PROVE  /\ m.event \in minted /\ m.event.order \in Order
         /\ m.event.kind = "order.created" /\ status[m.event.order] # "none"
         /\ decision[m.event.order] = "none"
         /\ stock' \in [Sku -> Nat]
<1> DEFINE e == m.event
           o == m.event.order
<1>1. e \in minted /\ o \in Order /\ m \in InPlay
  BY DEF SagaInv, TypeOK, DeliveryTypeOK, Message, SagaEvent, InPlay
<1>2. e.kind = "order.created"
  BY <1>1 DEF SagaInv, DeliveriesInStep, Binding
<1>3. status[o] # "none"
  BY <1>1, <1>2 DEF SagaInv, EventsInStep
<1>4. decision[o] = "none"
  <2>1. SUFFICES ASSUME decision[o] # "none"
                 PROVE  FALSE
    OBVIOUS
  <2>2. PICK f \in inventorySeen : f.order = o /\ f.kind = "order.created"
    BY <1>1, <2>1 DEF SagaInv, DatabasesInStep
  <2>3. f = e
    BY <1>1, <1>2, <2>2 DEF SagaInv, TypeOK, EventsInStep
  <2>4. QED
    BY <2>2, <2>3 DEF Reserve
<1>5. stock' \in [Sku -> Nat]
  <2>1. stock \in [Sku -> Nat] /\ Demand[o] \in [Sku -> Nat]
    BY <1>1, DemandAssumption DEF SagaInv, TypeOK
  <2>2. CASE Fits(o)
    <3>1. \A s \in Sku : stock[s] - Demand[o][s] \in Nat
      BY <2>1, <2>2 DEF Fits
    <3>2. stock' = [s \in Sku |-> stock[s] - Demand[o][s]]
      BY <2>2 DEF Reserve
    <3>3. QED
      BY <3>1, <3>2
  <2>3. CASE ~ Fits(o)
    BY <2>1, <2>3 DEF Reserve
  <2>4. QED
    BY <2>2, <2>3
<1>6. QED
  BY <1>1, <1>2, <1>3, <1>4, <1>5

\* ... and leaves both services' books consistent, whether the stock event
\* is constructed or the commit's answer is lost first.
LEMMA ReserveStepPreserves ==
  ASSUME SagaInv, NEW m \in ready, m.queue = "inventory", Reserve(m.event),
         NEW new, new \subseteq {StockEvent(m.event.order)}, minted' = minted \cup new,
         NEW t \in Task(minted'), t.msg = m, Live(t), t.pc # "settle",
         (t.pc = "nack" => m.retries = MaxRetries),
         Deliver(m, t), faults' \in 0 .. MaxFaults, UNCHANGED <<orderVars, published>>
  PROVE  SagaInv'
<1> DEFINE e == m.event
           o == m.event.order
           n == StockEvent(o)
<1>1. /\ e \in minted /\ o \in Order /\ e.kind = "order.created" /\ status[o] # "none"
      /\ decision[o] = "none" /\ stock' \in [Sku -> Nat]
  BY ReserveLemma
<1>2. /\ n \in SagaEvent /\ n.order = o /\ IsFiniteSet(minted \cup {n})
      /\ n.kind = IF Fits(o) THEN "stock.reserved" ELSE "stock.rejected"
  <2> DEFINE k == IF Fits(o) THEN "stock.reserved" ELSE "stock.rejected"
  <2>1. k \in Kind /\ n = NewEvent(k, o)
    BY DEF Kind, StockEvent
  <2> HIDE DEF n
  <2>2. n \in SagaEvent /\ n.order = o /\ n.kind = k /\ IsFiniteSet(minted \cup {n})
    <3> HIDE DEF k
    <3>1. QED
      BY <1>1, <2>1, NewEventLemma DEF SagaInv
  <2>3. QED
    BY <2>2
<1>3. /\ e \notin inventorySeen /\ inventorySeen' = inventorySeen \cup {e}
      /\ decision' = [decision EXCEPT ![o] = IF Fits(o) THEN "reserved" ELSE "rejected"]
      /\ UNCHANGED <<status, orderSeen, requests, published>>
  BY DEF Reserve, orderVars
<1>4. new = {} \/ new = {n}
  OBVIOUS
<1> HIDE DEF n
<1>5. IsFiniteSet(minted)' /\ minted' \subseteq SagaEvent
  BY <1>2, <1>4 DEF SagaInv, TypeOK
<1>6. DeliveryTypeOK(minted)' /\ DeliveriesInStep' /\ NoEventDropped'
  <2>1. m.event \in Seen(m.queue)'
    BY <1>3 DEF Seen
  <2>2. QED
    BY <1>3, <2>1, HandledLemma
<1>7. TypeOK'
  BY <1>1, <1>3, <1>5, <1>6 DEF SagaInv, TypeOK
<1>8. DatabasesInStep'
  BY <1>1, <1>3 DEF SagaInv, TypeOK, SagaEvent, DatabasesInStep, Verdict
<1>9. EventsInStep'
  BY <1>1, <1>2, <1>3, <1>4 DEF SagaInv, TypeOK, SagaEvent, EventsInStep
<1>10. AtMostOneOutcome'
  <2>1. \A f \in minted : f.order = o => f.kind \notin StockKinds
    BY <1>1 DEF SagaInv, EventsInStep, StockKinds
  <2>2. n.kind \notin OutcomeKinds
    BY <1>2 DEF OutcomeKinds
  <2>3. QED
    BY <1>2, <1>4, <2>1, <2>2 DEF SagaInv, AtMostOneOutcome
<1>11. QED
  BY <1>5, <1>6, <1>7, <1>8, <1>9, <1>10 DEF SagaInv

\* A stock result the order database has not seen finds its order pending:
\* Order.confirm and Order.reject are never refused.
LEMMA StockResultLemma ==
  ASSUME SagaInv, NEW m \in ready, m.queue = "order", m.event \notin orderSeen
  PROVE  /\ m.event \in minted /\ m.event.order \in Order
         /\ m.event.kind \in StockKinds /\ status[m.event.order] = "pending"
         /\ decision[m.event.order] # "none"
         /\ m.event.kind = "stock.reserved" <=> decision[m.event.order] = "reserved"
<1> DEFINE e == m.event
           o == m.event.order
<1>1. e \in minted /\ o \in Order /\ m \in InPlay
  BY DEF SagaInv, TypeOK, DeliveryTypeOK, Message, SagaEvent, InPlay
<1>2. e.kind \in StockKinds
  BY <1>1 DEF SagaInv, DeliveriesInStep, Binding, StockKinds
<1>3. decision[o] # "none" /\ (e.kind = "stock.reserved" <=> decision[o] = "reserved")
  BY <1>1, <1>2 DEF SagaInv, EventsInStep, StockKinds
<1>4. status[o] # "none"
  <2>1. PICK f \in inventorySeen : f.order = o
    BY <1>1, <1>3 DEF SagaInv, DatabasesInStep
  <2>2. f \in minted /\ f.kind = "order.created"
    BY <2>1 DEF SagaInv, TypeOK, DatabasesInStep
  <2>3. QED
    BY <2>1, <2>2 DEF SagaInv, EventsInStep
<1>5. status[o] \notin {"confirmed", "rejected"}
  <2>1. SUFFICES ASSUME status[o] \in {"confirmed", "rejected"}
                 PROVE  FALSE
    OBVIOUS
  <2>2. PICK f \in orderSeen : f.order = o /\ f.kind \in StockKinds
    BY <1>1, <2>1 DEF SagaInv, DatabasesInStep
  <2>3. f \in minted
    BY <2>2 DEF SagaInv, TypeOK
  <2>4. f = e
    BY <1>1, <1>2, <2>2, <2>3 DEF SagaInv, AtMostOneOutcome
  <2>5. QED
    BY <2>2, <2>4
<1>6. QED
  BY <1>1, <1>2, <1>3, <1>4, <1>5 DEF SagaInv, TypeOK

LEMMA ConcludeStepPreserves ==
  ASSUME SagaInv, NEW m \in ready, m.queue = "order", m.event \notin orderSeen,
         Conclude(m.event),
         NEW new, new \subseteq {OutcomeEvent(m.event)}, minted' = minted \cup new,
         NEW t \in Task(minted'), t.msg = m, Live(t), t.pc # "settle",
         (t.pc = "nack" => m.retries = MaxRetries),
         Deliver(m, t), faults' \in 0 .. MaxFaults,
         UNCHANGED <<inventoryVars, requests, published>>
  PROVE  SagaInv'
<1> DEFINE e == m.event
           o == m.event.order
           n == OutcomeEvent(e)
<1>1. e \in minted /\ o \in Order /\ e.kind \in StockKinds /\ status[o] = "pending"
  BY StockResultLemma
<1>2. /\ n \in SagaEvent /\ n.order = o /\ IsFiniteSet(minted \cup {n})
      /\ n.kind = IF e.kind = "stock.reserved" THEN "order.confirmed" ELSE "order.rejected"
  BY <1>1, NewEventLemma DEF SagaInv, Kind, OutcomeEvent
<1>3. /\ orderSeen' = orderSeen \cup {e} /\ status' = [status EXCEPT ![o] = Verdict(e)]
      /\ UNCHANGED <<stock, inventorySeen, decision, requests, published>>
  BY DEF Conclude, inventoryVars
<1>4. new = {} \/ new = {n}
  OBVIOUS
<1>5. Verdict(e) = IF e.kind = "stock.reserved" THEN "confirmed" ELSE "rejected"
  BY DEF Verdict
<1> HIDE DEF n
<1>6. IsFiniteSet(minted)' /\ minted' \subseteq SagaEvent
  BY <1>2, <1>4 DEF SagaInv, TypeOK
<1>7. DeliveryTypeOK(minted)' /\ DeliveriesInStep' /\ NoEventDropped'
  <2>1. m.event \in Seen(m.queue)'
    BY <1>3 DEF Seen
  <2>2. QED
    BY <1>3, <2>1, HandledLemma
<1>8. TypeOK'
  BY <1>1, <1>3, <1>5, <1>6, <1>7 DEF SagaInv, TypeOK
<1>9. DatabasesInStep'
  <2>1. status'[o] = Verdict(e) /\ \A p \in Order : p # o => status'[p] = status[p]
    BY <1>1, <1>3 DEF SagaInv, TypeOK
  <2>2. \A f \in orderSeen : f.order \in Order /\ f.order # o
    BY <1>1 DEF SagaInv, TypeOK, SagaEvent, DatabasesInStep, Verdict
  <2>3. \A f \in orderSeen' : f.kind \in StockKinds /\ status'[f.order] = Verdict(f)'
    BY <1>1, <1>3, <2>1, <2>2 DEF SagaInv, DatabasesInStep, Verdict
  <2>4. \A p \in Order : status'[p] \in {"confirmed", "rejected"}
                         => \E f \in orderSeen' : f.order = p
    BY <1>3, <2>1 DEF SagaInv, DatabasesInStep
  <2>5. QED
    BY <1>3, <2>3, <2>4 DEF SagaInv, DatabasesInStep, StockKinds
<1>10. EventsInStep'
  BY <1>1, <1>2, <1>3, <1>4, <1>5 DEF SagaInv, TypeOK, SagaEvent, EventsInStep
<1>11. AtMostOneOutcome'
  <2>1. \A f \in minted : f.order = o => f.kind \notin OutcomeKinds
    BY <1>1 DEF SagaInv, EventsInStep, OutcomeKinds
  <2>2. n.kind \notin StockKinds
    BY <1>2 DEF StockKinds
  <2>3. QED
    BY <1>2, <1>4, <2>1, <2>2 DEF SagaInv, AtMostOneOutcome
<1>12. QED
  BY <1>6, <1>7, <1>8, <1>9, <1>10, <1>11 DEF SagaInv

\* The four ways a first delivery can go, as the tasks they start.
LEMMA HandlersPreserve ==
  ASSUME SagaInv, NEW m \in ready,
         \/ HandleOrderCreated(m) \/ ReserveCommitUnanswered(m)
         \/ HandleStockResult(m) \/ ConcludeCommitUnanswered(m)
  PROVE  SagaInv'
<1>1. m \in Message(minted) /\ epoch \in [Queue -> Nat] /\ faults \in 0 .. MaxFaults
  BY DEF SagaInv, TypeOK, DeliveryTypeOK
<1> DEFINE n == NewTask(m, "ack", {})
           failed == Fail(n, "TRANSIENT")
<1>2. /\ failed \in Task(minted) /\ failed.msg = m /\ Live(failed)
      /\ failed.pc # "settle" /\ (failed.pc = "nack" => m.retries = MaxRetries)
  <2>1. n \in Task(minted) /\ n.msg = m /\ Live(n)
    BY <1>1, NewTaskLemma DEF TaskPc
  <2>2. /\ failed \in Task(minted) /\ failed.msg = m /\ failed.epoch = n.epoch
        /\ failed.pc \in {"republish", "nack"}
        /\ (failed.pc = "nack" => m.retries = MaxRetries)
    BY <2>1, FailLemma DEF ErrorClass
  <2>3. QED
    BY <2>1, <2>2 DEF Live
<1>3. ASSUME NEW e, minted' = minted \cup {e}
      PROVE  LET t == NewTask(m, "publish", {e})
             IN  t \in Task(minted') /\ t.msg = m /\ Live(t) /\ t.pc = "publish"
  <2>1. m \in Message(minted \cup {e})
    BY <1>1, TypesGrow
  <2>2. QED
    BY <1>1, <1>3, <2>1, NewTaskLemma DEF TaskPc
<1> DEFINE N == {}
<1>4. minted' = minted => minted' = minted \cup N
  OBVIOUS
<1>5. \A e : N \subseteq {e}
  OBVIOUS
<1> HIDE DEF n, failed, N
<1>6. CASE HandleOrderCreated(m)
  <2> DEFINE e == StockEvent(m.event.order)
             t == NewTask(m, "publish", {e})
  <2>1. /\ m.queue = "inventory" /\ Reserve(m.event) /\ Deliver(m, t)
        /\ minted' = minted \cup {e} /\ faults' = faults
        /\ UNCHANGED <<orderVars, published>>
    BY <1>6 DEF HandleOrderCreated, NoFault
  <2>2. t \in Task(minted') /\ t.msg = m /\ Live(t) /\ t.pc = "publish"
    BY <1>3, <2>1
  <2> HIDE DEF t
  <2>3. QED
    BY <1>1, <2>1, <2>2, ReserveStepPreserves
<1>7. CASE ReserveCommitUnanswered(m)
  <2>1. /\ m.queue = "inventory" /\ Reserve(m.event) /\ Deliver(m, failed)
        /\ minted' = minted /\ faults' \in 0 .. MaxFaults
        /\ UNCHANGED <<orderVars, published>>
    BY <1>1, <1>7, FaultLemma DEF ReserveCommitUnanswered, failed, n
  <2>2. N \subseteq {StockEvent(m.event.order)} /\ minted' = minted \cup N
    BY <1>4, <1>5, <2>1
  <2>3. failed \in Task(minted')
    BY <1>2, <2>1
  <2>4. QED
    BY <1>2, <2>1, <2>2, <2>3, ReserveStepPreserves
<1>8. CASE HandleStockResult(m)
  <2> DEFINE e == OutcomeEvent(m.event)
             t == NewTask(m, "publish", {e})
  <2>1. /\ m.queue = "order" /\ m.event \notin orderSeen
        /\ faults' = faults /\ UNCHANGED <<inventoryVars, requests, published>>
    BY <1>8 DEF HandleStockResult, NoFault
  <2>2. status[m.event.order] = "pending"
    BY <2>1, StockResultLemma
  <2>3. Conclude(m.event) /\ Deliver(m, t) /\ minted' = minted \cup {e}
    BY <1>8, <2>2 DEF HandleStockResult
  <2>4. t \in Task(minted') /\ t.msg = m /\ Live(t) /\ t.pc = "publish"
    BY <1>3, <2>3
  <2> HIDE DEF t
  <2>5. QED
    BY <1>1, <2>1, <2>3, <2>4, ConcludeStepPreserves
<1>9. CASE ConcludeCommitUnanswered(m)
  <2>1. /\ m.queue = "order" /\ m.event \notin orderSeen /\ Conclude(m.event)
        /\ Deliver(m, failed) /\ minted' = minted /\ faults' \in 0 .. MaxFaults
        /\ UNCHANGED <<inventoryVars, requests, published>>
    BY <1>1, <1>9, FaultLemma DEF ConcludeCommitUnanswered, failed, n
  <2>2. QED
    BY <1>2, <1>4, <1>5, <2>1, ConcludeStepPreserves
<1>10. QED
  BY <1>6, <1>7, <1>8, <1>9

-----------------------------------------------------------------------------
(* The invariant, and the safety properties it implies.                    *)

LEMMA InitSagaInv == SagaInit => SagaInv
<1>1. IsFiniteSet({})
  BY FS_EmptySet
<1>2. 0 \in 0 .. MaxFaults
  BY FaultsAssumption
<1> SUFFICES ASSUME SagaInit
             PROVE  SagaInv
  OBVIOUS
<1>3. TypeOK
  BY <1>2, StockAssumption DEF SagaInit, DeliveryInit, TypeOK, DeliveryTypeOK
<1>4. DatabasesInStep /\ EventsInStep /\ AtMostOneOutcome /\ NoEventDropped
  BY DEF SagaInit, DatabasesInStep, EventsInStep, AtMostOneOutcome, NoEventDropped
<1>5. DeliveriesInStep
  BY DEF SagaInit, DeliveryInit, DeliveriesInStep, InPlay
<1>6. QED
  BY <1>1, <1>3, <1>4, <1>5 DEF SagaInv, SagaInit

LEMMA NextSagaInv == SagaInv /\ [Next]_vars => SagaInv'
<1> SUFFICES ASSUME SagaInv, [Next]_vars
             PROVE  SagaInv'
  OBVIOUS
<1>1. CASE UNCHANGED vars
  <2>1. /\ ServicesUnchanged /\ UNCHANGED <<ready, waiting, dlq, tasks, epoch, faults>>
    BY <1>1 DEF vars, deliveryVars, ServicesUnchanged
  <2>2. DeliveryTypeOK(minted)' /\ DeliveriesInStep'
    BY <2>1 DEF SagaInv, TypeOK, DeliveryTypeOK, DeliveriesInStep, InPlay, Seen,
                ServicesUnchanged, orderVars, inventoryVars
  <2>3. \A q \in Queue, e \in published : Holds(q, e) => Holds(q, e)'
    BY <2>1 DEF Holds, Live
  <2>4. QED
    BY <2>1, <2>2, <2>3, DeliveryFrame
<1>2. CASE System
  BY <1>2, BrokerPreserves, PublishCreatedPreserves, HandlersPreserve,
     SkipDuplicatePreserves, PublishOutcomePreserves DEF System
<1>3. CASE Faults
  BY <1>3, BrokerPreserves, PublishCreatedPreserves, HandlersPreserve,
     TransactionFailsPreserves, PublishOutcomePreserves, CrashPreserves,
     CreateOrderPreserves DEF Faults
<1>4. CASE \E o \in Order : CreateOrder(o)
  BY <1>4, CreateOrderPreserves
<1>5. QED
  BY <1>1, <1>2, <1>3, <1>4 DEF Next

\* The saga keeps its databases, its events and its deliveries in step, for
\* every set of orders, every catalog and any number of faults.
THEOREM SagaInvariant == Spec => []SagaInv
<1>1. SagaInit => SagaInv
  BY InitSagaInv
<1>2. SagaInv /\ [Next]_vars => SagaInv'
  BY NextSagaInv
<1>3. QED
  BY <1>1, <1>2, PTL DEF Spec

\* Type correctness: no queue, table or task ever holds an event nobody
\* constructed, and available_quantity never goes negative.
THEOREM SagaTypeOK == Spec => []TypeOK
<1>1. SagaInv => TypeOK
  BY DEF SagaInv
<1>2. QED
  BY <1>1, SagaInvariant, PTL

\* Redelivery, retries, replays, lost connections and crashes never give an
\* order two stock results or two outcomes.
THEOREM SagaAtMostOneOutcome == Spec => []AtMostOneOutcome
<1>1. SagaInv => AtMostOneOutcome
  BY DEF SagaInv
<1>2. QED
  BY <1>1, SagaInvariant, PTL

\* The outcome customers are told is the one in the order row, and it is
\* what inventory-service did to the stock.
THEOREM SagaOutcomeTruthful == Spec => []OutcomeTruthful
<1>1. SagaInv => OutcomeTruthful
  <2> SUFFICES ASSUME SagaInv
               PROVE  OutcomeTruthful
    OBVIOUS
  <2>1. ASSUME NEW o \in Order, status[o] \in {"confirmed", "rejected"}
        PROVE  /\ status[o] = "confirmed" => decision[o] = "reserved"
               /\ status[o] = "rejected" => decision[o] = "rejected"
    <3>1. PICK e \in orderSeen : e.order = o /\ e.kind \in StockKinds /\ status[o] = Verdict(e)
      BY <2>1 DEF SagaInv, DatabasesInStep
    <3>2. e \in minted
      BY <3>1 DEF SagaInv, TypeOK
    <3>3. QED
      BY <3>1, <3>2 DEF SagaInv, EventsInStep, StockKinds, Verdict
  <2>2. QED
    BY <2>1 DEF OutcomeTruthful, SagaInv, EventsInStep
<1>2. QED
  BY <1>1, SagaInvariant, PTL

\* Order.confirm and Order.reject are never refused: only a message that has
\* used up its retries is dead-lettered.
THEOREM SagaNoDomainConflict == Spec => []NoDomainConflict
<1>1. SagaInv => NoDomainConflict
  BY DEF SagaInv, DeliveriesInStep, NoDomainConflict
<1>2. QED
  BY <1>1, SagaInvariant, PTL

\* At-least-once: an event that reached the exchange is processed or held.
THEOREM SagaNoEventDropped == Spec => []NoEventDropped
<1>1. SagaInv => NoEventDropped
  BY DEF SagaInv
<1>2. QED
  BY <1>1, SagaInvariant, PTL

\* A pending order is waiting for a publication, for a held event, or for an
\* event the dual-write window swallowed.
THEOREM SagaPendingIsAccountedFor == Spec => []PendingIsAccountedFor
<1>1. ASSUME SagaInv
      PROVE  PendingIsAccountedFor
  <2>1. SUFFICES ASSUME NEW o \in Order, status[o] = "pending", WasPublished(o)
                 PROVE  HeldFor(o)
    BY DEF PendingIsAccountedFor, PublicationLost
  <2>2. PICK e \in published : e.order = o /\ e.kind \in Awaited(o)
    BY <2>1 DEF WasPublished
  <2>3. CASE decision[o] = "none"
    <3>1. e.kind \in Binding["inventory"] /\ e \notin Seen("inventory")
      BY <1>1, <2>2, <2>3 DEF SagaInv, DatabasesInStep, Awaited, Binding, Seen
    <3>2. QED
      BY <1>1, <2>2, <3>1, QueueAssumption DEF SagaInv, NoEventDropped, HeldFor
  <2>4. CASE decision[o] # "none"
    <3>1. e.kind \in Binding["order"] /\ e \notin Seen("order")
      BY <1>1, <2>1, <2>2, <2>4
         DEF SagaInv, DatabasesInStep, Awaited, Binding, Seen, StockKinds, Verdict
    <3>2. QED
      BY <1>1, <2>2, <3>1, QueueAssumption DEF SagaInv, NoEventDropped, HeldFor
  <2>5. QED
    BY <2>3, <2>4
<1>2. QED
  BY <1>1, SagaInvariant, PTL

-----------------------------------------------------------------------------
(* The saga implements the order lifecycle.                                *)

\* The reservation is one atomic decision on a pending order.
LEMMA ReserveRefines ==
  ASSUME SagaInv, NEW m \in ready, m.queue = "inventory", Reserve(m.event),
         UNCHANGED status
  PROVE  Lifecycle!LifecycleNext
<1> DEFINE o == m.event.order
<1>1. o \in Order /\ decision[o] = "none" /\ status[o] # "none"
  BY ReserveLemma
<1>2. status[o] = "pending"
  <2>1. SUFFICES ASSUME status[o] # "pending"
                 PROVE  FALSE
    OBVIOUS
  <2>2. PICK f \in orderSeen : f.order = o /\ f.kind \in StockKinds
    BY <1>1, <2>1 DEF SagaInv, TypeOK, DatabasesInStep
  <2>3. QED
    BY <1>1, <2>2 DEF SagaInv, TypeOK, EventsInStep, StockKinds
<1>3. CASE Fits(o)
  BY <1>1, <1>2, <1>3
     DEF Reserve, Fits, Lifecycle!LifecycleNext, Lifecycle!SetAside
<1>4. CASE ~ Fits(o)
  <2>1. \E s \in Sku : Demand[o][s] > stock[s]
    BY <1>1, <1>4, DemandAssumption DEF Fits, SagaInv, TypeOK
  <2>2. QED
    BY <1>1, <1>2, <1>4, <2>1
       DEF Reserve, Lifecycle!LifecycleNext, Lifecycle!TurnDown
<1>5. QED
  BY <1>3, <1>4

\* The verdict closes a pending order as its stock was decided.
LEMMA ConcludeRefines ==
  ASSUME SagaInv, NEW m \in ready, m.queue = "order", m.event \notin orderSeen,
         Conclude(m.event), UNCHANGED inventoryVars
  PROVE  Lifecycle!LifecycleNext
<1> DEFINE o == m.event.order
<1>1. /\ o \in Order /\ m.event.kind \in StockKinds
      /\ status[o] = "pending" /\ decision[o] # "none"
      /\ m.event.kind = "stock.reserved" <=> decision[o] = "reserved"
  BY StockResultLemma
<1>2. Lifecycle!Close(o)
  BY <1>1 DEF Conclude, Verdict, Lifecycle!Close, inventoryVars
<1>3. QED
  BY <1>1, <1>2 DEF Lifecycle!LifecycleNext

\* Every step of the saga is one of the lifecycle, or changes nothing of it.
LEMMA StepRefines ==
  ASSUME SagaInv, [Next]_vars
  PROVE  Lifecycle!LifecycleNext \/ UNCHANGED <<status, decision, stock>>
<1>1. CASE \E m \in ready : HandleOrderCreated(m) \/ ReserveCommitUnanswered(m)
  BY <1>1, ReserveRefines DEF HandleOrderCreated, ReserveCommitUnanswered, orderVars
<1>2. ASSUME NEW m \in ready, HandleStockResult(m) \/ ConcludeCommitUnanswered(m)
      PROVE  Lifecycle!LifecycleNext
  <2>1. /\ m.queue = "order" /\ m.event \notin orderSeen /\ UNCHANGED inventoryVars
    BY <1>2 DEF HandleStockResult, ConcludeCommitUnanswered
  <2>2. status[m.event.order] = "pending"
    BY <2>1, StockResultLemma
  <2>3. Conclude(m.event)
    BY <1>2, <2>2 DEF HandleStockResult, ConcludeCommitUnanswered
  <2>4. QED
    BY <2>1, <2>3, ConcludeRefines
<1>3. CASE \E o \in Order : CreateOrder(o) \/ CreateCommitUnanswered(o)
  BY <1>3 DEF CreateOrder, CreateCommitUnanswered, inventoryVars,
              Lifecycle!LifecycleNext, Lifecycle!Place
<1>4. CASE BrokerOrDispatcher \/ BrokerOrDispatcherFault
  BY <1>4 DEF BrokerOrDispatcher, BrokerOrDispatcherFault, orderVars, inventoryVars
<1>5. CASE \E e \in requests : PublishCreated(e) \/ PublishCreatedFails(e)
  BY <1>5 DEF PublishCreated, PublishCreatedFails, inventoryVars
<1>6. CASE \E m \in ready : SkipDuplicate(m) \/ TransactionFails(m)
  BY <1>6 DEF SkipDuplicate, TransactionFails, orderVars, inventoryVars
<1>7. CASE \E t \in tasks : PublishOutcome(t) \/ PublishOutcomeFails(t)
  BY <1>7 DEF PublishOutcome, PublishOutcomeFails, orderVars, inventoryVars
<1>8. CASE \E q \in Queue : Crash(q)
  BY <1>8 DEF Crash, inventoryVars
<1>9. CASE UNCHANGED vars
  BY <1>9 DEF vars, orderVars, inventoryVars
<1>10. QED
  BY <1>1, <1>2, <1>3, <1>4, <1>5, <1>6, <1>7, <1>8, <1>9
     DEF Next, System, Faults

\* Under any faults, the saga does to the orders and the stock only what the
\* lifecycle allows: placed, decided once and wholly, then closed.
THEOREM SagaImplementsLifecycle == Spec => LifecycleSpec
<1>1. SagaInit => Lifecycle!LifecycleInit
  BY DEF SagaInit, Lifecycle!LifecycleInit
<1>2. SagaInv /\ [Next]_vars => [Lifecycle!LifecycleNext]_(Lifecycle!lifecycleVars)
  BY StepRefines DEF Lifecycle!lifecycleVars
<1>3. QED
  BY <1>1, <1>2, SagaInvariant, PTL DEF Spec, LifecycleSpec, Lifecycle!LifecycleSpec

-----------------------------------------------------------------------------
(* Stock is conserved: by the lifecycle, whatever the saga does.           *)

\* The units of s that each order asks for.
Units(s) == [o \in Order |-> Demand[o][s]]

\* The fold over a set of orders is their sum.
LEMMA FoldIsSum ==
  ASSUME NEW s \in Sku, NEW T, T \subseteq Order, IsFiniteSet(T)
  PROVE  UnitsOf(s, T) = SetSum(Units(s), T)
<1>1. PICK g : PartialSums(g, Units(s), T)
  BY PartialSumsExist
<1>2. \A t \in SUBSET T : t # {} => Units(s)[Picked(t)] = Demand[Picked(t)][s]
  BY DEF Picked, Units
<1>3. g = [t \in SUBSET T |->
             IF t = {} THEN 0 ELSE Demand[Picked(t)][s] + g[t \ {Picked(t)}]]
  BY <1>1, <1>2 DEF PartialSums
<1>4. PICK h : /\ h = [t \in SUBSET T |->
                        IF t = {} THEN 0 ELSE Demand[Picked(t)][s] + h[t \ {Picked(t)}]]
               /\ UnitsOf(s, T) = h[T]
  BY <1>3 DEF UnitsOf, MapThenSumSet, MapThenFoldSet, Picked
<1>5. PartialSums(h, Units(s), T)
  BY <1>2, <1>4 DEF PartialSums
<1>6. QED
  BY <1>4, <1>5, SetSumIs

\* Only orders whose order.created was recorded are decided.
LEMMA ReservedIsFinite ==
  ASSUME SagaInv
  PROVE  IsFiniteSet(Reserved)
<1> DEFINE orderOf == [e \in inventorySeen |-> e.order]
           decided == {e.order : e \in inventorySeen}
<1>1. IsFiniteSet(inventorySeen)
  BY FS_Subset DEF SagaInv, TypeOK
<1>2. orderOf \in Surjection(inventorySeen, decided)
  BY DEF Surjection
<1>3. IsFiniteSet(decided)
  BY <1>1, <1>2, FS_Surjection
<1>4. Reserved \subseteq decided
  BY DEF SagaInv, DatabasesInStep, Reserved
<1>5. QED
  BY <1>3, <1>4, FS_Subset

\* Setting stock aside moves the units of one more order out of the catalog.
LEMMA LifecycleConserves ==
  ASSUME SagaInv, IsFiniteSet(Reserved)', StockConserved, Lifecycle!LifecycleNext
  PROVE  StockConserved'
<1>1. /\ stock \in [Sku -> Nat] /\ decision \in [Order -> {"none", "reserved", "rejected"}]
      /\ IsFiniteSet(Reserved)
  BY ReservedIsFinite DEF SagaInv, TypeOK
<1>2. ASSUME NEW s \in Sku
      PROVE  /\ UnitsOf(s, Reserved) = SetSum(Units(s), Reserved)
             /\ UnitsOf(s, Reserved') = SetSum(Units(s), Reserved')
  BY <1>1, FoldIsSum DEF Reserved
<1>3. SUFFICES ASSUME NEW s \in Sku,
                      stock[s] + SetSum(Units(s), Reserved) = InitialStock[s]
               PROVE  stock'[s] + SetSum(Units(s), Reserved') = InitialStock[s]
  BY <1>2 DEF StockConserved
<1>4. /\ \A o \in Order : Units(s)[o] = Demand[o][s] /\ Units(s)[o] \in Nat
      /\ SetSum(Units(s), Reserved) \in Nat
  BY <1>1, DemandAssumption, SetSumTake DEF Units, Reserved
<1>5. CASE \E o \in Order : Lifecycle!SetAside(o)
  <2>1. PICK o \in Order : /\ decision[o] = "none"
                           /\ decision' = [decision EXCEPT ![o] = "reserved"]
                           /\ stock'[s] = stock[s] - Demand[o][s]
    BY <1>5 DEF Lifecycle!SetAside
  <2>2. o \notin Reserved /\ Reserved' = Reserved \cup {o}
    BY <1>1, <2>1 DEF Reserved
  <2>3. SetSum(Units(s), Reserved') = Units(s)[o] + SetSum(Units(s), Reserved)
    BY <1>1, <1>4, <2>2, SetSumAdd DEF Reserved
  <2>4. QED
    BY <1>1, <1>3, <1>4, <2>1, <2>3, StockAssumption
<1>6. CASE \E o \in Order : Lifecycle!TurnDown(o)
  <2>1. Reserved' = Reserved /\ UNCHANGED stock
    BY <1>1, <1>6 DEF Lifecycle!TurnDown, Reserved
  <2>2. QED
    BY <1>3, <2>1
<1>7. CASE \E o \in Order : Lifecycle!Place(o) \/ Lifecycle!Close(o)
  <2>1. Reserved' = Reserved /\ UNCHANGED stock
    BY <1>7 DEF Lifecycle!Place, Lifecycle!Close, Reserved
  <2>2. QED
    BY <1>3, <2>1
<1>8. QED
  BY <1>5, <1>6, <1>7 DEF Lifecycle!LifecycleNext

\* Units leave the catalog exactly once per reserved order, all its lines or
\* none, whatever was redelivered, retried or lost.
THEOREM SagaStockConserved == Spec => []StockConserved
<1>1. SagaInit => StockConserved
  <2> SUFFICES ASSUME SagaInit PROVE StockConserved
    OBVIOUS
  <2>1. Reserved = {} /\ IsFiniteSet(Reserved) /\ stock = InitialStock
    BY FS_EmptySet DEF SagaInit, Reserved
  <2>2. ASSUME NEW s \in Sku
        PROVE  UnitsOf(s, Reserved) = SetSum(Units(s), Reserved)
    BY <2>1, FoldIsSum DEF Reserved
  <2>3. \A s \in Sku : SetSum(Units(s), Reserved) = 0
    BY <2>1, SetSumEmpty
  <2>4. QED
    BY <2>1, <2>2, <2>3, StockAssumption DEF StockConserved
<1>2. SagaInv => IsFiniteSet(Reserved)
  BY ReservedIsFinite
<1>3. SagaInv /\ IsFiniteSet(Reserved)' /\ StockConserved /\ [Next]_vars => StockConserved'
  <2> SUFFICES ASSUME SagaInv, IsFiniteSet(Reserved)', StockConserved, [Next]_vars
               PROVE  StockConserved'
    OBVIOUS
  <2>1. CASE Lifecycle!LifecycleNext
    BY <2>1, LifecycleConserves
  <2>2. CASE UNCHANGED <<status, decision, stock>>
    <3>1. Reserved' = Reserved
      BY <2>2 DEF Reserved
    <3>2. QED
      BY <2>2, <3>1 DEF StockConserved
  <2>3. QED
    BY <2>1, <2>2, StepRefines
<1>4. QED
  BY <1>1, <1>2, <1>3, SagaInvariant, PTL DEF Spec
=============================================================================
