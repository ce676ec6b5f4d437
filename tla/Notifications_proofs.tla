------------------------ MODULE Notifications_proofs ------------------------
(***************************************************************************)
(* Proofs about Notifications, for any outcomes and memory bound, and any  *)
(* number of faults.                                                       *)
(***************************************************************************)
EXTENDS Notifications, SequenceTheorems, FiniteSetTheorems, TLAPS

-----------------------------------------------------------------------------
(* The inductive invariant.                                                *)

\* A copy of e will yet be handled, or can be replayed.
Kept(e) ==
  \/ \E m \in ready \cup waiting \cup dlq : m.event = e
  \/ \E t \in tasks : Live(t) /\ t.msg.event = e /\ t.pc # "settle"

\* Only published outcomes are delivered, and handled, and remembered.
OutcomesInStep ==
  /\ IsFiniteSet(published)
  /\ told \subseteq published
  /\ \A m \in InPlay : m.event \in published
  /\ \A i \in 1 .. Len(seen) : seen[i] \in told
  /\ \A t \in tasks : t.pc = "ack" => t.msg.event \in told

\* An outcome this process sent an email about is remembered, unless there
\* are more of them than it can remember.
Remembered ==
  \A e \in Outcome :
    emails[e] > 0 => Seen(e) \/ Cardinality(published) > MaxSeen

NoneLost == \A e \in published : e \in told \/ Kept(e)

MailInv == TypeOK /\ OutcomesInStep /\ Remembered /\ OneEmail /\ NoneLost

-----------------------------------------------------------------------------
(* The pieces a step is built from.                                        *)

LEMMA MaxRetriesIs3 == MaxRetries = 3
BY DEF MaxRetries, RetryStages

\* A failed task stays with its message, and has a copy to send or a nack.
LEMMA FailLemma ==
  ASSUME NEW t \in Task(Outcome)
  PROVE  /\ Fail(t, "TRANSIENT") \in Task(Outcome)
         /\ Fail(t, "TRANSIENT").msg = t.msg /\ Fail(t, "TRANSIENT").epoch = t.epoch
         /\ Fail(t, "TRANSIENT").pc \in {"republish", "nack"}
BY DEF Fail, FailurePc, Task, TaskPc

LEMMA RetryCopyLemma ==
  ASSUME NEW m \in Message(Outcome), NEW c \in CopyId
  PROVE  RetryCopy(m, c) \in Message(Outcome) /\ RetryCopy(m, c).event = m.event
<1>1. m.retries \in 0 .. 3
  BY MaxRetriesIs3 DEF Message
<1>2. DecideRetry(m.retries, "TRANSIENT").next \in 0 .. 3
  BY <1>1, MaxRetriesIs3 DEF DecideRetry
<1>3. QED
  BY <1>2, MaxRetriesIs3 DEF RetryCopy, Message

LEMMA NewTaskLemma ==
  ASSUME TypeOK, NEW m \in ready
  PROVE  /\ NewTask(m, "ack", {}) \in Task(Outcome)
         /\ NewTask(m, "ack", {}).msg = m /\ NewTask(m, "ack", {}).pc = "ack"
         /\ Live(NewTask(m, "ack", {}))
BY DEF TypeOK, DeliveryTypeOK, NewTask, Task, TaskPc, Message, Live

LEMMA FaultLemma ==
  ASSUME faults \in 0 .. MaxFaults, NEW kind, Fault(kind)
  PROVE  faults' \in 0 .. MaxFaults
BY FaultsAssumption DEF Fault

-----------------------------------------------------------------------------
(* Steps of the broker and the dispatcher.                                 *)

\* Of a step that sends no email and publishes nothing, only the deliveries
\* are in question.
LEMMA DeliveryFrame ==
  ASSUME MailInv, UNCHANGED mailVars, DeliveryTypeOK(Outcome)',
         \A m \in InPlay' : m.event \in published,
         \A t \in tasks' : t.pc = "ack" => t.msg.event \in told,
         \A e \in published \ told : Kept(e) => Kept(e)'
  PROVE  MailInv'
<1>1. UNCHANGED <<published, seen, told, emails>>
  BY DEF mailVars
<1>2. TypeOK' /\ OutcomesInStep' /\ Remembered' /\ OneEmail'
  BY <1>1 DEF MailInv, TypeOK, OutcomesInStep, Remembered, OneEmail, Seen
<1>3. NoneLost'
  BY <1>1 DEF MailInv, NoneLost
<1>4. QED
  BY <1>2, <1>3 DEF MailInv

LEMMA AckPreserves ==
  ASSUME MailInv, UNCHANGED mailVars, NEW t \in tasks, Ack(t)
  PROVE  MailInv'
<1>1. /\ tasks' = tasks \ {t} /\ UNCHANGED <<ready, waiting, dlq, epoch, faults>>
      /\ t.pc = "ack"
  BY DEF Ack, EndTask, NoFault
<1>2. DeliveryTypeOK(Outcome)'
  BY <1>1 DEF MailInv, TypeOK, DeliveryTypeOK
<1>3. InPlay' \subseteq InPlay
  BY <1>1 DEF InPlay
<1>4. t.msg.event \in told
  BY <1>1 DEF MailInv, OutcomesInStep
<1>5. \A e \in published \ told : Kept(e) => Kept(e)'
  BY <1>1, <1>4 DEF Kept, Live
<1>6. QED
  BY <1>1, <1>2, <1>3, <1>5, DeliveryFrame DEF MailInv, OutcomesInStep

LEMMA AckOnLostConnectionPreserves ==
  ASSUME MailInv, UNCHANGED mailVars, NEW t \in tasks, AckOnLostConnection(t)
  PROVE  MailInv'
<1> DEFINE u == Fail(t, "TRANSIENT")
<1>1. u \in Task(Outcome) /\ u.msg = t.msg /\ u.pc \in {"republish", "nack"}
  BY FailLemma DEF MailInv, TypeOK, DeliveryTypeOK
<1>2. /\ tasks' \subseteq (tasks \ {t}) \cup {u} /\ tasks \ {t} \subseteq tasks'
      /\ UNCHANGED <<ready, waiting, dlq, epoch, faults>> /\ ~ Live(t)
  BY DEF AckOnLostConnection, EndTask, Resume, NoFault
<1> HIDE DEF u
<1>3. DeliveryTypeOK(Outcome)'
  BY <1>1, <1>2 DEF MailInv, TypeOK, DeliveryTypeOK
<1>4. InPlay' \subseteq InPlay
  BY <1>1, <1>2 DEF InPlay
<1>5. \A e \in published \ told : Kept(e) => Kept(e)'
  BY <1>2 DEF Kept, Live
<1>6. QED
  BY <1>1, <1>2, <1>3, <1>4, <1>5, DeliveryFrame DEF MailInv, OutcomesInStep

\* A republish and the failure of one: the task moves on or ends, and at
\* most a retry copy is added.
LEMMA RepublishPreserves ==
  ASSUME MailInv, UNCHANGED mailVars, NEW t \in tasks, Republish(t) \/ RepublishFails(t)
  PROVE  MailInv'
<1>1. t \in Task(Outcome) /\ t.msg \in Message(Outcome) /\ t.msg \in InPlay
  BY DEF MailInv, TypeOK, DeliveryTypeOK, Task, InPlay
<1>2. UNCHANGED <<ready, dlq, epoch>>
  BY DEF Republish, RepublishFails
<1>3. ASSUME NEW u, u \in Task(Outcome), u.msg = t.msg, u.epoch = t.epoch, u.pc # "ack",
             tasks' = (tasks \ {t}) \cup {u} \/ (~ Live(t) /\ tasks' = tasks \ {t}),
             NEW N, N \subseteq Message(Outcome), \A m \in N : m.event = t.msg.event,
             waiting' = waiting \cup N,
             u.pc = "settle" => N # {},
             faults' \in 0 .. MaxFaults
      PROVE  MailInv'
  <2>1. DeliveryTypeOK(Outcome)'
    BY <1>2, <1>3 DEF MailInv, TypeOK, DeliveryTypeOK
  <2>2. \A m \in InPlay' : m.event \in published
    <3>1. InPlay' \subseteq InPlay \cup N
      BY <1>1, <1>2, <1>3 DEF InPlay
    <3>2. QED
      BY <1>1, <1>3, <3>1 DEF MailInv, OutcomesInStep
  <2>3. \A v \in tasks' : v.pc = "ack" => v.msg.event \in told
    BY <1>3 DEF MailInv, OutcomesInStep
  <2>4. ASSUME NEW e \in published \ told, Kept(e)
        PROVE  Kept(e)'
    BY <1>2, <1>3, <2>4 DEF Kept, Live
  <2>5. QED
    BY <2>1, <2>2, <2>3, <2>4, DeliveryFrame
<1>4. \A c \in CopyId : /\ {RetryCopy(t.msg, c)} \subseteq Message(Outcome)
                        /\ \A m \in {RetryCopy(t.msg, c)} : m.event = t.msg.event
  BY <1>1, RetryCopyLemma
<1>5. ASSUME NEW pc \in {"settle", "stuck"}
      PROVE  /\ [t EXCEPT !.pc = pc] \in Task(Outcome)
             /\ [t EXCEPT !.pc = pc].msg = t.msg /\ [t EXCEPT !.pc = pc].epoch = t.epoch
             /\ [t EXCEPT !.pc = pc].pc = pc
  BY <1>1 DEF Task, TaskPc
<1>6. CASE Republish(t)
  <2>1. PICK c \in CopyId : waiting' = waiting \cup {RetryCopy(t.msg, c)}
    BY <1>6 DEF Republish
  <2>2. tasks' = (tasks \ {t}) \cup {[t EXCEPT !.pc = "settle"]} /\ faults' \in 0 .. MaxFaults
    BY <1>6 DEF Republish, Resume, NoFault, MailInv, TypeOK, DeliveryTypeOK
  <2> DEFINE u == [t EXCEPT !.pc = "settle"]
             N == {RetryCopy(t.msg, c)}
  <2>3. /\ u \in Task(Outcome) /\ u.msg = t.msg /\ u.epoch = t.epoch /\ u.pc = "settle"
        /\ N # {} /\ N \subseteq Message(Outcome) /\ \A m \in N : m.event = t.msg.event
        /\ waiting' = waiting \cup N /\ tasks' = (tasks \ {t}) \cup {u}
    BY <1>4, <1>5, <2>1, <2>2
  <2> HIDE DEF u, N
  <2>4. QED
    BY <1>3, <2>2, <2>3
<1>7. CASE RepublishFails(t)
  <2>1. PICK N : /\ N = {} \/ \E c \in CopyId : N = {RetryCopy(t.msg, c)}
                 /\ waiting' = waiting \cup N
    <3>1. CASE waiting' = waiting
      <4>1. waiting' = waiting \cup {}
        BY <3>1
      <4>2. QED
        BY <4>1
    <3>2. CASE \E c \in CopyId : waiting' = waiting \cup {RetryCopy(t.msg, c)}
      BY <3>2
    <3>3. QED
      BY <1>7, <3>1, <3>2 DEF RepublishFails
  <2> DEFINE u == [t EXCEPT !.pc = "stuck"]
  <2>2. /\ tasks' = (tasks \ {t}) \cup {u} \/ (~ Live(t) /\ tasks' = tasks \ {t})
        /\ faults' \in 0 .. MaxFaults
    BY <1>7, FaultLemma
       DEF RepublishFails, Resume, EndTask, MailInv, TypeOK, DeliveryTypeOK
  <2>3. u \in Task(Outcome) /\ u.msg = t.msg /\ u.epoch = t.epoch /\ u.pc = "stuck"
    BY <1>5
  <2>4. N \subseteq Message(Outcome) /\ \A m \in N : m.event = t.msg.event
    BY <1>4, <2>1
  <2> HIDE DEF u
  <2>5. QED
    BY <1>3, <2>1, <2>2, <2>3, <2>4
<1>8. QED
  BY <1>6, <1>7

LEMMA SettleOrNackPreserves ==
  ASSUME MailInv, UNCHANGED mailVars, NEW t \in tasks, Settle(t) \/ Nack(t)
  PROVE  MailInv'
<1>1. /\ tasks' = tasks \ {t} /\ UNCHANGED <<ready, waiting, epoch, faults>>
      /\ dlq \subseteq dlq' /\ dlq' \subseteq dlq \cup {t.msg}
      /\ t.pc = "settle" \/ ~ Live(t) \/ t.msg \in dlq'
  BY DEF Settle, Nack, EndTask, NoFault
<1>2. DeliveryTypeOK(Outcome)'
  BY <1>1 DEF MailInv, TypeOK, DeliveryTypeOK, Task
<1>3. InPlay' \subseteq InPlay
  BY <1>1 DEF InPlay
<1>4. \A e \in published \ told : Kept(e) => Kept(e)'
  BY <1>1 DEF Kept, Live
<1>5. QED
  BY <1>1, <1>2, <1>3, <1>4, DeliveryFrame DEF MailInv, OutcomesInStep

LEMMA RetryExpiresPreserves ==
  ASSUME MailInv, UNCHANGED mailVars, NEW m \in waiting, RetryExpires(m)
  PROVE  MailInv'
<1>1. /\ waiting' = waiting \ {m} /\ ready' = ready \cup {m}
      /\ UNCHANGED <<dlq, tasks, epoch, faults>>
  BY DEF RetryExpires, NoFault
<1>2. DeliveryTypeOK(Outcome)'
  BY <1>1 DEF MailInv, TypeOK, DeliveryTypeOK
<1>3. InPlay' \subseteq InPlay
  BY <1>1 DEF InPlay
<1>4. \A e \in published \ told : Kept(e) => Kept(e)'
  BY <1>1 DEF Kept, Live
<1>5. QED
  BY <1>1, <1>2, <1>3, <1>4, DeliveryFrame DEF MailInv, OutcomesInStep

\* What a lost connection or a dead process requeues is what was held.
LEMMA LostDeliveries ==
  ASSUME MailInv, NEW kept, kept \subseteq tasks,
         ready' = ready \cup Unacked("notification"), tasks' = kept,
         UNCHANGED <<waiting, dlq>>
  PROVE  /\ ready' \subseteq Message(Outcome) /\ InPlay' \subseteq InPlay
         /\ \A e \in published \ told : Kept(e) => Kept(e)'
<1>1. /\ Unacked("notification") \subseteq {t.msg : t \in tasks}
      /\ tasks \subseteq Task(Outcome) /\ ready \subseteq Message(Outcome)
  BY DEF Unacked, MailInv, TypeOK, DeliveryTypeOK
<1>2. \A t \in tasks : t.msg \in Message(Outcome) /\ t.msg.queue = "notification"
  BY <1>1, NotificationsAssumption DEF Task, Message
<1>3. \A t \in tasks : Live(t) => t.msg \in ready'
  BY <1>2 DEF Unacked
<1>4. \A e \in published \ told : Kept(e) => Kept(e)'
  BY <1>3 DEF Kept
<1>5. InPlay' \subseteq InPlay
  BY <1>1 DEF InPlay
<1>6. QED
  BY <1>1, <1>2, <1>4, <1>5

LEMMA LoseConnectionPreserves ==
  ASSUME MailInv, UNCHANGED mailVars, LoseConnection("notification")
  PROVE  MailInv'
<1>1. /\ ready' = ready \cup Unacked("notification") /\ tasks' \subseteq tasks
      /\ epoch' = [epoch EXCEPT !["notification"] = @ + 1]
      /\ UNCHANGED <<waiting, dlq>> /\ Fault("connection")
  BY DEF LoseConnection
<1>2. faults' \in 0 .. MaxFaults /\ epoch' \in [Queue -> Nat]
  <2>1. faults \in 0 .. MaxFaults /\ epoch \in [Queue -> Nat] /\ "notification" \in Queue
    BY NotificationsAssumption DEF MailInv, TypeOK, DeliveryTypeOK
  <2>2. faults' \in 0 .. MaxFaults
    BY <1>1, <2>1, FaultLemma
  <2>3. QED
    BY <1>1, <2>1, <2>2
<1>3. /\ ready' \subseteq Message(Outcome) /\ InPlay' \subseteq InPlay
      /\ \A e \in published \ told : Kept(e) => Kept(e)'
  BY <1>1, LostDeliveries
<1>4. DeliveryTypeOK(Outcome)'
  BY <1>1, <1>2, <1>3 DEF MailInv, TypeOK, DeliveryTypeOK
<1>5. QED
  BY <1>1, <1>3, <1>4, DeliveryFrame DEF MailInv, OutcomesInStep

LEMMA ReplayDeadLetterPreserves ==
  ASSUME MailInv, UNCHANGED mailVars, NEW m \in dlq, ReplayDeadLetter(m)
  PROVE  MailInv'
<1>1. m \in Message(Outcome) /\ m \in InPlay
  BY DEF MailInv, TypeOK, DeliveryTypeOK, InPlay
<1>2. PICK n \in Message(Outcome) : n.event = m.event /\ ready' = ready \cup {n}
  <2>1. PICK r \in {0, m.retries}, c \in CopyId :
          ready' = ready \cup {[m EXCEPT !.retries = r, !.copy = c]}
    BY DEF ReplayDeadLetter
  <2>2. r \in 0 .. MaxRetries
    BY <1>1, MaxRetriesIs3 DEF Message
  <2>3. QED
    BY <1>1, <2>1, <2>2 DEF Message
<1>3. dlq' = dlq \ {m} /\ UNCHANGED <<waiting, tasks, epoch>> /\ faults' \in 0 .. MaxFaults
  BY FaultLemma DEF ReplayDeadLetter, MailInv, TypeOK, DeliveryTypeOK
<1>4. DeliveryTypeOK(Outcome)'
  BY <1>2, <1>3 DEF MailInv, TypeOK, DeliveryTypeOK
<1>5. InPlay' \subseteq InPlay \cup {n}
  BY <1>2, <1>3 DEF InPlay
<1>6. \A e \in published \ told : Kept(e) => Kept(e)'
  BY <1>2, <1>3 DEF Kept, Live
<1>7. QED
  BY <1>1, <1>2, <1>3, <1>4, <1>5, <1>6, DeliveryFrame DEF MailInv, OutcomesInStep

LEMMA BrokerPreserves ==
  ASSUME MailInv, BrokerOrDispatcher \/ BrokerOrDispatcherFault
  PROVE  MailInv'
<1>1. UNCHANGED mailVars
  BY DEF BrokerOrDispatcher, BrokerOrDispatcherFault
<1>2. QED
  BY <1>1, AckPreserves, AckOnLostConnectionPreserves, RepublishPreserves,
     SettleOrNackPreserves, RetryExpiresPreserves, LoseConnectionPreserves,
     ReplayDeadLetterPreserves
     DEF BrokerOrDispatcher, BrokerOrDispatcherFault, DeliveryStep

-----------------------------------------------------------------------------
(* The deduplicator.                                                       *)

\* Distinct outcomes remembered are no more than there are.
LEMMA RememberedFits ==
  ASSUME NEW s \in Seq(Outcome), IsInjective(s), NEW P, IsFiniteSet(P),
         \A i \in 1 .. Len(s) : s[i] \in P
  PROVE  Cardinality(P) \in Nat /\ Len(s) <= Cardinality(P)
<1>1. Len(s) \in Nat /\ s \in [1 .. Len(s) -> Outcome] /\ DOMAIN s = 1 .. Len(s)
  BY LenProperties
<1>2. s \in Injection(1 .. Len(s), P)
  BY <1>1 DEF Injection
<1>3. Cardinality(1 .. Len(s)) <= Cardinality(P)
  BY <1>2, FS_Injection
<1>4. Cardinality(1 .. Len(s)) = Len(s)
  <2>1. Len(s) \in Int /\ 1 \in Int /\ (1 > Len(s) => Len(s) = 0)
    BY <1>1
  <2>2. Cardinality(1 .. Len(s)) = IF 1 > Len(s) THEN 0 ELSE Len(s) - 1 + 1
    BY <2>1, FS_Interval
  <2>3. QED
    BY <1>1, <2>1, <2>2
<1>5. QED
  BY <1>3, <1>4, FS_CardinalityType

\* An outcome appended to those remembered, not being one of them.
LEMMA AppendNew ==
  ASSUME NEW s \in Seq(Outcome), IsInjective(s), NEW e \in Outcome,
         \A i \in 1 .. Len(s) : s[i] # e
  PROVE  /\ Append(s, e) \in Seq(Outcome) /\ IsInjective(Append(s, e))
         /\ Len(Append(s, e)) = Len(s) + 1 /\ Len(s) \in Nat
         /\ \A i \in 1 .. Len(s) : Append(s, e)[i] = s[i]
         /\ Append(s, e)[Len(s) + 1] = e
<1> DEFINE a == Append(s, e)
<1>1. /\ a \in Seq(Outcome) /\ Len(a) = Len(s) + 1
      /\ \A i \in 1 .. Len(s) : a[i] = s[i]
      /\ a[Len(s) + 1] = e
  BY AppendProperties
<1>2. Len(s) \in Nat /\ DOMAIN s = 1 .. Len(s) /\ DOMAIN a = 1 .. Len(s) + 1
  BY <1>1, LenProperties
<1> HIDE DEF a
<1>3. ASSUME NEW i \in DOMAIN a, NEW j \in DOMAIN a, a[i] = a[j]
      PROVE  i = j
  <2>1. CASE i \in 1 .. Len(s) /\ j \in 1 .. Len(s)
    BY <1>1, <1>2, <1>3, <2>1 DEF IsInjective
  <2>2. CASE i = Len(s) + 1 \/ j = Len(s) + 1
    BY <1>1, <1>2, <1>3, <2>2
  <2>3. QED
    BY <1>2, <2>1, <2>2
<1>4. IsInjective(a)
  BY <1>3 DEF IsInjective
<1>5. QED
  BY <1>1, <1>2, <1>4 DEF a

\* mark_seen remembers e; it forgets another outcome only when there are
\* more of them than it can remember.
LEMMA MarkSeenLemma ==
  ASSUME TypeOK, NEW P, P \subseteq Outcome, IsFiniteSet(P),
         \A i \in 1 .. Len(seen) : seen[i] \in P,
         NEW e \in P, ~ Seen(e)
  PROVE  /\ MarkSeen(e) \in Seq(Outcome) /\ Len(MarkSeen(e)) <= MaxSeen
         /\ IsInjective(MarkSeen(e))
         /\ \A i \in 1 .. Len(MarkSeen(e)) :
              \/ MarkSeen(e)[i] = e
              \/ \E j \in 1 .. Len(seen) : MarkSeen(e)[i] = seen[j]
         /\ Contains(MarkSeen(e), e)
         /\ \/ \A f : Seen(f) => Contains(MarkSeen(e), f)
            \/ Cardinality(P) > MaxSeen
<1>1. /\ seen \in Seq(Outcome) /\ Len(seen) <= MaxSeen /\ IsInjective(seen)
      /\ MaxSeen \in Nat \ {0} /\ e \in Outcome
  BY NotificationsAssumption DEF TypeOK
<1>2. \A i \in 1 .. Len(seen) : seen[i] # e
  BY DEF Seen, Contains
<1>3. CASE Len(seen) < MaxSeen
  <2>1. MarkSeen(e) = Append(seen, e)
    BY <1>3 DEF MarkSeen
  <2>2. /\ Append(seen, e) \in Seq(Outcome) /\ IsInjective(Append(seen, e))
        /\ Len(Append(seen, e)) = Len(seen) + 1 /\ Len(seen) \in Nat
        /\ \A i \in 1 .. Len(seen) : Append(seen, e)[i] = seen[i]
        /\ Append(seen, e)[Len(seen) + 1] = e
    BY <1>1, <1>2, AppendNew
  <2> DEFINE a == Append(seen, e)
  <2> HIDE DEF a
  <2>3. Contains(a, e) /\ \A f : Seen(f) => Contains(a, f)
    BY <2>2 DEF Contains, Seen, a
  <2>4. \A i \in 1 .. Len(a) : a[i] = e \/ \E j \in 1 .. Len(seen) : a[i] = seen[j]
    BY <2>2 DEF a
  <2>5. QED
    BY <1>1, <1>3, <2>1, <2>2, <2>3, <2>4 DEF a
<1>4. CASE ~ Len(seen) < MaxSeen
  <2>1. MarkSeen(e) = Append(Tail(seen), e)
    BY <1>4 DEF MarkSeen
  <2>2. Len(seen) = MaxSeen /\ Len(seen) \in Nat /\ DOMAIN seen = 1 .. Len(seen)
    BY <1>1, <1>4, LenProperties
  <2>3. seen # <<>>
    BY <1>1, <2>2, EmptySeq
  <2> DEFINE t == Tail(seen)
  <2>4. /\ t \in Seq(Outcome) /\ Len(t) = Len(seen) - 1
        /\ \A i \in 1 .. Len(t) : t[i] = seen[i + 1]
    BY <1>1, <2>3, HeadTailProperties
  <2>5. DOMAIN t = 1 .. Len(t)
    BY <2>4, LenProperties
  <2> HIDE DEF t
  <2>6. IsInjective(t)
    <3>1. ASSUME NEW i \in 1 .. Len(t), NEW j \in 1 .. Len(t), t[i] = t[j]
          PROVE  i = j
      <4>1. i \in Int /\ j \in Int /\ i + 1 \in DOMAIN seen /\ j + 1 \in DOMAIN seen
        BY <2>2, <2>4
      <4>2. seen[i + 1] = seen[j + 1]
        BY <2>4, <3>1
      <4>3. i + 1 = j + 1
        BY <1>1, <4>1, <4>2, Zenon DEF IsInjective
      <4>4. QED
        BY <4>1, <4>3
    <3>2. QED
      BY <2>5, <3>1 DEF IsInjective
  <2>7. \A i \in 1 .. Len(t) : t[i] # e
    BY <1>2, <2>2, <2>4
  <2>8. /\ Append(t, e) \in Seq(Outcome) /\ IsInjective(Append(t, e))
        /\ Len(Append(t, e)) = Len(t) + 1 /\ Len(t) \in Nat
        /\ \A i \in 1 .. Len(t) : Append(t, e)[i] = t[i]
        /\ Append(t, e)[Len(t) + 1] = e
    BY <1>1, <2>4, <2>6, <2>7, AppendNew
  <2> DEFINE a == Append(t, e)
  <2> HIDE DEF a
  <2>9. Contains(a, e)
    BY <2>8 DEF Contains, a
  <2>10. \A i \in 1 .. Len(a) : a[i] = e \/ \E j \in 1 .. Len(seen) : a[i] = seen[j]
    BY <2>2, <2>4, <2>8 DEF a
  <2>11. Cardinality(P) > MaxSeen
    <3> DEFINE b == Append(seen, e)
    <3>1. /\ b \in Seq(Outcome) /\ IsInjective(b) /\ Len(b) = Len(seen) + 1
          /\ \A i \in 1 .. Len(seen) : b[i] = seen[i]
          /\ b[Len(seen) + 1] = e
      BY <1>1, <1>2, AppendNew
    <3> HIDE DEF b
    <3>2. \A i \in 1 .. Len(b) : b[i] \in P
      BY <2>2, <3>1
    <3>3. Cardinality(P) \in Nat /\ Len(b) <= Cardinality(P)
      BY <3>1, <3>2, RememberedFits
    <3>4. QED
      BY <2>2, <3>1, <3>3
  <2>12. QED
    BY <1>1, <2>1, <2>2, <2>4, <2>8, <2>9, <2>10, <2>11 DEF a, t
<1>5. QED
  BY <1>3, <1>4

-----------------------------------------------------------------------------
(* Steps of the service, and of who publishes to it.                       *)

\* The delivery of m starts a task that may still handle m's event.
LEMMA DeliverLemma ==
  ASSUME MailInv, NEW m \in ready, NEW t \in Task(Outcome), t.msg = m, Live(t),
         t.pc # "settle", Deliver(m, t), faults' \in 0 .. MaxFaults
  PROVE  /\ DeliveryTypeOK(Outcome)' /\ InPlay' \subseteq InPlay
         /\ tasks' = tasks \cup {t}
         /\ m.event \in Outcome /\ m.event \in published
         /\ \A e : Kept(e) => Kept(e)'
<1>1. /\ ready' = ready \ {m} /\ tasks' = tasks \cup {t} /\ UNCHANGED <<waiting, dlq, epoch>>
  BY DEF Deliver
<1>2. DeliveryTypeOK(Outcome)'
  BY <1>1 DEF MailInv, TypeOK, DeliveryTypeOK
<1>3. InPlay' \subseteq InPlay /\ m \in InPlay
  BY <1>1 DEF InPlay
<1>4. \A e : Kept(e) => Kept(e)'
  BY <1>1 DEF Kept, Live
<1>5. QED
  BY <1>1, <1>2, <1>3, <1>4 DEF MailInv, TypeOK, OutcomesInStep

LEMMA SkipDuplicatePreserves ==
  ASSUME MailInv, NEW m \in ready, SkipDuplicate(m)
  PROVE  MailInv'
<1> DEFINE t == NewTask(m, "ack", {})
<1>1. t \in Task(Outcome) /\ t.msg = m /\ t.pc = "ack" /\ Live(t)
  BY NewTaskLemma DEF MailInv
<1>2. Deliver(m, t) /\ UNCHANGED mailVars /\ faults' \in 0 .. MaxFaults
  BY DEF SkipDuplicate, Handled, NoFault, MailInv, TypeOK, DeliveryTypeOK
<1> HIDE DEF t
<1>3. /\ DeliveryTypeOK(Outcome)' /\ InPlay' \subseteq InPlay /\ tasks' = tasks \cup {t}
      /\ \A e : Kept(e) => Kept(e)'
  BY <1>1, <1>2, DeliverLemma
<1>4. m.event \in told
  BY DEF SkipDuplicate, Seen, Contains, MailInv, OutcomesInStep
<1>5. QED
  BY <1>1, <1>2, <1>3, <1>4, DeliveryFrame DEF MailInv, OutcomesInStep

\* The new outcome is remembered, and one email was sent about it, unless
\* there were too many to remember it from an earlier delivery.
LEMMA NotifyPreserves ==
  ASSUME MailInv, NEW m \in ready, Notify(m)
  PROVE  MailInv'
<1> DEFINE t == NewTask(m, "ack", {})
           n == m.event
<1>1. t \in Task(Outcome) /\ t.msg = m /\ t.pc = "ack" /\ Live(t)
  BY NewTaskLemma DEF MailInv
<1>2. /\ Deliver(m, t) /\ faults' \in 0 .. MaxFaults /\ ~ Seen(n)
      /\ told' = told \cup {n} /\ emails' = [emails EXCEPT ![n] = @ + 1]
      /\ seen' = MarkSeen(n) /\ UNCHANGED published
  BY DEF Notify, Handled, NoFault, MailInv, TypeOK, DeliveryTypeOK
<1> HIDE DEF t
<1>3. /\ DeliveryTypeOK(Outcome)' /\ InPlay' \subseteq InPlay /\ tasks' = tasks \cup {t}
      /\ n \in Outcome /\ n \in published
      /\ \A e : Kept(e) => Kept(e)'
  BY <1>1, <1>2, DeliverLemma
<1>4. /\ published \subseteq Outcome /\ IsFiniteSet(published) /\ told \subseteq published
      /\ TypeOK /\ emails \in [Outcome -> Nat]
      /\ \A i \in 1 .. Len(seen) : seen[i] \in told
  BY DEF MailInv, TypeOK, OutcomesInStep
<1>5. /\ seen' \in Seq(Outcome) /\ Len(seen') <= MaxSeen /\ IsInjective(seen')
      /\ \A i \in 1 .. Len(seen') :
           seen'[i] = n \/ \E j \in 1 .. Len(seen) : seen'[i] = seen[j]
      /\ Contains(seen', n)
      /\ \/ \A f : Seen(f) => Contains(seen', f)
         \/ Cardinality(published) > MaxSeen
  <2> HIDE DEF n
  <2>1. \A i \in 1 .. Len(seen) : seen[i] \in published
    BY <1>4
  <2>2. QED
    BY <1>2, <1>3, <1>4, <2>1, MarkSeenLemma
<1>6. TypeOK'
  BY <1>2, <1>3, <1>4, <1>5 DEF TypeOK
<1>7. OutcomesInStep'
  <2>1. \A i \in 1 .. Len(seen') : seen'[i] \in told'
    BY <1>2, <1>4, <1>5
  <2>2. \A u \in tasks' : u.pc = "ack" => u.msg.event \in told'
    BY <1>1, <1>2, <1>3 DEF MailInv, OutcomesInStep
  <2>3. \A x \in InPlay' : x.event \in published'
    BY <1>2, <1>3 DEF MailInv, OutcomesInStep
  <2>4. QED
    BY <1>2, <1>3, <1>4, <2>1, <2>2, <2>3 DEF OutcomesInStep
<1>8. Remembered'
  <2>1. SUFFICES ASSUME NEW e \in Outcome, emails'[e] > 0
                 PROVE  Contains(seen', e) \/ Cardinality(published) > MaxSeen
    BY <1>2 DEF Remembered, Seen
  <2>2. CASE e = n
    BY <1>5, <2>2
  <2>3. CASE e # n
    <3>1. emails[e] > 0
      BY <1>2, <1>4, <2>1, <2>3
    <3>2. QED
      BY <1>5, <3>1 DEF MailInv, Remembered
  <2>4. QED
    BY <2>2, <2>3
<1>9. OneEmail'
  <2>1. SUFFICES ASSUME NEW e \in Outcome, emails'[e] > 1
                 PROVE  Cardinality(published) > MaxSeen
    BY <1>2 DEF OneEmail
  <2>2. CASE e = n
    <3>1. emails[n] > 0
      BY <1>2, <1>3, <1>4, <2>1, <2>2
    <3>2. QED
      BY <1>2, <1>3, <3>1 DEF MailInv, Remembered
  <2>3. CASE e # n
    <3>1. emails[e] > 1
      BY <1>2, <1>4, <2>1, <2>3
    <3>2. QED
      BY <3>1 DEF MailInv, OneEmail
  <2>4. QED
    BY <2>2, <2>3
<1>10. NoneLost'
  BY <1>2, <1>3 DEF MailInv, NoneLost
<1>11. QED
  BY <1>6, <1>7, <1>8, <1>9, <1>10 DEF MailInv

LEMMA NotifyFailsPreserves ==
  ASSUME MailInv, NEW m \in ready, NotifyFails(m)
  PROVE  MailInv'
<1> DEFINE t == Fail(NewTask(m, "ack", {}), "TRANSIENT")
<1>1. /\ t \in Task(Outcome) /\ t.msg = m /\ t.pc \in {"republish", "nack"}
      /\ t.epoch = NewTask(m, "ack", {}).epoch
  BY NewTaskLemma, FailLemma DEF MailInv
<1>2. Live(t)
  BY <1>1, NewTaskLemma DEF Live, MailInv
<1>3. faults' \in 0 .. MaxFaults
  BY FaultLemma DEF NotifyFails, MailInv, TypeOK, DeliveryTypeOK
<1>4. /\ Deliver(m, t) /\ told' \in {told, told \cup {m.event}}
      /\ UNCHANGED <<published, seen, emails>>
  BY DEF NotifyFails
<1> HIDE DEF t
<1>5. /\ DeliveryTypeOK(Outcome)' /\ InPlay' \subseteq InPlay /\ tasks' = tasks \cup {t}
      /\ m.event \in Outcome /\ m.event \in published
      /\ \A e : Kept(e) => Kept(e)'
  BY <1>1, <1>2, <1>3, <1>4, DeliverLemma
<1>6. TypeOK'
  BY <1>4, <1>5 DEF MailInv, TypeOK
<1>7. OutcomesInStep'
  BY <1>1, <1>4, <1>5 DEF MailInv, OutcomesInStep
<1>8. Remembered' /\ OneEmail'
  BY <1>4 DEF MailInv, Remembered, OneEmail, Seen
<1>9. NoneLost'
  BY <1>4, <1>5 DEF MailInv, NoneLost
<1>10. QED
  BY <1>6, <1>7, <1>8, <1>9 DEF MailInv

\* A new process has sent no email and remembers nothing.
LEMMA CrashPreserves ==
  ASSUME MailInv, Crash
  PROVE  MailInv'
<1>1. /\ ready' = ready \cup Unacked("notification") /\ tasks' \subseteq tasks
      /\ UNCHANGED <<waiting, dlq, epoch, published, told>> /\ Fault("crash")
      /\ seen' = <<>> /\ emails' = [e \in Outcome |-> 0]
  BY DEF Crash, CrashConsumer
<1>2. faults' \in 0 .. MaxFaults
  BY <1>1, FaultLemma DEF MailInv, TypeOK, DeliveryTypeOK
<1>3. /\ ready' \subseteq Message(Outcome) /\ InPlay' \subseteq InPlay
      /\ \A e \in published \ told : Kept(e) => Kept(e)'
  BY <1>1, LostDeliveries
<1>4. DeliveryTypeOK(Outcome)'
  BY <1>1, <1>2, <1>3 DEF MailInv, TypeOK, DeliveryTypeOK
<1>5. seen' \in Seq(Outcome) /\ Len(seen') = 0 /\ IsInjective(seen')
  <2>1. seen' \in Seq(Outcome) /\ Len(seen') = 0
    BY <1>1, EmptySeq
  <2>2. DOMAIN seen' = 1 .. 0
    BY <2>1, LenProperties
  <2>3. QED
    BY <2>1, <2>2 DEF IsInjective
<1>6. TypeOK'
  BY <1>1, <1>4, <1>5, NotificationsAssumption DEF MailInv, TypeOK
<1>7. OutcomesInStep'
  BY <1>1, <1>3, <1>5 DEF MailInv, OutcomesInStep
<1>8. Remembered' /\ OneEmail'
  BY <1>1 DEF Remembered, OneEmail
<1>9. NoneLost'
  BY <1>1, <1>3 DEF MailInv, NoneLost
<1>10. QED
  BY <1>6, <1>7, <1>8, <1>9 DEF MailInv

LEMMA PublishPreserves ==
  ASSUME MailInv, NEW e \in Outcome, Publish(e)
  PROVE  MailInv'
<1> DEFINE m == [queue |-> "notification", event |-> e, retries |-> 0, copy |-> 0]
<1>1. /\ published' = published \cup {e} /\ ready' = ready \cup {m}
      /\ UNCHANGED <<waiting, dlq, tasks, epoch, faults, seen, told, emails>>
  BY DEF Publish, NoFault
<1>2. m \in Message(Outcome) /\ m.event = e
  BY NotificationsAssumption, CopyIdAssumption, MaxRetriesIs3 DEF Message
<1> HIDE DEF m
<1>3. TypeOK'
  BY <1>1, <1>2 DEF MailInv, TypeOK, DeliveryTypeOK
<1>4. /\ IsFiniteSet(published') /\ Cardinality(published) \in Nat
      /\ Cardinality(published') \in Nat /\ Cardinality(published) <= Cardinality(published')
  <2>1. IsFiniteSet(published)
    BY DEF MailInv, OutcomesInStep
  <2>2. /\ IsFiniteSet(published')
        /\ Cardinality(published') =
             IF e \in published THEN Cardinality(published) ELSE Cardinality(published) + 1
    BY <1>1, <2>1, FS_AddElement
  <2>3. Cardinality(published) \in Nat
    BY <2>1, FS_CardinalityType
  <2>4. QED
    BY <2>2, <2>3
<1>5. OutcomesInStep'
  <2>1. InPlay' = InPlay \cup {m}
    BY <1>1 DEF InPlay
  <2>2. QED
    BY <1>1, <1>2, <1>4, <2>1 DEF MailInv, OutcomesInStep
<1>6. Cardinality(published) > MaxSeen => Cardinality(published') > MaxSeen
  BY <1>4, NotificationsAssumption
<1>7. Remembered' /\ OneEmail'
  BY <1>1, <1>6 DEF MailInv, Remembered, OneEmail, Seen
<1>8. NoneLost'
  <2>1. Kept(e)' /\ \A f : Kept(f) => Kept(f)'
    BY <1>1, <1>2 DEF Kept, Live
  <2>2. QED
    BY <1>1, <2>1 DEF MailInv, NoneLost
<1>9. QED
  BY <1>3, <1>5, <1>7, <1>8 DEF MailInv

-----------------------------------------------------------------------------
(* The theorems.                                                           *)

LEMMA InitHolds == Init => MailInv
<1> SUFFICES ASSUME Init PROVE MailInv
  OBVIOUS
<1>1. seen \in Seq(Outcome) /\ Len(seen) = 0 /\ IsInjective(seen)
  <2>1. seen \in Seq(Outcome) /\ Len(seen) = 0
    BY EmptySeq DEF Init
  <2>2. DOMAIN seen = 1 .. 0
    BY <2>1, LenProperties
  <2>3. QED
    BY <2>1, <2>2 DEF IsInjective
<1>2. TypeOK
  BY <1>1, NotificationsAssumption, FaultsAssumption
     DEF Init, DeliveryInit, TypeOK, DeliveryTypeOK
<1>3. OutcomesInStep
  BY <1>1, FS_EmptySet DEF Init, DeliveryInit, OutcomesInStep, InPlay
<1>4. Remembered /\ OneEmail /\ NoneLost
  BY DEF Init, Remembered, OneEmail, NoneLost
<1>5. QED
  BY <1>2, <1>3, <1>4 DEF MailInv

LEMMA NextPreserves ==
  ASSUME MailInv, [Next]_vars
  PROVE  MailInv'
<1>1. CASE Next
  BY <1>1, BrokerPreserves, SkipDuplicatePreserves, NotifyPreserves, NotifyFailsPreserves,
     CrashPreserves, PublishPreserves DEF Next, System, Faults
<1>2. CASE UNCHANGED vars
  <2>1. UNCHANGED mailVars /\ UNCHANGED <<ready, waiting, dlq, tasks, epoch, faults>>
    BY <1>2 DEF vars, deliveryVars
  <2>2. /\ DeliveryTypeOK(Outcome)' /\ InPlay' = InPlay
        /\ \A e \in published \ told : Kept(e) => Kept(e)'
    BY <2>1 DEF MailInv, TypeOK, DeliveryTypeOK, InPlay, Kept, Live
  <2>3. QED
    BY <2>1, <2>2, DeliveryFrame DEF MailInv, OutcomesInStep
<1>3. QED
  BY <1>1, <1>2

\* What was handled was told, and what this process told is remembered while
\* there is room.
THEOREM MailInvariant == Spec => []MailInv
<1>1. Init => MailInv
  BY InitHolds
<1>2. MailInv /\ [Next]_vars => MailInv'
  BY NextPreserves
<1>3. QED
  BY <1>1, <1>2, PTL DEF Spec

\* The variables are typed; the deduplicator keeps to its bound and holds no
\* event twice.
THEOREM MailTyped == Spec => []TypeOK
<1>1. MailInv => TypeOK
  BY DEF MailInv
<1>2. QED
  BY <1>1, MailInvariant, PTL

\* While no more outcomes were published than the deduplicator remembers, a
\* process sends at most one email about each, whatever is redelivered.
THEOREM OneEmailEach == Spec => []OneEmail
<1>1. MailInv => OneEmail
  BY DEF MailInv
<1>2. QED
  BY <1>1, MailInvariant, PTL

\* At-least-once: no fault loses an outcome nobody was told about.
THEOREM NotificationsKept == Spec => []NoNotificationLost
<1>1. MailInv => NoNotificationLost
  BY DEF MailInv, NoneLost, Kept, NoNotificationLost
<1>2. QED
  BY <1>1, MailInvariant, PTL
=============================================================================
