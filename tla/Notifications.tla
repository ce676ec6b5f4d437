--------------------------- MODULE Notifications ---------------------------
(***************************************************************************)
(* notification-service: an email to the customer for each order outcome.  *)
(* It has no database: the event_ids it has handled are remembered in      *)
(* memory, up to a bound, and forgotten with the process.                  *)
(*                                                                         *)
(* The handler awaits nothing but its last ack: from the duplicate check   *)
(* to mark_seen, the (blocking) email included, it is one step.            *)
(***************************************************************************)
EXTENDS Delivery, SequencesExt

CONSTANTS
  Outcome,   \* order.confirmed and order.rejected events, one per order
  MaxSeen    \* max_size of the InMemoryEventDeduplicator

ASSUME NotificationsAssumption == Queue = {"notification"} /\ MaxSeen \in Nat \ {0}

VARIABLES
  published,  \* outcomes published so far
  seen,       \* _seen: event_ids, oldest first
  told,       \* outcomes the SMTP server accepted an email about
  emails      \* emails[e]: emails about e this process sent and went on from

mailVars == <<published, seen, told, emails>>
vars == <<deliveryVars, mailVars>>

-----------------------------------------------------------------------------
Init ==
  /\ DeliveryInit
  /\ published = {} /\ seen = <<>> /\ told = {} /\ emails = [e \in Outcome |-> 0]

\* order-service publishes outcome e.
Publish(e) ==
  /\ e \notin published
  /\ published' = published \cup {e}
  /\ ready' = ready \cup {[queue |-> "notification", event |-> e, retries |-> 0, copy |-> 0]}
  /\ NoFault
  /\ UNCHANGED <<waiting, dlq, tasks, epoch, seen, told, emails>>

\* seen
Seen(e) == Contains(seen, e)

\* Seeded bug: the oldest goes as soon as the set is full.
MarkSeen_OneLess(e) ==
  IF Len(seen) + 1 < MaxSeen THEN Append(seen, e) ELSE Tail(Append(seen, e))

\* Seeded bug: nothing is ever evicted.
MarkSeen_Unbounded(e) == Append(seen, e)

\* mark_seen: the oldest goes when there is one too many.
MarkSeen(e) ==
  IF Len(seen) < MaxSeen THEN Append(seen, e) ELSE Append(Tail(seen), e)

\* The delivery of m starts its handler, which ends up at its ack.
Handled(m) == Deliver(m, NewTask(m, "ack", {})) /\ NoFault

SkipDuplicate(m) ==
  /\ Seen(m.event)
  /\ Handled(m) /\ UNCHANGED mailVars

Notify(m) ==
  /\ ~ Seen(m.event)
  /\ told' = told \cup {m.event} /\ emails' = [emails EXCEPT ![m.event] = @ + 1]
  /\ seen' = MarkSeen(m.event)
  /\ Handled(m) /\ UNCHANGED published

\* Seeded bug: marked before the email is tried.
NotifyFails_Marked(m) ==
  /\ ~ Seen(m.event)
  /\ seen' = MarkSeen(m.event)
  /\ Deliver(m, Fail(NewTask(m, "ack", {}), "TRANSIENT")) /\ Fault("email")
  /\ UNCHANGED <<published, told, emails>>

\* The SMTP conversation raises (NotificationError), whether or not the
\* server had accepted the message.
NotifyFails(m) ==
  /\ ~ Seen(m.event)
  /\ told' \in {told, told \cup {m.event}}
  /\ Deliver(m, Fail(NewTask(m, "ack", {}), "TRANSIENT")) /\ Fault("email")
  /\ UNCHANGED <<published, seen, emails>>

\* The process dies, and its memory with it.
Crash ==
  /\ CrashConsumer("notification")
  /\ seen' = <<>> /\ emails' = [e \in Outcome |-> 0]
  /\ UNCHANGED <<published, told>>

BrokerOrDispatcher ==
  /\ (\E t \in tasks : DeliveryStep(t)) \/ (\E m \in waiting : RetryExpires(m))
  /\ UNCHANGED mailVars

BrokerOrDispatcherFault ==
  /\ \/ \E t \in tasks : RepublishFails(t)
     \/ LoseConnection("notification")
     \/ \E m \in dlq : ReplayDeadLetter(m)
  /\ UNCHANGED mailVars

-----------------------------------------------------------------------------
\* What the event loop and the broker do on their own.
System == BrokerOrDispatcher \/ \E m \in ready : SkipDuplicate(m) \/ Notify(m)

\* What goes wrong, at most MaxFaults times.
Faults == Crash \/ BrokerOrDispatcherFault \/ \E m \in ready : NotifyFails(m)

Next == System \/ Faults \/ \E e \in Outcome : Publish(e)

Spec == Init /\ [][Next]_vars

\* The event loop and the broker keep going; nobody has to publish or fail.
FairSpec == Spec /\ WF_vars(System)

-----------------------------------------------------------------------------
(* Properties.                                                             *)

\* The variables are typed; the deduplicator keeps to its bound and holds
\* no event twice.
TypeOK ==
  /\ DeliveryTypeOK(Outcome)
  /\ published \subseteq Outcome
  /\ seen \in Seq(Outcome) /\ Len(seen) <= MaxSeen /\ IsInjective(seen)
  /\ told \subseteq Outcome /\ emails \in [Outcome -> Nat]

\* "Within a single process lifetime, redelivering an already-handled
\* event_id is a no-op", while the deduplicator has room: connections, acks
\* and republishes may fail at any point and the customer gets one email.
OneEmail ==
  \A e \in Outcome : emails[e] > 1 => Cardinality(published) > MaxSeen

\* At-least-once: an outcome nobody was told about is in a copy that will
\* yet be handled or that a person can replay.
NoNotificationLost ==
  \A e \in published :
    \/ e \in told
    \/ \E m \in ready \cup waiting \cup dlq : m.event = e
    \/ \E t \in tasks : Live(t) /\ t.msg.event = e

\* Every outcome is told to its customer, unless it is dead-lettered or the
\* dispatcher left its delivery unsettled.
CustomersNotified ==
  \A e \in Outcome :
    e \in published ~> \/ e \in told
                       \/ \E m \in dlq : m.event = e
                       \/ \E t \in tasks : t.pc = "stuck" /\ t.msg.event = e
=============================================================================
