------------------------ MODULE OrderHistory_proofs ------------------------
(***************************************************************************)
(* Proofs about OrderHistory, for every set of orders, any prefetch and    *)
(* any clocks, and any number of faults.                                   *)
(***************************************************************************)
EXTENDS OrderHistory, SequenceTheorems, FiniteSetTheorems, TLAPS

-----------------------------------------------------------------------------
(* The inductive invariant.                                                *)

\* The types of the events order o can have.
StoryTypes(o) ==
  {"order.created"} \cup
  IF decision[o] = "reserved" THEN {"stock.reserved", "order.confirmed"}
                              ELSE {"stock.rejected", "order.rejected"}

Logged(o) == {e \in log : e.order = o}

\* The other events of e's order that were projected: each makes a handler
\* of e lose the optimistic lock once at most.
Others(e) == Cardinality(Logged(e.order) \ {e})

\* Nothing is published that is not in its order's story.
StoriesKept ==
  IsFiniteSet(log) /\ \A e \in published : e.type \in StoryTypes(e.order)

\* Two transactions never insert one event or write one row.
TransactionsApart ==
  /\ \A t, u \in tasks : Inserted(t) /\ Inserted(u) /\ Event(t) = Event(u) => t = u
  /\ \A t, u \in tasks :
       t.pc = "commit" /\ u.pc = "commit" /\ Event(t).order = Event(u).order => t = u

\* A message was retried for events that overtook it, and for faults.
MessageInStep(m) ==
  m.event \in published /\ m.retries <= Others(m.event) + faults

\* A view read is the row's until its version moves on, and a transaction
\* that has written the row read its last version.
ReadInStep(t) ==
  LET v == view[Event(t).order]
  IN  /\ t.pc \in {"save", "commit"} =>
           /\ t.read.version <= v.version
           /\ t.read.version = v.version => t.read = v
           /\ t.msg.retries <= t.read.version + faults
      /\ t.pc = "commit" => t.read = v

\* What a handler that is past a step has found out.
TaskInStep(t) ==
  /\ Inserted(t) => Event(t) \notin log
  /\ t.pc = "ack" => Event(t) \in log
  /\ t.pc \in {"republish", "nack"} => t.msg.retries + 1 <= Others(Event(t)) + faults
  /\ t.pc = "republish" => t.msg.retries < MaxRetries
  /\ t.pc = "nack" => t.msg.retries = MaxRetries

HistoryInv ==
  /\ TypeOK /\ StoriesKept /\ TransactionsApart
  /\ \A m \in InPlay : MessageInStep(m)
  /\ \A t \in tasks : TaskInStep(t) /\ ReadInStep(t)
  /\ ViewMatchesLog /\ NoEventDropped /\ DeadLetterTakesFaults

-----------------------------------------------------------------------------
(* Events and messages.                                                    *)

LEMMA MaxRetriesIs3 == MaxRetries = 3
BY DEF MaxRetries, RetryStages

LEMMA StoryLemma ==
  ASSUME NEW o \in Order
  PROVE  \A i \in 1 .. 3 : Story(o)[i] \in StoryTypes(o) /\ Story(o)[i] \in EventType
<1> DEFINE s == << "order.created" >>
           u == IF decision[o] = "reserved" THEN << "stock.reserved", "order.confirmed" >>
                                            ELSE << "stock.rejected", "order.rejected" >>
<1>1. s \in Seq(EventType) /\ Len(s) = 1 /\ s[1] = "order.created"
  BY DEF EventType
<1>2. /\ u \in Seq(EventType) /\ Len(u) = 2
      /\ u[1] \in StoryTypes(o) /\ u[2] \in StoryTypes(o)
      /\ u[1] \in EventType /\ u[2] \in EventType
  <2>1. CASE decision[o] = "reserved"
    <3>1. u = << "stock.reserved", "order.confirmed" >>
      BY <2>1
    <3> HIDE DEF u
    <3>2. QED
      BY <2>1, <3>1 DEF EventType, StoryTypes
  <2>2. CASE decision[o] # "reserved"
    <3>1. u = << "stock.rejected", "order.rejected" >>
      BY <2>2
    <3> HIDE DEF u
    <3>2. QED
      BY <2>2, <3>1 DEF EventType, StoryTypes
  <2>3. QED
    BY <2>1, <2>2
<1> HIDE DEF s, u
<1>3. Story(o) = s \o u
  BY DEF Story, s, u
<1>4. "order.created" \in StoryTypes(o) /\ "order.created" \in EventType
  BY DEF StoryTypes, EventType
<1>5. (s \o u)[1] = s[1] /\ (s \o u)[2] = u[1] /\ (s \o u)[3] = u[2]
  <2>1. \A i \in 1 .. Len(s) + Len(u) :
          (s \o u)[i] = IF i <= Len(s) THEN s[i] ELSE u[i - Len(s)]
    BY <1>1, <1>2, ConcatProperties
  <2>2. Len(s) + Len(u) = 3 /\ Len(s) = 1
    BY <1>1, <1>2
  <2>3. \A i \in 1 .. 3 : (s \o u)[i] = IF i <= 1 THEN s[i] ELSE u[i - 1]
    BY <2>1, <2>2
  <2>4. 1 \in 1 .. 3 /\ 2 \in 1 .. 3 /\ 3 \in 1 .. 3 /\ 2 - 1 = 1 /\ 3 - 1 = 2
    OBVIOUS
  <2>5. /\ (s \o u)[1] = IF 1 <= 1 THEN s[1] ELSE u[1 - 1]
        /\ (s \o u)[2] = IF 2 <= 1 THEN s[2] ELSE u[2 - 1]
        /\ (s \o u)[3] = IF 3 <= 1 THEN s[3] ELSE u[3 - 1]
    BY <2>3, <2>4, Zenon
  <2>6. QED
    BY <2>4, <2>5
<1>6. Story(o)[1] = s[1] /\ Story(o)[2] = u[1] /\ Story(o)[3] = u[2]
  BY <1>3, <1>5, Zenon
<1>7. \A i \in 1 .. 3 : i = 1 \/ i = 2 \/ i = 3
  OBVIOUS
<1>8. QED
  BY <1>1, <1>2, <1>4, <1>6, <1>7

LEMMA RetryCopyLemma ==
  ASSUME NEW m \in Message(HistoryEvent), NEW c \in CopyId, m.retries < MaxRetries
  PROVE  /\ RetryCopy(m, c) \in Message(HistoryEvent) /\ RetryCopy(m, c).event = m.event
         /\ RetryCopy(m, c).retries = m.retries + 1
<1>1. m.retries \in 0 .. 3 /\ m.retries < 3
  BY MaxRetriesIs3 DEF Message
<1>2. DecideRetry(m.retries, "TRANSIENT").next = m.retries + 1
  BY <1>1, MaxRetriesIs3 DEF DecideRetry
<1>3. m.retries + 1 \in 0 .. 3
  BY <1>1
<1>4. QED
  BY <1>2, <1>3, MaxRetriesIs3 DEF RetryCopy, Message

LEMMA AtMostThree ==
  ASSUME NEW x, NEW y, NEW z
  PROVE  /\ IsFiniteSet({x, y, z}) /\ Cardinality({x, y, z}) \in Nat
         /\ Cardinality({x, y, z}) <= 3
<1> DEFINE A == {x}
           B == A \cup {y}
           C == B \cup {z}
<1>1. IsFiniteSet(A) /\ Cardinality(A) = 1
  BY FS_Singleton
<1> HIDE DEF A
<1>2. IsFiniteSet(B) /\ Cardinality(B) = IF y \in A THEN 1 ELSE 2
  BY <1>1, FS_AddElement
<1> HIDE DEF B
<1>3. /\ IsFiniteSet(C)
      /\ Cardinality(C) = IF z \in B THEN Cardinality(B) ELSE Cardinality(B) + 1
  BY <1>2, FS_AddElement
<1>4. C = {x, y, z}
  BY DEF A, B
<1>5. QED
  BY <1>2, <1>3, <1>4

\* The events logged of an order are finitely many, and counting them is
\* monotonic in the log.
LEMMA LoggedIsFinite ==
  ASSUME IsFiniteSet(log), NEW e
  PROVE  /\ IsFiniteSet(Logged(e.order)) /\ IsFiniteSet(Logged(e.order) \ {e})
         /\ Others(e) \in Nat /\ Cardinality(Logged(e.order)) \in Nat
         /\ e \notin log => Others(e) = Cardinality(Logged(e.order))
<1>1. IsFiniteSet(Logged(e.order)) /\ IsFiniteSet(Logged(e.order) \ {e})
  <2>1. Logged(e.order) \in SUBSET log /\ Logged(e.order) \ {e} \in SUBSET log
    BY DEF Logged
  <2>2. QED
    BY <2>1, FS_Subset
<1>2. e \notin log => Logged(e.order) \ {e} = Logged(e.order)
  BY DEF Logged
<1>3. QED
  BY <1>1, <1>2, FS_CardinalityType DEF Others

\* Two events at most can overtake an event.
LEMMA OthersBound ==
  ASSUME HistoryInv, NEW e \in published
  PROVE  Others(e) \in Nat /\ Others(e) <= 2
<1> DEFINE o == e.order
           Of(y) == [type |-> y, order |-> o]
<1>1. PICK a, b : StoryTypes(o) = {"order.created", a, b}
  <2>1. CASE decision[o] = "reserved"
    BY <2>1 DEF StoryTypes
  <2>2. CASE decision[o] # "reserved"
    BY <2>2 DEF StoryTypes
  <2>3. QED
    BY <2>1, <2>2
<1> DEFINE S == {Of("order.created"), Of(a), Of(b)}
<1>2. \A f \in published : f.order = o => f \in S
  BY <1>1 DEF HistoryInv, TypeOK, StoriesKept, HistoryEvent
<1>3. Logged(o) \ {e} \in SUBSET (S \ {e}) /\ e \in S
  BY <1>2 DEF Logged, HistoryInv, TypeOK
<1>4. IsFiniteSet(S) /\ Cardinality(S) \in Nat /\ Cardinality(S) <= 3
  BY AtMostThree, Zenon
<1> HIDE DEF S
<1>5. IsFiniteSet(S \ {e}) /\ Cardinality(S \ {e}) = Cardinality(S) - 1
  BY <1>3, <1>4, FS_RemoveElement
<1>6. Cardinality(Logged(o) \ {e}) <= Cardinality(S \ {e})
  BY <1>3, <1>5, FS_Subset
<1>7. Others(e) \in Nat
  BY LoggedIsFinite DEF HistoryInv, StoriesKept
<1>8. QED
  BY <1>4, <1>5, <1>6, <1>7 DEF Others

-----------------------------------------------------------------------------
(* The reference view, one event at a time.                                *)

Times(T) == {OccurredAt[y] : y \in T} \cup {0}

HasMax(S) == \E x \in S : \A y \in S : x >= y

LEMMA MaxIs ==
  ASSUME NEW S, HasMax(S)
  PROVE  Max(S) \in S /\ \A y \in S : Max(S) >= y
BY DEF HasMax, Max

LEMMA MaxUnique ==
  ASSUME NEW S, S \subseteq Int, NEW x \in S, \A y \in S : x >= y
  PROVE  Max(S) = x
<1>1. Max(S) \in S /\ \A y \in S : Max(S) >= y
  BY MaxIs DEF HasMax
<1>2. Max(S) >= x /\ x >= Max(S)
  BY <1>1
<1>3. Max(S) \in Int /\ x \in Int
  BY <1>1
<1>4. QED
  BY <1>2, <1>3

\* Of five times at most there is a latest.
LEMMA TimesHaveMax ==
  ASSUME NEW T, T \subseteq EventType
  PROVE  HasMax(Times(T)) /\ Times(T) \subseteq Nat
<1>1. ASSUME NEW S, S \subseteq Nat, HasMax(S), NEW x \in EventType
      PROVE  /\ HasMax(S \cup ({OccurredAt[y] : y \in T \cap {x}}))
             /\ S \cup {OccurredAt[y] : y \in T \cap {x}} \subseteq Nat
  <2>1. OccurredAt[x] \in Nat
    BY HistoryAssumption
  <2>2. CASE x \in T
    <3>1. {OccurredAt[y] : y \in T \cap {x}} = {OccurredAt[x]}
      BY <2>2
    <3>2. PICK z \in S : \A y \in S : z >= y
      BY <1>1 DEF HasMax
    <3>3. HasMax(S \cup {OccurredAt[x]})
      <4>1. CASE z >= OccurredAt[x]
        BY <3>2, <4>1 DEF HasMax
      <4>2. CASE ~ z >= OccurredAt[x]
        <5>1. \A y \in S \cup {OccurredAt[x]} : OccurredAt[x] >= y
          BY <1>1, <2>1, <3>2, <4>2
        <5>2. QED
          BY <5>1 DEF HasMax
      <4>3. QED
        BY <4>1, <4>2
    <3>4. QED
      BY <1>1, <2>1, <3>1, <3>3
  <2>3. CASE x \notin T
    <3>1. {OccurredAt[y] : y \in T \cap {x}} = {}
      BY <2>3
    <3>2. S \cup {} = S
      OBVIOUS
    <3>3. QED
      BY <1>1, <3>1, <3>2
  <2>4. QED
    BY <2>2, <2>3
<1> DEFINE At(x) == {OccurredAt[y] : y \in T \cap {x}}
           A == {0} \cup At("order.created")
           B == A \cup At("stock.reserved")
           C == B \cup At("stock.rejected")
           D == C \cup At("order.confirmed")
           E == D \cup At("order.rejected")
<1>2. HasMax({0}) /\ {0} \subseteq Nat
  BY DEF HasMax
<1>3. \A S, x : S \subseteq Nat /\ HasMax(S) /\ x \in EventType
                  => HasMax(S \cup At(x)) /\ S \cup At(x) \subseteq Nat
  BY <1>1
<1>4. E = Times(T)
  BY DEF Times, EventType
<1> HIDE DEF At
<1>5. HasMax(A) /\ A \subseteq Nat
  BY <1>2, <1>3 DEF EventType
<1> HIDE DEF A
<1>6. HasMax(B) /\ B \subseteq Nat
  BY <1>3, <1>5 DEF EventType
<1> HIDE DEF B
<1>7. HasMax(C) /\ C \subseteq Nat
  BY <1>3, <1>6 DEF EventType
<1> HIDE DEF C
<1>8. HasMax(D) /\ D \subseteq Nat
  BY <1>3, <1>7 DEF EventType
<1> HIDE DEF D
<1>9. HasMax(E) /\ E \subseteq Nat
  BY <1>3, <1>8 DEF EventType
<1>10. QED
  BY <1>4, <1>9

LEMMA LatestTime ==
  ASSUME NEW T, T \subseteq EventType, NEW y \in EventType
  PROVE  Max(Times(T \cup {y})) =
           IF OccurredAt[y] > Max(Times(T)) THEN OccurredAt[y] ELSE Max(Times(T))
<1>1. /\ Max(Times(T)) \in Times(T) /\ Times(T) \subseteq Nat
      /\ \A x \in Times(T) : Max(Times(T)) >= x
  BY TimesHaveMax, MaxIs
<1>2. OccurredAt[y] \in Nat
  BY HistoryAssumption
<1>3. Times(T \cup {y}) = Times(T) \cup {OccurredAt[y]}
  BY DEF Times
<1> DEFINE x == IF OccurredAt[y] > Max(Times(T)) THEN OccurredAt[y] ELSE Max(Times(T))
<1>4. /\ x \in Times(T) \cup {OccurredAt[y]}
      /\ \A z \in Times(T) \cup {OccurredAt[y]} : x >= z
      /\ Times(T) \cup {OccurredAt[y]} \subseteq Int
  BY <1>1, <1>2
<1> HIDE DEF x
<1>5. Max(Times(T) \cup {OccurredAt[y]}) = x
  BY <1>4, MaxUnique
<1>6. QED
  BY <1>3, <1>5 DEF x

Types(L) == {f.type : f \in L}

\* Applying an event that its order's story allows, and that is new, gives
\* the view of one more event.
LEMMA ApplyIsViewOf ==
  ASSUME NEW o \in Order, NEW L, L \subseteq HistoryEvent, IsFiniteSet(L),
         \A f \in L : f.type \in StoryTypes(o),
         NEW e \in HistoryEvent, e.type \in StoryTypes(o), e \notin L
  PROVE  [Apply(ViewOf(L), e) EXCEPT !.version = @ + 1] = ViewOf(L \cup {e})
<1> DEFINE T == Types(L)
           v == ViewOf(L)
           w == ViewOf(L \cup {e})
<1>1. /\ Types(L \cup {e}) = T \cup {e.type} /\ T \subseteq EventType
      /\ e.type \in EventType /\ T \subseteq StoryTypes(o)
  BY DEF Types, HistoryEvent
<1>2. /\ v.status = IF "order.confirmed" \in T THEN "confirmed"
                    ELSE IF "order.rejected" \in T THEN "rejected" ELSE "pending"
      /\ v.stock = IF "stock.reserved" \in T THEN "reserved"
                   ELSE IF "stock.rejected" \in T THEN "rejected" ELSE "none"
      /\ v.reason = IF "order.rejected" \in T THEN "order.rejected"
                    ELSE IF "stock.rejected" \in T THEN "stock.rejected" ELSE "none"
      /\ v.customer = (T \cap {"order.created", "order.confirmed", "order.rejected"} # {})
      /\ v.details = ("order.created" \in T)
      /\ v.last = Max(Times(T)) /\ v.version = Cardinality(L)
  BY DEF ViewOf, Types, Times
<1> DEFINE U == T \cup {e.type}
<1>3. w = [status   |-> IF "order.confirmed" \in U THEN "confirmed"
                        ELSE IF "order.rejected" \in U THEN "rejected" ELSE "pending",
           stock    |-> IF "stock.reserved" \in U THEN "reserved"
                        ELSE IF "stock.rejected" \in U THEN "rejected" ELSE "none",
           reason   |-> IF "order.rejected" \in U THEN "order.rejected"
                        ELSE IF "stock.rejected" \in U THEN "stock.rejected" ELSE "none",
           customer |-> U \cap {"order.created", "order.confirmed", "order.rejected"} # {},
           details  |-> "order.created" \in U,
           last     |-> Max(Times(U)),
           version  |-> Cardinality(L \cup {e})]
  <2>1. U = {f.type : f \in L \cup {e}}
    BY <1>1 DEF Types
  <2> HIDE DEF U, T
  <2>2. QED
    BY <2>1 DEF ViewOf, Times
<1> HIDE DEF T, v, w
<1>4. /\ ~ ("order.confirmed" \in U /\ "order.rejected" \in U)
      /\ ~ ("stock.reserved" \in U /\ "stock.rejected" \in U)
  <2>1. U \subseteq StoryTypes(o)
    BY <1>1
  <2>2. QED
    BY <2>1 DEF StoryTypes
<1> DEFINE a == [Apply(v, e) EXCEPT !.version = @ + 1]
<1>5. a = [status   |-> StatusAfter(v, e),
           stock    |-> CASE e.type = "stock.reserved" -> "reserved"
                          [] e.type = "stock.rejected" -> "rejected"
                          [] OTHER -> v.stock,
           reason   |-> ReasonAfter(v, e),
           customer |-> v.customer \/ e.type \in {"order.created", "order.confirmed", "order.rejected"},
           details  |-> v.details \/ e.type = "order.created",
           last     |-> IF OccurredAt[e.type] > v.last THEN OccurredAt[e.type] ELSE v.last,
           version  |-> v.version + 1]
  BY DEF Apply
<1>6. StatusAfter(v, e) = w.status
  BY <1>1, <1>2, <1>3, <1>4 DEF StatusAfter
<1>7. (CASE e.type = "stock.reserved" -> "reserved"
         [] e.type = "stock.rejected" -> "rejected"
         [] OTHER -> v.stock) = w.stock
  BY <1>1, <1>2, <1>3, <1>4
<1>8. ReasonAfter(v, e) = w.reason
  BY <1>1, <1>2, <1>3, <1>4 DEF ReasonAfter
<1>9. /\ (v.customer \/ e.type \in {"order.created", "order.confirmed", "order.rejected"})
           = w.customer
      /\ (v.details \/ e.type = "order.created") = w.details
  <2> DEFINE K == {"order.created", "order.confirmed", "order.rejected"}
  <2>1. /\ ((T \cap K # {}) \/ e.type \in K) = (U \cap K # {})
        /\ (("order.created" \in T) \/ e.type = "order.created") = ("order.created" \in U)
    OBVIOUS
  <2>2. w.customer = (U \cap K # {}) /\ w.details = ("order.created" \in U)
    BY <1>3
  <2>3. v.customer = (T \cap K # {}) /\ v.details = ("order.created" \in T)
    BY <1>2
  <2> HIDE DEF K, U
  <2>4. QED
    BY <2>1, <2>2, <2>3, Zenon DEF K
<1>10. (IF OccurredAt[e.type] > v.last THEN OccurredAt[e.type] ELSE v.last) = w.last
  BY <1>1, <1>2, <1>3, LatestTime
<1>11. v.version + 1 = w.version
  <2>1. Cardinality(L \cup {e}) = Cardinality(L) + 1
    BY FS_AddElement
  <2>2. QED
    BY <1>2, <1>3, <2>1
<1>12. QED
  BY <1>3, <1>5, <1>6, <1>7, <1>8, <1>9, <1>10, <1>11 DEF v, w

-----------------------------------------------------------------------------
(* Steps that commit nothing.                                              *)

\* The parts of the type invariant that are the broker's and the tasks'.
DeliveriesTyped ==
  /\ ready \cup waiting \cup dlq \subseteq Message(HistoryEvent)
  /\ tasks \subseteq HistoryTask
  /\ epoch \in [Queue -> Nat] /\ faults \in 0 .. MaxFaults

\* An event that is not logged is in a copy, or in a handler's hands.
Kept(e) ==
  \/ \E m \in ready \cup waiting \cup dlq : m.event = e
  \/ \E t \in tasks : Live(t) /\ Event(t) = e /\ t.pc # "settle"

LEMMA TypedParts ==
  ASSUME HistoryInv
  PROVE  /\ DeliveriesTyped /\ faults \in Nat
         /\ \A m \in InPlay : /\ m \in Message(HistoryEvent) /\ m.retries \in 0 .. 3
                              /\ m.event \in published /\ m.event \in HistoryEvent
                              /\ Others(m.event) \in Nat
                              /\ m.retries <= Others(m.event) + faults
         /\ \A t \in tasks : t \in HistoryTask /\ t.msg \in InPlay /\ Event(t) = t.msg.event
                             /\ t.read \in View
<1>1. TypeOK /\ \A m \in InPlay : MessageInStep(m)
  BY DEF HistoryInv
<1>2. DeliveriesTyped
  BY <1>1 DEF TypeOK, DeliveriesTyped
<1>3. \A t \in tasks : t \in HistoryTask /\ t.msg \in Message(HistoryEvent)
                       /\ t.msg \in InPlay /\ t.read \in View
  BY <1>2 DEF DeliveriesTyped, HistoryTask, InPlay
<1>4. \A m \in InPlay : m \in Message(HistoryEvent)
  BY <1>2, <1>3 DEF DeliveriesTyped, InPlay
<1>5. \A m \in InPlay : m.retries \in 0 .. 3 /\ m.event \in HistoryEvent
  BY <1>4, MaxRetriesIs3 DEF Message
<1>6. \A m \in InPlay : m.event \in published /\ m.retries <= Others(m.event) + faults
  BY <1>1 DEF MessageInStep
<1>7. \A m \in InPlay : Others(m.event) \in Nat
  BY <1>6, OthersBound
<1>8. faults \in Nat
  BY <1>2, FaultsAssumption DEF DeliveriesTyped
<1>9. QED
  BY <1>2, <1>3, <1>4, <1>5, <1>6, <1>7, <1>8 DEF Event

\* What holds of a handler goes on holding while the databases stay.
LEMMA TaskStays ==
  ASSUME HistoryInv, UNCHANGED historyVars, faults' \in Nat, faults <= faults',
         NEW t \in tasks
  PROVE  TaskInStep(t)' /\ ReadInStep(t)'
<1>1. /\ TaskInStep(t) /\ ReadInStep(t) /\ t.msg.retries \in Nat /\ faults \in Nat
      /\ Others(Event(t)) \in Nat /\ t.read.version \in Nat
  BY TypedParts DEF HistoryInv, View
<1>2. UNCHANGED <<log, view>> /\ Others(Event(t))' = Others(Event(t))
  BY DEF historyVars, Others, Logged, Event
<1>3. TaskInStep(t)'
  BY <1>1, <1>2 DEF TaskInStep, Inserted, Event
<1>4. ReadInStep(t)'
  BY <1>1, <1>2 DEF ReadInStep, Event
<1>5. QED
  BY <1>3, <1>4

LEMMA HistoryFrame ==
  ASSUME HistoryInv, UNCHANGED historyVars, DeliveriesTyped', faults <= faults',
         \A m \in InPlay' : MessageInStep(m)',
         \A t \in tasks' : t \in tasks \/ (TaskInStep(t)' /\ ReadInStep(t)'),
         TransactionsApart',
         \A e \in published \ log : Kept(e) => Kept(e)',
         dlq' = dlq \/ faults' >= 2
  PROVE  HistoryInv'
<1>1. /\ TypeOK /\ StoriesKept /\ ViewMatchesLog /\ NoEventDropped /\ DeadLetterTakesFaults
      /\ UNCHANGED <<decision, published, log, view>>
  BY DEF HistoryInv, historyVars
<1>2. faults \in Nat /\ faults' \in Nat
  BY TypedParts, FaultsAssumption DEF DeliveriesTyped
<1>3. TypeOK'
  BY <1>1 DEF TypeOK, DeliveriesTyped
<1>4. StoriesKept' /\ ViewMatchesLog'
  BY <1>1 DEF StoriesKept, StoryTypes, ViewMatchesLog
<1>5. NoEventDropped'
  BY <1>1 DEF NoEventDropped, Kept
<1>6. DeadLetterTakesFaults'
  BY <1>1, <1>2 DEF DeadLetterTakesFaults
<1>7. \A t \in tasks' : TaskInStep(t)' /\ ReadInStep(t)'
  BY <1>2, TaskStays
<1>8. QED
  BY <1>3, <1>4, <1>5, <1>6, <1>7 DEF HistoryInv

\* The handler t moves on as u, within its transaction or out of it.
LEMMA ResumeFrame ==
  ASSUME HistoryInv, UNCHANGED historyVars, UNCHANGED <<ready, waiting, dlq, epoch>>,
         NEW t \in tasks, NEW u \in HistoryTask,
         u.msg = t.msg, u.epoch = t.epoch, u.pc # "settle",
         tasks' = (tasks \ {t}) \cup {u},
         faults' \in 0 .. MaxFaults, faults <= faults',
         TaskInStep(u)', ReadInStep(u)',
         Inserted(u) => \/ Inserted(t)
                        \/ ~ \E w \in tasks : Inserted(w) /\ Event(w) = Event(t),
         u.pc = "commit" =>
           ~ \E w \in tasks \ {t} : w.pc = "commit" /\ Event(w).order = Event(t).order
  PROVE  HistoryInv'
<1>1. Event(u) = Event(t)
  BY DEF Event
<1>2. /\ DeliveriesTyped' /\ faults \in Nat /\ faults' \in Nat
      /\ \A m \in InPlay : m.retries \in Nat /\ Others(m.event) \in Nat
  BY TypedParts, FaultsAssumption DEF DeliveriesTyped
<1>3. \A m \in InPlay' : MessageInStep(m)'
  <2>1. InPlay' = InPlay
    BY DEF InPlay
  <2>2. \A m \in InPlay : MessageInStep(m) /\ Others(m.event)' = Others(m.event)
    BY DEF HistoryInv, Others, Logged, historyVars
  <2>3. QED
    BY <1>2, <2>1, <2>2 DEF MessageInStep, historyVars
<1>4. TransactionsApart'
  <2>1. ASSUME NEW v \in tasks', NEW w \in tasks', Inserted(v), Inserted(w),
               Event(v) = Event(w)
        PROVE  v = w
    BY <1>1, <2>1 DEF HistoryInv, TransactionsApart
  <2>2. ASSUME NEW v \in tasks', NEW w \in tasks', v.pc = "commit", w.pc = "commit",
               Event(v).order = Event(w).order
        PROVE  v = w
    BY <1>1, <2>2 DEF HistoryInv, TransactionsApart
  <2>3. QED
    BY <2>1, <2>2 DEF TransactionsApart, Inserted, Event
<1>5. \A e \in published \ log : Kept(e) => Kept(e)'
  BY <1>1 DEF Kept, Live, Event
<1>6. \A v \in tasks' : v \in tasks \/ (TaskInStep(v)' /\ ReadInStep(v)')
  <2>1. \A v \in tasks' : v \in tasks \/ v = u
    OBVIOUS
  <2>2. QED
    BY <2>1, Zenon
<1>7. QED
  BY <1>2, <1>3, <1>4, <1>5, <1>6, HistoryFrame

-----------------------------------------------------------------------------
(* A handler's statements.                                                 *)

LEMMA StartLemma == Start \in View
BY DEF Start, View

\* The dispatcher's decision about t, whose handler threw.
LEMMA FailedTask ==
  ASSUME NEW t \in HistoryTask, NEW u,
         u = [t EXCEPT !.pc = FailurePc(t.msg, "TRANSIENT"), !.read = Start]
  PROVE  /\ u \in HistoryTask /\ u.msg = t.msg /\ u.epoch = t.epoch
         /\ \/ u.pc = "republish" /\ t.msg.retries < MaxRetries
            \/ u.pc = "nack" /\ t.msg.retries = MaxRetries
<1>1. t.msg \in Message(HistoryEvent) /\ t.epoch \in Nat
  BY DEF HistoryTask
<1>2. t.msg.retries \in 0 .. 3
  BY <1>1, MaxRetriesIs3 DEF Message
<1>3. \/ FailurePc(t.msg, "TRANSIENT") = "republish" /\ t.msg.retries < MaxRetries
      \/ FailurePc(t.msg, "TRANSIENT") = "nack" /\ t.msg.retries = MaxRetries
  BY <1>2, MaxRetriesIs3 DEF FailurePc, DecideRetry
<1>4. QED
  BY <1>1, <1>3, StartLemma DEF HistoryTask

LEMMA RecordEventPreserves ==
  ASSUME HistoryInv, NEW t \in tasks, RecordEvent(t)
  PROVE  HistoryInv'
<1>1. t \in HistoryTask /\ faults \in 0 .. MaxFaults /\ faults \in Nat
  BY TypedParts DEF DeliveriesTyped
<1> PICK u : u = [t EXCEPT !.pc = IF Event(t) \in log THEN "ack" ELSE "find"]
  OBVIOUS
<1>2. /\ u \in HistoryTask /\ u.msg = t.msg /\ u.epoch = t.epoch
      /\ (u.pc = "ack" /\ Event(t) \in log) \/ (u.pc = "find" /\ Event(t) \notin log)
  BY <1>1 DEF HistoryTask
<1>3. /\ tasks' = (tasks \ {t}) \cup {u} /\ UNCHANGED <<ready, waiting, dlq, epoch, faults>>
      /\ UNCHANGED historyVars
      /\ ~ \E w \in tasks : Inserted(w) /\ Event(w) = Event(t)
  BY DEF RecordEvent, Resume, NoFault
<1>4. TaskInStep(u)' /\ ReadInStep(u)'
  BY <1>2, <1>3 DEF TaskInStep, ReadInStep, Inserted, Event, historyVars
<1>5. /\ faults' \in 0 .. MaxFaults /\ faults <= faults' /\ u.pc \notin {"settle", "commit"}
      /\ UNCHANGED <<ready, waiting, dlq, epoch>>
  BY <1>1, <1>2, <1>3
<1>6. QED
  BY <1>2, <1>3, <1>4, <1>5, ResumeFrame

\* The view never refuses an event of its order's story.
LEMMA NeverRefused ==
  ASSUME HistoryInv, NEW e \in published
  PROVE  ~ Refuses(view[e.order], e)
<1> DEFINE o == e.order
           T == Types(Logged(o))
<1>1. o \in Order /\ e.type \in StoryTypes(o)
  BY DEF HistoryInv, TypeOK, HistoryEvent, StoriesKept
<1>2. T \subseteq StoryTypes(o)
  BY DEF Types, Logged, HistoryInv, TypeOK, StoriesKept
<1>3. view[o] = ViewOf(Logged(o))
  BY <1>1 DEF HistoryInv, ViewMatchesLog, Logged
<1>4. /\ view[o].status = IF "order.confirmed" \in T THEN "confirmed"
                          ELSE IF "order.rejected" \in T THEN "rejected" ELSE "pending"
      /\ view[o].stock = IF "stock.reserved" \in T THEN "reserved"
                         ELSE IF "stock.rejected" \in T THEN "rejected" ELSE "none"
  BY <1>3 DEF ViewOf, Types
<1> HIDE DEF T
<1>5. QED
  BY <1>1, <1>2, <1>4 DEF Refuses, StoryTypes

LEMMA VersionCounts ==
  ASSUME HistoryInv, NEW e \in published
  PROVE  /\ e.order \in Order /\ view[e.order] \in View
         /\ view[e.order].version \in Nat
         /\ e \notin log => view[e.order].version = Others(e)
<1>1. e.order \in Order
  BY DEF HistoryInv, TypeOK, HistoryEvent
<1>2. view[e.order] \in View
  BY <1>1 DEF HistoryInv, TypeOK
<1>3. view[e.order].version = Cardinality(Logged(e.order))
  <2>1. view[e.order] = ViewOf(Logged(e.order))
    BY <1>1 DEF HistoryInv, ViewMatchesLog, Logged
  <2>2. QED
    BY <2>1 DEF ViewOf
<1>4. e \notin log => Others(e) = Cardinality(Logged(e.order))
  BY LoggedIsFinite DEF HistoryInv, StoriesKept
<1>5. QED
  BY <1>1, <1>2, <1>3, <1>4 DEF View

LEMMA FindViewPreserves ==
  ASSUME HistoryInv, NEW t \in tasks, FindView(t)
  PROVE  HistoryInv'
<1> DEFINE v == view[Event(t).order]
<1>1. /\ t \in HistoryTask /\ faults \in 0 .. MaxFaults /\ faults \in Nat
      /\ t.msg \in InPlay /\ Event(t) = t.msg.event /\ Event(t) \in published
      /\ t.msg.retries \in Nat /\ t.msg.retries <= Others(Event(t)) + faults
  BY TypedParts DEF DeliveriesTyped
<1>2. /\ v \in View /\ v.version \in Nat /\ ~ Refuses(v, Event(t))
      /\ Event(t) \notin log => v.version = Others(Event(t))
  BY <1>1, NeverRefused, VersionCounts
<1>3. t.pc = "find" /\ Event(t) \notin log
  BY DEF FindView, HistoryInv, TaskInStep, Inserted
<1> PICK u : u = [t EXCEPT !.pc = "save", !.read = v]
  OBVIOUS
<1>4. u \in HistoryTask /\ u.msg = t.msg /\ u.epoch = t.epoch /\ u.pc = "save" /\ u.read = v
  BY <1>1, <1>2 DEF HistoryTask
<1>5. /\ tasks' = (tasks \ {t}) \cup {u} /\ UNCHANGED <<ready, waiting, dlq, epoch, faults>>
      /\ UNCHANGED historyVars
  BY <1>2 DEF FindView, Resume, NoFault
<1> HIDE DEF v
<1>6. TaskInStep(u)'
  BY <1>3, <1>4, <1>5 DEF TaskInStep, Inserted, Event, historyVars
<1>7. ReadInStep(u)'
  <2>1. Event(u) = Event(t) /\ view' = view /\ faults' = faults
    BY <1>4, <1>5 DEF Event, historyVars
  <2>2. u.msg.retries <= v.version + faults
    BY <1>1, <1>2, <1>3, <1>4
  <2>3. QED
    BY <1>2, <1>4, <2>1, <2>2 DEF ReadInStep, Event, v
<1>8. /\ faults' \in 0 .. MaxFaults /\ faults <= faults' /\ u.pc \notin {"settle", "commit"}
      /\ UNCHANGED <<ready, waiting, dlq, epoch>> /\ Inserted(t)
  BY <1>1, <1>3, <1>4, <1>5 DEF Inserted
<1>9. QED
  BY <1>4, <1>5, <1>6, <1>7, <1>8, ResumeFrame

LEMMA SaveViewPreserves ==
  ASSUME HistoryInv, NEW t \in tasks, SaveView(t)
  PROVE  HistoryInv'
<1> DEFINE v == view[Event(t).order]
           u == [t EXCEPT !.pc = "commit"]
           w == [t EXCEPT !.pc = FailurePc(t.msg, "TRANSIENT"), !.read = Start]
<1>1. /\ t \in HistoryTask /\ faults \in 0 .. MaxFaults /\ faults \in Nat
      /\ t.msg \in InPlay /\ Event(t) = t.msg.event /\ Event(t) \in published
      /\ t.msg.retries \in Nat /\ t.read \in View
  BY TypedParts DEF DeliveriesTyped
<1>2. t.pc = "save" /\ TaskInStep(t) /\ ReadInStep(t)
  BY DEF SaveView, HistoryInv
<1>3. /\ Event(t) \notin log /\ v.version \in Nat /\ v.version = Others(Event(t))
      /\ t.read.version \in Nat /\ t.read.version <= v.version
      /\ t.read.version = v.version => t.read = v
      /\ t.msg.retries <= t.read.version + faults
  BY <1>1, <1>2, VersionCounts DEF TaskInStep, ReadInStep, Inserted, View
<1>4. /\ ~ \E x \in tasks : x.pc = "commit" /\ Event(x).order = Event(t).order
      /\ UNCHANGED <<ready, waiting, dlq, epoch, faults>> /\ UNCHANGED historyVars
      /\ IF v.version = t.read.version THEN tasks' = (tasks \ {t}) \cup {u}
                                       ELSE tasks' = (tasks \ {t}) \cup {w}
  BY DEF SaveView, HandlerFails, Resume, NoFault, Locks
<1>5. CASE v.version = t.read.version
  <2>1. /\ u \in HistoryTask /\ u.msg = t.msg /\ u.epoch = t.epoch /\ u.pc = "commit"
        /\ u.read = t.read
    BY <1>1 DEF HistoryTask
  <2>2. tasks' = (tasks \ {t}) \cup {u}
    BY <1>4, <1>5
  <2> HIDE DEF u, v, w
  <2>3. TaskInStep(u)'
    BY <1>3, <1>4, <2>1 DEF TaskInStep, Inserted, Event, historyVars
  <2>4. ReadInStep(u)'
    BY <1>3, <1>4, <1>5, <2>1 DEF ReadInStep, Event, historyVars, v
  <2>5. QED
    BY <1>1, <1>2, <1>4, <2>1, <2>2, <2>3, <2>4, ResumeFrame DEF Inserted
<1>6. CASE v.version # t.read.version
  <2>1. /\ w \in HistoryTask /\ w.msg = t.msg /\ w.epoch = t.epoch
        /\ (w.pc = "republish" /\ t.msg.retries < MaxRetries)
           \/ (w.pc = "nack" /\ t.msg.retries = MaxRetries)
    BY <1>1, FailedTask
  <2>2. tasks' = (tasks \ {t}) \cup {w}
    BY <1>4, <1>6
  <2> HIDE DEF u, v, w
  <2>3. t.msg.retries + 1 <= Others(Event(t)) + faults
    BY <1>1, <1>3, <1>6
  <2>4. Event(w) = Event(t) /\ Others(Event(w))' = Others(Event(t)) /\ faults' = faults
    BY <1>4, <2>1 DEF Event, Others, Logged, historyVars
  <2>5. TaskInStep(w)'
    BY <2>1, <2>3, <2>4 DEF TaskInStep, Inserted
  <2>6. ReadInStep(w)'
    BY <2>1 DEF ReadInStep
  <2>7. QED
    BY <1>1, <1>4, <2>1, <2>2, <2>5, <2>6, ResumeFrame DEF Inserted
<1>7. QED
  BY <1>5, <1>6

LEMMA FaultLemma ==
  ASSUME NEW kind, Fault(kind), faults \in 0 .. MaxFaults
  PROVE  faults' \in 0 .. MaxFaults /\ faults' = faults + 1 /\ faults <= faults'
         /\ faults \in Nat /\ faults' \in Nat
BY FaultsAssumption DEF Fault

LEMMA DatabaseFailsPreserves ==
  ASSUME HistoryInv, NEW t \in tasks, DatabaseFails(t)
  PROVE  HistoryInv'
<1> DEFINE w == [t EXCEPT !.pc = FailurePc(t.msg, "TRANSIENT"), !.read = Start]
<1>1. /\ t \in HistoryTask /\ faults \in 0 .. MaxFaults /\ faults \in Nat
      /\ t.msg \in InPlay /\ Event(t) = t.msg.event
      /\ t.msg.retries \in Nat /\ Others(Event(t)) \in Nat
      /\ t.msg.retries <= Others(Event(t)) + faults
  BY TypedParts DEF DeliveriesTyped
<1>2. /\ tasks' = (tasks \ {t}) \cup {w} /\ UNCHANGED <<ready, waiting, dlq, epoch>>
      /\ UNCHANGED historyVars /\ Fault("database")
  BY DEF DatabaseFails, HandlerFails, Resume
<1>3. faults' \in 0 .. MaxFaults /\ faults' = faults + 1 /\ faults <= faults'
  BY <1>1, <1>2, FaultLemma
<1>4. /\ w \in HistoryTask /\ w.msg = t.msg /\ w.epoch = t.epoch
      /\ (w.pc = "republish" /\ t.msg.retries < MaxRetries)
         \/ (w.pc = "nack" /\ t.msg.retries = MaxRetries)
  BY <1>1, FailedTask
<1> HIDE DEF w
<1>5. Event(w) = Event(t) /\ Others(Event(w))' = Others(Event(t))
  BY <1>2, <1>4 DEF Event, Others, Logged, historyVars
<1>6. t.msg.retries + 1 <= Others(Event(t)) + faults'
  BY <1>1, <1>3
<1>7. TaskInStep(w)'
  BY <1>4, <1>5, <1>6 DEF TaskInStep, Inserted
<1>8. ReadInStep(w)'
  BY <1>4 DEF ReadInStep
<1>9. QED
  BY <1>1, <1>2, <1>3, <1>4, <1>7, <1>8, ResumeFrame DEF Inserted

-----------------------------------------------------------------------------
(* The broker's steps, and the dispatcher's.                               *)

LEMMA MessagesStay ==
  ASSUME HistoryInv, UNCHANGED historyVars, faults' \in Nat, faults <= faults'
  PROVE  \A m \in InPlay : MessageInStep(m)'
<1>1. \A m \in InPlay : /\ m.event \in published /\ m.retries \in Nat /\ faults \in Nat
                        /\ Others(m.event) \in Nat
                        /\ m.retries <= Others(m.event) + faults
  BY TypedParts
<1>2. published' = published /\ \A m : Others(m.event)' = Others(m.event)
  BY DEF historyVars, Others, Logged
<1>3. QED
  BY <1>1, <1>2 DEF MessageInStep

LEMMA ApartFrame ==
  ASSUME TransactionsApart, \A t \in tasks' : t \in tasks \/ ~ Inserted(t)
  PROVE  TransactionsApart'
BY DEF TransactionsApart, Inserted, Event

\* A step without a fault that adds no handler and loses no copy.
LEMMA BrokerFrame ==
  ASSUME HistoryInv, UNCHANGED historyVars, tasks' \subseteq tasks, InPlay' \subseteq InPlay,
         ready' \cup waiting' \cup dlq' \subseteq Message(HistoryEvent),
         epoch' \in [Queue -> Nat], faults' \in 0 .. MaxFaults, faults <= faults',
         \A e \in published \ log : Kept(e) => Kept(e)',
         dlq' = dlq \/ faults' >= 2
  PROVE  HistoryInv'
<1>1. DeliveriesTyped' /\ faults' \in Nat
  BY TypedParts, FaultsAssumption DEF DeliveriesTyped
<1>2. \A m \in InPlay' : MessageInStep(m)'
  BY <1>1, MessagesStay
<1>3. TransactionsApart'
  BY ApartFrame DEF HistoryInv
<1>4. QED
  BY <1>1, <1>2, <1>3, HistoryFrame

LEMMA StartHandlerPreserves ==
  ASSUME HistoryInv, NEW m \in ready, StartHandler(m)
  PROVE  HistoryInv'
<1> PICK u : u = [msg |-> m, pc |-> "record", read |-> Start, epoch |-> epoch[m.queue]]
  OBVIOUS
<1>1. /\ m \in Message(HistoryEvent) /\ faults \in 0 .. MaxFaults /\ faults \in Nat
      /\ DeliveriesTyped /\ m \in InPlay
  BY TypedParts DEF DeliveriesTyped, InPlay
<1>2. u \in HistoryTask /\ u.msg = m /\ u.pc = "record" /\ Live(u)
  BY <1>1, StartLemma DEF DeliveriesTyped, HistoryTask, Message, Live
<1>3. /\ ready' = ready \ {m} /\ tasks' = tasks \cup {u}
      /\ UNCHANGED <<waiting, dlq, epoch, faults>> /\ UNCHANGED historyVars
  BY DEF StartHandler, Deliver, NoFault
<1>4. DeliveriesTyped' /\ faults <= faults' /\ faults' \in Nat
  BY <1>1, <1>2, <1>3 DEF DeliveriesTyped
<1>5. \A x \in InPlay' : MessageInStep(x)'
  <2>1. InPlay' \subseteq InPlay
    BY <1>1, <1>2, <1>3 DEF InPlay
  <2>2. QED
    BY <1>3, <1>4, <2>1, MessagesStay
<1>6. TransactionsApart'
  BY <1>2, <1>3, ApartFrame DEF HistoryInv, Inserted
<1>7. TaskInStep(u)' /\ ReadInStep(u)'
  BY <1>2 DEF TaskInStep, ReadInStep, Inserted
<1>8. \A e \in published \ log : Kept(e) => Kept(e)'
  BY <1>2, <1>3 DEF Kept, Live, Event
<1>9. \A t \in tasks' : t \in tasks \/ (TaskInStep(t)' /\ ReadInStep(t)')
  <2>1. \A t \in tasks' : t \in tasks \/ t = u
    BY <1>3
  <2>2. QED
    BY <1>7, <2>1, Zenon
<1>10. QED
  BY <1>3, <1>4, <1>5, <1>6, <1>8, <1>9, HistoryFrame

LEMMA EndTaskPreserves ==
  ASSUME HistoryInv, UNCHANGED historyVars, NEW t \in tasks,
         Ack(t) \/ Settle(t) \/ Abandon(t)
  PROVE  HistoryInv'
<1>1. /\ tasks' = tasks \ {t} /\ UNCHANGED <<ready, waiting, dlq, epoch, faults>>
      /\ (t.pc = "ack" \/ t.pc = "settle" \/ ~ Live(t))
  BY DEF Ack, Settle, Abandon, EndTask, NoFault
<1>2. TaskInStep(t) /\ DeliveriesTyped /\ faults \in Nat /\ faults' \in Nat
  BY <1>1, TypedParts DEF HistoryInv
<1>3. \A e \in published \ log : Kept(e) => Kept(e)'
  BY <1>1, <1>2 DEF Kept, Live, Event, TaskInStep
<1>4. InPlay' \subseteq InPlay /\ faults <= faults'
  BY <1>1, <1>2 DEF InPlay
<1>5. QED
  BY <1>1, <1>2, <1>3, <1>4, BrokerFrame DEF DeliveriesTyped

\* The fourth failure of one message takes two faults: only two other events
\* can have overtaken its own.
LEMMA NackPreserves ==
  ASSUME HistoryInv, UNCHANGED historyVars, NEW t \in tasks, Live(t), Nack(t)
  PROVE  HistoryInv'
<1>1. /\ tasks' = tasks \ {t} /\ UNCHANGED <<ready, waiting, epoch, faults>>
      /\ dlq' = dlq \cup {t.msg} /\ t.pc = "nack"
  BY DEF Nack, EndTask, NoFault
<1>2. /\ TaskInStep(t) /\ DeliveriesTyped /\ faults \in Nat /\ faults' \in Nat
      /\ t.msg \in InPlay /\ t.msg \in Message(HistoryEvent)
      /\ Event(t) = t.msg.event /\ Event(t) \in published
  BY <1>1, TypedParts DEF HistoryInv
<1>3. faults' >= 2
  <2>1. Others(Event(t)) \in Nat /\ Others(Event(t)) <= 2
    BY <1>2, OthersBound
  <2>2. t.msg.retries = 3 /\ t.msg.retries + 1 <= Others(Event(t)) + faults
    BY <1>1, <1>2, MaxRetriesIs3 DEF TaskInStep
  <2>3. QED
    BY <1>1, <1>2, <2>1, <2>2
<1>4. \A e \in published \ log : Kept(e) => Kept(e)'
  BY <1>1 DEF Kept, Live, Event
<1>5. InPlay' \subseteq InPlay /\ faults <= faults'
  BY <1>1, <1>2 DEF InPlay
<1>6. QED
  BY <1>1, <1>2, <1>3, <1>4, <1>5, BrokerFrame DEF DeliveriesTyped

LEMMA RepublishPreserves ==
  ASSUME HistoryInv, UNCHANGED historyVars, NEW t \in tasks, Republish(t)
  PROVE  HistoryInv'
<1> PICK u : u = [t EXCEPT !.pc = "settle"]
  OBVIOUS
<1>1. PICK c \in CopyId : waiting' = waiting \cup {RetryCopy(t.msg, c)}
  BY DEF Republish
<1>2. /\ tasks' = (tasks \ {t}) \cup {u} /\ UNCHANGED <<ready, dlq, epoch, faults>>
      /\ t.pc = "republish"
  BY DEF Republish, Resume, NoFault
<1>3. /\ t \in HistoryTask /\ TaskInStep(t) /\ DeliveriesTyped
      /\ faults \in Nat /\ faults' \in Nat
      /\ t.msg \in Message(HistoryEvent) /\ t.msg \in InPlay /\ t.msg.event \in published
      /\ Event(t) = t.msg.event
  BY <1>2, TypedParts DEF HistoryInv
<1>4. /\ RetryCopy(t.msg, c) \in Message(HistoryEvent)
      /\ RetryCopy(t.msg, c).event = t.msg.event
      /\ RetryCopy(t.msg, c).retries = t.msg.retries + 1
  BY <1>2, <1>3, RetryCopyLemma DEF TaskInStep
<1>5. u \in HistoryTask /\ u.msg = t.msg /\ u.pc = "settle"
  BY <1>3 DEF HistoryTask
<1> PICK n : n = RetryCopy(t.msg, c)
  OBVIOUS
<1>6. DeliveriesTyped' /\ faults <= faults'
  BY <1>1, <1>2, <1>3, <1>4, <1>5 DEF DeliveriesTyped
<1>7. \A m \in InPlay' : MessageInStep(m)'
  <2>1. \A m \in InPlay' : m \in InPlay \/ m = n
    BY <1>1, <1>2, <1>5 DEF InPlay
  <2>2. MessageInStep(n)'
    <3>1. n.retries <= Others(n.event) + faults
      BY <1>2, <1>3, <1>4 DEF TaskInStep
    <3>2. Others(n.event)' = Others(n.event) /\ published' = published
      BY DEF Others, Logged, historyVars
    <3>3. QED
      BY <1>2, <1>3, <1>4, <3>1, <3>2 DEF MessageInStep
  <2>3. \A m \in InPlay : MessageInStep(m)'
    BY <1>3, <1>6, MessagesStay
  <2>4. QED
    BY <2>1, <2>2, <2>3, Zenon
<1>8. TransactionsApart'
  BY <1>2, <1>5, ApartFrame DEF HistoryInv, Inserted
<1>9. TaskInStep(u)' /\ ReadInStep(u)'
  BY <1>5 DEF TaskInStep, ReadInStep, Inserted
<1>10. \A e \in published \ log : Kept(e) => Kept(e)'
  BY <1>1, <1>2, <1>3, <1>4 DEF Kept, Live, Event
<1>11. \A v \in tasks' : v \in tasks \/ (TaskInStep(v)' /\ ReadInStep(v)')
  <2>1. \A v \in tasks' : v \in tasks \/ v = u
    BY <1>2
  <2>2. QED
    BY <1>9, <2>1, Zenon
<1>12. QED
  BY <1>2, <1>6, <1>7, <1>8, <1>10, <1>11, HistoryFrame

LEMMA RetryExpiresPreserves ==
  ASSUME HistoryInv, UNCHANGED historyVars, NEW m \in waiting, RetryExpires(m)
  PROVE  HistoryInv'
<1>1. /\ waiting' = waiting \ {m} /\ ready' = ready \cup {m}
      /\ UNCHANGED <<dlq, tasks, epoch, faults>>
  BY DEF RetryExpires, NoFault
<1>2. DeliveriesTyped /\ faults \in Nat
  BY TypedParts
<1>3. InPlay' \subseteq InPlay /\ faults <= faults'
  BY <1>1, <1>2 DEF InPlay
<1>4. \A e \in published \ log : Kept(e) => Kept(e)'
  BY <1>1 DEF Kept, Live, Event
<1>5. QED
  BY <1>1, <1>2, <1>3, <1>4, BrokerFrame DEF DeliveriesTyped

\* A lost connection, or a dead process, gives its deliveries back.
LEMMA RequeuePreserves ==
  ASSUME HistoryInv, UNCHANGED historyVars, NEW q \in Queue,
         LoseConnection(q) \/ CrashConsumer(q)
  PROVE  HistoryInv'
<1>1. /\ ready' = ready \cup Unacked(q) /\ tasks' \subseteq tasks
      /\ UNCHANGED <<waiting, dlq>> /\ epoch' \in {epoch, [epoch EXCEPT ![q] = @ + 1]}
      /\ \E kind : Fault(kind)
  BY DEF LoseConnection, CrashConsumer
<1>2. DeliveriesTyped /\ \A t \in tasks : t \in HistoryTask
  BY TypedParts
<1>3. faults' \in 0 .. MaxFaults /\ faults <= faults'
  BY <1>1, <1>2, FaultLemma DEF DeliveriesTyped
<1>4. epoch' \in [Queue -> Nat]
  BY <1>1, <1>2 DEF DeliveriesTyped
<1>5. Unacked(q) \subseteq {t.msg : t \in tasks} /\ Unacked(q) \subseteq Message(HistoryEvent)
  BY <1>2 DEF Unacked, HistoryTask
<1>6. InPlay' \subseteq InPlay
  BY <1>1, <1>5 DEF InPlay
<1>7. \A t \in tasks : Live(t) => t.msg \in Unacked(q)
  <2>1. \A t \in tasks : t.msg.queue = q
    BY <1>2, HistoryAssumption DEF HistoryTask, Message
  <2>2. QED
    BY <2>1 DEF Unacked
<1>8. \A e \in published \ log : Kept(e) => Kept(e)'
  BY <1>1, <1>7 DEF Kept, Event
<1>9. ready' \cup waiting' \cup dlq' \subseteq Message(HistoryEvent)
  BY <1>1, <1>2, <1>5 DEF DeliveriesTyped
<1>10. QED
  BY <1>1, <1>3, <1>4, <1>6, <1>8, <1>9, BrokerFrame

LEMMA ReplayDeadLetterPreserves ==
  ASSUME HistoryInv, UNCHANGED historyVars, NEW m \in dlq, ReplayDeadLetter(m)
  PROVE  HistoryInv'
<1>1. PICK r \in {0, m.retries}, c \in CopyId :
        ready' = ready \cup {[m EXCEPT !.retries = r, !.copy = c]}
  BY DEF ReplayDeadLetter
<1> PICK n : n = [m EXCEPT !.retries = r, !.copy = c]
  OBVIOUS
<1>2. dlq' = dlq \ {m} /\ UNCHANGED <<waiting, tasks, epoch>> /\ Fault("replay")
  BY DEF ReplayDeadLetter
<1>3. /\ DeliveriesTyped /\ faults \in 0 .. MaxFaults /\ m \in InPlay
      /\ m \in Message(HistoryEvent) /\ m.retries \in 0 .. 3
      /\ m.event \in published /\ Others(m.event) \in Nat
      /\ m.retries <= Others(m.event) + faults
  BY TypedParts DEF DeliveriesTyped, InPlay
<1>4. faults' \in 0 .. MaxFaults /\ faults' = faults + 1 /\ faults <= faults'
      /\ faults \in Nat /\ faults' \in Nat
  BY <1>2, <1>3, FaultLemma
<1>5. n \in Message(HistoryEvent) /\ n.event = m.event /\ n.retries \in {0, m.retries}
  <2>1. r \in 0 .. 3
    BY <1>3
  <2>2. n.event = m.event /\ n.retries = r
    BY <1>3 DEF Message
  <2>3. n \in Message(HistoryEvent)
    BY <1>3, <2>1, MaxRetriesIs3 DEF Message
  <2>4. QED
    BY <2>2, <2>3
<1>6. DeliveriesTyped'
  BY <1>1, <1>2, <1>3, <1>4, <1>5 DEF DeliveriesTyped
<1>7. \A x \in InPlay' : MessageInStep(x)'
  <2>1. \A x \in InPlay' : x \in InPlay \/ x = n
    BY <1>1, <1>2 DEF InPlay
  <2>2. MessageInStep(n)'
    <3>1. n.retries <= Others(n.event) + faults'
      BY <1>3, <1>4, <1>5
    <3>2. Others(n.event)' = Others(n.event) /\ published' = published
      BY DEF Others, Logged, historyVars
    <3>3. QED
      BY <1>3, <1>5, <3>1, <3>2 DEF MessageInStep
  <2>3. \A x \in InPlay : MessageInStep(x)'
    BY <1>4, MessagesStay
  <2>4. QED
    BY <2>1, <2>2, <2>3, Zenon
<1>8. TransactionsApart'
  BY <1>2, ApartFrame DEF HistoryInv
<1>9. \A e \in published \ log : Kept(e) => Kept(e)'
  BY <1>1, <1>2, <1>5 DEF Kept, Live, Event
<1>10. faults' >= 2
  <2>1. faults >= 2
    BY DEF HistoryInv, DeadLetterTakesFaults
  <2>2. QED
    BY <1>4, <2>1
<1>11. \A t \in tasks' : t \in tasks
  BY <1>2
<1>12. QED
  BY <1>4, <1>6, <1>7, <1>8, <1>9, <1>10, <1>11, HistoryFrame

-----------------------------------------------------------------------------
(* The commit, and what is published.                                      *)

\* No event is overtaken by fewer events than before.
LEMMA OthersGrow ==
  ASSUME IsFiniteSet(log), IsFiniteSet(log'), log \subseteq log', NEW f
  PROVE  Others(f) \in Nat /\ Others(f)' \in Nat /\ Others(f) <= Others(f)'
<1> DEFINE A == Logged(f.order) \ {f}
           B == {e \in log' : e.order = f.order} \ {f}
<1>1. A \in SUBSET B /\ B \in SUBSET log'
  BY DEF Logged
<1>2. IsFiniteSet(B)
  BY <1>1, FS_Subset
<1>3. Cardinality(A) <= Cardinality(B) /\ IsFiniteSet(A)
  BY <1>1, <1>2, FS_Subset
<1>4. Cardinality(A) \in Nat /\ Cardinality(B) \in Nat
  BY <1>2, <1>3, FS_CardinalityType
<1>5. Others(f) = Cardinality(A) /\ Others(f)' = Cardinality(B)
  BY DEF Others, Logged
<1>6. QED
  BY <1>3, <1>4, <1>5

\* An event applied to a view, and counted by its version.
LEMMA AppliedIsView ==
  ASSUME NEW v \in View, NEW e \in HistoryEvent
  PROVE  [Apply(v, e) EXCEPT !.version = @ + 1] \in View
<1>1. e.type \in EventType /\ OccurredAt[e.type] \in Nat
  BY HistoryAssumption DEF HistoryEvent
<1>2. /\ StatusAfter(v, e) \in {"pending", "confirmed", "rejected"}
      /\ ReasonAfter(v, e) \in {"none", "stock.rejected", "order.rejected"}
  BY DEF StatusAfter, ReasonAfter, View
<1> DEFINE s == CASE e.type = "stock.reserved" -> "reserved"
                  [] e.type = "stock.rejected" -> "rejected"
                  [] OTHER -> v.stock
           c == v.customer \/ e.type \in {"order.created", "order.confirmed", "order.rejected"}
           d == v.details \/ e.type = "order.created"
           l == IF OccurredAt[e.type] > v.last THEN OccurredAt[e.type] ELSE v.last
<1>3. s \in {"none", "reserved", "rejected"} /\ l \in Nat /\ v.version + 1 \in Nat
  BY <1>1 DEF View
<1>4. c \in BOOLEAN /\ d \in BOOLEAN
  BY Zenon
<1>5. [Apply(v, e) EXCEPT !.version = @ + 1] =
        [status |-> StatusAfter(v, e), stock |-> s, reason |-> ReasonAfter(v, e),
         customer |-> c, details |-> d, last |-> l, version |-> v.version + 1]
  BY DEF Apply
<1> HIDE DEF s, c, d, l
<1>6. QED
  BY <1>2, <1>3, <1>4, <1>5 DEF View

\* The row and the log move together, and the other handlers of the order
\* find the row changed; t goes on as u.
LEMMA CommittedPreserves ==
  ASSUME HistoryInv, NEW t \in tasks, Committed(t), NEW u \in HistoryTask,
         u.msg = t.msg, u.epoch = t.epoch, u.pc \in {"ack", "republish", "nack"},
         tasks' = (tasks \ {t}) \cup {u},
         faults' \in 0 .. MaxFaults, faults <= faults',
         u.pc # "ack" => faults' = faults + 1,
         u.pc = "republish" => t.msg.retries < MaxRetries,
         u.pc = "nack" => t.msg.retries = MaxRetries
  PROVE  HistoryInv'
<1> PICK e : e = Event(t)
  OBVIOUS
<1> PICK o : o = e.order
  OBVIOUS
<1>1. /\ t.pc = "commit" /\ log' = log \cup {e}
      /\ view' = [view EXCEPT ![o] = [Apply(t.read, e) EXCEPT !.version = @ + 1]]
      /\ UNCHANGED <<ready, waiting, dlq, epoch, decision, published>>
  BY DEF Committed
<1>2. /\ DeliveriesTyped /\ faults \in Nat /\ faults' \in Nat
      /\ t \in HistoryTask /\ t.msg \in InPlay /\ e = t.msg.event
      /\ e \in published /\ e \in HistoryEvent /\ o \in Order
      /\ t.msg.retries \in Nat /\ t.msg.retries <= Others(e) + faults /\ t.read \in View
  BY TypedParts, FaultsAssumption DEF HistoryEvent
<1>3. e \notin log /\ t.read = view[o] /\ view[o] = ViewOf(Logged(o))
  BY <1>1, <1>2 DEF HistoryInv, TaskInStep, ReadInStep, Inserted, ViewMatchesLog, Logged
<1>4. /\ IsFiniteSet(log) /\ log \subseteq published /\ published \subseteq HistoryEvent
      /\ \A f \in published : f.type \in StoryTypes(f.order)
      /\ view \in [Order -> View]
  BY DEF HistoryInv, TypeOK, StoriesKept
<1>5. IsFiniteSet(log')
  BY <1>1, <1>4, FS_AddElement
<1>6. \A f : Others(f) \in Nat /\ Others(f)' \in Nat /\ Others(f) <= Others(f)'
  BY <1>1, <1>4, <1>5, OthersGrow
<1>7. /\ view' = [view EXCEPT ![o] = ViewOf(Logged(o) \cup {e})]
      /\ view'[o] \in View
  <2>1. Logged(o) \in SUBSET log
    BY DEF Logged
  <2>2. IsFiniteSet(Logged(o))
    BY <1>4, <2>1, FS_Subset
  <2>3. Logged(o) \subseteq HistoryEvent /\ \A f \in Logged(o) : f.type \in StoryTypes(o)
    BY <1>4 DEF Logged
  <2>4. e.type \in StoryTypes(o) /\ e \notin Logged(o)
    BY <1>2, <1>3, <1>4 DEF Logged
  <2>5. [Apply(ViewOf(Logged(o)), e) EXCEPT !.version = @ + 1] = ViewOf(Logged(o) \cup {e})
    BY <1>2, <2>2, <2>3, <2>4, ApplyIsViewOf
  <2>6. [Apply(t.read, e) EXCEPT !.version = @ + 1] \in View
    BY <1>2, AppliedIsView
  <2>7. QED
    BY <1>1, <1>2, <1>3, <1>4, <2>5, <2>6
<1>8. DeliveriesTyped'
  BY <1>1, <1>2 DEF DeliveriesTyped
<1>9. TypeOK'
  <2>1. view' \in [Order -> View]
    BY <1>4, <1>7
  <2>2. log' \subseteq published'
    BY <1>1, <1>2, <1>4
  <2>3. QED
    BY <1>1, <1>8, <2>1, <2>2 DEF HistoryInv, TypeOK, DeliveriesTyped
<1>10. StoriesKept'
  BY <1>1, <1>4, <1>5 DEF StoriesKept, StoryTypes
<1>11. TransactionsApart'
  BY ApartFrame DEF HistoryInv, Inserted
<1>12. \A m \in InPlay' : MessageInStep(m)'
  <2>1. InPlay' \subseteq InPlay
    BY <1>1, <1>2 DEF InPlay
  <2>2. \A m \in InPlay : m.event \in published /\ m.retries \in Nat
                          /\ m.retries <= Others(m.event) + faults
    BY TypedParts
  <2>3. \A m \in InPlay : m.retries <= Others(m.event)' + faults'
    BY <1>2, <1>6, <2>2
  <2>4. QED
    BY <1>1, <2>1, <2>2, <2>3 DEF MessageInStep
<1>13. ViewMatchesLog'
  <2>1. SUFFICES ASSUME NEW p \in Order
                 PROVE  view'[p] = ViewOf({f \in log' : f.order = p})
    BY DEF ViewMatchesLog, ViewOf
  <2>2. CASE p = o
    <3>1. {f \in log' : f.order = o} = Logged(o) \cup {e}
      BY <1>1 DEF Logged
    <3>2. view'[o] = ViewOf(Logged(o) \cup {e})
      BY <1>2, <1>4, <1>7
    <3>3. QED
      BY <2>2, <3>1, <3>2
  <2>3. CASE p # o
    <3>1. {f \in log' : f.order = p} = {f \in log : f.order = p}
      BY <1>1, <2>3
    <3>2. view'[p] = view[p]
      BY <1>4, <1>7, <2>3
    <3>3. view[p] = ViewOf({f \in log : f.order = p})
      BY DEF HistoryInv, ViewMatchesLog
    <3>4. QED
      BY <3>1, <3>2, <3>3
  <2>4. QED
    BY <2>2, <2>3
<1>14. NoEventDropped'
  BY <1>1, <1>2 DEF HistoryInv, NoEventDropped, Live, Event
<1>15. DeadLetterTakesFaults'
  BY <1>1, <1>2 DEF HistoryInv, DeadLetterTakesFaults
<1>16. TaskInStep(u)' /\ ReadInStep(u)'
  <2>1. Event(u) = e
    BY DEF Event
  <2>2. u.pc # "ack" => u.msg.retries + 1 <= Others(e)' + faults'
    BY <1>2, <1>6
  <2>3. TaskInStep(u)'
    BY <1>1, <2>1, <2>2 DEF TaskInStep, Inserted, Event
  <2>4. QED
    BY <2>3 DEF ReadInStep
<1>17. ASSUME NEW v \in tasks, v # t
       PROVE  TaskInStep(v)' /\ ReadInStep(v)'
  <2>1. /\ TaskInStep(v) /\ ReadInStep(v) /\ v.read.version \in Nat /\ v.msg.retries \in Nat
        /\ Event(v) \in published /\ Event(v).order \in Order
        /\ v.msg.retries <= Others(Event(v)) + faults
    BY TypedParts DEF HistoryInv, View, HistoryEvent
  <2>2. (Inserted(v) => Event(v) # e) /\ ~ (v.pc = "commit" /\ Event(v).order = o)
    BY <1>1, <1>17 DEF HistoryInv, TransactionsApart, Inserted
  <2>3. v.msg.retries + 1 <= Others(Event(v)) + faults
          => v.msg.retries + 1 <= Others(Event(v))' + faults'
    BY <1>2, <1>6, <2>1
  <2>4. Event(v)' = Event(v)
    BY DEF Event
  <2>5. TaskInStep(v)'
    BY <1>1, <2>1, <2>2, <2>3, <2>4 DEF TaskInStep, Inserted
  <2>6. ReadInStep(v)'
    <3>1. CASE Event(v).order # o
      <4>1. view'[Event(v).order] = view[Event(v).order]
        BY <1>4, <1>7, <2>1, <3>1
      <4>2. v.msg.retries <= v.read.version + faults
              => v.msg.retries <= v.read.version + faults'
        BY <1>2, <2>1
      <4>3. QED
        BY <2>1, <2>4, <4>1, <4>2 DEF ReadInStep
    <3>2. CASE Event(v).order = o
      <4>1. view[o].version \in Nat
        BY <1>2, <1>4 DEF View
      <4>2. view'[o].version = view[o].version + 1
        BY <1>1, <1>2, <1>3, <1>4 DEF Apply
      <4>3. v.pc # "commit"
        BY <2>2, <3>2
      <4>4. v.pc = "save" => /\ v.read.version <= view[o].version
                             /\ v.msg.retries <= v.read.version + faults
        BY <2>1, <3>2 DEF ReadInStep
      <4>5. v.pc = "save" => /\ v.read.version <= view'[o].version
                             /\ v.read.version # view'[o].version
                             /\ v.msg.retries <= v.read.version + faults'
        BY <1>2, <2>1, <4>1, <4>2, <4>4
      <4>6. QED
        BY <2>4, <3>2, <4>3, <4>5 DEF ReadInStep
    <3>3. QED
      BY <3>1, <3>2
  <2>7. QED
    BY <2>5, <2>6
<1>18. \A v \in tasks' : TaskInStep(v)' /\ ReadInStep(v)'
  <2>1. \A v \in tasks' : (v \in tasks /\ v # t) \/ v = u
    OBVIOUS
  <2>2. QED
    BY <1>16, <1>17, <2>1, Zenon
<1>19. QED
  BY <1>9, <1>10, <1>11, <1>12, <1>13, <1>14, <1>15, <1>18 DEF HistoryInv

LEMMA CommitPreserves ==
  ASSUME HistoryInv, NEW t \in tasks, Commit(t) \/ CommitUnanswered(t)
  PROVE  HistoryInv'
<1>1. t \in HistoryTask /\ faults \in 0 .. MaxFaults /\ faults \in Nat /\ Committed(t)
  BY TypedParts DEF DeliveriesTyped, Commit, CommitUnanswered
<1>2. CASE Commit(t)
  <2> PICK u : u = [t EXCEPT !.pc = "ack", !.read = Start]
    OBVIOUS
  <2>1. u \in HistoryTask /\ u.msg = t.msg /\ u.epoch = t.epoch /\ u.pc = "ack"
    BY <1>1, StartLemma DEF HistoryTask
  <2>2. /\ tasks' = (tasks \ {t}) \cup {u}
        /\ faults' \in 0 .. MaxFaults /\ faults <= faults'
    BY <1>1, <1>2 DEF Commit, Resume, NoFault
  <2>3. QED
    BY <1>1, <2>1, <2>2, CommittedPreserves
<1>3. CASE CommitUnanswered(t)
  <2> PICK u : u = [t EXCEPT !.pc = FailurePc(t.msg, "TRANSIENT"), !.read = Start]
    OBVIOUS
  <2>1. /\ u \in HistoryTask /\ u.msg = t.msg /\ u.epoch = t.epoch
        /\ (u.pc = "republish" /\ t.msg.retries < MaxRetries)
           \/ (u.pc = "nack" /\ t.msg.retries = MaxRetries)
    BY <1>1, FailedTask
  <2>2. tasks' = (tasks \ {t}) \cup {u} /\ Fault("database")
    BY <1>3 DEF CommitUnanswered, HandlerFails, Resume
  <2>3. faults' \in 0 .. MaxFaults /\ faults <= faults' /\ faults' = faults + 1
    BY <1>1, <2>2, FaultLemma
  <2>4. QED
    BY <1>1, <2>1, <2>2, <2>3, CommittedPreserves
<1>4. QED
  BY <1>2, <1>3

LEMMA PublishPreserves ==
  ASSUME HistoryInv, NEW o \in Order, Publish(o)
  PROVE  HistoryInv'
<1>1. PICK i \in 1 .. 3 :
        /\ published' = published \cup {[type |-> Story(o)[i], order |-> o]}
        /\ ready' = ready \cup {[queue |-> "history",
                                 event |-> [type |-> Story(o)[i], order |-> o],
                                 retries |-> 0, copy |-> 0]}
  BY DEF Publish
<1> PICK e : e = [type |-> Story(o)[i], order |-> o]
  OBVIOUS
<1> PICK m : m = [queue |-> "history", event |-> e, retries |-> 0, copy |-> 0]
  OBVIOUS
<1>2. /\ published' = published \cup {e} /\ ready' = ready \cup {m}
      /\ UNCHANGED <<waiting, dlq, tasks, epoch, decision, log, view, faults>>
  BY <1>1 DEF Publish, NoFault
<1>3. Story(o)[i] \in StoryTypes(o) /\ Story(o)[i] \in EventType
  BY StoryLemma
<1>4. e \in HistoryEvent /\ e.type \in StoryTypes(e.order)
  BY <1>3 DEF HistoryEvent
<1>5. m \in Message(HistoryEvent) /\ m.event = e /\ m.retries = 0
  BY <1>4, HistoryAssumption, CopyIdAssumption, MaxRetriesIs3 DEF Message
<1>6. faults \in Nat /\ \A f : f \in published => Others(f) \in Nat
  BY TypedParts, OthersBound
<1>7. /\ TypeOK /\ StoriesKept /\ TransactionsApart /\ ViewMatchesLog /\ NoEventDropped
      /\ DeadLetterTakesFaults
      /\ \A t \in tasks : TaskInStep(t) /\ ReadInStep(t)
      /\ \A x \in InPlay : MessageInStep(x)
  BY DEF HistoryInv
<1>8. TypeOK'
  BY <1>2, <1>4, <1>5, <1>7 DEF TypeOK
<1>9. StoriesKept'
  BY <1>2, <1>4, <1>7 DEF StoriesKept, StoryTypes
<1>10. \A x \in InPlay' : MessageInStep(x)'
  <2>1. InPlay' = InPlay \cup {m}
    BY <1>2 DEF InPlay
  <2>2. \A f : Others(f)' = Others(f)
    BY <1>2 DEF Others, Logged
  <2>3. \A x \in InPlay : MessageInStep(x)'
    BY <1>2, <1>7, <2>2 DEF MessageInStep
  <2>4. MessageInStep(m)'
    <3>1. Others(e) \in Nat
      BY <1>7, LoggedIsFinite DEF StoriesKept
    <3>2. QED
      BY <1>2, <1>5, <1>6, <2>2, <3>1 DEF MessageInStep
  <2>5. QED
    BY <2>1, <2>3, <2>4
<1>11. TransactionsApart' /\ ViewMatchesLog' /\ DeadLetterTakesFaults'
  BY <1>2, <1>7 DEF TransactionsApart, Inserted, Event, ViewMatchesLog,
                    DeadLetterTakesFaults
<1>12. \A t \in tasks' : TaskInStep(t)' /\ ReadInStep(t)'
  BY <1>2, <1>7 DEF TaskInStep, ReadInStep, Inserted, Event, Others, Logged
<1>13. NoEventDropped'
  <2>1. \E x \in ready' \cup waiting' \cup dlq' : x.event = e
    BY <1>2, <1>5
  <2>2. ASSUME NEW f \in published' \ log', f # e
        PROVE  \/ \E x \in ready' \cup waiting' \cup dlq' : x.event = f
               \/ \E t \in tasks' : Live(t)' /\ Event(t)' = f /\ t.pc # "settle"
    BY <1>2, <1>7, <2>2 DEF NoEventDropped, Live, Event
  <2>3. QED
    BY <2>1, <2>2, Zenon DEF NoEventDropped
<1>14. QED
  BY <1>8, <1>9, <1>10, <1>11, <1>12, <1>13 DEF HistoryInv

-----------------------------------------------------------------------------
(* The theorems.                                                           *)

LEMMA InitHolds == HistoryInit => HistoryInv
<1> SUFFICES ASSUME HistoryInit PROVE HistoryInv
  OBVIOUS
<1>1. /\ ready = {} /\ waiting = {} /\ dlq = {} /\ tasks = {} /\ faults = 0
      /\ published = {} /\ log = {} /\ view = [o \in Order |-> Start]
      /\ epoch = [q \in Queue |-> 0] /\ decision \in [Order -> {"reserved", "rejected"}]
  BY DEF HistoryInit, DeliveryInit
<1>2. TypeOK
  BY <1>1, StartLemma, FaultsAssumption DEF TypeOK
<1>3. StoriesKept
  BY <1>1, FS_EmptySet DEF StoriesKept
<1>4. ViewMatchesLog
  <2>1. ViewOf({}) = Start
    <3>1. {0} \subseteq Int /\ \A y \in {0} : 0 >= y
      OBVIOUS
    <3>2. Max({0}) = 0
      BY <3>1, MaxUnique
    <3>3. {OccurredAt[y] : y \in {}} \cup {0} = {0}
      OBVIOUS
    <3>4. Cardinality({}) = 0
      BY FS_EmptySet
    <3> DEFINE T == {e.type : e \in {}}
               c == T \cap {"order.created", "order.confirmed", "order.rejected"} # {}
               d == "order.created" \in T
    <3>5. T = {} /\ c = FALSE /\ d = FALSE
      OBVIOUS
    <3>6. ViewOf({}) =
            [status   |-> IF "order.confirmed" \in T THEN "confirmed"
                          ELSE IF "order.rejected" \in T THEN "rejected" ELSE "pending",
             stock    |-> IF "stock.reserved" \in T THEN "reserved"
                          ELSE IF "stock.rejected" \in T THEN "rejected" ELSE "none",
             reason   |-> IF "order.rejected" \in T THEN "order.rejected"
                          ELSE IF "stock.rejected" \in T THEN "stock.rejected" ELSE "none",
             customer |-> c, details |-> d,
             last     |-> Max({OccurredAt[y] : y \in T} \cup {0}),
             version  |-> Cardinality({})]
      BY DEF ViewOf
    <3>7. Max({OccurredAt[y] : y \in T} \cup {0}) = 0
      BY <3>2, <3>3, <3>5
    <3> HIDE DEF T, c, d
    <3>8. QED
      BY <3>4, <3>5, <3>6, <3>7 DEF Start
  <2>2. QED
    BY <1>1, <2>1 DEF ViewMatchesLog
<1>5. TransactionsApart /\ NoEventDropped /\ DeadLetterTakesFaults /\ InPlay = {}
  BY <1>1 DEF TransactionsApart, NoEventDropped, DeadLetterTakesFaults, InPlay
<1>6. QED
  BY <1>1, <1>2, <1>3, <1>4, <1>5 DEF HistoryInv

LEMMA NextPreserves ==
  ASSUME HistoryInv, [Next]_vars
  PROVE  HistoryInv'
<1>1. CASE BrokerOrDispatcher
  <2>1. UNCHANGED historyVars
    BY <1>1 DEF BrokerOrDispatcher
  <2>2. ASSUME NEW t \in tasks, Settlement(t)
        PROVE  HistoryInv'
    BY <2>1, <2>2, EndTaskPreserves, NackPreserves, RepublishPreserves DEF Settlement
  <2>3. QED
    BY <1>1, <2>1, <2>2, RetryExpiresPreserves DEF BrokerOrDispatcher
<1>2. CASE BrokerFault
  BY <1>2, RequeuePreserves, ReplayDeadLetterPreserves DEF BrokerFault
<1>3. CASE \E m \in ready : StartHandler(m)
  BY <1>3, StartHandlerPreserves
<1>4. ASSUME NEW t \in tasks,
             \/ RecordEvent(t) \/ FindView(t) \/ SaveView(t) \/ Commit(t)
             \/ CommitUnanswered(t) \/ DatabaseFails(t)
      PROVE  HistoryInv'
  BY <1>4, RecordEventPreserves, FindViewPreserves, SaveViewPreserves, CommitPreserves,
     DatabaseFailsPreserves
<1>5. CASE \E o \in Order : Publish(o)
  BY <1>5, PublishPreserves
<1>6. CASE UNCHANGED vars
  <2>1. /\ UNCHANGED historyVars /\ UNCHANGED <<ready, waiting, dlq, tasks, epoch, faults>>
        /\ DeliveriesTyped /\ faults \in Nat
    BY <1>6, TypedParts DEF vars, deliveryVars
  <2>2. /\ InPlay' \subseteq InPlay /\ \A e \in published \ log : Kept(e) => Kept(e)'
        /\ faults <= faults'
    BY <2>1 DEF InPlay, Kept, Live, Event
  <2>3. QED
    BY <2>1, <2>2, BrokerFrame DEF DeliveriesTyped
<1>7. QED
  BY <1>1, <1>2, <1>3, <1>4, <1>5, <1>6 DEF Next, System, Faults

\* What the projection's transactions have read, inserted and locked, and
\* what every message was retried for.
THEOREM HistoryInvariant == Spec => []HistoryInv
<1>1. HistoryInit => HistoryInv
  BY InitHolds
<1>2. HistoryInv /\ [Next]_vars => HistoryInv'
  BY NextPreserves
<1>3. QED
  BY <1>1, <1>2, PTL DEF Spec

\* The variables are typed, and only published events are logged.
THEOREM HistoryTyped == Spec => []TypeOK
<1>1. HistoryInv => TypeOK
  BY DEF HistoryInv
<1>2. QED
  BY <1>1, HistoryInvariant, PTL

\* No lost update: an order's view is the one its logged events amount to,
\* whatever the prefetch and however the transactions interleave.
THEOREM NoLostUpdate == Spec => []ViewMatchesLog
<1>1. HistoryInv => ViewMatchesLog
  BY DEF HistoryInv
<1>2. QED
  BY <1>1, HistoryInvariant, PTL

\* At-least-once: a published event is logged, or a copy of it is kept.
THEOREM EventsKept == Spec => []NoEventDropped
<1>1. HistoryInv => NoEventDropped
  BY DEF HistoryInv
<1>2. QED
  BY <1>1, HistoryInvariant, PTL

\* Losing the optimistic lock does not dead-letter an event by itself: two
\* events at most overtake it, and it has four tries.
THEOREM ContentionAloneNeverDeadLetters == Spec => []DeadLetterTakesFaults
<1>1. HistoryInv => DeadLetterTakesFaults
  BY DEF HistoryInv
<1>2. QED
  BY <1>1, HistoryInvariant, PTL
=============================================================================
