--------------------------- MODULE OrderFlow_proofs ---------------------------
(***************************************************************************)
(* Proofs about OrderFlow and the BrokerConnection it runs on, for any     *)
(* number of requests, any orders and any bounds: the types, that a        *)
(* stopped service leaves nothing behind, that one id follows an order     *)
(* through all hops, and that what a client is told is so.                 *)
(***************************************************************************)
EXTENDS OrderFlow, SetSums, TLAPS

-----------------------------------------------------------------------------
(* What an order holds.                                                    *)

Line == [quantity : Nat, price : Nat]

LEMMA LargestExists ==
  ASSUME NEW T, IsFiniteSet(T), T \subseteq Int
  PROVE  \A t \in SUBSET T : t # {} => Max(t) \in t
<1> DEFINE Good == {t \in SUBSET T : t # {} => \E m \in t : \A y \in t : m >= y}
<1>1. ASSUME NEW t \in SUBSET T, \A u \in SUBSET t : u # t => u \in Good
      PROVE  t \in Good
  <2>1. CASE t = {}
    BY <2>1
  <2>2. CASE t # {}
    <3>1. PICK x \in t : TRUE
      BY <2>2
    <3>2. t \ {x} \in Good
      BY <1>1, <3>1
    <3>3. CASE t \ {x} = {}
      <4>1. \A y \in t : y = x /\ x >= y
        BY <3>1, <3>3
      <4>2. QED
        BY <3>1, <4>1
    <3>4. CASE t \ {x} # {}
      <4>1. PICK m \in t \ {x} : \A y \in t \ {x} : m >= y
        BY <3>2, <3>4
      <4>2. PICK n \in t : n >= m /\ n >= x
        BY <3>1, <4>1
      <4>3. \A y \in t : n >= y
        BY <3>1, <4>1, <4>2
      <4>4. QED
        BY <4>3
    <3>5. QED
      BY <3>3, <3>4
  <2>3. QED
    BY <2>1, <2>2
<1>2. SUBSET T \subseteq Good
  <2> HIDE DEF Good
  <2>1. QED
    BY <1>1, SubsetInduction
<1>3. QED
  BY <1>2 DEF Max

\* The total of an order is the sum of its lines.
LEMMA TotalIsSum ==
  ASSUME NEW lines \in Seq(Line)
  PROVE  TotalAmount(lines) \in Nat
<1> DEFINE T == DOMAIN lines
           amount == [i \in T |-> lines[i].quantity * lines[i].price]
           g == [t \in SUBSET T |-> SetSum(amount, t)]
<1>1. T = 1 .. Len(lines) /\ Len(lines) \in Nat /\ \A i \in T : lines[i] \in Line
  OBVIOUS
<1>2. IsFiniteSet(T) /\ T \subseteq Int
  BY <1>1, FS_Interval
<1>3. \A i \in T : amount[i] \in Nat
  BY <1>1 DEF Line
<1>4. \A t \in SUBSET T : t # {} => Max(t) \in t
  BY <1>2, LargestExists
<1>5. ASSUME NEW t \in SUBSET T
      PROVE  /\ SetSum(amount, t) \in Nat
             /\ \A i \in t : SetSum(amount, t) = amount[i] + SetSum(amount, t \ {i})
             /\ \A i \in t : SetSum(amount, t \ {i}) \in Nat
  <2>1. IsFiniteSet(t) /\ \A i \in t : amount[i] \in Nat
    BY <1>2, <1>3, FS_Subset
  <2>2. ASSUME NEW i \in t
        PROVE  SetSum(amount, t \ {i}) \in Nat
    <3>1. IsFiniteSet(t \ {i}) /\ \A j \in t \ {i} : amount[j] \in Nat
      BY <2>1, FS_Subset
    <3>2. QED
      BY <3>1, SetSumTake
  <2> HIDE DEF amount
  <2>3. QED
    BY <2>1, <2>2, SetSumTake
<1>6. ASSUME NEW t \in SUBSET T
      PROVE  g[t] = IF t = {} THEN 0
                    ELSE g[t \ {Max(t)}] + lines[Max(t)].quantity * lines[Max(t)].price
  <2>1. CASE t = {}
    BY <2>1, SetSumEmpty
  <2>2. CASE t # {}
    <3>1. Max(t) \in t /\ Max(t) \in T /\ t \ {Max(t)} \in SUBSET T
      BY <1>4, <2>2
    <3> PICK i : i = Max(t)
      OBVIOUS
    <3>2. SetSum(amount, t) = amount[i] + SetSum(amount, t \ {i})
          /\ SetSum(amount, t \ {i}) \in Nat /\ amount[i] \in Nat
      BY <1>3, <1>5, <3>1
    <3>3. amount[i] = lines[i].quantity * lines[i].price
      BY <3>1
    <3>4. g[t] = SetSum(amount, t) /\ g[t \ {i}] = SetSum(amount, t \ {i})
      BY <3>1
    <3> HIDE DEF g, amount
    <3>5. g[t] = g[t \ {i}] + amount[i]
      BY <3>2, <3>4
    <3>6. QED
      BY <2>2, <3>3, <3>5
  <2>3. QED
    BY <2>1, <2>2
<1>7. g = [t \in SUBSET T |-> IF t = {} THEN 0
             ELSE g[t \ {Max(t)}] + lines[Max(t)].quantity * lines[Max(t)].price]
  BY <1>6
<1>8. PICK h :
        /\ h = [t \in SUBSET T |-> IF t = {} THEN 0
                  ELSE h[t \ {Max(t)}] + lines[Max(t)].quantity * lines[Max(t)].price]
        /\ TotalAmount(lines) = h[T]
  <2> HIDE DEF g
  <2>1. QED
    BY <1>7 DEF TotalAmount, FoldLeft, MapThenFoldSet
<1> DEFINE Good == {t \in SUBSET T : h[t] \in Nat}
<1>9. ASSUME NEW t \in SUBSET T, \A u \in SUBSET t : u # t => u \in Good
      PROVE  t \in Good
  <2>1. CASE t = {}
    BY <1>8, <2>1
  <2>2. CASE t # {}
    <3>1. Max(t) \in t /\ Max(t) \in T
      BY <1>4, <2>2
    <3> PICK i : i = Max(t)
      OBVIOUS
    <3> PICK a : a = lines[i].quantity * lines[i].price
      OBVIOUS
    <3>2. h[t \ {i}] \in Nat
      BY <1>9, <3>1
    <3>3. a \in Nat
      BY <1>1, <3>1 DEF Line
    <3>4. h[t] = h[t \ {i}] + a
      <4> HIDE DEF T
      <4>1. h[t] = h[t \ {i}] + lines[i].quantity * lines[i].price
        BY <1>8, <2>2
      <4>2. QED
        BY <4>1
    <3>5. h[t] \in Nat
      BY <3>2, <3>3, <3>4
    <3>6. QED
      BY <3>5
  <2>3. QED
    BY <2>1, <2>2
<1>10. SUBSET T \subseteq Good
  <2> HIDE DEF Good, T
  <2>1. QED
    BY <1>2, <1>9, SubsetInduction
<1>11. QED
  BY <1>8, <1>10

LEMMA ItemsOf ==
  ASSUME NEW S, NEW s \in Seq(S)
  PROVE  /\ DOMAIN s = 1 .. Len(s) /\ Len(s) \in Nat
         /\ \A i \in DOMAIN s : s[i] \in S
  OBVIOUS

LEMMA LinesTyped ==
  ASSUME NEW b \in Bodies
  PROVE  /\ Stored(b) \in Seq(Line)
         /\ b # <<>> => Stored(b) # <<>>
<1>1. b \in Seq([quantity : Nat \ {0}, price : Nat])
  BY FlowAssumption DEF Bodies
<1>2. /\ DOMAIN b = 1 .. Len(b) /\ Len(b) \in Nat
      /\ \A i \in DOMAIN b : b[i] \in [quantity : Nat \ {0}, price : Nat]
  BY <1>1, ItemsOf
<1>3. \A n \in Nat : Rounded(n) \in Nat
  BY DEF Rounded
<1>4. ASSUME NEW i \in DOMAIN b
      PROVE  [b[i] EXCEPT !.price = Rounded(@)] \in Line
  <2>1. b[i].quantity \in Nat /\ b[i].price \in Nat
    BY <1>2
  <2>2. Rounded(b[i].price) \in Nat
    BY <1>3, <2>1
  <2>3. b[i] = [quantity |-> b[i].quantity, price |-> b[i].price]
    BY <1>2
  <2>4. [b[i] EXCEPT !.price = Rounded(@)]
          = [quantity |-> b[i].quantity, price |-> Rounded(b[i].price)]
    BY <2>3
  <2>5. QED
    BY <2>1, <2>2, <2>4 DEF Line
<1>5. Stored(b) = [i \in 1 .. Len(b) |-> [b[i] EXCEPT !.price = Rounded(@)]]
  BY <1>2 DEF Stored
<1>6. Stored(b) \in [1 .. Len(b) -> Line]
  BY <1>2, <1>4, <1>5
<1>7. Stored(b) \in Seq(Line) /\ Len(Stored(b)) = Len(b)
  BY <1>2, <1>6
<1>8. b # <<>> => Len(b) # 0
  BY <1>1
<1>9. QED
  BY <1>7, <1>8

\* What the rows hold, and what the total of one is.
Rows == {Stored(b) : b \in Bodies} \cup {<<>>}

LEMMA RowsTyped ==
  ASSUME NEW lines \in Rows
  PROVE  TotalAmount(lines) \in Nat
<1>1. CASE lines = <<>>
  <2>1. <<>> \in Seq(Line)
    OBVIOUS
  <2>2. TotalAmount(<<>>) \in Nat
    BY <2>1, TotalIsSum
  <2>3. QED
    BY <1>1, <2>2
<1>2. CASE lines \in {Stored(b) : b \in Bodies}
  BY <1>2, LinesTyped, TotalIsSum
<1>3. QED
  BY <1>1, <1>2 DEF Rows

\* A variable with an entry for each hop and request, one of them replaced.
LEMMA OneEntry ==
  ASSUME NEW V, NEW f \in [Hop -> [Request -> V]],
         NEW h \in Hop, NEW r \in Request, NEW s \in V,
         NEW g, g = [f EXCEPT ![h][r] = s]
  PROVE  /\ g \in [Hop -> [Request -> V]]
         /\ g[h][r] = s
         /\ \A k \in Hop, q \in Request : k # h \/ q # r => g[k][q] = f[k][q]
  OBVIOUS

LEMMA HopsAre ==
  /\ Hop = {"http", "inventory", "order", "notification"}
  /\ After["http"] = "inventory" /\ After["inventory"] = "order"
  /\ After["order"] = "notification"
  BY DEF Hop, Consumer, After

-----------------------------------------------------------------------------
(* The inductive invariant.                                                *)

\* The coroutine only gets to an await that the connection allows; a broker
\* that never went away leaves it consuming, or on the way to it.
BrokerInv ==
  /\ TypeOK /\ NothingLeftBehind
  /\ task = "cancelled" => app = "stopped"
  /\ task = "consume" => channel
  /\ task = "channel" => connection # "none"
  /\ connection = "lost" => outages > 0
  /\ connection = "open" /\ outages = 0 =>
       consumer \/ task = "channel" \/ (task \in {"declare", "consume"} /\ channel)
  /\ task = "dead" => attempt = FloatMaxExponent + 1

Stages == HttpStage \cup ConsumerStage

StagesTyped ==
  /\ stage \in [Hop -> [Request -> Stages]]
  /\ \A r \in Request : /\ stage["http"][r] \in HttpStage
                        /\ \A h \in Consumer : stage[h][r] \in ConsumerStage

Busy == {"called", "publishing", "confirming", "raised", "returning"}

\* OneTrace for r, and the events that a publish is about to send.
TraceHolds(r) ==
  /\ \A h \in Hop : stage[h][r] \in Busy => context[h][r] = given[r]
  /\ \A h \in Consumer : stage[h][r] # "none" => event[h][r] = given[r]
  /\ \A h \in Hop \ {"notification"} :
       stage[h][r] = "publishing" => event[After[h]][r] = given[r]
  /\ stage["notification"][r] # "publishing"
  /\ stage["http"][r] # "none" => given[r] # NoId

OrdersStored == {r \in Request : row[r] # <<>>}
Queried == {g \in Get : session[g] # "none"}

\* Enough orders and GETs have had a connection to fill the pool.
PoolUsed == Cardinality(OrdersStored) + Cardinality(Queried) >= PoolSize

Sent(r) == stage["inventory"][r] # "none"

\* What a response may say; only a full pool turns an order away that fits.
AnswerHolds(r) ==
  /\ answer[r].status \in {201, 422, 500}
  /\ answer[r].status = 201 =>
       /\ Sent(r) /\ row[r] # <<>>
       /\ answer[r].total = TotalAmount(row[r]) /\ total[r] = TotalAmount(row[r])
  /\ answer[r].status = 422 => row[r] = <<>> /\ ~ Sent(r)
  /\ Sent(r) => row[r] # <<>>
  /\ answer[r].status = 500 /\ row[r] = <<>> /\ Fits(body[r]) /\ faults = 0 => PoolUsed

\* The steps of a request and of its events come in this order, and the
\* order is stored before its event goes out.
RequestHolds(r) ==
  /\ stage["http"][r] \in {"none", "called", "publishing"} => ~ Sent(r)
  /\ stage["inventory"][r] = "none" => stage["order"][r] = "none"
  /\ stage["order"][r] = "none" => stage["notification"][r] = "none"
  /\ stage["http"][r] \in {"none", "called"} => row[r] = <<>>
  /\ stage["http"][r] \in {"publishing", "confirming", "raised"} =>
       row[r] # <<>> /\ total[r] = TotalAmount(row[r])
  /\ stage["http"][r] \in {"confirming", "raised"} => Sent(r)
  /\ stage["http"][r] \in {"returning", "done"} => AnswerHolds(r)
  /\ stage["http"][r] = "done" /\ answer[r].id = NoId =>
       answer[r].status = 500 /\ row[r] # <<>>

FlowInv ==
  /\ FlowTypeOK /\ StagesTyped /\ BrokerInv
  /\ IsFiniteSet(OrdersStored) /\ IsFiniteSet(Queried)
  /\ \A r \in Request : TraceHolds(r) /\ RequestHolds(r)

-----------------------------------------------------------------------------
(* The broker.                                                             *)

LEMMA BrokerStarts ==
  ASSUME Init
  PROVE  BrokerInv
<1>1. /\ outages = 0 /\ attempt = 0 /\ app = "starting" /\ task = "connect"
      /\ connection = "none" /\ up \in BOOLEAN /\ half = FALSE
  BY DEF Init
<1>2. channel = FALSE /\ consumer = FALSE
  BY DEF Init
<1>3. outages \in 0 .. MaxOutages /\ attempt \in 0 .. FloatMaxExponent + 1
  BY <1>1, ConnectionAssumption
<1>4. TypeOK
  BY <1>1, <1>2, <1>3 DEF TypeOK, TaskPc
<1>5. QED
  BY <1>1, <1>4 DEF BrokerInv, NothingLeftBehind

LEMMA AttemptCounted ==
  ASSUME BrokerInv, task \in {"connecting", "channel"}, AttemptFails
  PROVE  /\ app' \in {"starting", "serving"} /\ app # "stopped"
         /\ task' \in {"connect", "sleep", "dead"}
         /\ attempt' \in 0 .. FloatMaxExponent + 1
         /\ task' = "dead" => attempt' = FloatMaxExponent + 1
<1>1. app \in {"starting", "serving"} /\ attempt \in 0 .. FloatMaxExponent + 1
  BY DEF BrokerInv, TypeOK, NothingLeftBehind
<1>2. CASE app = "starting"
  <2>1. CASE attempt + 1 >= MaxAttempts
    BY <1>2, <2>1, ConnectionAssumption DEF AttemptFails
  <2>2. CASE ~ (attempt + 1 >= MaxAttempts)
    <3>1. task' = "sleep" /\ attempt' = attempt + 1 /\ app' = app
      BY <1>2, <2>2 DEF AttemptFails
    <3>2. attempt + 1 < MaxAttempts
      BY <1>1, <2>2, ConnectionAssumption
    <3>3. QED
      BY <1>1, <1>2, <3>1, <3>2, ConnectionAssumption
  <2>3. QED
    BY <2>1, <2>2
<1>3. CASE app = "serving"
  <2>1. CASE attempt > FloatMaxExponent
    <3>1. task' = "dead" /\ attempt' = attempt /\ app' = app
      BY <1>3, <2>1 DEF AttemptFails
    <3>2. attempt = FloatMaxExponent + 1
      BY <1>1, <2>1, ConnectionAssumption
    <3>3. QED
      BY <1>1, <1>3, <3>1, <3>2
  <2>2. CASE ~ (attempt > FloatMaxExponent)
    <3>1. task' = "sleep" /\ attempt' = attempt + 1 /\ app' = app
      BY <1>3, <2>2 DEF AttemptFails
    <3>2. QED
      BY <1>1, <1>3, <2>2, <3>1, ConnectionAssumption
  <2>3. QED
    BY <2>1, <2>2
<1>4. QED
  BY <1>1, <1>2, <1>3

LEMMA BrokerSteps ==
  ASSUME BrokerInv, [Next]_vars
  PROVE  BrokerInv'
<1> USE ConnectionAssumption
<1>1. CASE AlreadyConnected
  BY <1>1 DEF AlreadyConnected, BrokerInv, TypeOK, TaskPc, NothingLeftBehind
<1>2. CASE Connect
  BY <1>2 DEF Connect, BrokerInv, TypeOK, TaskPc, NothingLeftBehind
<1>3. CASE ConnectFails
  <2>1. /\ app' \in {"starting", "serving"} /\ app # "stopped"
        /\ task' \in {"connect", "sleep", "dead"}
        /\ attempt' \in 0 .. FloatMaxExponent + 1
        /\ task' = "dead" => attempt' = FloatMaxExponent + 1
    BY <1>3, AttemptCounted DEF ConnectFails
  <2>2. QED
    BY <1>3, <2>1 DEF ConnectFails, BrokerInv, TypeOK, TaskPc, NothingLeftBehind
<1>4. CASE OpenChannel
  BY <1>4 DEF OpenChannel, BrokerInv, TypeOK, TaskPc, NothingLeftBehind
<1>5. CASE Wake
  BY <1>5 DEF Wake, BrokerInv, TypeOK, TaskPc, NothingLeftBehind
<1>6. CASE Declare
  BY <1>6 DEF Declare, BrokerInv, TypeOK, TaskPc, NothingLeftBehind
<1>7. CASE NoChannel
  BY <1>7 DEF NoChannel, Started, BrokerInv, TypeOK, TaskPc, NothingLeftBehind
<1>8. CASE Consume
  BY <1>8 DEF Consume, Started, BrokerInv, TypeOK, TaskPc, NothingLeftBehind
<1>9. CASE Reconnect
  BY <1>9 DEF Reconnect, BrokerInv, TypeOK, TaskPc, NothingLeftBehind
<1>10. CASE Outage
  <2>1. /\ up' = FALSE /\ outages' = outages + 1 /\ outages' \in 0 .. MaxOutages
        /\ connection' \in {"none", "lost", "closed"}
        /\ connection' = "none" <=> connection = "none"
        /\ connection' = "lost" => connection \in {"open", "lost"}
        /\ connection' = "closed" <=> connection = "closed"
        /\ half' = half /\ channel' = channel /\ consumer' = consumer
    BY <1>10 DEF Outage, BrokerInv, TypeOK
  <2>2. outages' > 0
    BY <2>1 DEF BrokerInv, TypeOK
  <2>3. CASE task = "channel"
    <3>1. AttemptFails
      BY <1>10, <2>3 DEF Outage
    <3>2. /\ app' \in {"starting", "serving"} /\ app # "stopped"
          /\ task' \in {"connect", "sleep", "dead"}
          /\ attempt' \in 0 .. FloatMaxExponent + 1
          /\ task' = "dead" => attempt' = FloatMaxExponent + 1
      BY <2>3, <3>1, AttemptCounted
    <3>3. half' = FALSE
      BY <2>1, <2>3 DEF BrokerInv, TypeOK, NothingLeftBehind
    <3>4. TypeOK'
      BY <2>1, <3>2 DEF BrokerInv, TypeOK, TaskPc
    <3>5. NothingLeftBehind'
      BY <3>2, <3>3 DEF NothingLeftBehind
    <3>6. QED
      BY <2>1, <2>2, <3>2, <3>4, <3>5 DEF BrokerInv
  <2>4. CASE task \in {"declare", "consume"}
    <3>1. task' = "idle" /\ app' = "serving" /\ attempt' = attempt
      BY <1>10, <2>4 DEF Outage, Started
    <3>2. app # "stopped"
      BY <2>4 DEF BrokerInv, NothingLeftBehind
    <3>3. half' = FALSE
      BY <2>1, <2>4 DEF BrokerInv, TypeOK, NothingLeftBehind
    <3>4. TypeOK'
      BY <2>1, <3>1 DEF BrokerInv, TypeOK, TaskPc
    <3>5. NothingLeftBehind'
      BY <3>1, <3>3 DEF NothingLeftBehind
    <3>6. QED
      BY <2>1, <2>2, <3>1, <3>4, <3>5 DEF BrokerInv
  <2>5. CASE task \notin {"channel", "declare", "consume"}
    <3>1. task' = task /\ app' = app /\ attempt' = attempt
      BY <1>10, <2>5 DEF Outage
    <3>2. QED
      BY <2>1, <2>2, <2>5, <3>1 DEF BrokerInv, TypeOK, TaskPc, NothingLeftBehind
  <2>6. QED
    BY <2>3, <2>4, <2>5
<1>11. CASE Recovery
  BY <1>11 DEF Recovery, BrokerInv, TypeOK, TaskPc, NothingLeftBehind
<1>12. CASE Shutdown
  BY <1>12 DEF Shutdown, BrokerInv, TypeOK, TaskPc, NothingLeftBehind
<1>13. CASE Connected
  BY <1>13 DEF Connected, BrokerInv, TypeOK, TaskPc, NothingLeftBehind
<1>14. CASE Cancelled
  BY <1>14 DEF Cancelled, BrokerInv, TypeOK, TaskPc, NothingLeftBehind
<1>15. CASE UNCHANGED vars
  BY <1>15 DEF vars, BrokerInv, TypeOK, TaskPc, NothingLeftBehind
<1>16. QED
  BY <1>1, <1>2, <1>3, <1>4, <1>5, <1>6, <1>7, <1>8, <1>9, <1>10, <1>11, <1>12,
     <1>13, <1>14, <1>15 DEF Next, System

-----------------------------------------------------------------------------
(* What a step of one request changes.                                     *)

LEMMA StageMoves ==
  ASSUME StagesTyped, NEW h \in Hop, NEW r \in Request, NEW s,
         h = "http" => s \in HttpStage, h # "http" => s \in ConsumerStage,
         Goto(h, r, s)
  PROVE  /\ StagesTyped' /\ stage'[h][r] = s
         /\ \A k \in Hop, q \in Request : k # h \/ q # r => stage'[k][q] = stage[k][q]
<1>1. stage \in [Hop -> [Request -> Stages]]
  BY DEF StagesTyped
<1>2. s \in Stages
  BY DEF Stages
<1>3. stage' = [stage EXCEPT ![h][r] = s]
  BY DEF Goto
<1>4. /\ stage' \in [Hop -> [Request -> Stages]]
      /\ stage'[h][r] = s
      /\ \A k \in Hop, q \in Request : k # h \/ q # r => stage'[k][q] = stage[k][q]
  BY <1>1, <1>2, <1>3, OneEntry
<1>5. ASSUME NEW q \in Request
      PROVE  /\ stage'["http"][q] \in HttpStage
             /\ \A k \in Consumer : stage'[k][q] \in ConsumerStage
  <2>1. stage["http"][q] \in HttpStage /\ \A k \in Consumer : stage[k][q] \in ConsumerStage
    BY DEF StagesTyped
  <2>2. "http" \in Hop /\ "http" \notin Consumer /\ Consumer \subseteq Hop
    BY DEF Hop, Consumer
  <2>3. stage'["http"][q] \in HttpStage
    BY <1>4, <2>1, <2>2
  <2>4. ASSUME NEW k \in Consumer
        PROVE  stage'[k][q] \in ConsumerStage
    BY <1>4, <2>1, <2>2
  <2>5. QED
    BY <2>3, <2>4
<1>6. QED
  BY <1>4, <1>5 DEF StagesTyped

\* Two hops at once: a publish.
HandsOn(h, next, r, s, t) == stage' = [stage EXCEPT ![h][r] = s, ![next][r] = t]

LEMMA StageHandsOn ==
  ASSUME StagesTyped, NEW h \in Hop, NEW next \in Consumer, next # h,
         NEW r \in Request, NEW s, NEW t \in ConsumerStage,
         h = "http" => s \in HttpStage, h # "http" => s \in ConsumerStage,
         HandsOn(h, next, r, s, t)
  PROVE  /\ StagesTyped' /\ stage'[h][r] = s /\ stage'[next][r] = t
         /\ \A k \in Hop, q \in Request :
              k \notin {h, next} \/ q # r => stage'[k][q] = stage[k][q]
<1>1. stage \in [Hop -> [Request -> Stages]] /\ s \in Stages /\ t \in Stages
  BY DEF StagesTyped, Stages
<1>3. next \in Hop
  BY DEF Hop
<1>4. PICK f : f = [stage EXCEPT ![h][r] = s]
  OBVIOUS
<1>5. /\ f \in [Hop -> [Request -> Stages]] /\ f[h][r] = s
      /\ \A k \in Hop, q \in Request : k # h \/ q # r => f[k][q] = stage[k][q]
  BY <1>1, <1>3, <1>4, OneEntry
<1>6. stage' = [f EXCEPT ![next][r] = t]
  BY <1>4 DEF HandsOn
<1>7. /\ stage' \in [Hop -> [Request -> Stages]] /\ stage'[next][r] = t
      /\ \A k \in Hop, q \in Request : k # next \/ q # r => stage'[k][q] = f[k][q]
  <2>1. f \in [Hop -> [Request -> Stages]] /\ next \in Hop /\ t \in Stages
    BY <1>1, <1>3, <1>5
  <2>2. PICK g : g = stage'
    OBVIOUS
  <2>3. g = [f EXCEPT ![next][r] = t]
    BY <1>6, <2>2
  <2>4. /\ g \in [Hop -> [Request -> Stages]] /\ g[next][r] = t
        /\ \A k \in Hop, q \in Request : k # next \/ q # r => g[k][q] = f[k][q]
    BY <2>1, <2>3, OneEntry
  <2>5. QED
    BY <2>2, <2>4
<1>8. stage'[h][r] = s
  BY <1>3, <1>5, <1>7
<1>9. ASSUME NEW k \in Hop, NEW q \in Request, k \notin {h, next} \/ q # r
      PROVE  stage'[k][q] = stage[k][q]
  BY <1>5, <1>7, <1>9
<1>10. ASSUME NEW q \in Request
       PROVE  /\ stage'["http"][q] \in HttpStage
              /\ \A k \in Consumer : stage'[k][q] \in ConsumerStage
  <2>1. stage["http"][q] \in HttpStage /\ \A k \in Consumer : stage[k][q] \in ConsumerStage
    BY DEF StagesTyped
  <2>2. "http" \in Hop /\ "http" \notin Consumer /\ Consumer \subseteq Hop
    BY DEF Hop, Consumer
  <2>3. stage'["http"][q] \in HttpStage
    BY <1>3, <1>8, <1>9, <2>1, <2>2
  <2>4. ASSUME NEW k \in Consumer
        PROVE  stage'[k][q] \in ConsumerStage
    <3>1. CASE k = h /\ q = r
      BY <1>8, <2>2, <3>1
    <3>2. CASE k = next /\ q = r
      BY <1>7, <3>2
    <3>3. CASE k \notin {h, next} \/ q # r
      BY <1>9, <2>1, <2>2, <3>3
    <3>4. QED
      BY <3>1, <3>2, <3>3
  <2>5. QED
    BY <2>3, <2>4
<1>11. QED
  BY <1>7, <1>8, <1>9, <1>10 DEF StagesTyped

LEMMA HopsTyped ==
  ASSUME NEW f \in [Hop -> [Request -> Stages]],
         \A r \in Request : /\ f["http"][r] \in HttpStage
                             /\ \A h \in Consumer : f[h][r] \in ConsumerStage
  PROVE  /\ f["http"] \in [Request -> HttpStage]
         /\ \A h \in Consumer : f[h] \in [Request -> ConsumerStage]
<1>1. "http" \in Hop /\ Consumer \subseteq Hop
  BY DEF Hop
<1>2. f["http"] \in [Request -> HttpStage]
  BY <1>1
<1>3. ASSUME NEW h \in Consumer
      PROVE  f[h] \in [Request -> ConsumerStage]
  BY <1>1
<1>4. QED
  BY <1>2, <1>3

\* The types after a step, from those of the variables one by one.
LEMMA StepTyped ==
  ASSUME StagesTyped', TypeOK',
         context' \in [Hop -> [Request -> Id]], event' \in [Hop -> [Request -> Id]],
         given' \in [Request -> Id], body' \in [Request -> Bodies \cup {<<>>}],
         row' \in [Request -> Rows], total' \in [Request -> Nat],
         answer' \in [Request -> Answer], session' \in [Get -> SessionStage],
         processed' \subseteq Consumer \X Request, declared' \subseteq Consumer,
         faults' \in 0 .. MaxFaults
  PROVE  FlowTypeOK'
<1>1. PICK f : f = stage'
  OBVIOUS
<1>2. /\ f \in [Hop -> [Request -> Stages]]
      /\ \A r \in Request : /\ f["http"][r] \in HttpStage
                             /\ \A h \in Consumer : f[h][r] \in ConsumerStage
  BY <1>1 DEF StagesTyped
<1>3. /\ f["http"] \in [Request -> HttpStage]
      /\ \A h \in Consumer : f[h] \in [Request -> ConsumerStage]
  BY <1>2, HopsTyped
<1>4. QED
  BY <1>1, <1>3 DEF FlowTypeOK, Rows

LEMMA VariablesTyped ==
  ASSUME FlowInv
  PROVE  /\ StagesTyped /\ BrokerInv /\ TypeOK
         /\ context \in [Hop -> [Request -> Id]] /\ event \in [Hop -> [Request -> Id]]
         /\ given \in [Request -> Id] /\ body \in [Request -> Bodies \cup {<<>>}]
         /\ row \in [Request -> Rows] /\ total \in [Request -> Nat]
         /\ answer \in [Request -> Answer] /\ session \in [Get -> SessionStage]
         /\ processed \subseteq Consumer \X Request
         /\ declared \subseteq Consumer /\ faults \in 0 .. MaxFaults
  BY DEF FlowInv, FlowTypeOK, BrokerInv, Rows

LEMMA BrokerStays ==
  ASSUME FlowInv, UNCHANGED vars
  PROVE  BrokerInv' /\ TypeOK'
<1>1. BrokerInv'
  BY BrokerSteps DEF FlowInv
<1>2. QED
  BY <1>1 DEF BrokerInv

LEMMA ContextChanges ==
  ASSUME context \in [Hop -> [Request -> Id]], NEW h \in Hop, NEW r \in Request,
         NEW id \in Id, Bind(h, r, id)
  PROVE  /\ context' \in [Hop -> [Request -> Id]] /\ context'[h][r] = id
         /\ \A k \in Hop, q \in Request :
              k # h \/ q # r => context'[k][q] = context[k][q]
  BY OneEntry DEF Bind

LEMMA UnbindBinds ==
  ASSUME NEW h, NEW r, Unbind(h, r)
  PROVE  Bind(h, r, NoId) /\ NoId \in Id
  BY DEF Unbind, Bind, Id

LEMMA AnswerGiven ==
  ASSUME answer \in [Request -> Answer], NEW r \in Request,
         NEW status \in {201, 422, 500}, NEW amount \in Nat,
         Responds(r, status, amount)
  PROVE  /\ answer' \in [Request -> Answer]
         /\ answer'[r].status = status /\ answer'[r].total = amount
         /\ \A q \in Request : q # r => answer'[q] = answer[q]
<1>1. PICK c : c = [answer EXCEPT ![r].status = status]
  OBVIOUS
<1>2. PICK a : a = [answer[r] EXCEPT !.status = status]
  OBVIOUS
<1>3. PICK b : b = [a EXCEPT !.total = amount]
  OBVIOUS
<1>4. a \in Answer /\ a.status = status
  <2>1. answer[r] \in Answer
    OBVIOUS
  <2>2. QED
    BY <1>2, <2>1 DEF Answer
<1>5. b \in Answer /\ b.status = status /\ b.total = amount
  BY <1>3, <1>4 DEF Answer
<1>6. c \in [Request -> Answer] /\ c[r] = a /\ \A q \in Request : q # r => c[q] = answer[q]
  BY <1>1, <1>2, <1>4
<1>7. answer' = [c EXCEPT ![r].total = amount]
  BY <1>1 DEF Responds
<1>8. answer' = [c EXCEPT ![r] = b]
  BY <1>3, <1>6, <1>7
<1>9. answer'[r] = b /\ \A q \in Request : q # r => answer'[q] = answer[q]
  BY <1>6, <1>8
<1>10. answer' \in [Request -> Answer]
  BY <1>5, <1>6, <1>8
<1>11. QED
  BY <1>5, <1>9, <1>10

-----------------------------------------------------------------------------
(* The requests that a step leaves alone.                                  *)

Apart(q) ==
  /\ \A h \in Hop : /\ stage'[h][q] = stage[h][q]
                    /\ context'[h][q] = context[h][q]
                    /\ event'[h][q] = event[h][q]
  /\ body'[q] = body[q] /\ given'[q] = given[q] /\ row'[q] = row[q]
  /\ total'[q] = total[q] /\ answer'[q] = answer[q]

LEMMA ApartTraced ==
  ASSUME NEW q \in Request, TraceHolds(q), Apart(q)
  PROVE  TraceHolds(q)'
<1>1. After["http"] \in Hop /\ After["inventory"] \in Hop /\ After["order"] \in Hop
  BY HopsAre
<1>2. \A h \in Hop \ {"notification"} : h \in Hop /\ After[h] \in Hop
  BY <1>1, HopsAre
<1>3. "http" \in Hop /\ "notification" \in Hop /\ Consumer \subseteq Hop
  BY DEF Hop, Consumer
<1>4. QED
  BY <1>2, <1>3 DEF TraceHolds, Apart

LEMMA ApartRequest ==
  ASSUME NEW q \in Request, RequestHolds(q), Apart(q), faults' = 0 => faults = 0,
         PoolUsed => PoolUsed'
  PROVE  RequestHolds(q)'
<1>1. /\ stage'["http"][q] = stage["http"][q]
      /\ stage'["inventory"][q] = stage["inventory"][q]
      /\ stage'["order"][q] = stage["order"][q]
      /\ stage'["notification"][q] = stage["notification"][q]
  BY HopsAre DEF Apart
<1>2. /\ body'[q] = body[q] /\ row'[q] = row[q]
      /\ total'[q] = total[q] /\ answer'[q] = answer[q]
  BY DEF Apart
<1>3. Sent(q)' <=> Sent(q)
  BY <1>1 DEF Sent
<1>4. AnswerHolds(q) => AnswerHolds(q)'
  BY <1>2, <1>3 DEF AnswerHolds
<1>5. QED
  BY <1>1, <1>2, <1>3, <1>4 DEF RequestHolds

\* The orders stored, and the GETs that have queried, only grow.
LEMMA PoolGrows ==
  ASSUME NEW stored, NEW queried, stored = OrdersStored', queried = Queried',
         IsFiniteSet(stored), IsFiniteSet(queried),
         OrdersStored \subseteq stored, Queried \subseteq queried
  PROVE  PoolUsed => PoolUsed'
<1>1. /\ IsFiniteSet(OrdersStored) /\ Cardinality(OrdersStored) <= Cardinality(stored)
      /\ IsFiniteSet(Queried) /\ Cardinality(Queried) <= Cardinality(queried)
  BY FS_Subset
<1>2. /\ Cardinality(OrdersStored) \in Nat /\ Cardinality(stored) \in Nat
      /\ Cardinality(Queried) \in Nat /\ Cardinality(queried) \in Nat
  BY <1>1, FS_CardinalityType
<1>3. PoolUsed => Cardinality(stored) + Cardinality(queried) >= PoolSize
  BY <1>1, <1>2, FlowAssumption DEF PoolUsed
<1>4. QED
  BY <1>3 DEF PoolUsed

LEMMA StoredGrow ==
  ASSUME IsFiniteSet(OrdersStored), IsFiniteSet(Queried), NEW r \in Request,
         \A q \in Request \ {r} : row'[q] = row[q],
         row[r] # <<>> => row'[r] # <<>>, session' = session
  PROVE  /\ IsFiniteSet(OrdersStored') /\ IsFiniteSet(Queried')
         /\ PoolUsed => PoolUsed'
<1>1. PICK now : now = OrdersStored'
  OBVIOUS
<1>2. now = {q \in Request : row'[q] # <<>>}
  BY <1>1 DEF OrdersStored
<1>3. OrdersStored \subseteq now /\ now \subseteq OrdersStored \cup {r}
  BY <1>2 DEF OrdersStored
<1>4. IsFiniteSet(OrdersStored \cup {r})
  BY FS_AddElement
<1>5. IsFiniteSet(now)
  BY <1>3, <1>4, FS_Subset
<1>6. Queried' = Queried
  BY DEF Queried
<1>7. PoolUsed => PoolUsed'
  BY <1>1, <1>3, <1>5, <1>6, PoolGrows
<1>8. QED
  BY <1>1, <1>5, <1>6, <1>7

\* So a step of r keeps the invariant if it keeps what is said of r.
LEMMA OneRequest ==
  ASSUME FlowInv, NEW r \in Request, FlowTypeOK', StagesTyped', BrokerInv',
         \A q \in Request \ {r} : Apart(q),
         faults' = 0 => faults = 0,
         row[r] # <<>> => row'[r] # <<>>, session' = session,
         TraceHolds(r)', RequestHolds(r)'
  PROVE  FlowInv'
<1>1. \A q \in Request \ {r} : row'[q] = row[q]
  BY DEF Apart
<1>2. IsFiniteSet(OrdersStored) /\ IsFiniteSet(Queried)
  BY DEF FlowInv
<1>3. /\ IsFiniteSet(OrdersStored') /\ IsFiniteSet(Queried')
      /\ PoolUsed => PoolUsed'
  BY <1>1, <1>2, StoredGrow
<1>4. ASSUME NEW q \in Request
      PROVE  TraceHolds(q)' /\ RequestHolds(q)'
  <2>1. CASE q = r
    BY <2>1
  <2>2. CASE q # r
    <3>1. Apart(q) /\ TraceHolds(q) /\ RequestHolds(q)
      BY <2>2 DEF FlowInv
    <3>2. TraceHolds(q)'
      BY <3>1, ApartTraced
    <3>3. RequestHolds(q)'
      BY <1>3, <3>1, ApartRequest
    <3>4. QED
      BY <3>2, <3>3
  <2>3. QED
    BY <2>1, <2>2
<1>5. QED
  BY <1>3, <1>4 DEF FlowInv

\* A step of no request keeps what is said of each.
LEMMA AllRequests ==
  ASSUME FlowInv, FlowTypeOK', StagesTyped', BrokerInv', row' = row, session' = session,
         \A q \in Request : TraceHolds(q)' /\ RequestHolds(q)'
  PROVE  FlowInv'
<1>1. OrdersStored' = OrdersStored /\ Queried' = Queried
  BY DEF OrdersStored, Queried
<1>2. IsFiniteSet(OrdersStored)' /\ IsFiniteSet(Queried)'
  BY <1>1 DEF FlowInv
<1>3. QED
  BY <1>2 DEF FlowInv

\* A GET keeps what is said of each request.
LEMMA ReadKeeps ==
  ASSUME FlowInv, NEW g \in Get, NEW s \in SessionStage,
         session' = [session EXCEPT ![g] = s], s # "none",
         UNCHANGED <<vars, stage, context, event, requestVars, processed, declared, faults>>
  PROVE  FlowInv'
<1>1. /\ stage' = stage /\ context' = context /\ event' = event
      /\ body' = body /\ given' = given /\ row' = row /\ total' = total
      /\ answer' = answer /\ processed' = processed /\ declared' = declared
      /\ faults' = faults /\ UNCHANGED vars
  BY DEF requestVars
<1>2. session' \in [Get -> SessionStage]
  BY VariablesTyped
<1>3. StagesTyped'
  BY <1>1, VariablesTyped DEF StagesTyped
<1>4. FlowTypeOK'
  BY <1>1, <1>2, <1>3, VariablesTyped, BrokerStays, StepTyped
<1>5. OrdersStored' = OrdersStored /\ IsFiniteSet(OrdersStored)
  BY <1>1 DEF OrdersStored, FlowInv
<1>6. PICK now : now = Queried'
  OBVIOUS
<1>7. Queried \subseteq now /\ now \subseteq Queried \cup {g}
  <2>1. now = {k \in Get : session'[k] # "none"}
    BY <1>6 DEF Queried
  <2>2. session \in [Get -> SessionStage]
    BY VariablesTyped
  <2>3. session'[g] = s /\ \A k \in Get \ {g} : session'[k] = session[k]
    BY <2>2
  <2>4. QED
    BY <2>1, <2>3 DEF Queried
<1>8. IsFiniteSet(now)
  <2>1. IsFiniteSet(Queried \cup {g})
    BY FS_AddElement DEF FlowInv
  <2>2. QED
    BY <1>7, <2>1, FS_Subset
<1>9. PoolUsed => PoolUsed'
  BY <1>5, <1>6, <1>7, <1>8, PoolGrows
<1>10. ASSUME NEW q \in Request
       PROVE  TraceHolds(q)' /\ RequestHolds(q)'
  <2>1. Apart(q) /\ TraceHolds(q) /\ RequestHolds(q)
    BY <1>1 DEF Apart, FlowInv
  <2>2. TraceHolds(q)'
    BY <2>1, ApartTraced
  <2>3. RequestHolds(q)'
    BY <1>1, <1>9, <2>1, ApartRequest
  <2>4. QED
    BY <2>2, <2>3
<1>11. IsFiniteSet(OrdersStored)' /\ IsFiniteSet(Queried)'
  BY <1>5, <1>6, <1>8
<1>12. QED
  BY <1>1, <1>3, <1>4, <1>10, <1>11, BrokerStays DEF FlowInv

LEMMA QueryKeeps ==
  ASSUME FlowInv, NEW g \in Get, Query(g)
  PROVE  FlowInv'
<1>1. "open" \in SessionStage
  BY DEF SessionStage
<1>2. QED
  BY <1>1, ReadKeeps DEF Query

LEMMA CloseKeeps ==
  ASSUME FlowInv, NEW g \in Get, Close(g)
  PROVE  FlowInv'
<1>1. "closed" \in SessionStage
  BY DEF SessionStage
<1>2. QED
  BY <1>1, ReadKeeps DEF Close

-----------------------------------------------------------------------------
(* POST /v1/orders.                                                        *)

LEMMA IdMade ==
  ASSUME NEW r \in Request
  PROVE  CorrelationId(r) \in Id /\ CorrelationId(r) # NoId
<1>1. DOMAIN Header = Request /\ r # NoId
  BY FlowAssumption
<1>2. Header[r] \in Range(Header)
  BY <1>1 DEF Range
<1>3. QED
  BY <1>1, <1>2 DEF CorrelationId, Id

LEMMA PostKeeps ==
  ASSUME FlowInv, NEW r \in Request, Post(r)
  PROVE  FlowInv'
<1>1. StagesTyped /\ context \in [Hop -> [Request -> Id]] /\ "http" \in Hop
  BY VariablesTyped, HopsAre
<1>2. TraceHolds(r) /\ RequestHolds(r)
  BY DEF FlowInv
<1>3. /\ StagesTyped' /\ stage'["http"][r] = "called"
      /\ \A k \in Hop, q \in Request : k # "http" \/ q # r => stage'[k][q] = stage[k][q]
  BY <1>1, StageMoves DEF Post, HttpStage
<1>4. /\ context' \in [Hop -> [Request -> Id]] /\ context'["http"][r] = CorrelationId(r)
      /\ \A k \in Hop, q \in Request :
           k # "http" \/ q # r => context'[k][q] = context[k][q]
  BY <1>1, IdMade, ContextChanges DEF Post
<1>5. /\ given' \in [Request -> Id] /\ given'[r] = CorrelationId(r)
      /\ \A q \in Request \ {r} : given'[q] = given[q]
  BY VariablesTyped, IdMade DEF Post
<1>6. /\ body' \in [Request -> Bodies \cup {<<>>}]
      /\ \A q \in Request \ {r} : body'[q] = body[q]
  <2>1. PICK lines \in Body[r] : body' = [body EXCEPT ![r] = lines]
    BY DEF Post
  <2>2. lines \in Bodies
    BY <2>1 DEF Bodies
  <2>3. QED
    BY <2>1, <2>2, VariablesTyped
<1>7. /\ event' = event /\ row' = row /\ total' = total /\ answer' = answer
      /\ session' = session /\ processed' = processed /\ declared' = declared
      /\ faults' = faults /\ UNCHANGED vars /\ stage["http"][r] = "none"
  BY DEF Post, serverVars
<1>8. FlowTypeOK'
  BY <1>3, <1>4, <1>5, <1>6, <1>7, VariablesTyped, BrokerStays, StepTyped
<1>9. \A q \in Request \ {r} : Apart(q)
  BY <1>3, <1>4, <1>5, <1>6, <1>7 DEF Apart
<1>10. /\ stage["inventory"][r] = "none" /\ stage["order"][r] = "none"
       /\ stage["notification"][r] = "none" /\ row[r] = <<>>
  BY <1>2, <1>7 DEF RequestHolds, Sent
<1>11. \A h \in Consumer : stage'[h][r] = "none"
  BY <1>3, <1>10, HopsAre DEF Consumer
<1>12. TraceHolds(r)'
  BY <1>3, <1>4, <1>5, <1>11, HopsAre, IdMade DEF TraceHolds, Busy, Consumer
<1>13. RequestHolds(r)'
  BY <1>3, <1>7, <1>10, <1>11, HopsAre DEF RequestHolds, Sent, Consumer
<1>14. QED
  BY <1>3, <1>7, <1>8, <1>9, <1>12, <1>13, BrokerStays, OneRequest

LEMMA RefuseKeeps ==
  ASSUME FlowInv, NEW r \in Request, Refuse(r)
  PROVE  FlowInv'
<1>1. StagesTyped /\ answer \in [Request -> Answer] /\ "http" \in Hop
  BY VariablesTyped, HopsAre
<1>2. TraceHolds(r) /\ RequestHolds(r)
  BY DEF FlowInv
<1>3. /\ StagesTyped' /\ stage'["http"][r] = "returning"
      /\ \A k \in Hop, q \in Request : k # "http" \/ q # r => stage'[k][q] = stage[k][q]
  BY <1>1, StageMoves DEF Refuse, HttpStage
<1>4. /\ answer' \in [Request -> Answer] /\ answer'[r].status = 422
      /\ \A q \in Request : q # r => answer'[q] = answer[q]
  BY <1>1, AnswerGiven DEF Refuse
<1>5. /\ context' = context /\ event' = event /\ body' = body /\ given' = given
      /\ row' = row /\ total' = total
      /\ session' = session /\ processed' = processed /\ declared' = declared
      /\ faults' = faults /\ UNCHANGED vars /\ stage["http"][r] = "called"
  BY DEF Refuse, serverVars
<1>6. FlowTypeOK'
  BY <1>3, <1>4, <1>5, VariablesTyped, BrokerStays, StepTyped
<1>7. \A q \in Request \ {r} : Apart(q)
  BY <1>3, <1>4, <1>5 DEF Apart
<1>8. /\ stage'["inventory"][r] = stage["inventory"][r]
      /\ stage'["order"][r] = stage["order"][r]
      /\ stage'["notification"][r] = stage["notification"][r]
  BY <1>3, HopsAre
<1>9. TraceHolds(r)'
  BY <1>2, <1>3, <1>5, <1>8, HopsAre DEF TraceHolds, Busy, Consumer
<1>10. row'[r] = <<>> /\ ~ Sent(r)'
  BY <1>2, <1>5, <1>8 DEF RequestHolds, Sent
<1>11. AnswerHolds(r)'
  BY <1>4, <1>10 DEF AnswerHolds
<1>12. RequestHolds(r)'
  BY <1>2, <1>3, <1>5, <1>8, <1>10, <1>11 DEF RequestHolds
<1>13. QED
  BY <1>3, <1>5, <1>6, <1>7, <1>9, <1>12, BrokerStays, OneRequest

LEMMA StoreKeeps ==
  ASSUME FlowInv, NEW r \in Request, Store(r)
  PROVE  FlowInv'
<1>1. StagesTyped /\ event \in [Hop -> [Request -> Id]] /\ "http" \in Hop /\ "inventory" \in Hop
  BY VariablesTyped, HopsAre
<1>2. TraceHolds(r) /\ RequestHolds(r)
  BY DEF FlowInv
<1>3. /\ StagesTyped' /\ stage'["http"][r] = "publishing"
      /\ \A k \in Hop, q \in Request : k # "http" \/ q # r => stage'[k][q] = stage[k][q]
  BY <1>1, StageMoves DEF Store, HttpStage
<1>4. stage["http"][r] = "called" /\ context["http"][r] = given[r]
  BY <1>1, <1>2 DEF Store, TraceHolds, Busy
<1>5. context["http"][r] \in Id
  BY <1>1, VariablesTyped
<1>6. /\ event' \in [Hop -> [Request -> Id]] /\ event'["inventory"][r] = given[r]
      /\ \A k \in Hop, q \in Request :
           k # "inventory" \/ q # r => event'[k][q] = event[k][q]
  BY <1>1, <1>4, <1>5, OneEntry DEF Store
<1>7. body[r] \in Bodies /\ body[r] # <<>> /\ Stored(body[r]) \in Rows
  BY VariablesTyped DEF Store, Rows
<1>8. Stored(body[r]) # <<>>
  BY <1>7, LinesTyped
<1>9. /\ row' \in [Request -> Rows] /\ row'[r] = Stored(body[r])
      /\ \A q \in Request \ {r} : row'[q] = row[q]
  BY <1>7, VariablesTyped DEF Store
<1>10. /\ total' \in [Request -> Nat] /\ total'[r] = TotalAmount(row'[r])
       /\ \A q \in Request \ {r} : total'[q] = total[q]
  <2>1. TotalAmount(row'[r]) \in Nat
    BY <1>7, <1>9, RowsTyped
  <2>2. total' = [total EXCEPT ![r] = TotalAmount(row'[r])] /\ total \in [Request -> Nat]
    BY VariablesTyped DEF Store
  <2>3. QED
    BY <2>1, <2>2
<1>11. /\ context' = context /\ body' = body /\ given' = given /\ answer' = answer
       /\ session' = session /\ processed' = processed /\ declared' = declared
       /\ faults' = faults /\ UNCHANGED vars
  BY DEF Store, serverVars
<1>12. FlowTypeOK'
  BY <1>3, <1>6, <1>9, <1>10, <1>11, VariablesTyped, BrokerStays, StepTyped
<1>13. \A q \in Request \ {r} : Apart(q)
  BY <1>3, <1>6, <1>9, <1>10, <1>11 DEF Apart
<1>14. /\ stage'["inventory"][r] = "none" /\ stage'["order"][r] = "none"
       /\ stage'["notification"][r] = "none"
  BY <1>2, <1>3, <1>4, HopsAre DEF RequestHolds, Sent
<1>15. TraceHolds(r)'
  BY <1>2, <1>3, <1>4, <1>6, <1>11, <1>14, HopsAre DEF TraceHolds, Busy, Consumer
<1>16. RequestHolds(r)'
  BY <1>3, <1>8, <1>9, <1>10, <1>14 DEF RequestHolds, Sent
<1>17. QED
  BY <1>3, <1>8, <1>9, <1>11, <1>12, <1>13, <1>15, <1>16, BrokerStays, OneRequest

\* Whoever holds a connection has stored an order, or is a GET that has queried.
LEMMA PoolIsUsed ==
  ASSUME FlowInv, PoolFull
  PROVE  PoolUsed
<1>1. ASSUME NEW q \in Holding
      PROVE  q \in OrdersStored
  <2>1. q \in Request /\ RequestHolds(q)
    BY <1>1 DEF Holding, FlowInv
  <2>2. row[q] # <<>>
    BY <1>1, <2>1 DEF Holding, RequestHolds, AnswerHolds
  <2>3. QED
    BY <2>1, <2>2 DEF OrdersStored
<1>2. /\ IsFiniteSet(OrdersStored) /\ Holding \subseteq OrdersStored
      /\ IsFiniteSet(Queried) /\ Reading \subseteq Queried
  BY <1>1 DEF FlowInv, Reading, Queried
<1>3. /\ IsFiniteSet(Holding) /\ Cardinality(Holding) <= Cardinality(OrdersStored)
      /\ IsFiniteSet(Reading) /\ Cardinality(Reading) <= Cardinality(Queried)
  BY <1>2, FS_Subset
<1>4. /\ Cardinality(Holding) \in Nat /\ Cardinality(OrdersStored) \in Nat
      /\ Cardinality(Reading) \in Nat /\ Cardinality(Queried) \in Nat
  BY <1>2, <1>3, FS_CardinalityType
<1>5. Cardinality(Holding) + Cardinality(Reading) >= PoolSize
  BY DEF PoolFull
<1>6. QED
  BY <1>3, <1>4, <1>5, FlowAssumption DEF PoolUsed

LEMMA StoreFailsKeeps ==
  ASSUME FlowInv, NEW r \in Request, StoreFails(r)
  PROVE  FlowInv'
<1>1. StagesTyped /\ answer \in [Request -> Answer] /\ "http" \in Hop /\ faults \in 0 .. MaxFaults
  BY VariablesTyped, HopsAre
<1>2. TraceHolds(r) /\ RequestHolds(r)
  BY DEF FlowInv
<1>3. /\ StagesTyped' /\ stage'["http"][r] = "returning"
      /\ \A k \in Hop, q \in Request : k # "http" \/ q # r => stage'[k][q] = stage[k][q]
  BY <1>1, StageMoves DEF StoreFails, HttpStage
<1>4. /\ answer' \in [Request -> Answer] /\ answer'[r].status = 500
      /\ \A q \in Request : q # r => answer'[q] = answer[q]
  BY <1>1, AnswerGiven DEF StoreFails
<1>5. /\ context' = context /\ event' = event /\ body' = body /\ given' = given
      /\ total' = total /\ session' = session /\ processed' = processed
      /\ declared' = declared /\ UNCHANGED vars /\ stage["http"][r] = "called"
  BY DEF StoreFails, serverVars
<1>6. /\ row' \in [Request -> Rows] /\ \A q \in Request \ {r} : row'[q] = row[q]
      /\ faults' \in 0 .. MaxFaults
      /\ faults' = 0 => faults = 0
  <2>1. row \in [Request -> Rows] /\ body[r] \in Bodies /\ body[r] # <<>>
    BY VariablesTyped DEF StoreFails
  <2>2. CASE Storable(r)
    <3>1. PICK lines \in {<<>>, Stored(body[r])} : row' = [row EXCEPT ![r] = lines]
      BY <2>2 DEF StoreFails
    <3>2. lines \in Rows
      BY <2>1 DEF Rows
    <3>3. faults' # 0
      BY <1>1, <2>2, FlowAssumption DEF StoreFails, Fault
    <3>4. row' \in [Request -> Rows] /\ \A q \in Request \ {r} : row'[q] = row[q]
      BY <2>1, <3>1, <3>2
    <3>5. faults' \in 0 .. MaxFaults
      BY <1>1, <2>2, FlowAssumption DEF StoreFails, Fault
    <3>6. QED
      BY <3>3, <3>4, <3>5
  <2>3. CASE ~ Storable(r)
    BY <1>1, <2>1, <2>3 DEF StoreFails
  <2>4. QED
    BY <2>2, <2>3
<1>7. FlowTypeOK'
  BY <1>3, <1>4, <1>5, <1>6, VariablesTyped, BrokerStays, StepTyped
<1>8. \A q \in Request \ {r} : Apart(q)
  BY <1>3, <1>4, <1>5, <1>6 DEF Apart
<1>9. /\ stage'["inventory"][r] = stage["inventory"][r]
      /\ stage'["order"][r] = stage["order"][r]
      /\ stage'["notification"][r] = stage["notification"][r]
  BY <1>3, HopsAre
<1>10. TraceHolds(r)'
  BY <1>2, <1>3, <1>5, <1>9, HopsAre DEF TraceHolds, Busy, Consumer
<1>11. row[r] = <<>> /\ ~ Sent(r)'
  BY <1>2, <1>5, <1>9 DEF RequestHolds, Sent
<1>12. Fits(body[r])' /\ faults' = 0 => PoolUsed'
  <2>1. CASE Storable(r)
    <3>1. faults' # 0
      BY <1>1, <2>1, FlowAssumption DEF StoreFails, Fault
    <3>2. QED
      BY <3>1
  <2>2. CASE ~ Storable(r)
    <3>1. row' = row
      BY <2>2 DEF StoreFails
    <3>2. PoolUsed' <=> PoolUsed
      BY <1>5, <3>1 DEF PoolUsed, OrdersStored, Queried
    <3>3. Fits(body[r]) => PoolFull
      BY <2>2 DEF Storable
    <3>4. Fits(body[r]) => PoolUsed
      BY <3>3, PoolIsUsed
    <3>5. Fits(body[r])' <=> Fits(body[r])
      BY <1>5 DEF Fits
    <3>6. QED
      BY <3>2, <3>4, <3>5
  <2>3. QED
    BY <2>1, <2>2
<1>13. AnswerHolds(r)'
  BY <1>4, <1>11, <1>12 DEF AnswerHolds
<1>14. RequestHolds(r)'
  BY <1>2, <1>3, <1>9, <1>11, <1>13 DEF RequestHolds
<1>15. QED
  BY <1>3, <1>5, <1>6, <1>7, <1>8, <1>10, <1>11, <1>14, BrokerStays, OneRequest

LEMMA PublishKeeps ==
  ASSUME FlowInv, NEW r \in Request, Publish(r)
  PROVE  FlowInv'
<1>1. StagesTyped /\ "http" \in Hop /\ "inventory" \in Consumer
  BY VariablesTyped, HopsAre DEF Consumer
<1>2. TraceHolds(r) /\ RequestHolds(r)
  BY DEF FlowInv
<1>3. /\ "confirming" \in HttpStage /\ Routed("http") \in ConsumerStage
      /\ Routed("http") \in {"ready", "unroutable"}
  BY DEF Routed, HttpStage, ConsumerStage
<1>4. HandsOn("http", "inventory", r, "confirming", Routed("http"))
  BY DEF Publish, HandsOn
<1>5. /\ StagesTyped' /\ stage'["http"][r] = "confirming"
      /\ stage'["inventory"][r] = Routed("http")
      /\ \A k \in Hop, q \in Request :
           k \notin {"http", "inventory"} \/ q # r => stage'[k][q] = stage[k][q]
  BY <1>1, <1>3, <1>4, StageHandsOn
<1>6. stage'["inventory"][r] \in {"ready", "unroutable"}
  BY <1>3, <1>5
<1>7. /\ context' = context /\ event' = event /\ body' = body /\ given' = given
      /\ row' = row /\ total' = total /\ answer' = answer
      /\ session' = session /\ processed' = processed /\ declared' = declared
      /\ faults' = faults /\ UNCHANGED vars /\ stage["http"][r] = "publishing"
  BY DEF Publish, requestVars, serverVars
<1>8. FlowTypeOK'
  BY <1>5, <1>7, VariablesTyped, BrokerStays, StepTyped
<1>9. \A q \in Request \ {r} : Apart(q)
  BY <1>5, <1>7 DEF Apart
<1>10. /\ stage'["order"][r] = stage["order"][r]
       /\ stage'["notification"][r] = stage["notification"][r]
  BY <1>5, HopsAre
<1>11. TraceHolds(r)'
  <2>1. \A h \in Hop : stage'[h][r] \in Busy => context'[h][r] = given'[r]
    BY <1>2, <1>5, <1>6, <1>7, <1>10, HopsAre DEF TraceHolds, Busy
  <2>2. \A h \in Consumer : stage'[h][r] # "none" => event'[h][r] = given'[r]
    BY <1>2, <1>5, <1>6, <1>7, <1>10, HopsAre DEF TraceHolds, Consumer
  <2>3. \A h \in Hop \ {"notification"} :
          stage'[h][r] = "publishing" => event'[After[h]][r] = given'[r]
    BY <1>2, <1>5, <1>6, <1>7, <1>10, HopsAre DEF TraceHolds
  <2>4. QED
    BY <1>2, <1>7, <1>10, <2>1, <2>2, <2>3 DEF TraceHolds
<1>12. RequestHolds(r)'
  BY <1>2, <1>5, <1>6, <1>7, <1>10 DEF RequestHolds, Sent
<1>13. QED
  BY <1>5, <1>7, <1>8, <1>9, <1>11, <1>12, BrokerStays, OneRequest

LEMMA ConfirmedKeeps ==
  ASSUME FlowInv, NEW r \in Request, Confirmed(r)
  PROVE  FlowInv'
<1>1. StagesTyped /\ answer \in [Request -> Answer] /\ "http" \in Hop
  BY VariablesTyped, HopsAre
<1>2. TraceHolds(r) /\ RequestHolds(r)
  BY DEF FlowInv
<1>3. /\ StagesTyped' /\ stage'["http"][r] = "returning"
      /\ \A k \in Hop, q \in Request : k # "http" \/ q # r => stage'[k][q] = stage[k][q]
  BY <1>1, StageMoves DEF Confirmed, HttpStage
<1>4. row[r] \in Rows /\ TotalAmount(row[r]) \in Nat
  BY VariablesTyped, RowsTyped
<1>5. Responds(r, 201, TotalAmount(row[r]))
  BY DEF Confirmed, OrderResponse
<1>6. /\ answer' \in [Request -> Answer] /\ answer'[r].status = 201
      /\ answer'[r].total = TotalAmount(row[r])
      /\ \A q \in Request : q # r => answer'[q] = answer[q]
  BY <1>1, <1>4, <1>5, AnswerGiven
<1>7. /\ context' = context /\ event' = event /\ body' = body /\ given' = given
      /\ row' = row /\ total' = total
      /\ session' = session /\ processed' = processed /\ declared' = declared
      /\ faults' = faults /\ UNCHANGED vars /\ stage["http"][r] = "confirming"
  BY DEF Confirmed, serverVars
<1>8. FlowTypeOK'
  BY <1>3, <1>6, <1>7, VariablesTyped, BrokerStays, StepTyped
<1>9. \A q \in Request \ {r} : Apart(q)
  BY <1>3, <1>6, <1>7 DEF Apart
<1>10. /\ stage'["inventory"][r] = stage["inventory"][r]
       /\ stage'["order"][r] = stage["order"][r]
       /\ stage'["notification"][r] = stage["notification"][r]
  BY <1>3, HopsAre
<1>11. TraceHolds(r)'
  BY <1>2, <1>3, <1>7, <1>10, HopsAre DEF TraceHolds, Busy, Consumer
<1>12. Sent(r)' /\ row'[r] # <<>> /\ total'[r] = TotalAmount(row[r])
  BY <1>2, <1>7, <1>10 DEF RequestHolds, Sent
<1>13. AnswerHolds(r)'
  BY <1>6, <1>7, <1>12 DEF AnswerHolds
<1>14. RequestHolds(r)'
  BY <1>2, <1>3, <1>7, <1>10, <1>12, <1>13 DEF RequestHolds, Sent
<1>15. QED
  BY <1>3, <1>7, <1>8, <1>9, <1>11, <1>14, BrokerStays, OneRequest

LEMMA PublishRaisesKeeps ==
  ASSUME FlowInv, NEW r \in Request, PublishRaises(r)
  PROVE  FlowInv'
<1>1. /\ StagesTyped /\ answer \in [Request -> Answer] /\ "http" \in Hop
      /\ context \in [Hop -> [Request -> Id]]
  BY VariablesTyped, HopsAre
<1>2. TraceHolds(r) /\ RequestHolds(r)
  BY DEF FlowInv
<1>3. /\ StagesTyped' /\ stage'["http"][r] = "done"
      /\ \A k \in Hop, q \in Request : k # "http" \/ q # r => stage'[k][q] = stage[k][q]
  BY <1>1, StageMoves DEF PublishRaises, HttpStage
<1>4. /\ answer' \in [Request -> Answer] /\ answer'[r].status = 500
      /\ \A q \in Request : q # r => answer'[q] = answer[q]
  BY <1>1, AnswerGiven DEF PublishRaises
<1>5. /\ context' \in [Hop -> [Request -> Id]]
      /\ \A k \in Hop, q \in Request :
           k # "http" \/ q # r => context'[k][q] = context[k][q]
  BY <1>1, UnbindBinds, ContextChanges DEF PublishRaises
<1>6. /\ event' = event /\ body' = body /\ given' = given
      /\ row' = row /\ total' = total
      /\ session' = session /\ processed' = processed /\ declared' = declared
      /\ faults' = faults /\ UNCHANGED vars /\ stage["http"][r] \in {"raised", "publishing"}
  BY DEF PublishRaises, serverVars
<1>7. FlowTypeOK'
  BY <1>3, <1>4, <1>5, <1>6, VariablesTyped, BrokerStays, StepTyped
<1>8. \A q \in Request \ {r} : Apart(q)
  BY <1>3, <1>4, <1>5, <1>6 DEF Apart
<1>9. /\ stage'["inventory"][r] = stage["inventory"][r]
      /\ stage'["order"][r] = stage["order"][r]
      /\ stage'["notification"][r] = stage["notification"][r]
  BY <1>3, HopsAre
<1>10. TraceHolds(r)'
  BY <1>2, <1>3, <1>5, <1>6, <1>9, HopsAre DEF TraceHolds, Busy, Consumer
<1>11. row'[r] # <<>>
  BY <1>2, <1>6 DEF RequestHolds
<1>12. AnswerHolds(r)'
  BY <1>4, <1>11 DEF AnswerHolds
<1>13. RequestHolds(r)'
  BY <1>2, <1>3, <1>4, <1>6, <1>9, <1>11, <1>12 DEF RequestHolds, Sent
<1>14. QED
  BY <1>3, <1>6, <1>7, <1>8, <1>10, <1>13, BrokerStays, OneRequest

LEMMA CompleteKeeps ==
  ASSUME FlowInv, NEW r \in Request, Complete(r)
  PROVE  FlowInv'
<1>1. /\ StagesTyped /\ answer \in [Request -> Answer] /\ "http" \in Hop
      /\ context \in [Hop -> [Request -> Id]] /\ given \in [Request -> Id]
  BY VariablesTyped, HopsAre
<1>2. TraceHolds(r) /\ RequestHolds(r)
  BY DEF FlowInv
<1>3. /\ StagesTyped' /\ stage'["http"][r] = "done"
      /\ \A k \in Hop, q \in Request : k # "http" \/ q # r => stage'[k][q] = stage[k][q]
  BY <1>1, StageMoves DEF Complete, HttpStage
<1>4. /\ answer' \in [Request -> Answer] /\ answer'[r].id = given[r]
      /\ answer'[r].status = answer[r].status /\ answer'[r].total = answer[r].total
      /\ \A q \in Request : q # r => answer'[q] = answer[q]
  <2>1. PICK b : b = [answer[r] EXCEPT !.id = given[r]]
    OBVIOUS
  <2>2. answer[r] \in Answer /\ given[r] \in Id
    BY <1>1
  <2>3. /\ b \in Answer /\ b.id = given[r]
        /\ b.status = answer[r].status /\ b.total = answer[r].total
    BY <2>1, <2>2 DEF Answer
  <2>4. answer' = [answer EXCEPT ![r] = b]
    BY <2>1 DEF Complete
  <2>5. QED
    BY <1>1, <2>3, <2>4
<1>5. /\ context' \in [Hop -> [Request -> Id]]
      /\ \A k \in Hop, q \in Request :
           k # "http" \/ q # r => context'[k][q] = context[k][q]
  BY <1>1, UnbindBinds, ContextChanges DEF Complete
<1>6. /\ event' = event /\ body' = body /\ given' = given
      /\ row' = row /\ total' = total
      /\ session' = session /\ processed' = processed /\ declared' = declared
      /\ faults' = faults /\ UNCHANGED vars /\ stage["http"][r] = "returning"
  BY DEF Complete, serverVars
<1>7. FlowTypeOK'
  BY <1>3, <1>4, <1>5, <1>6, VariablesTyped, BrokerStays, StepTyped
<1>8. \A q \in Request \ {r} : Apart(q)
  BY <1>3, <1>4, <1>5, <1>6 DEF Apart
<1>9. /\ stage'["inventory"][r] = stage["inventory"][r]
      /\ stage'["order"][r] = stage["order"][r]
      /\ stage'["notification"][r] = stage["notification"][r]
  BY <1>3, HopsAre
<1>10. TraceHolds(r)'
  BY <1>2, <1>3, <1>5, <1>6, <1>9, HopsAre DEF TraceHolds, Busy, Consumer
<1>11. given[r] # NoId
  BY <1>2, <1>6 DEF TraceHolds
<1>12. AnswerHolds(r) /\ (Sent(r)' <=> Sent(r)) /\ (PoolUsed' <=> PoolUsed)
  BY <1>2, <1>6, <1>9 DEF RequestHolds, Sent, PoolUsed, OrdersStored, Queried
<1>13. AnswerHolds(r)'
  BY <1>4, <1>6, <1>12 DEF AnswerHolds
<1>14. RequestHolds(r)'
  BY <1>2, <1>3, <1>4, <1>6, <1>9, <1>11, <1>13 DEF RequestHolds, Sent
<1>15. QED
  BY <1>3, <1>6, <1>7, <1>8, <1>10, <1>14, BrokerStays, OneRequest

-----------------------------------------------------------------------------
(* The consumers.                                                          *)

\* What a step of a hop keeps: the request and its answer, the stage of the
\* other hops, and whether the event has gone out.
LEMMA HopStep ==
  ASSUME FlowInv, NEW r \in Request, NEW h \in Consumer,
         StagesTyped', UNCHANGED vars, UNCHANGED requestVars, UNCHANGED session,
         UNCHANGED declared,
         \A k \in Hop, q \in Request :
           q # r => /\ stage'[k][q] = stage[k][q] /\ context'[k][q] = context[k][q]
                    /\ event'[k][q] = event[k][q],
         context' \in [Hop -> [Request -> Id]], event' \in [Hop -> [Request -> Id]],
         processed' \subseteq Consumer \X Request,
         faults' \in 0 .. MaxFaults, faults' = 0 => faults = 0,
         TraceHolds(r)', stage'["http"][r] = stage["http"][r],
         Sent(r)' <=> Sent(r),
         stage'["inventory"][r] = "none" => stage'["order"][r] = "none",
         stage'["order"][r] = "none" => stage'["notification"][r] = "none"
  PROVE  FlowInv'
<1>1. /\ body' = body /\ given' = given /\ row' = row
      /\ total' = total /\ answer' = answer /\ declared' = declared
  BY DEF requestVars
<1>2. FlowTypeOK'
  BY <1>1, VariablesTyped, BrokerStays, StepTyped
<1>3. \A q \in Request \ {r} : Apart(q)
  BY <1>1 DEF Apart
<1>4. RequestHolds(r)
  BY DEF FlowInv
<1>5. PoolUsed' <=> PoolUsed
  BY <1>1 DEF PoolUsed, OrdersStored, Queried
<1>6. AnswerHolds(r) => AnswerHolds(r)'
  BY <1>1, <1>5 DEF AnswerHolds
<1>7. RequestHolds(r)'
  BY <1>1, <1>4, <1>6 DEF RequestHolds
<1>8. QED
  BY <1>1, <1>2, <1>3, <1>7, BrokerStays, OneRequest

LEMMA DeclareQueueKeeps ==
  ASSUME FlowInv, NEW h \in Consumer, DeclareQueue(h)
  PROVE  FlowInv'
<1>1. /\ stage' = stage /\ context' = context /\ event' = event
      /\ body' = body /\ given' = given /\ row' = row /\ total' = total
      /\ answer' = answer /\ session' = session /\ processed' = processed
      /\ faults' = faults /\ declared' = declared \cup {h} /\ UNCHANGED vars
  BY DEF DeclareQueue, requestVars
<1>2. StagesTyped'
  BY <1>1, VariablesTyped DEF StagesTyped
<1>3. declared' \subseteq Consumer
  BY <1>1, VariablesTyped
<1>4. FlowTypeOK'
  BY <1>1, <1>2, <1>3, VariablesTyped, BrokerStays, StepTyped
<1>5. PoolUsed' <=> PoolUsed
  BY <1>1 DEF PoolUsed, OrdersStored, Queried
<1>6. ASSUME NEW q \in Request
      PROVE  TraceHolds(q)' /\ RequestHolds(q)'
  <2>1. Apart(q)
    BY <1>1 DEF Apart
  <2>2. TraceHolds(q) /\ RequestHolds(q)
    BY DEF FlowInv
  <2>3. TraceHolds(q)'
    BY <2>1, <2>2, ApartTraced
  <2>4. RequestHolds(q)'
    BY <1>1, <1>5, <2>1, <2>2, ApartRequest
  <2>5. QED
    BY <2>3, <2>4
<1>7. QED
  BY <1>1, <1>2, <1>4, <1>6, BrokerStays, AllRequests

LEMMA HandleKeeps ==
  ASSUME FlowInv, NEW r \in Request, NEW h \in Consumer, Handle(h, r)
  PROVE  FlowInv'
<1>1. /\ StagesTyped /\ h \in Hop \ {"notification"} /\ h \in {"inventory", "order"}
      /\ h # "http" /\ After[h] \in Hop
      /\ context \in [Hop -> [Request -> Id]] /\ event \in [Hop -> [Request -> Id]]
  BY VariablesTyped, HopsAre DEF Handle, Consumer
<1>2. TraceHolds(r) /\ RequestHolds(r)
  BY DEF FlowInv
<1>3. "publishing" \in ConsumerStage /\ Goto(h, r, "publishing")
  BY DEF Handle, ConsumerStage
<1>4. /\ StagesTyped' /\ stage'[h][r] = "publishing"
      /\ \A k \in Hop, q \in Request : k # h \/ q # r => stage'[k][q] = stage[k][q]
  BY <1>1, <1>3, StageMoves
<1>5. event[h][r] = given[r] /\ event[h][r] \in Id /\ stage[h][r] = "ready"
  BY <1>1, <1>2 DEF TraceHolds, Handle
<1>6. /\ context' \in [Hop -> [Request -> Id]] /\ context'[h][r] = given[r]
      /\ \A k \in Hop, q \in Request : k # h \/ q # r => context'[k][q] = context[k][q]
  BY <1>1, <1>5, ContextChanges, ZenonT(40) DEF Handle
<1>7. /\ event' \in [Hop -> [Request -> Id]] /\ event'[After[h]][r] = given[r]
      /\ \A k \in Hop, q \in Request :
           k # After[h] \/ q # r => event'[k][q] = event[k][q]
  <2>1. PICK next : next = After[h]
    OBVIOUS
  <2>2. PICK g : g = event'
    OBVIOUS
  <2>3. g = [event EXCEPT ![next][r] = given[r]] /\ given[r] \in Id /\ next \in Hop
    BY <1>1, <1>5, <2>1, <2>2 DEF Handle
  <2>4. /\ g \in [Hop -> [Request -> Id]] /\ g[next][r] = given[r]
        /\ \A k \in Hop, q \in Request : k # next \/ q # r => g[k][q] = event[k][q]
    BY <1>1, <2>3, OneEntry
  <2>5. QED
    BY <2>1, <2>2, <2>4
<1>8. /\ UNCHANGED vars /\ UNCHANGED requestVars /\ session' = session /\ declared' = declared
      /\ faults' = faults /\ given' = given
      /\ processed' = processed \cup {<<h, r>>}
  BY DEF Handle, requestVars
<1>9. processed' \subseteq Consumer \X Request
  BY <1>8, VariablesTyped
<1>10. /\ stage'["http"][r] = stage["http"][r] /\ (Sent(r)' <=> Sent(r))
       /\ stage'["inventory"][r] = "none" <=> stage["inventory"][r] = "none"
       /\ stage'["order"][r] = "none" <=> stage["order"][r] = "none"
       /\ stage'["notification"][r] = stage["notification"][r]
  BY <1>1, <1>4, <1>5, HopsAre DEF Sent
<1>11. TraceHolds(r)'
  <2>1. \A k \in Hop : stage'[k][r] \in Busy => context'[k][r] = given'[r]
    BY <1>2, <1>4, <1>6, <1>8 DEF TraceHolds
  <2>2. \A k \in Hop : stage[k][r] # "none" /\ k \in Consumer => event'[k][r] = given'[r]
    BY <1>2, <1>7, <1>8 DEF TraceHolds
  <2>3. \A k \in Consumer : stage'[k][r] # "none" => event'[k][r] = given'[r]
    BY <1>4, <1>5, <2>2 DEF Hop
  <2>4. \A k \in Hop \ {"notification"} :
          stage'[k][r] = "publishing" => event'[After[k]][r] = given'[r]
    BY <1>1, <1>2, <1>4, <1>7, <1>8, HopsAre DEF TraceHolds
  <2>5. stage'["notification"][r] # "publishing"
    BY <1>2, <1>10 DEF TraceHolds
  <2>6. stage'["http"][r] # "none" => given'[r] # NoId
    BY <1>2, <1>8, <1>10 DEF TraceHolds
  <2>7. QED
    BY <2>1, <2>3, <2>4, <2>5, <2>6 DEF TraceHolds
<1>12. /\ stage'["inventory"][r] = "none" => stage'["order"][r] = "none"
       /\ stage'["order"][r] = "none" => stage'["notification"][r] = "none"
  BY <1>2, <1>10 DEF RequestHolds
<1>13. QED
  BY <1>4, <1>6, <1>7, <1>8, <1>9, <1>10, <1>11, <1>12, VariablesTyped, HopStep

LEMMA PublishNextKeeps ==
  ASSUME FlowInv, NEW r \in Request, NEW h \in Consumer, PublishNext(h, r)
  PROVE  FlowInv'
<1>1. TraceHolds(r) /\ RequestHolds(r)
  BY DEF FlowInv
<1>2. h # "notification" /\ stage[h][r] = "publishing"
  BY <1>1 DEF PublishNext, TraceHolds
<1>3. /\ StagesTyped /\ h \in Hop \ {"notification"} /\ h \in {"inventory", "order"}
      /\ h # "http" /\ After[h] # h /\ After[h] \in Hop
      /\ After[h] \in Consumer /\ After[h] \in {"order", "notification"}
      /\ context \in [Hop -> [Request -> Id]]
  BY <1>2, VariablesTyped, HopsAre DEF Consumer
<1>4. "done" \in ConsumerStage /\ Routed(h) \in ConsumerStage /\ Routed(h) # "none"
      /\ Routed(h) \notin Busy
  BY DEF ConsumerStage, Routed, Busy
<1>5. HandsOn(h, After[h], r, "done", Routed(h))
  BY DEF PublishNext, HandsOn
<1>6. /\ StagesTyped' /\ stage'[h][r] = "done" /\ stage'[After[h]][r] = Routed(h)
      /\ \A k \in Hop, q \in Request :
           k \notin {h, After[h]} \/ q # r => stage'[k][q] = stage[k][q]
  BY <1>3, <1>4, <1>5, StageHandsOn
<1>7. /\ context' \in [Hop -> [Request -> Id]]
      /\ \A k \in Hop, q \in Request : k # h \/ q # r => context'[k][q] = context[k][q]
  BY <1>3, UnbindBinds, ContextChanges DEF PublishNext
<1>8. /\ UNCHANGED vars /\ UNCHANGED requestVars /\ session' = session /\ declared' = declared
      /\ faults' = faults /\ given' = given
      /\ event' = event /\ processed' = processed
  BY DEF PublishNext, requestVars, serverVars
<1>9. /\ stage'["http"][r] = stage["http"][r]
      /\ Sent(r) /\ Sent(r)'
      /\ stage'["order"][r] # "none"
  <2>1. stage["inventory"][r] # "none"
    BY <1>1, <1>2, <1>3 DEF RequestHolds
  <2>2. CASE h = "inventory"
    BY <1>4, <1>6, <2>1, <2>2, HopsAre DEF Sent
  <2>3. CASE h = "order"
    BY <1>4, <1>6, <2>1, <2>3, HopsAre DEF Sent
  <2>4. QED
    BY <1>3, <2>2, <2>3
<1>10. TraceHolds(r)'
  <2>1. ASSUME NEW k \in Hop, stage'[k][r] \in Busy
        PROVE  context'[k][r] = given'[r]
    <3>1. k \notin {h, After[h]}
      BY <1>4, <1>6, <2>1 DEF Busy
    <3>2. stage[k][r] \in Busy /\ context'[k][r] = context[k][r]
      BY <1>6, <1>7, <2>1, <3>1
    <3>3. QED
      BY <1>1, <1>8, <3>2 DEF TraceHolds
  <2>2. ASSUME NEW k \in Consumer, stage'[k][r] # "none"
        PROVE  event'[k][r] = given'[r]
    <3>1. CASE k = After[h]
      BY <1>1, <1>2, <1>3, <1>8, <3>1 DEF TraceHolds
    <3>2. CASE k # After[h]
      <4>1. stage[k][r] # "none"
        BY <1>2, <1>6, <2>2, <3>2 DEF Hop
      <4>2. QED
        BY <1>1, <1>8, <4>1 DEF TraceHolds
    <3>3. QED
      BY <3>1, <3>2
  <2>3. ASSUME NEW k \in Hop \ {"notification"}, stage'[k][r] = "publishing"
        PROVE  event'[After[k]][r] = given'[r]
    <3>1. k \notin {h, After[h]}
      BY <1>4, <1>6, <2>3 DEF Busy
    <3>2. stage[k][r] = "publishing"
      BY <1>6, <2>3, <3>1
    <3>3. QED
      BY <1>1, <1>8, <3>2 DEF TraceHolds
  <2>4. stage'["notification"][r] # "publishing"
    BY <1>1, <1>3, <1>4, <1>6, HopsAre DEF TraceHolds, Busy
  <2>5. stage'["http"][r] # "none" => given'[r] # NoId
    BY <1>1, <1>8, <1>9 DEF TraceHolds
  <2>6. QED
    BY <2>1, <2>2, <2>3, <2>4, <2>5 DEF TraceHolds
<1>11. /\ stage'["inventory"][r] = "none" => stage'["order"][r] = "none"
       /\ stage'["order"][r] = "none" => stage'["notification"][r] = "none"
  BY <1>9 DEF Sent
<1>12. QED
  BY <1>6, <1>7, <1>8, <1>9, <1>10, <1>11, VariablesTyped, HopStep

\* A hop that ends with an event, or starts again with it, is not busy.
LEMMA HopRests ==
  ASSUME FlowInv, NEW r \in Request, NEW h \in Consumer,
         NEW s \in {"ready", "done", "skipped"}, Goto(h, r, s), stage[h][r] # "none",
         UNCHANGED vars, UNCHANGED requestVars, UNCHANGED event, UNCHANGED session,
         UNCHANGED processed, UNCHANGED declared, faults' \in 0 .. MaxFaults, faults' = 0 => faults = 0,
         context' \in [Hop -> [Request -> Id]],
         \A k \in Hop, q \in Request : k # h \/ q # r => context'[k][q] = context[k][q]
  PROVE  FlowInv'
<1>1. TraceHolds(r) /\ RequestHolds(r) /\ StagesTyped
  BY DEF FlowInv
<1>2. h \in Hop /\ h # "http" /\ h \in {"inventory", "order", "notification"}
  BY DEF Hop, Consumer
<1>3. s \in ConsumerStage /\ s # "none" /\ s \notin Busy
  BY DEF ConsumerStage, Busy
<1>4. /\ StagesTyped' /\ stage'[h][r] = s
      /\ \A k \in Hop, q \in Request : k # h \/ q # r => stage'[k][q] = stage[k][q]
  BY <1>1, <1>2, <1>3, StageMoves
<1>5. given' = given
  BY DEF requestVars
<1>6. /\ stage'["http"][r] = stage["http"][r] /\ (Sent(r)' <=> Sent(r))
      /\ stage'["inventory"][r] = "none" <=> stage["inventory"][r] = "none"
      /\ stage'["order"][r] = "none" <=> stage["order"][r] = "none"
      /\ stage'["notification"][r] = "none" <=> stage["notification"][r] = "none"
  BY <1>2, <1>3, <1>4, HopsAre DEF Sent
<1>7. TraceHolds(r)'
  <2>1. \A k \in Hop : stage'[k][r] \in Busy => context'[k][r] = given'[r]
    BY <1>1, <1>3, <1>4, <1>5 DEF TraceHolds
  <2>2. \A k \in Consumer : stage'[k][r] # "none" => event'[k][r] = given'[r]
    BY <1>1, <1>4, <1>5 DEF TraceHolds, Hop
  <2>3. \A k \in Hop \ {"notification"} :
          stage'[k][r] = "publishing" => event'[After[k]][r] = given'[r]
    BY <1>1, <1>3, <1>4, <1>5 DEF TraceHolds, Busy
  <2>4. stage'["notification"][r] # "publishing"
    BY <1>1, <1>3, <1>4, HopsAre DEF TraceHolds, Busy
  <2>5. stage'["http"][r] # "none" => given'[r] # NoId
    BY <1>1, <1>5, <1>6 DEF TraceHolds
  <2>6. QED
    BY <2>1, <2>2, <2>3, <2>4, <2>5 DEF TraceHolds
<1>8. /\ stage'["inventory"][r] = "none" => stage'["order"][r] = "none"
      /\ stage'["order"][r] = "none" => stage'["notification"][r] = "none"
  BY <1>1, <1>6 DEF RequestHolds
<1>9. QED
  BY <1>4, <1>6, <1>7, <1>8, VariablesTyped, HopStep

LEMMA DuplicateKeeps ==
  ASSUME FlowInv, NEW r \in Request, NEW h \in Consumer, Duplicate(h, r)
  PROVE  FlowInv'
<1>1. /\ Goto(h, r, "skipped") /\ stage[h][r] # "none" /\ faults' = faults
      /\ UNCHANGED vars /\ UNCHANGED requestVars /\ UNCHANGED event
      /\ UNCHANGED session /\ UNCHANGED processed /\ UNCHANGED declared /\ context' = context
  BY DEF Duplicate, serverVars
<1>2. QED
  BY <1>1, VariablesTyped, HopRests

LEMMA NotifyKeeps ==
  ASSUME FlowInv, NEW r \in Request, Notify(r)
  PROVE  FlowInv'
<1>1. /\ Goto("notification", r, "done") /\ stage["notification"][r] # "none"
      /\ "notification" \in Consumer /\ faults' = faults
      /\ UNCHANGED vars /\ UNCHANGED requestVars /\ UNCHANGED event
      /\ UNCHANGED session /\ UNCHANGED processed /\ UNCHANGED declared /\ context' = context
  BY DEF Notify, Consumer, serverVars
<1>2. QED
  BY <1>1, VariablesTyped, HopRests

LEMMA HandlerFailsKeeps ==
  ASSUME FlowInv, NEW r \in Request, NEW h \in Consumer, HandlerFails(h, r)
  PROVE  FlowInv'
<1>1. /\ Goto(h, r, "ready") /\ stage[h][r] # "none"
      /\ UNCHANGED vars /\ UNCHANGED requestVars /\ UNCHANGED event
      /\ UNCHANGED session /\ UNCHANGED processed /\ UNCHANGED declared
  BY DEF HandlerFails, serverVars
<1>2. h \in Hop /\ context \in [Hop -> [Request -> Id]]
  BY VariablesTyped DEF Hop
<1>3. /\ context' \in [Hop -> [Request -> Id]]
      /\ \A k \in Hop, q \in Request : k # h \/ q # r => context'[k][q] = context[k][q]
  BY <1>2, UnbindBinds, ContextChanges DEF HandlerFails
<1>4. faults' \in 0 .. MaxFaults /\ faults' # 0
  BY VariablesTyped, FlowAssumption DEF HandlerFails, Fault
<1>5. QED
  BY <1>1, <1>3, <1>4, HopRests

-----------------------------------------------------------------------------
(* The broker's steps, and none.                                           *)

LEMMA AlongKeeps ==
  ASSUME FlowInv, Next, Along
  PROVE  FlowInv'
<1>1. BrokerInv' /\ TypeOK'
  <2>1. BrokerInv'
    BY BrokerSteps, VariablesTyped
  <2>2. QED
    BY <2>1 DEF BrokerInv
<1>2. /\ event' = event /\ body' = body /\ given' = given /\ row' = row
      /\ total' = total /\ answer' = answer /\ session' = session
      /\ processed' = processed /\ faults' = faults
  BY DEF Along, requestVars
<1>3. ASSUME NEW h \in Hop, NEW r \in Request
      PROVE  /\ \/ stage'[h][r] = stage[h][r]
                \/ h # "http" /\ stage[h][r] = "publishing" /\ stage'[h][r] = "ready"
                \/ h = "http" /\ stage[h][r] = "confirming" /\ stage'[h][r] = "raised"
             /\ h \in Consumer /\ Lost(h) => stage'[h][r] # "publishing"
  <2>1. stage'[h][r] = CASE Lost(h) /\ h \in Consumer /\ stage[h][r] = "publishing" -> "ready"
                         [] Lost(h) /\ stage[h][r] = "confirming" -> "raised"
                         [] OTHER -> stage[h][r]
    BY DEF Along
  <2>2. /\ stage["http"][r] # "ready"
        /\ \A k \in Consumer : stage[k][r] # "confirming"
    BY VariablesTyped DEF StagesTyped, HttpStage, ConsumerStage
  <2>3. h \in Consumer <=> h # "http"
    BY DEF Hop, Consumer
  <2>4. CASE Lost(h)
    <3>1. CASE h \in Consumer /\ stage[h][r] = "publishing"
      BY <2>1, <2>3, <2>4, <3>1
    <3>2. CASE ~ (h \in Consumer /\ stage[h][r] = "publishing") /\ stage[h][r] = "confirming"
      BY <2>1, <2>2, <2>3, <2>4, <3>2
    <3>3. CASE ~ (h \in Consumer /\ stage[h][r] = "publishing") /\ stage[h][r] # "confirming"
      BY <2>1, <3>3
    <3>4. QED
      BY <3>1, <3>2, <3>3
  <2>5. CASE ~ Lost(h)
    BY <2>1, <2>5
  <2>6. QED
    BY <2>4, <2>5
<1>4. ASSUME NEW h \in Hop, NEW r \in Request
      PROVE  \/ context'[h][r] = context[h][r]
             \/ h \in Consumer /\ Lost(h) /\ context'[h][r] = NoId
  BY DEF Along
<1>5. StagesTyped'
  <2>1. stage' = [h \in Hop |-> [r \in Request |-> stage'[h][r]]]
    BY DEF Along
  <2>2. ASSUME NEW r \in Request
        PROVE  /\ stage'["http"][r] \in HttpStage
               /\ \A h \in Consumer : stage'[h][r] \in ConsumerStage
    <3>1. stage["http"][r] \in HttpStage /\ \A h \in Consumer : stage[h][r] \in ConsumerStage
      BY VariablesTyped DEF StagesTyped
    <3>2. stage'["http"][r] \in HttpStage
      BY <1>3, <3>1, HopsAre DEF HttpStage
    <3>3. ASSUME NEW h \in Consumer
          PROVE  stage'[h][r] \in ConsumerStage
      <4>1. h \in Hop /\ h # "http"
        BY DEF Hop, Consumer
      <4>2. QED
        BY <1>3, <3>1, <4>1 DEF ConsumerStage
    <3>4. QED
      BY <3>2, <3>3
  <2>3. \A h \in Hop, r \in Request : stage'[h][r] \in Stages
    BY <2>2 DEF Hop, Stages
  <2>4. stage' \in [Hop -> [Request -> Stages]]
    BY <2>1, <2>3
  <2>5. QED
    BY <2>2, <2>4 DEF StagesTyped
<1>6. context' \in [Hop -> [Request -> Id]]
  <2>1. context' = [h \in Hop |-> [r \in Request |-> context'[h][r]]]
    BY DEF Along
  <2>2. NoId \in Id /\ \A h \in Hop, r \in Request : context[h][r] \in Id
    BY VariablesTyped DEF Id
  <2>3. \A h \in Hop, r \in Request : context'[h][r] \in Id
    BY <1>4, <2>2
  <2>4. QED
    BY <2>1, <2>3
<1>7. declared' \subseteq Consumer
  BY VariablesTyped DEF Along, Consumer
<1>8. FlowTypeOK'
  BY <1>1, <1>2, <1>5, <1>6, <1>7, VariablesTyped, StepTyped
<1>9. ASSUME NEW r \in Request
      PROVE  TraceHolds(r)' /\ RequestHolds(r)'
  <2>1. TraceHolds(r) /\ RequestHolds(r)
    BY DEF FlowInv
  <2>2. /\ "http" \in Hop /\ "inventory" \in Hop /\ "order" \in Hop /\ "notification" \in Hop
        /\ Consumer \subseteq Hop /\ "http" \notin Consumer
    BY DEF Hop, Consumer
  <2>3. ASSUME NEW h \in Hop, stage'[h][r] \in Busy
        PROVE  context'[h][r] = given'[r]
    <3>1. stage[h][r] \in Busy
      BY <1>3, <2>3 DEF Busy
    <3>2. context[h][r] = given'[r]
      BY <1>2, <2>1, <3>1 DEF TraceHolds
    <3>3. ~ (h \in Consumer /\ Lost(h))
      <4>1. h \in Consumer => stage'[h][r] \in ConsumerStage
        BY <1>5 DEF StagesTyped
      <4>2. h \in Consumer => stage'[h][r] = "publishing"
        BY <2>3, <4>1 DEF Busy, ConsumerStage
      <4>3. QED
        BY <1>3, <4>2
    <3>4. QED
      BY <1>4, <3>2, <3>3
  <2>4. ASSUME NEW h \in Consumer, stage'[h][r] # "none"
        PROVE  event'[h][r] = given'[r]
    <3>1. stage[h][r] # "none"
      BY <1>3, <2>2, <2>4
    <3>2. QED
      BY <1>2, <2>1, <3>1 DEF TraceHolds
  <2>5. ASSUME NEW h \in Hop \ {"notification"}, stage'[h][r] = "publishing"
        PROVE  event'[After[h]][r] = given'[r]
    <3>1. stage[h][r] = "publishing"
      BY <1>3, <2>5
    <3>2. QED
      BY <1>2, <2>1, <3>1 DEF TraceHolds
  <2>6. stage'["notification"][r] # "publishing"
    BY <1>3, <2>1, <2>2 DEF TraceHolds
  <2>7. stage'["http"][r] # "none" => given'[r] # NoId
    BY <1>2, <1>3, <2>1, <2>2 DEF TraceHolds
  <2>8. TraceHolds(r)'
    BY <2>3, <2>4, <2>5, <2>6, <2>7 DEF TraceHolds
  <2>9. /\ Sent(r)' <=> Sent(r)
        /\ stage'["inventory"][r] = "none" <=> stage["inventory"][r] = "none"
        /\ stage'["order"][r] = "none" <=> stage["order"][r] = "none"
        /\ stage'["notification"][r] = "none" <=> stage["notification"][r] = "none"
    BY <1>3, <2>2 DEF Sent
  <2>10. \/ stage'["http"][r] = stage["http"][r]
         \/ stage["http"][r] = "confirming" /\ stage'["http"][r] = "raised"
    BY <1>3, <2>2
  <2>11. PoolUsed' <=> PoolUsed
    BY <1>2 DEF PoolUsed, OrdersStored, Queried
  <2>12. AnswerHolds(r) => AnswerHolds(r)'
    BY <1>2, <2>9, <2>11 DEF AnswerHolds
  <2>13. RequestHolds(r)'
    BY <1>2, <2>1, <2>9, <2>10, <2>12 DEF RequestHolds
  <2>14. QED
    BY <2>8, <2>13
<1>10. QED
  BY <1>1, <1>2, <1>5, <1>8, <1>9, AllRequests

LEMMA StutterKeeps ==
  ASSUME FlowInv, UNCHANGED flowVars
  PROVE  FlowInv'
<1>1. /\ UNCHANGED vars /\ stage' = stage /\ context' = context /\ event' = event
      /\ body' = body /\ given' = given /\ row' = row /\ total' = total
      /\ answer' = answer /\ session' = session /\ processed' = processed
      /\ declared' = declared /\ faults' = faults
  BY DEF flowVars, requestVars, serverVars
<1>2. StagesTyped'
  BY <1>1, VariablesTyped DEF StagesTyped
<1>3. FlowTypeOK'
  BY <1>1, <1>2, VariablesTyped, BrokerStays, StepTyped
<1>4. ASSUME NEW q \in Request
      PROVE  TraceHolds(q)' /\ RequestHolds(q)'
  <2>1. Apart(q) /\ (PoolUsed' <=> PoolUsed)
    BY <1>1 DEF Apart, PoolUsed, OrdersStored, Queried
  <2>2. TraceHolds(q) /\ RequestHolds(q)
    BY DEF FlowInv
  <2>3. TraceHolds(q)'
    BY <2>1, <2>2, ApartTraced
  <2>4. RequestHolds(q)'
    BY <1>1, <2>1, <2>2, ApartRequest
  <2>5. QED
    BY <2>3, <2>4
<1>5. QED
  BY <1>1, <1>2, <1>3, <1>4, BrokerStays, AllRequests

-----------------------------------------------------------------------------
(* The theorems.                                                           *)

LEMMA FlowStarts ==
  ASSUME FlowInit
  PROVE  FlowInv
<1>1. BrokerInv /\ TypeOK
  BY BrokerStarts DEF FlowInit, BrokerInv
<1>2. /\ stage = [h \in Hop |-> [r \in Request |-> "none"]]
      /\ context = [h \in Hop |-> [r \in Request |-> NoId]]
      /\ event = [h \in Hop |-> [r \in Request |-> NoId]]
      /\ body = [r \in Request |-> <<>>] /\ row = [r \in Request |-> <<>>]
      /\ given = [r \in Request |-> NoId] /\ total = [r \in Request |-> 0]
      /\ answer = [r \in Request |-> NoAnswer]
      /\ session = [g \in Get |-> "none"]
      /\ processed = {} /\ declared = {} /\ faults = 0
  BY DEF FlowInit, OfHops
<1>3. \A h \in Hop, r \in Request : stage[h][r] = "none"
  BY <1>2
<1>4. "http" \in Hop /\ Consumer \subseteq Hop
  BY DEF Hop
<1>5. StagesTyped
  <2>1. "none" \in Stages /\ "none" \in HttpStage /\ "none" \in ConsumerStage
    BY DEF Stages, HttpStage, ConsumerStage
  <2>2. stage \in [Hop -> [Request -> Stages]]
    BY <1>2, <2>1
  <2>3. QED
    BY <1>3, <1>4, <2>1, <2>2 DEF StagesTyped
<1>6. FlowTypeOK
  <2>1. /\ stage["http"] \in [Request -> HttpStage]
        /\ \A h \in Consumer : stage[h] \in [Request -> ConsumerStage]
    BY <1>5, HopsTyped DEF StagesTyped
  <2>2. NoId \in Id /\ 0 \in Nat /\ 0 \in 0 .. MaxFaults
    BY FlowAssumption DEF Id
  <2>3. NoAnswer \in Answer
    BY <2>2 DEF NoAnswer, Answer
  <2>4. /\ context \in [Hop -> [Request -> Id]] /\ event \in [Hop -> [Request -> Id]]
        /\ given \in [Request -> Id] /\ total \in [Request -> Nat]
        /\ answer \in [Request -> Answer]
    BY <1>2, <2>2, <2>3
  <2>5. /\ body \in [Request -> Bodies \cup {<<>>}]
        /\ row \in [Request -> {Stored(b) : b \in Bodies} \cup {<<>>}]
    BY <1>2
  <2>6. session \in [Get -> SessionStage]
    BY <1>2 DEF SessionStage
  <2>7. QED
    BY <1>1, <1>2, <2>1, <2>2, <2>4, <2>5, <2>6 DEF FlowTypeOK
<1>7. IsFiniteSet(OrdersStored) /\ IsFiniteSet(Queried)
  <2>1. OrdersStored = {} /\ Queried = {}
    BY <1>2 DEF OrdersStored, Queried
  <2>2. QED
    BY <2>1, FS_EmptySet
<1>8. ASSUME NEW r \in Request
      PROVE  TraceHolds(r) /\ RequestHolds(r)
  <2>1. \A h \in Hop : stage[h][r] = "none"
    BY <1>3
  <2>2. row[r] = <<>>
    BY <1>2
  <2>3. TraceHolds(r)
    BY <2>1, HopsAre DEF TraceHolds, Busy, Consumer
  <2>4. RequestHolds(r)
    BY <2>1, <2>2, HopsAre DEF RequestHolds, Sent
  <2>5. QED
    BY <2>3, <2>4
<1>9. QED
  BY <1>1, <1>5, <1>6, <1>7, <1>8 DEF FlowInv

LEMMA FlowSteps ==
  ASSUME FlowInv, [FlowNext]_flowVars
  PROVE  FlowInv'
<1>1. CASE Next /\ Along
  BY <1>1, AlongKeeps
<1>2. CASE \E h \in Consumer : DeclareQueue(h)
  BY <1>2, DeclareQueueKeeps
<1>3. ASSUME NEW r \in Request,
             \/ Post(r) \/ HttpStep(r) \/ StoreFails(r) \/ PublishRaises(r) \/ Notify(r)
             \/ \E h \in Consumer : ConsumerStep(h, r) \/ HandlerFails(h, r)
      PROVE  FlowInv'
  <2>1. CASE Post(r)
    BY <2>1, PostKeeps
  <2>2. CASE HttpStep(r)
    BY <2>2, RefuseKeeps, StoreKeeps, StoreFailsKeeps, PublishKeeps, ConfirmedKeeps,
       CompleteKeeps, PublishRaisesKeeps DEF HttpStep
  <2>3. CASE StoreFails(r)
    BY <2>3, StoreFailsKeeps
  <2>4. CASE PublishRaises(r)
    BY <2>4, PublishRaisesKeeps
  <2>5. CASE Notify(r)
    BY <2>5, NotifyKeeps
  <2>6. ASSUME NEW h \in Consumer, ConsumerStep(h, r) \/ HandlerFails(h, r)
        PROVE  FlowInv'
    BY <2>6, HandleKeeps, PublishNextKeeps, DuplicateKeeps, HandlerFailsKeeps
       DEF ConsumerStep
  <2>7. QED
    BY <1>3, <2>1, <2>2, <2>3, <2>4, <2>5, <2>6
<1>4. CASE \E g \in Get : Query(g) \/ Close(g)
  BY <1>4, QueryKeeps, CloseKeeps
<1>5. CASE UNCHANGED flowVars
  BY <1>5, StutterKeeps
<1>6. QED
  BY <1>1, <1>2, <1>3, <1>4, <1>5 DEF FlowNext

\* Serving requests, order-service still connects as BrokerConnection says:
\* what holds of the broker connection alone holds beside the requests.
THEOREM FlowRunsTheConnection == FlowSpec => Spec
<1>1. FlowInit => Init
  BY DEF FlowInit
<1>2. ASSUME [FlowNext]_flowVars
      PROVE  [Next]_vars
  <2>1. CASE Next /\ Along
    BY <2>1
  <2>2. ASSUME NEW h \in Consumer, DeclareQueue(h)
        PROVE  UNCHANGED vars
    BY <2>2 DEF DeclareQueue
  <2>3. ASSUME NEW r \in Request,
               \/ Post(r) \/ HttpStep(r) \/ StoreFails(r) \/ PublishRaises(r) \/ Notify(r)
        PROVE  UNCHANGED vars
    BY <2>3 DEF HttpStep, Post, Refuse, Store, StoreFails, Publish, Confirmed, PublishRaises,
                Complete, Notify
  <2>4. ASSUME NEW r \in Request, NEW h \in Consumer,
               ConsumerStep(h, r) \/ HandlerFails(h, r)
        PROVE  UNCHANGED vars
    BY <2>4 DEF ConsumerStep, Handle, PublishNext, Duplicate, HandlerFails
  <2>5. ASSUME NEW g \in Get, Query(g) \/ Close(g)
        PROVE  UNCHANGED vars
    BY <2>5 DEF Query, Close
  <2>6. CASE UNCHANGED flowVars
    BY <2>6 DEF flowVars
  <2>7. QED
    BY <1>2, <2>1, <2>2, <2>3, <2>4, <2>5, <2>6 DEF FlowNext
<1>3. QED
  BY <1>1, <1>2, PTL DEF FlowSpec, Spec

\* The await that the connecting coroutine is suspended at agrees with the
\* connection, the channel and the consumer.
THEOREM ConnectionInvariant == Spec => []BrokerInv
<1>1. Init => BrokerInv
  BY BrokerStarts
<1>2. BrokerInv /\ [Next]_vars => BrokerInv'
  BY BrokerSteps
<1>3. QED
  BY <1>1, <1>2, PTL DEF Spec

\* lifespan, the watchdog and RobustConnection keep the types of their
\* variables, and consumers are on a channel of a connection.
THEOREM ConnectionTyped == Spec => []TypeOK
<1>1. BrokerInv => TypeOK
  BY DEF BrokerInv
<1>2. QED
  BY <1>1, ConnectionInvariant, PTL

\* Whenever lifespan ends, wherever the watchdog is: once that has ended, too,
\* no connection is left open, reconnecting, or making its first attempt.
THEOREM StoppedForGood == Spec => []NothingLeftBehind
<1>1. BrokerInv => NothingLeftBehind
  BY DEF BrokerInv
<1>2. QED
  BY <1>1, ConnectionInvariant, PTL

\* A watchdog that dies does so of its backoff, at the attempt whose power of
\* two does not fit a float, and of nothing else.
THEOREM WatchdogDiesOfItsBackoff ==
  Spec => [](task = "dead" => attempt = FloatMaxExponent + 1)
<1>1. BrokerInv => (task = "dead" => attempt = FloatMaxExponent + 1)
  BY DEF BrokerInv
<1>2. QED
  BY <1>1, ConnectionInvariant, PTL

\* Stranded is for good: once the coroutine has ended without a consumer, no
\* recovery of the broker brings one back, and only a restart would.
THEOREM StrandedForGood == Spec => [][Stranded => Stranded']_vars
<1>1. BrokerInv /\ [Next]_vars => [Stranded => Stranded']_vars
  <2> SUFFICES ASSUME BrokerInv, [Next]_vars, Stranded
               PROVE  Stranded' \/ UNCHANGED vars
    OBVIOUS
  <2>1. CASE app = "stopped"
    <3>1. app' = "stopped"
      BY <2>1 DEF BrokerInv, NothingLeftBehind, Next, System, AlreadyConnected, Connect,
           Connected, ConnectFails, Cancelled, OpenChannel, Wake, Declare, NoChannel, Consume, Reconnect, Outage,
           Recovery, Shutdown, vars
    <3>2. QED
      BY <3>1 DEF Stranded
  <2>2. CASE task \in {"idle", "dead"} /\ ~ consumer
    <3>1. task' \in {"idle", "dead"} /\ consumer' = consumer
      BY <2>2 DEF Next, System, AlreadyConnected, Connect, Connected, ConnectFails,
           Cancelled, OpenChannel, Wake,
           Declare, NoChannel, Consume, Reconnect, Outage, Recovery, Shutdown, vars
    <3>2. QED
      BY <2>2, <3>1 DEF Stranded
  <2>3. QED
    BY <2>1, <2>2 DEF Stranded
<1>2. QED
  BY <1>1, ConnectionInvariant, PTL DEF Spec

\* The same with requests, events and consumers at any point.
THEOREM FlowLeavesNothing == FlowSpec => []NothingLeftBehind
  BY FlowRunsTheConnection, StoppedForGood, PTL

\* The steps of a request, its events, its row and its answer agree, in
\* every hop and whatever the broker does.
THEOREM FlowInvariant == FlowSpec => []FlowInv
<1>1. FlowInit => FlowInv
  BY FlowStarts
<1>2. FlowInv /\ [FlowNext]_flowVars => FlowInv'
  BY FlowSteps
<1>3. QED
  BY <1>1, <1>2, PTL DEF FlowSpec

\* The variables of order-service, of its requests and of the hops behind
\* them keep their types.
THEOREM FlowTyped == FlowSpec => []FlowTypeOK
<1>1. FlowInv => FlowTypeOK
  BY DEF FlowInv
<1>2. QED
  BY <1>1, FlowInvariant, PTL

\* Each task that works on an order has the id of its request bound, and
\* each event about it carries that id, through redeliveries and retries.
THEOREM OneIdPerOrder == FlowSpec => []OneTrace
<1>1. FlowInv => OneTrace
  BY DEF FlowInv, TraceHolds, OneTrace, Busy
<1>2. QED
  BY <1>1, FlowInvariant, PTL

\* A 201, a 422 and a 500 say what became of the order and of its event, a
\* pool full of orders and GETs alone turns one away that fits, and /health
\* knows of the consumer.
THEOREM ClientsAreToldTheTruth == FlowSpec => []AnswersAreTrue
<1>1. ASSUME FlowInv
      PROVE  AnswersAreTrue
  <2>1. ASSUME NEW r \in Request, stage["http"][r] = "done"
        PROVE  LET sent == stage["inventory"][r] # "none"
                   stored == GetOrder(r).status = 200
               IN  /\ answer[r].status = 201 =>
                        sent /\ stored /\ \A sum \in {answer[r].total, total[r]} :
                                            sum = GetOrder(r).total
                   /\ answer[r].status = 422 => ~ stored /\ ~ sent
                   /\ sent => stored
                   /\ stored /\ ~ sent => answer[r].status = 500
                   /\ answer[r].status = 500 /\ ~ stored /\ Fits(body[r]) /\ faults = 0 =>
                        Cardinality({q \in Request : row[q] # <<>>})
                          + Cardinality({g \in Get : session[g] # "none"})
                            >= PoolSize
                   /\ answer[r].id = NoId => answer[r].status = 500 /\ stored
    <3>1. /\ AnswerHolds(r)
          /\ answer[r].id = NoId => answer[r].status = 500 /\ row[r] # <<>>
      BY <1>1, <2>1 DEF FlowInv, RequestHolds
    <3>2. /\ GetOrder(r).status = 200 <=> row[r] # <<>>
          /\ row[r] # <<>> => GetOrder(r).total = TotalAmount(row[r])
      BY DEF GetOrder, OrderResponse
    <3>3. QED
      BY <3>1, <3>2 DEF AnswerHolds, Sent, PoolUsed, OrdersStored, Queried
  <2>2. Health = "healthy" /\ outages = 0 =>
          consumer \/ task \in {"channel", "declare", "consume"}
    BY <1>1 DEF FlowInv, BrokerInv, Health, IsConnected
  <2>3. QED
    BY <2>1, <2>2 DEF AnswersAreTrue
<1>2. QED
  BY <1>1, FlowInvariant, PTL
=============================================================================
