----------------------------- MODULE OrderFlow -----------------------------
(***************************************************************************)
(* From a POST to the customer's notification: the requests that           *)
(* order-service serves while BrokerConnection runs in the same process,   *)
(* the events they start, and the correlation id and total these carry     *)
(* from hop to hop; and the reads that share its connection pool.          *)
(*                                                                         *)
(* inventory-service and notification-service appear at any time and then  *)
(* stay connected whenever the broker is there.  A handler runs without an *)
(* await up to its publish.  What it decides, and what its retries come    *)
(* to, is OrderSaga's matter and left out.                                 *)
(***************************************************************************)
EXTENDS BrokerConnection, SequencesExt

CONSTANTS
  Request,      \* calls of POST /v1/orders
  Get,          \* calls of GET /v1/orders/{id} and of GET /health
  Header,       \* Header[r]: the X-Correlation-ID that r comes with, or NoId
  NoId,         \* no correlation id
  Body,         \* Body[r]: the order lines r may hold; <<>> fails its schema
  MaxQuantity,  \* the largest INTEGER
  MaxPrice,     \* the largest NUMERIC(12, 2), in tenths of a cent
  PoolSize,     \* database connections order-service may have, overflow included
  MaxFaults     \* bound: failing statements, publishes and mail servers

ASSUME FlowAssumption ==
  /\ DOMAIN Header = Request
  /\ \A r \in Request : Header[r] \notin Request /\ r # NoId
  /\ DOMAIN Body = Request
  /\ \A r \in Request : Body[r] \subseteq Seq([quantity : Nat \ {0}, price : Nat])
  /\ MaxQuantity \in Nat /\ MaxPrice \in Nat /\ PoolSize \in Nat \ {0}
  /\ MaxFaults \in 0 .. 3  \* three retries: nothing is dead-lettered

VARIABLES
  stage,      \* stage[h][r]: what hop h is doing about request r
  context,    \* context[h][r]: the id bound in the task of that hop
  event,      \* event[h][r]: the correlation_id of the event h consumes
  body,       \* the request's lines, prices in tenths of a cent
  given,      \* correlation_id, the local variable of the middleware
  row,        \* the committed lines of the order, <<>> without one
  total,      \* total_amount of order.created
  answer,     \* the response
  session,    \* session[g]: the database session of the call g of a GET
  processed,  \* processed_events of inventory-service and order-service
  declared,   \* consumers whose queue has been declared and bound
  faults      \* faults so far

requestVars == <<body, given, row, total, answer>>
serverVars == <<session, processed, declared>>
flowVars == <<vars, stage, context, event, requestVars, serverVars, faults>>

Consumer == {"inventory", "order", "notification"}
Hop == Consumer \cup {"http"}
After == [http |-> "inventory", inventory |-> "order", order |-> "notification"]

\* A fresh uuid is named after the request it was made for.
Id == Range(Header) \cup Request \cup {NoId}

\* confirming: published, the broker has not confirmed   raised: it never will
\* returning: a response is on its way through the middleware
HttpStage == {"none", "called", "publishing", "confirming", "raised", "returning", "done"}
\* skipped: acked as a duplicate
ConsumerStage == {"none", "unroutable", "ready", "publishing", "done", "skipped"}

Bodies == UNION {Body[r] : r \in Request}

SessionStage == {"none", "open", "closed"}

Answer == [status : {0, 201, 422, 500}, id : Id, total : Nat]
NoAnswer == [status |-> 0, id |-> NoId, total |-> 0]

OfHops(value) == [h \in Hop |-> [r \in Request |-> value]]

FlowInit ==
  /\ Init
  /\ stage = OfHops("none") /\ context = OfHops(NoId) /\ event = OfHops(NoId)
  /\ body = [r \in Request |-> <<>>] /\ row = [r \in Request |-> <<>>]
  /\ given = [r \in Request |-> NoId] /\ total = [r \in Request |-> 0]
  /\ answer = [r \in Request |-> NoAnswer]
  /\ session = [g \in Get |-> "none"]
  /\ processed = {} /\ declared = {} /\ faults = 0

Goto(h, r, s) == stage' = [stage EXCEPT ![h][r] = s]
Unbind(h, r) == context' = [context EXCEPT ![h][r] = NoId]
Responds(r, status, amount) ==
  answer' = [answer EXCEPT ![r].status = status, ![r].total = amount]
Fault == faults < MaxFaults /\ faults' = faults + 1

-----------------------------------------------------------------------------
(* What an order holds.                                                    *)

\* NUMERIC(12, 2) rounds half a cent up.
Rounded(price) == 10 * ((price + 5) \div 10)
Stored(lines) == [i \in DOMAIN lines |-> [lines[i] EXCEPT !.price = Rounded(@)]]
Fits(lines) ==
  \A i \in DOMAIN lines :
    lines[i].quantity <= MaxQuantity /\ Rounded(lines[i].price) <= MaxPrice
TotalAmount(lines) ==
  FoldLeft(LAMBDA sum, line : sum + line.quantity * line.price, 0, lines)

\* to_order_response, the amount it shows.
OrderResponse(lines) == TotalAmount(lines)

\* GET /v1/orders/{id}.
GetOrder(r) == IF row[r] = <<>> THEN [status |-> 404, total |-> 0]
               ELSE [status |-> 200, total |-> OrderResponse(row[r])]

\* What GET /health says of the broker; it answers 200 whatever it finds.
Health == IF app = "serving" /\ IsConnected THEN "healthy" ELSE "unhealthy"

-----------------------------------------------------------------------------
(* The connection pool of order-service.                                   *)

\* Seeded bug: a request that is refused, or stores nothing, holds one as well.
Holding_Refused ==
  {r \in Request : stage["http"][r] \in {"publishing", "confirming", "raised", "returning"}}

\* refresh begins a transaction that is open until the request's session is
\* closed, after its response; so does the query of a GET.
Holding ==
  {r \in Request : \/ stage["http"][r] \in {"publishing", "confirming", "raised"}
                   \/ stage["http"][r] = "returning" /\ answer[r].status = 201}

Reading == {g \in Get : session[g] = "open"}

\* A checkout blocks the thread that the event loop runs on, so no other
\* session comes to be closed in the meantime, and it times out.
PoolFull == Cardinality(Holding) + Cardinality(Reading) >= PoolSize

Storable(r) == Fits(body[r]) /\ ~ PoolFull

\* get_order or health: one query, without an await.  Refused a connection, it
\* answers 500 or "unhealthy" and leaves no trace.
Query(g) ==
  /\ app = "serving" /\ session[g] = "none" /\ ~ PoolFull
  /\ session' = [session EXCEPT ![g] = "open"]
  /\ UNCHANGED <<vars, stage, context, event, requestVars, processed, declared, faults>>

\* Seeded bug: a session that a GET has used is not closed.
Close_Never(g) == session[g] = "open" /\ UNCHANGED flowVars

\* get_session's finally, which a worker thread runs once the response is out.
Close(g) ==
  /\ session[g] = "open"
  /\ session' = [session EXCEPT ![g] = "closed"]
  /\ UNCHANGED <<vars, stage, context, event, requestVars, processed, declared, faults>>

-----------------------------------------------------------------------------
(* POST /v1/orders.                                                        *)

CorrelationId(r) == IF Header[r] = NoId THEN r ELSE Header[r]

\* Seeded bug: the id is bound for the process, not for the context.
Bind_Global(h, r, id) == context' = [context EXCEPT ![h] = [q \in Request |-> id]]

\* bound_correlation_id: a contextvar, and every task has its context.
Bind(h, r, id) == context' = [context EXCEPT ![h][r] = id]

\* The middleware takes the client's id, or makes one, and calls the route.
Post(r) ==
  /\ app = "serving" /\ stage["http"][r] = "none"
  /\ given' = [given EXCEPT ![r] = CorrelationId(r)]
  /\ Bind("http", r, CorrelationId(r))
  /\ \E lines \in Body[r] : body' = [body EXCEPT ![r] = lines]
  /\ Goto("http", r, "called")
  /\ UNCHANGED <<vars, event, row, total, answer, serverVars, faults>>

\* The schema of the request does not hold: 422.
Refuse(r) ==
  /\ stage["http"][r] = "called" /\ body[r] = <<>>
  /\ Responds(r, 422, 0)
  /\ Goto("http", r, "returning")
  /\ UNCHANGED <<vars, context, event, body, given, row, total, serverVars, faults>>

\* Seeded bug: order.created is built from the request, before it is stored.
Store_FromRequest(r) ==
  /\ stage["http"][r] = "called" /\ body[r] # <<>> /\ Storable(r)
  /\ row' = [row EXCEPT ![r] = Stored(body[r])]
  /\ total' = [total EXCEPT ![r] = TotalAmount(body[r])]
  /\ event' = [event EXCEPT !["inventory"][r] = context["http"][r]]
  /\ Goto("http", r, "publishing")
  /\ UNCHANGED <<vars, context, body, given, answer, serverVars, faults>>

\* add commits and reads the order back; the event is built from that, and
\* from the id bound in the context.
Store(r) ==
  /\ stage["http"][r] = "called" /\ body[r] # <<>> /\ Storable(r)
  /\ row' = [row EXCEPT ![r] = Stored(body[r])]
  /\ total' = [total EXCEPT ![r] = TotalAmount(row'[r])]
  /\ event' = [event EXCEPT !["inventory"][r] = context["http"][r]]
  /\ Goto("http", r, "publishing")
  /\ UNCHANGED <<vars, context, body, given, answer, serverVars, faults>>

\* DatabaseError, which has a handler: no connection, a column too narrow, a
\* statement that failed, or a commit whose answer or refresh did.
StoreFails(r) ==
  /\ stage["http"][r] = "called" /\ body[r] # <<>>
  /\ IF Storable(r)
     THEN Fault /\ \E lines \in {<<>>, Stored(body[r])} : row' = [row EXCEPT ![r] = lines]
     ELSE UNCHANGED <<faults, row>>
  /\ Responds(r, 500, 0)
  /\ Goto("http", r, "returning")
  /\ UNCHANGED <<vars, context, event, body, given, total, serverVars>>

\* Where an event published by hop h goes.
Routed(h) == IF After[h] \in declared THEN "ready" ELSE "unroutable"

\* The orders exchange is there, and the channel to publish to it.
CanPublish == channel /\ IsConnected /\ declared # {}

Publish(r) ==
  /\ stage["http"][r] = "publishing" /\ CanPublish
  /\ stage' = [stage EXCEPT !["http"][r] = "confirming", !["inventory"][r] = Routed("http")]
  /\ UNCHANGED <<vars, context, event, requestVars, serverVars, faults>>

Confirmed(r) ==
  /\ stage["http"][r] = "confirming"
  /\ Responds(r, 201, OrderResponse(row[r]))
  /\ Goto("http", r, "returning")
  /\ UNCHANGED <<vars, context, event, body, given, row, total, serverVars, faults>>

\* publish raised, which has no handler: the exception goes through the
\* middleware, past its log line and its header, to a bare 500.
PublishRaises(r) ==
  /\ \/ stage["http"][r] = "raised"
     \/ stage["http"][r] = "publishing" /\ ~ CanPublish
  /\ Responds(r, 500, 0)
  /\ Unbind("http", r)
  /\ Goto("http", r, "done")
  /\ UNCHANGED <<vars, event, body, given, row, total, serverVars, faults>>

\* The middleware logs the request and echoes its id.
Complete(r) ==
  /\ stage["http"][r] = "returning"
  /\ answer' = [answer EXCEPT ![r].id = given[r]]
  /\ Unbind("http", r)
  /\ Goto("http", r, "done")
  /\ UNCHANGED <<vars, event, body, given, row, total, serverVars, faults>>

-----------------------------------------------------------------------------
(* The consumers.                                                          *)

\* order-service declares its own with BrokerConnection's Declare.
DeclareQueue(h) ==
  /\ h \in {"inventory", "notification"} \ declared /\ up
  /\ declared' = declared \cup {h}
  /\ UNCHANGED <<vars, stage, context, event, requestVars, session, processed, faults>>

Reachable(h) == IF h = "order" THEN Consuming ELSE up

\* The dispatcher binds the id in the body and calls the handler, which
\* commits and awaits its publish; its event carries the id it received.
Handle(h, r) ==
  /\ h # "notification" /\ stage[h][r] = "ready" /\ Reachable(h)
  /\ h = "order" => ~ PoolFull
  /\ <<h, r>> \notin processed
  /\ processed' = processed \cup {<<h, r>>}
  /\ Bind(h, r, event[h][r])
  /\ event' = [event EXCEPT ![After[h]][r] = event[h][r]]
  /\ Goto(h, r, "publishing")
  /\ UNCHANGED <<vars, requestVars, session, declared, faults>>

PublishNext(h, r) ==
  /\ h # "http" /\ stage[h][r] = "publishing"
  /\ stage' = [stage EXCEPT ![h][r] = "done", ![After[h]][r] = Routed(h)]
  /\ Unbind(h, r)
  /\ UNCHANGED <<vars, event, requestVars, serverVars, faults>>

\* register_event finds the event: nothing but an ack.
Duplicate(h, r) ==
  /\ stage[h][r] = "ready" /\ Reachable(h) /\ <<h, r>> \in processed
  /\ h = "order" => ~ PoolFull
  /\ Goto(h, r, "skipped")
  /\ UNCHANGED <<vars, context, event, requestVars, serverVars, faults>>

\* notification-service sends the mail and acks, without an await between.
Notify(r) ==
  /\ stage["notification"][r] = "ready" /\ up
  /\ Goto("notification", r, "done")
  /\ UNCHANGED <<vars, context, event, requestVars, serverVars, faults>>

\* Seeded bug: a failed message is acked without a copy to retry.
HandlerFails_Acks(h, r) ==
  /\ h # "http" /\ Fault
  /\ \/ stage[h][r] = "ready" /\ Reachable(h) /\ <<h, r>> \notin processed
     \/ stage[h][r] = "publishing"
  /\ Goto(h, r, "done")
  /\ Unbind(h, r)
  /\ UNCHANGED <<vars, event, requestVars, serverVars>>

\* The transaction (for want of a connection, too), the mail server or the
\* publish fails: the dispatcher publishes a copy with the same body, whose
\* retry delay is left out.
HandlerFails(h, r) ==
  /\ h # "http" /\ Fault
  /\ \/ stage[h][r] = "ready" /\ Reachable(h) /\ <<h, r>> \notin processed
     \/ stage[h][r] = "publishing"
  /\ Goto(h, r, "ready")
  /\ Unbind(h, r)
  /\ UNCHANGED <<vars, event, requestVars, serverVars>>

-----------------------------------------------------------------------------
(* What the broker does to all this.                                       *)

Lost(h) == IF h \in {"order", "http"} THEN connection = "open" /\ connection' # "open"
           ELSE up /\ ~ up'

\* A delivery whose connection goes is delivered again, a publish that
\* awaits its confirm raises.  uvicorn shuts down after its last response.
Along ==
  /\ app' = "stopped" => /\ \A r \in Request : stage["http"][r] \in {"none", "done"}
                         /\ Reading = {}
  /\ declared' = IF task = "declare" /\ task' = "consume"
                 THEN declared \cup {"order"} ELSE declared
  /\ stage' = [h \in Hop |-> [r \in Request |->
                 CASE Lost(h) /\ h \in Consumer /\ stage[h][r] = "publishing" -> "ready"
                   [] Lost(h) /\ stage[h][r] = "confirming" -> "raised"
                   [] OTHER -> stage[h][r]]]
  /\ context' = [h \in Hop |-> [r \in Request |->
                 IF h \in Consumer /\ Lost(h) THEN NoId ELSE context[h][r]]]
  /\ UNCHANGED <<event, requestVars, session, processed, faults>>

HttpStep(r) ==
  \/ Refuse(r) \/ Store(r) \/ Publish(r) \/ Confirmed(r) \/ Complete(r)
  \/ stage["http"][r] = "called" /\ ~ Storable(r) /\ StoreFails(r)
  \/ connection # "lost" /\ PublishRaises(r)

ConsumerStep(h, r) ==
  Handle(h, r) \/ PublishNext(h, r) \/ Duplicate(h, r)

FlowNext ==
  \/ Next /\ Along
  \/ \E h \in Consumer : DeclareQueue(h)
  \/ \E g \in Get : Query(g) \/ Close(g)
  \/ \E r \in Request :
       \/ Post(r) \/ HttpStep(r) \/ StoreFails(r) \/ PublishRaises(r) \/ Notify(r)
       \/ \E h \in Consumer : ConsumerStep(h, r) \/ HandlerFails(h, r)

FlowSpec == FlowInit /\ [][FlowNext]_flowVars

\* As in BrokerConnection, and a publish that finds its connection lost may
\* wait for it; asyncio runs the requests and the handlers, and threads close the
\* sessions.
FlowFairSpec ==
  /\ FlowSpec
  /\ WF_flowVars(System /\ Along) /\ WF_flowVars(Reconnect /\ Along)
  /\ \A r \in Request : /\ WF_flowVars(HttpStep(r)) /\ WF_flowVars(Notify(r))
                        /\ \A h \in Consumer : WF_flowVars(ConsumerStep(h, r))
  /\ \A g \in Get : WF_flowVars(Close(g))

-----------------------------------------------------------------------------
(* Properties.                                                             *)

\* The variables are typed, BrokerConnection's among them.
FlowTypeOK ==
  /\ TypeOK
  /\ stage["http"] \in [Request -> HttpStage]
  /\ \A h \in Consumer : stage[h] \in [Request -> ConsumerStage]
  /\ context \in [Hop -> [Request -> Id]]
  /\ event \in [Hop -> [Request -> Id]]
  /\ given \in [Request -> Id] /\ body \in [Request -> Bodies \cup {<<>>}]
  /\ row \in [Request -> {Stored(b) : b \in Bodies} \cup {<<>>}]
  /\ total \in [Request -> Nat] /\ answer \in [Request -> Answer]
  /\ session \in [Get -> SessionStage]
  /\ processed \subseteq Consumer \X Request /\ declared \subseteq Consumer
  /\ faults \in 0 .. MaxFaults

\* "Every downstream event of this order's lifecycle can be traced back to
\* the originating request": whatever runs in between, redeliveries and
\* retries too, each task that works on a request has its id bound, and each
\* event of it carries that id.
OneTrace ==
  \A r \in Request, h \in Hop :
    /\ stage[h][r] \in {"called", "publishing", "confirming", "raised", "returning"}
         => context[h][r] = given[r]
    /\ h \in Consumer /\ stage[h][r] # "none" => event[h][r] = given[r]

\* What a client is told is so.  A 201: the order is stored, order.created
\* went out, and it, the response and a later GET agree on the amount.  A
\* 422: nothing happened.  An order without its event was answered 500, and a
\* response without the id is the one of a publish that raised after the
\* commit.  An order that fits is turned away, with nothing failing, only
\* where PoolSize orders were stored or GETs queried the database, and could
\* hold its connections.  "healthy" means consuming, or on the way to it,
\* except after an outage in the middle of that.
AnswersAreTrue ==
  /\ \A r \in Request : stage["http"][r] = "done" =>
       LET sent == stage["inventory"][r] # "none"
           stored == GetOrder(r).status = 200
       IN  /\ answer[r].status = 201 =>
                sent /\ stored /\ \A sum \in {answer[r].total, total[r]} :
                                    sum = GetOrder(r).total
           /\ answer[r].status = 422 => ~ stored /\ ~ sent
           /\ sent => stored
           /\ stored /\ ~ sent => answer[r].status = 500
           /\ answer[r].status = 500 /\ ~ stored /\ Fits(body[r]) /\ faults = 0 =>
                Cardinality({q \in Request : row[q] # <<>>})
                  + Cardinality({g \in Get : session[g] # "none"}) >= PoolSize
           /\ answer[r].id = NoId => answer[r].status = 500 /\ stored
  /\ Health = "healthy" /\ outages = 0 =>
       consumer \/ task \in {"channel", "declare", "consume"}

\* order-service will not consume any more.
Stranded == app = "stopped" \/ (task \in {"idle", "dead"} /\ ~ consumer)

\* "connect_robust then handles any later disconnection on its own": once the
\* broker stays up, every request is answered, and every event published leads
\* to a notification, unless some event of it found no queue, or came again
\* after its handler had committed without publishing, or order-service has
\* stopped or never come to consume.
FlowEnds ==
  <>[]up => []<>(\A r \in Request :
    /\ stage["http"][r] \in {"none", "done"}
    /\ stage["inventory"][r] # "none" =>
         \/ app = "stopped" \/ stage["notification"][r] = "done"
         \/ Stranded /\ \A q \in Request : <<"order", q>> \notin processed
         \/ \E h \in Consumer : stage[h][r] \in {"unroutable", "skipped"})
=============================================================================
