----------------------------- MODULE Assistant -----------------------------
(***************************************************************************)
(* POST /v1/assistant/ask: questions answered by an agent that may only    *)
(* read.  A question passes the rate limit of its client, then loops: take *)
(* a model call from the daily budget, ask the model, run the tools it     *)
(* calls, until it answers or a limit is hit.  Many questions run at once; *)
(* each await is a place where the others, the projection, the clock, a    *)
(* Redis fault or the question's own time limit may come in.               *)
(*                                                                         *)
(* Both limits are counters in Redis, which keeps nothing over a restart.  *)
(***************************************************************************)
EXTENDS Grounding, Integers, Functions

CONSTANTS
  Question,            \* the requests
  Client,              \* the addresses they come from
  Limit,               \* ASK_RATE_LIMIT_PER_MINUTE
  Window,              \* windowSeconds, in ticks
  DailyLimit,          \* LLM_DAILY_CALL_LIMIT
  MaxIterations,       \* maxIterations
  MaxToolCallsPerTurn, \* maxToolCallsPerTurn
  LastHalfDay,         \* bound: half days that pass
  MaxFacts,            \* bound: facts one question or one text names
  MaxFaults,           \* bound: Redis commands that fail
  MaxRestarts          \* bound: restarts of Redis

ASSUME AssistantAssumption ==
  /\ {Limit, Window, DailyLimit, MaxIterations, MaxToolCallsPerTurn} \subseteq Nat \ {0}
  /\ {LastHalfDay, MaxFacts, MaxFaults, MaxRestarts} \subseteq Nat

VARIABLES
  log,       \* the events the read model holds
  ask,       \* ask[q]: the run of execute for question q; its args are the values
             \* the model passed to the tools
  windows,   \* rate-limit:ask:<ip>: hits (0: no key), and ticks until it expires
             \* (0: no expiry)
  taken,     \* model-calls:<day>
  clock,     \* half days; a day of the provider is two of them
  faults, restarts,
  \* History.
  admitted,  \* admitted[c][n]: questions of c let in n ticks ago, since the last restart
  opened,    \* opened[c]: ticks since the window of c was opened
  called,    \* called[d]: calls the provider counts on its day d
  late       \* late[d]: calls taken before d began and not yet answered then

store == <<windows, taken>>
provider == <<called, late>>
vars == <<log, ask, windows, taken, clock, faults, restarts, admitted, opened, called, late>>

Day == 0..((LastHalfDay + 1) \div 2)
Age == 0..(Window - 1)
Few(set) == {some \in SUBSET set : IsFiniteSet(some) /\ Cardinality(some) <= MaxFacts}

Outcomes == {"none", "invalid", "rate_limited", "error", "answered", "no_data",
             "ungrounded", "leaked", "max_iterations"}

Run == [pc : {"new", "turn", "call", "model", "pause", "retrying", "tools", "done"},
        turn : 0..MaxIterations, ran : 0..(MaxToolCallsPerTurn + 1), aborted : BOOLEAN,
        asked : SUBSET Fact, args : SUBSET Value, evidence : Evidence,
        reply : [outcome : Outcomes, facts : SUBSET Fact,
                 citations : SUBSET [order : Order, events : SUBSET Event]]]

Unasked == [pc |-> "new", turn |-> 0, ran |-> 0, aborted |-> FALSE, asked |-> {}, args |-> {},
            evidence |-> NoEvidence, reply |-> Replaced("none")]

Init ==
  /\ log = {} /\ ask = [q \in Question |-> Unasked]
  /\ windows = [c \in Client |-> [count |-> 0, left |-> 0]]
  /\ taken = [d \in Day |-> 0]
  /\ clock = 0 /\ faults = 0 /\ restarts = 0
  /\ admitted = [c \in Client |-> [n \in Age |-> 0]]
  /\ opened = [c \in Client |-> 0]
  /\ called = [d \in Day |-> 0] /\ late = [d \in Day |-> 0]

-----------------------------------------------------------------------------
(* The environment *)

\* order-history projects an event.
Project(e) ==
  /\ e \notin log
  /\ log' = log \cup {e}
  /\ UNCHANGED <<ask, store, clock, faults, restarts, admitted, opened, provider>>

\* Redis expires a key when its time is up, and one without an expiry never.
Aged(w) == CASE w.left > 1 -> [w EXCEPT !.left = @ - 1]
             [] w.left = 1 -> [count |-> 0, left |-> 0]
             [] OTHER -> w

Tick ==
  /\ windows' = [c \in Client |-> Aged(windows[c])]
  /\ opened' = [c \in Client |-> IF Aged(windows[c]).count > 0 THEN opened[c] + 1 ELSE 0]
  /\ admitted' = [c \in Client |-> [n \in Age |-> IF n = 0 THEN 0 ELSE admitted[c][n - 1]]]
  /\ UNCHANGED <<log, ask, taken, clock, faults, restarts, provider>>

ProviderDay == clock \div 2

\* A call was taken for q and the model has not answered it.
Owing(q) == ask[q].pc \in {"call", "model", "pause"}

HalfDay ==
  /\ clock < LastHalfDay
  /\ clock' = clock + 1
  /\ late' = IF ProviderDay' = ProviderDay THEN late
             ELSE [late EXCEPT ![ProviderDay'] = Cardinality({q \in Question : Owing(q)})]
  /\ UNCHANGED <<log, ask, store, faults, restarts, admitted, opened, called>>

\* No RDB, no AOF: every counter is gone.
RedisRestarts ==
  /\ restarts < MaxRestarts
  /\ restarts' = restarts + 1
  /\ windows' = [c \in Client |-> [count |-> 0, left |-> 0]]
  /\ taken' = [d \in Day |-> 0]
  /\ admitted' = [c \in Client |-> [n \in Age |-> 0]]
  /\ opened' = [c \in Client |-> 0]
  /\ UNCHANGED <<log, ask, clock, faults, provider>>

\* The fate of one MULTI: done, refused at once, or done with its reply lost.
Served == "served"
Fates == {Served, "refused", "unanswered"}

RedisFate(fate) ==
  /\ fate # Served => faults < MaxFaults
  /\ faults' = IF fate = Served THEN faults ELSE faults + 1

-----------------------------------------------------------------------------
(* The guard *)

\* Seeded bug: EXPIRE without NX.
Hit_EachHitExpires(w) == [count |-> w.count + 1, left |-> Window]

\* Seeded bug: the expiry is set by a later command, which never comes.
Hit_NoExpiry(w) == [w EXCEPT !.count = @ + 1]

\* hit: INCR, EXPIRE NX and TTL in one MULTI; NX is for a key without an expiry.
Hit(w) == [count |-> w.count + 1, left |-> IF w.left = 0 THEN Window ELSE w.left]

\* Seeded bug: a limiter that cannot count lets the question in.
Admits_FailOpen(fate, w) == fate # Served \/ w.count <= Limit

\* canActivate, once hit has left the window at w: it fails closed.
Admits(fate, w) == fate = Served /\ w.count <= Limit

Ended(q, reply) == [Unasked EXCEPT !.pc = "done", !.asked = ask[q].asked,
                                   !.args = ask[q].args, !.reply = reply]

\* A question arrives from c: the guard, then parseAskRequest.
Ask(q, c, asked, valid, fate) ==
  LET hit == Hit(windows[c])
      begun == [Unasked EXCEPT !.asked = asked]
  IN /\ ask[q].pc = "new"
     /\ RedisFate(fate)
     /\ windows' = IF fate = "refused" THEN windows ELSE [windows EXCEPT ![c] = hit]
     /\ admitted' = IF Admits(fate, hit) THEN [admitted EXCEPT ![c][0] = @ + 1] ELSE admitted
     /\ ask' = [ask EXCEPT ![q] =
                  IF Admits(fate, hit)
                  THEN IF valid THEN [begun EXCEPT !.pc = "turn"]
                       ELSE [begun EXCEPT !.pc = "done", !.reply = Replaced("invalid")]
                  ELSE [begun EXCEPT !.pc = "done",
                          !.reply = Replaced(IF fate = Served THEN "rate_limited" ELSE "error")]]
     /\ UNCHANGED <<log, taken, clock, restarts, opened, provider>>

-----------------------------------------------------------------------------
(* execute *)

End(q, reply) == ask' = [ask EXCEPT ![q] = Ended(q, reply)]
Goto(q, pc) == ask' = [ask EXCEPT ![q].pc = pc]
ServiceSame == UNCHANGED <<log, store, clock, faults, restarts, admitted, opened, provider>>

\* AbortSignal.timeout
Abort(q) ==
  /\ ask[q].pc \notin {"new", "done"} /\ ~ ask[q].aborted
  /\ ask' = [ask EXCEPT ![q].aborted = TRUE]
  /\ ServiceSame

\* Seeded bug: <= for < in the loop.
Exhausted_OneMore(q) == ask[q].turn = MaxIterations + 1

\* The loop has run its turns.
Exhausted(q) == ask[q].turn = MaxIterations

MaxedOut(q) ==
  /\ ask[q].pc = "turn" /\ Exhausted(q)
  /\ End(q, Replaced("max_iterations")) /\ ServiceSame

OutOfTime(q) ==
  /\ ask[q].pc = "turn" /\ ~ Exhausted(q) /\ ask[q].aborted
  /\ End(q, Replaced("error")) /\ ServiceSame

\* Seeded bug: the day is counted in another time zone than the provider's.
QuotaDay_Utc == (clock + 1) \div 2

\* quotaDay
QuotaDay == clock \div 2

\* take: INCR and EXPIRE NX in one MULTI; the key outlives its day.
Take(q, fate) ==
  LET within == taken[QuotaDay] + 1 <= DailyLimit
  IN /\ ask[q].pc = "turn" /\ ~ Exhausted(q) /\ ~ ask[q].aborted
     /\ RedisFate(fate)
     /\ taken' = IF fate = "refused" THEN taken ELSE [taken EXCEPT ![QuotaDay] = @ + 1]
     /\ IF fate = Served /\ within
        THEN Goto(q, "call")
        ELSE End(q, Replaced("error"))
     /\ UNCHANGED <<log, windows, clock, restarts, admitted, opened, provider>>

\* A request reaches the provider.
Request(q, pc) ==
  /\ Goto(q, pc)
  /\ called' = [called EXCEPT ![ProviderDay] = @ + 1]
  /\ UNCHANGED <<log, store, clock, faults, restarts, admitted, opened, late>>

CallModel(q) == ask[q].pc = "call" /\ ~ ask[q].aborted /\ Request(q, "model")

\* generate: the one retry, after the pause.
Retry(q) == ask[q].pc = "pause" /\ ~ ask[q].aborted /\ Request(q, "retrying")

\* Seeded bug: the signal is not passed to the provider's client.
CallAborted_NotSent(q) ==
  /\ ask[q].pc \in {"call", "pause"} /\ ask[q].aborted
  /\ End(q, Replaced("error")) /\ ServiceSame

\* The signal ends a call, and the pause before the retry.
CallAborted(q) ==
  /\ ask[q].pc \in {"call", "model", "pause", "retrying"} /\ ask[q].aborted
  /\ End(q, Replaced("error")) /\ ServiceSame

\* A 500 or a 503 is retried once.
MomentaryFailure(q) ==
  /\ ask[q].pc = "model" /\ ~ ask[q].aborted
  /\ Goto(q, "pause") /\ ServiceSame

\* A 429, a second failure or any other: LlmQuotaExceededError or LlmUnavailableError.
ModelFails(q) ==
  /\ ask[q].pc \in {"model", "retrying"}
  /\ End(q, Replaced("error")) /\ ServiceSame

ModelAnswers(q, text) ==
  /\ ask[q].pc \in {"model", "retrying"}
  /\ \E reply \in GroundAnswer(text, ask[q].asked, ask[q].evidence) : End(q, reply)
  /\ ServiceSame

\* The turn calls tools; which ones is chosen as they run.
ModelCallsTools(q) ==
  /\ ask[q].pc \in {"model", "retrying"}
  /\ ask' = [ask EXCEPT ![q].pc = "tools", ![q].ran = 0]
  /\ ServiceSame

Gather(q, args, run) ==
  /\ ask' = [ask EXCEPT ![q].ran = @ + 1, ![q].args = @ \cup args,
                        ![q].evidence = Add(@, run)]
  /\ ServiceSame

Within(q) == ask[q].pc = "tools" /\ ask[q].ran < MaxToolCallsPerTurn

ReadTimeline(q, id) ==
  /\ Within(q)
  /\ \E run \in (IF id \in Known(log) THEN TimelineFound(log, id) ELSE {TimelineMissing(id)}) :
       Gather(q, {id} \cap Value, run)

SearchOrders(q) == Within(q) /\ \E run \in SearchRuns(log) : Gather(q, {}, run)

SummariseRejections(q) == Within(q) /\ \E run \in SummaryRuns(log) : Gather(q, {}, run)

\* A call the tools refuse, past the cap of the turn or not.
CallRefused(q) ==
  /\ ask[q].pc = "tools" /\ ask[q].ran <= MaxToolCallsPerTurn
  /\ Gather(q, {}, ErrorRun)

\* The database fails a query: a 500.
ToolFails(q) ==
  /\ Within(q)
  /\ End(q, Replaced("error")) /\ ServiceSame

\* The results go back to the model in the next turn.
EndTurn(q) ==
  /\ ask[q].pc = "tools" /\ ask[q].ran > 0
  /\ ask' = [ask EXCEPT ![q].pc = "turn", ![q].turn = @ + 1, ![q].ran = 0]
  /\ ServiceSame

-----------------------------------------------------------------------------
RunTool(q) ==
  \/ \E id \in Order \cup Value : ReadTimeline(q, id)
  \/ SearchOrders(q) \/ SummariseRejections(q) \/ CallRefused(q) \/ ToolFails(q)

\* What the service does by itself, with Redis and Postgres answering or failing.
Advance(q) ==
  \/ MaxedOut(q) \/ OutOfTime(q) \/ \E fate \in Fates : Take(q, fate)
  \/ CallModel(q) \/ Retry(q) \/ CallAborted(q)
  \/ RunTool(q) \/ EndTurn(q)

\* What the provider may answer, or never answer.
ModelReplies(q) ==
  \/ MomentaryFailure(q) \/ ModelFails(q) \/ ModelCallsTools(q)
  \/ \E kind \in {"blank", "instructions", "plain"}, facts \in Few(Fact) :
       ModelAnswers(q, [kind |-> kind, facts |-> facts])

Arrives(q) ==
  \E c \in Client, asked \in Few(Fact), valid \in BOOLEAN, fate \in Fates :
    Ask(q, c, asked, valid, fate)

Next ==
  \/ \E e \in Event : Project(e)
  \/ Tick \/ HalfDay \/ RedisRestarts
  \/ \E q \in Question : Arrives(q) \/ Abort(q) \/ Advance(q) \/ ModelReplies(q)

Spec == Init /\ [][Next]_vars

\* A timer fires, and a query or a command ends: the provider alone may hang.
FairSpec == Spec /\ \A q \in Question : WF_vars(Advance(q)) /\ WF_vars(Abort(q))

-----------------------------------------------------------------------------
(* Properties *)

\* Every variable keeps to its type: a turn past MaxIterations, a tool call past
\* the cap of its turn, a counter that goes wrong.
TypeOK ==
  /\ log \subseteq Event
  /\ ask \in [Question -> Run]
  /\ windows \in [Client -> [count : Nat, left : 0..Window]]
  /\ taken \in [Day -> Nat] /\ clock \in 0..LastHalfDay
  /\ faults \in 0..MaxFaults /\ restarts \in 0..MaxRestarts
  /\ admitted \in [Client -> [Age -> Nat]] /\ opened \in [Client -> Nat]
  /\ {called, late} \subseteq [Day -> Nat]

\* The fixed window lets in less than twice the limit in any stretch of its length
\* (ADR-0023: "hasta el doble del limite"; the hit that opened the window before
\* lies outside of the stretch), whatever Redis commands fail.
BurstBound ==
  \A c \in Client : FoldFunction(+, 0, admitted[c]) < 2 * Limit

\* A client that keeps asking is not shut out for ever: every window ends, at
\* most Window ticks after the hit that opened it.
WindowEnds == \A c \in Client : opened[c] < Window

\* On a day of the provider's quota it sees at most two requests (the call and
\* its retry) for each call of that day's budget, anew after each restart of
\* Redis, and for each call taken just before midnight.
ProviderDayBound ==
  \A d \in Day : called[d] <= 2 * (DailyLimit * (1 + restarts) + late[d])

\* An answer that was not replaced is about what is there: the IDs it names are
\* those of the question or of the read model, its values too (or the model's own
\* arguments, or a number of known orders taken for an amount), and each citation
\* is an order with events of that order.
AnswersAreGrounded ==
  \A q \in Question :
    LET reply == ask[q].reply
    IN /\ reply.facts \subseteq
            ask[q].asked \cup ask[q].args \cup Known(log) \cup log
              \cup ValuesIn(log) \cup CountsOf(Known(log))
       /\ \A cite \in reply.citations : cite.order \in Known(log)
                                        /\ cite.events \subseteq EventsOf(log, {cite.order})

\* An answer can be checked: the order of every ID in it that the question did
\* not bring is cited, as long as it names no more orders than may be cited.
NamedIsCited ==
  \A q \in Question :
    LET reply == ask[q].reply
        named == (reply.facts \cap Order) \cup {OrderOf[e] : e \in reply.facts \cap Event}
    IN Cardinality(named) <= MaxCitations =>
         \A id \in (reply.facts \ Value) \ ask[q].asked :
           \E cite \in reply.citations : id = cite.order \/ id \in cite.events

\* Every question that is let in ends, even when the model never answers.
QuestionsEnd == \A q \in Question : (ask[q].pc # "new") ~> (ask[q].pc = "done")
=============================================================================
