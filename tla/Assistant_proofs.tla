-------------------------- MODULE Assistant_proofs --------------------------
(***************************************************************************)
(* Proofs about Assistant, for any number of questions at once, any limits *)
(* and any read model.  The invariant has three parts that each action     *)
(* preserves on its own: the questions, the windows of the rate limit, and *)
(* the budget of model calls.                                              *)
(***************************************************************************)
EXTENDS Assistant, SetSums, TLAPS

-----------------------------------------------------------------------------
(* The inductive invariant: the questions.                                 *)

Looping == {"call", "model", "pause", "retrying", "tools"}

\* What NamedIsCited says of one answer.
CitesNamed(reply, asked) ==
  LET named == (reply.facts \cap Order) \cup {OrderOf[e] : e \in reply.facts \cap Event}
  IN  Cardinality(named) <= MaxCitations =>
        \A id \in (reply.facts \ Value) \ asked :
          \E cite \in reply.citations : id = cite.order \/ id \in cite.events

\* The values that an output about the read model may show.
Held(L) == ValuesIn(L) \cup CountsOf(Known(L))

\* The evidence of a run is what the read model holds, with the order of
\* every event, or the model's own arguments.
EvidenceHeld(run, L) ==
  /\ run.evidence.orders \subseteq Known(L) /\ run.evidence.events \subseteq L
  /\ run.evidence.values \subseteq run.args \cup Held(L)
  /\ \A e \in run.evidence.events : OrderOf[e] \in run.evidence.orders

ReplyHolds(reply, asked, args, L) ==
  /\ reply.facts \subseteq asked \cup args \cup Known(L) \cup L \cup Held(L)
  /\ \A cite \in reply.citations : cite.order \in Known(L)
                                   /\ cite.events \subseteq EventsOf(L, {cite.order})
  /\ CitesNamed(reply, asked)

RunHolds(run, L) ==
  /\ run.pc \in Looping => run.turn < MaxIterations
  /\ EvidenceHeld(run, L)
  /\ ReplyHolds(run.reply, run.asked, run.args, L)

\* The questions in some of the stages.
Asking(pcs) == {q \in Question : ask[q].pc \in pcs}

Begun == {q \in Question : ask[q].pc # "new"}

QuestionsInv ==
  /\ log \subseteq Event /\ ask \in [Question -> Run] /\ IsFiniteSet(Begun)
  /\ \A q \in Question : RunHolds(ask[q], log)

-----------------------------------------------------------------------------
(* Answers and evidence.                                                   *)

Reply == [outcome : Outcomes, facts : SUBSET Fact,
          citations : SUBSET [order : Order, events : SUBSET Event]]

LEMMA ReplacedLemma ==
  ASSUME NEW outcome \in Outcomes, NEW asked, NEW args, NEW L
  PROVE  Replaced(outcome) \in Reply /\ ReplyHolds(Replaced(outcome), asked, args, L)
BY DEF Replaced, Reply, ReplyHolds, CitesNamed

LEMMA NoEvidenceLemma == NoEvidence \in Evidence
BY DEF NoEvidence, Evidence

LEMMA UnaskedLemma ==
  ASSUME NEW L
  PROVE  Unasked \in Run /\ RunHolds(Unasked, L)
<1>1. Replaced("none") \in Reply /\ ReplyHolds(Replaced("none"), {}, {}, L)
  BY ReplacedLemma DEF Outcomes
<1>2. Unasked \in Run
  <2>1. 0 \in 0 .. MaxIterations /\ 0 \in 0 .. (MaxToolCallsPerTurn + 1)
    BY AssistantAssumption
  <2>2. QED
    BY <1>1, <2>1, NoEvidenceLemma DEF Unasked, Run, Reply
<1>3. RunHolds(Unasked, L)
  BY <1>1 DEF RunHolds, Unasked, EvidenceHeld, NoEvidence, Looping
<1>4. QED
  BY <1>2, <1>3

\* What held when the read model was smaller goes on holding.
LEMMA RunHoldsLater ==
  ASSUME NEW L, NEW M, L \subseteq M, M \subseteq Event, NEW run \in Run, RunHolds(run, L)
  PROVE  RunHolds(run, M)
<1>1. Known(L) \subseteq Known(M) /\ Held(L) \subseteq Held(M)
  <2>1. Known(L) \subseteq Known(M) /\ ValuesIn(L) \subseteq ValuesIn(M)
    BY DEF Known, ValuesIn
  <2>2. CountsOf(Known(L)) \subseteq CountsOf(Known(M))
    BY <2>1 DEF CountsOf, Sizes
  <2>3. QED
    BY <2>1, <2>2 DEF Held
<1>2. \A o : EventsOf(L, {o}) \subseteq EventsOf(M, {o})
  BY DEF EventsOf
<1>3. EvidenceHeld(run, M)
  BY <1>1 DEF RunHolds, EvidenceHeld
<1>4. ReplyHolds(run.reply, run.asked, run.args, M)
  <2>1. run.reply.facts \subseteq run.asked \cup run.args \cup Known(M) \cup M \cup Held(M)
    BY <1>1 DEF RunHolds, ReplyHolds
  <2>2. \A cite \in run.reply.citations : cite.order \in Known(M)
                                          /\ cite.events \subseteq EventsOf(M, {cite.order})
    BY <1>1, <1>2 DEF RunHolds, ReplyHolds
  <2>3. QED
    BY <2>1, <2>2 DEF RunHolds, ReplyHolds
<1>5. QED
  BY <1>3, <1>4 DEF RunHolds

\* A citation per order listed, and of all the orders where they may all be.
LEMMA ListingsLemma ==
  ASSUME NEW orders, NEW evidence, NEW cites \in Listings(orders, evidence)
  PROVE  \E listed \in SUBSET orders :
           /\ cites = {[order |-> o, events |-> {e \in evidence.events : OrderOf[e] = o}] :
                         o \in listed}
           /\ IsFiniteSet(orders) /\ Cardinality(orders) <= MaxCitations => listed = orders
<1> DEFINE room == IF Cardinality(orders) < MaxCitations THEN Cardinality(orders)
                                                        ELSE MaxCitations
<1>1. PICK listed \in SUBSET orders :
        /\ Cardinality(listed) = room
        /\ cites = {[order |-> o, events |-> {e \in evidence.events : OrderOf[e] = o}] :
                      o \in listed}
  BY DEF Listings
<1>2. ASSUME IsFiniteSet(orders), Cardinality(orders) <= MaxCitations
      PROVE  listed = orders
  <2>1. Cardinality(orders) \in Nat /\ MaxCitations \in Nat
    BY <1>2, FS_CardinalityType, GroundingAssumption
  <2>2. Cardinality(listed) = Cardinality(orders)
    BY <1>1, <1>2, <2>1
  <2>3. QED
    BY <1>2, <2>2, FS_Subset
<1>3. QED
  BY <1>1, <1>2

LEMMA OrdersFinite ==
  ASSUME NEW S, IsFiniteSet(S)
  PROVE  IsFiniteSet({OrderOf[e] : e \in S})
<1> DEFINE T == {OrderOf[e] : e \in S}
           f == [e \in S |-> OrderOf[e]]
<1>1. f \in Surjection(S, T)
  BY DEF Surjection
<1> HIDE DEF f
<1>2. QED
  BY <1>1, FS_Surjection

\* The check of the final text: what it lets through is held, and cited.
LEMMA GroundAnswerLemma ==
  ASSUME NEW run \in Run, NEW L, L \subseteq Event, RunHolds(run, L),
         NEW facts \in SUBSET Fact, IsFiniteSet(facts),
         NEW kind \in {"blank", "instructions", "plain"},
         NEW reply \in GroundAnswer([kind |-> kind, facts |-> facts], run.asked, run.evidence)
  PROVE  reply \in Reply /\ ReplyHolds(reply, run.asked, run.args, L)
<1> DEFINE evidence == run.evidence
           cited == Cited(facts, evidence)
           orders == IF cited # {} THEN cited ELSE evidence.orders
<1>1. CASE \E outcome \in Outcomes : reply = Replaced(outcome)
  BY <1>1, ReplacedLemma
<1>2. CASE ~ \E outcome \in Outcomes : reply = Replaced(outcome)
  <2>1. /\ kind = "plain" /\ Invented(facts, run.asked, evidence) = {}
        /\ \E cites \in Citations(facts, evidence) :
             reply = [outcome |-> IF cites # {} THEN "answered" ELSE "no_data",
                      facts |-> facts, citations |-> cites]
    BY <1>2 DEF GroundAnswer, Outcomes
  <2>2. PICK cites \in Listings(orders, evidence) :
          reply = [outcome |-> IF cites # {} THEN "answered" ELSE "no_data",
                   facts |-> facts, citations |-> cites]
    BY <2>1 DEF Citations
  <2>3. evidence \in Evidence /\ run.asked \in SUBSET Fact
    BY DEF Run
  <2>4. orders \subseteq evidence.orders /\ evidence.orders \subseteq Order
        /\ evidence.events \subseteq Event
    BY <2>3 DEF Cited, Evidence
  <2>5. PICK listed \in SUBSET orders :
          /\ cites = {[order |-> o, events |-> {e \in evidence.events : OrderOf[e] = o}] :
                        o \in listed}
          /\ IsFiniteSet(orders) /\ Cardinality(orders) <= MaxCitations => listed = orders
    BY ListingsLemma
  <2>6. EvidenceHeld(run, L)
    BY DEF RunHolds
  <2> HIDE DEF orders, evidence
  <2>7. cites \subseteq [order : Order, events : SUBSET Event]
    BY <2>4, <2>5
  <2>8. reply \in Reply
    BY <2>2, <2>7 DEF Reply, Outcomes
  <2>9. reply.facts \subseteq run.asked \cup run.args \cup Known(L) \cup L \cup Held(L)
    <3>1. facts \subseteq run.asked \cup evidence.orders \cup evidence.events \cup evidence.values
      BY <2>1 DEF Invented
    <3>2. QED
      BY <2>2, <2>6, <3>1 DEF EvidenceHeld, evidence
  <2>10. \A cite \in reply.citations : cite.order \in Known(L)
                                       /\ cite.events \subseteq EventsOf(L, {cite.order})
    <3>1. evidence.orders \subseteq Known(L) /\ evidence.events \subseteq L
      BY <2>6 DEF EvidenceHeld, evidence
    <3>2. QED
      BY <2>2, <2>4, <2>5, <3>1 DEF EventsOf
  <2>11. CitesNamed(reply, run.asked)
    <3> DEFINE named == (facts \cap Order) \cup {OrderOf[e] : e \in facts \cap Event}
    <3>1. SUFFICES ASSUME Cardinality(named) <= MaxCitations,
                          NEW id \in (facts \ Value) \ run.asked
                   PROVE  \E cite \in cites : id = cite.order \/ id \in cite.events
      BY <2>2 DEF CitesNamed
    <3>2. id \in evidence.orders \/ id \in evidence.events
      BY <2>1, <2>3, <3>1 DEF Invented, Evidence, evidence
    <3> DEFINE o == IF id \in evidence.orders THEN id ELSE OrderOf[id]
    <3>3. o \in cited /\ (id = o \/ (id \in evidence.events /\ OrderOf[id] = o))
      BY <2>6, <3>1, <3>2 DEF Cited, EvidenceHeld, evidence
    <3>4. orders = cited
      BY <3>3 DEF orders
    <3>5. cited \in SUBSET named
      BY <2>4 DEF Cited, evidence
    <3>6. IsFiniteSet(named)
      <4>1. IsFiniteSet(facts \cap Order) /\ IsFiniteSet(facts \cap Event)
        BY FS_Subset
      <4>2. IsFiniteSet({OrderOf[e] : e \in facts \cap Event})
        BY <4>1, OrdersFinite
      <4>3. QED
        BY <4>1, <4>2, FS_Union
    <3>7. IsFiniteSet(cited) /\ Cardinality(cited) <= Cardinality(named)
          /\ Cardinality(named) \in Nat /\ Cardinality(cited) \in Nat
      <4> HIDE DEF named, cited
      <4>1. QED
        BY <3>5, <3>6, FS_Subset, FS_CardinalityType
    <3>8. Cardinality(cited) <= MaxCitations
      BY <3>1, <3>7, GroundingAssumption
    <3>9. o \in listed
      BY <2>5, <3>3, <3>4, <3>7, <3>8
    <3> DEFINE cite == [order |-> o, events |-> {e \in evidence.events : OrderOf[e] = o}]
    <3>10. cite \in cites /\ cite.order = o
      BY <2>5, <3>9
    <3>11. id = cite.order \/ id \in cite.events
      BY <3>3
    <3> HIDE DEF cite
    <3>12. QED
      BY <3>10, <3>11
  <2>12. QED
    BY <2>8, <2>9, <2>10, <2>11 DEF ReplyHolds
<1>3. QED
  BY <1>1, <1>2

-----------------------------------------------------------------------------
(* The steps of a question.                                                *)

Stages == {"new", "turn", "call", "model", "pause", "retrying", "tools", "done"}

\* Question q goes on to a stage of its run.
MovesTo(q, pc) ==
  \E run \in Run : ask' = [ask EXCEPT ![q] = run] /\ run.pc = pc /\ RunHolds(run, log)

LEMMA EndMoves ==
  ASSUME QuestionsInv, NEW q \in Question, NEW reply \in Reply, End(q, reply),
         ReplyHolds(reply, ask[q].asked, ask[q].args, log)
  PROVE  MovesTo(q, "done")
<1> PICK run : run = Ended(q, reply)
  OBVIOUS
<1>1. ask[q] \in Run /\ Unasked \in Run /\ RunHolds(Unasked, log)
  BY UnaskedLemma DEF QuestionsInv
<1>2. /\ run = [Unasked EXCEPT !.pc = "done", !.asked = ask[q].asked, !.args = ask[q].args,
                               !.reply = reply]
      /\ ask' = [ask EXCEPT ![q] = run]
  BY DEF End, Ended
<1>3. run \in Run
  BY <1>1, <1>2 DEF Run, Reply
<1>4. run.pc = "done" /\ run.asked = ask[q].asked /\ run.args = ask[q].args
      /\ run.reply = reply /\ run.evidence = NoEvidence
  BY <1>2 DEF Unasked
<1>5. RunHolds(run, log)
  BY <1>4 DEF RunHolds, EvidenceHeld, NoEvidence, Looping
<1>6. QED
  BY <1>2, <1>3, <1>4, <1>5 DEF MovesTo

LEMMA ReplacedMoves ==
  ASSUME QuestionsInv, NEW q \in Question, NEW outcome \in Outcomes,
         End(q, Replaced(outcome))
  PROVE  MovesTo(q, "done")
BY ReplacedLemma, EndMoves

LEMMA GotoMoves ==
  ASSUME QuestionsInv, NEW q \in Question, NEW pc \in Stages, Goto(q, pc),
         pc \in Looping => ask[q].turn < MaxIterations
  PROVE  MovesTo(q, pc)
<1> PICK run : run = [ask[q] EXCEPT !.pc = pc]
  OBVIOUS
<1>1. ask[q] \in Run /\ RunHolds(ask[q], log) /\ ask \in [Question -> Run]
  BY DEF QuestionsInv
<1>2. run \in Run /\ run.pc = pc
  BY <1>1 DEF Run, Stages
<1>3. ask' = [ask EXCEPT ![q] = run]
  BY <1>1 DEF Goto
<1>4. /\ run.turn = ask[q].turn /\ run.evidence = ask[q].evidence /\ run.args = ask[q].args
      /\ run.reply = ask[q].reply /\ run.asked = ask[q].asked
  BY <1>1 DEF Run
<1>5. RunHolds(run, log)
  BY <1>1, <1>2, <1>4 DEF RunHolds, EvidenceHeld
<1>6. QED
  BY <1>2, <1>3, <1>5 DEF MovesTo

\* A tool returns what is there, or the argument it was given.
LEMMA GatherMoves ==
  ASSUME QuestionsInv, NEW q \in Question, NEW args \in SUBSET Value, NEW found \in Evidence,
         Gather(q, args, found), ask[q].pc = "tools", ask[q].ran <= MaxToolCallsPerTurn,
         found.orders \subseteq Known(log), found.events \subseteq log,
         found.values \subseteq args \cup Held(log),
         \A e \in found.events : OrderOf[e] \in found.orders
  PROVE  MovesTo(q, "tools")
<1> DEFINE was == ask[q]
<1>1. was \in Run /\ RunHolds(was, log) /\ ask \in [Question -> Run]
  BY DEF QuestionsInv
<1> PICK evidence : evidence = Add(was.evidence, found)
  OBVIOUS
<1> PICK run : run = [was EXCEPT !.ran = @ + 1, !.args = @ \cup args, !.evidence = evidence]
  OBVIOUS
<1>2. ask' = [ask EXCEPT ![q] = run]
  BY <1>1 DEF Gather
<1>3. /\ evidence \in Evidence
      /\ evidence.orders = was.evidence.orders \cup found.orders
      /\ evidence.events = was.evidence.events \cup found.events
      /\ evidence.values = was.evidence.values \cup found.values
  BY <1>1 DEF Add, Evidence, Run
<1>4. was.ran + 1 \in 0 .. (MaxToolCallsPerTurn + 1)
  BY <1>1, AssistantAssumption DEF Run
<1>5. run \in Run
  BY <1>1, <1>3, <1>4 DEF Run
<1>6. /\ run.pc = "tools" /\ run.turn = was.turn /\ run.evidence = evidence
      /\ run.args = was.args \cup args /\ run.reply = was.reply /\ run.asked = was.asked
  BY <1>1 DEF Run
<1>7. EvidenceHeld(run, log)
  <2>1. EvidenceHeld(was, log)
    BY <1>1 DEF RunHolds
  <2>2. QED
    BY <1>3, <1>6, <2>1 DEF EvidenceHeld
<1>8. ReplyHolds(run.reply, run.asked, run.args, log)
  BY <1>1, <1>6 DEF RunHolds, ReplyHolds
<1>9. RunHolds(run, log)
  BY <1>1, <1>6, <1>7, <1>8 DEF RunHolds
<1>10. QED
  BY <1>2, <1>5, <1>6, <1>9 DEF MovesTo

\* How many orders a run found is a count of known orders.
LEMMA CountsHeld ==
  ASSUME NEW L, NEW some \in SUBSET SUBSET Known(L)
  PROVE  Sizes(some) \subseteq Held(L)
BY DEF Sizes, CountsOf, Held

LEMMA RunToolMoves ==
  ASSUME QuestionsInv, NEW q \in Question, RunTool(q)
  PROVE  ask[q].pc = "tools" /\ (MovesTo(q, "tools") \/ MovesTo(q, "done"))
<1>1. /\ log \subseteq Event /\ ask[q] \in Run /\ OrderOf \in [Event -> Order]
      /\ Carries \in [Event -> SUBSET Value]
      /\ ask[q].ran \in Int /\ MaxToolCallsPerTurn \in Nat
  BY GroundingAssumption, AssistantAssumption DEF QuestionsInv, Run
<1>2. /\ Known(log) \subseteq Order /\ ValuesIn(log) \subseteq Held(log)
      /\ Held(log) \subseteq Value
      /\ Rejected(log) \subseteq Known(log)
      /\ \A orders : /\ EventsOf(log, orders) \subseteq log
                     /\ ValuesIn(EventsOf(log, orders)) \subseteq ValuesIn(log)
  BY <1>1 DEF Known, Rejected, ValuesIn, EventsOf, Held, CountsOf, Sizes
<1>3. Within(q) => ask[q].pc = "tools" /\ ask[q].ran <= MaxToolCallsPerTurn
  BY <1>1 DEF Within
<1>4. ASSUME NEW id \in Order \cup Value, ReadTimeline(q, id)
      PROVE  ask[q].pc = "tools" /\ MovesTo(q, "tools")
  <2>1. PICK found \in (IF id \in Known(log) THEN TimelineFound(log, id)
                                             ELSE {TimelineMissing(id)}) :
          Gather(q, {id} \cap Value, found)
    BY <1>4 DEF ReadTimeline
  <2>2. /\ found \in Evidence
        /\ found.orders \subseteq Known(log) /\ found.events \subseteq log
        /\ found.values \subseteq ({id} \cap Value) \cup Held(log)
        /\ \A e \in found.events : OrderOf[e] \in found.orders
    <3>1. CASE id \in Known(log)
      <4>1. PICK seen \in SUBSET EventsOf(log, {id}) :
              found = [orders |-> {id}, events |-> seen, values |-> ValuesIn(seen)]
        BY <2>1, <3>1 DEF TimelineFound
      <4>2. /\ seen \subseteq log /\ \A e \in seen : OrderOf[e] = id
            /\ ValuesIn(seen) \subseteq ValuesIn(log)
        BY <1>2 DEF EventsOf, ValuesIn
      <4>3. QED
        BY <1>1, <1>2, <3>1, <4>1, <4>2 DEF Evidence
    <3>2. CASE id \notin Known(log)
      BY <2>1, <3>2 DEF TimelineMissing, Evidence
    <3>3. QED
      BY <3>1, <3>2
  <2>3. QED
    BY <1>3, <1>4, <2>1, <2>2, GatherMoves DEF ReadTimeline
<1>5. ASSUME SearchOrders(q)
      PROVE  ask[q].pc = "tools" /\ MovesTo(q, "tools")
  <2>1. PICK found \in SearchRuns(log) : Gather(q, {}, found)
    BY <1>5 DEF SearchOrders
  <2>2. PICK known \in SUBSET Known(log) :
          \E shown \in SUBSET ValuesIn(EventsOf(log, known)) :
            found = [orders |-> known, events |-> {},
                     values |-> shown \cup Sizes({known})]
    BY <2>1 DEF SearchRuns
  <2>3. /\ found \in Evidence
        /\ found.orders \subseteq Known(log) /\ found.events \subseteq log
        /\ found.values \subseteq {} \cup Held(log)
        /\ \A e \in found.events : OrderOf[e] \in found.orders
    <3>1. Sizes({known}) \subseteq Held(log)
      BY CountsHeld
    <3>2. QED
      BY <1>2, <2>2, <3>1 DEF Evidence
  <2>4. QED
    BY <1>3, <1>5, <2>1, <2>3, GatherMoves DEF SearchOrders
<1>6. ASSUME SummariseRejections(q)
      PROVE  ask[q].pc = "tools" /\ MovesTo(q, "tools")
  <2>1. PICK found \in SummaryRuns(log) : Gather(q, {}, found)
    BY <1>6 DEF SummariseRejections
  <2>2. PICK matched \in SUBSET Rejected(log) :
          \E named \in SUBSET matched, shown \in SUBSET ValuesIn(EventsOf(log, matched)),
             counted \in Counted(log, matched) :
            found = [orders |-> named, events |-> {}, values |-> shown \cup Sizes(counted)]
    BY <2>1 DEF SummaryRuns
  <2>3. /\ found \in Evidence
        /\ found.orders \subseteq Known(log) /\ found.events \subseteq log
        /\ found.values \subseteq {} \cup Held(log)
        /\ \A e \in found.events : OrderOf[e] \in found.orders
    <3>1. PICK named \in SUBSET matched, shown \in SUBSET ValuesIn(EventsOf(log, matched)),
               counted \in Counted(log, matched) :
            found = [orders |-> named, events |-> {}, values |-> shown \cup Sizes(counted)]
      BY <2>2
    <3>2. counted \subseteq SUBSET Known(log)
      BY <1>2 DEF Counted, Groupings
    <3>3. Sizes(counted) \subseteq Held(log)
      BY <3>2, CountsHeld
    <3>4. QED
      BY <1>2, <3>1, <3>3 DEF Evidence
  <2>4. QED
    BY <1>3, <1>6, <2>1, <2>3, GatherMoves DEF SummariseRejections
<1>7. ASSUME CallRefused(q)
      PROVE  ask[q].pc = "tools" /\ MovesTo(q, "tools")
  <2>1. /\ ErrorRun \in Evidence /\ ErrorRun.orders = {} /\ ErrorRun.events = {}
        /\ ErrorRun.values = {}
    BY NoEvidenceLemma DEF ErrorRun, NoEvidence
  <2>2. Gather(q, {}, ErrorRun) /\ ask[q].pc = "tools" /\ ask[q].ran <= MaxToolCallsPerTurn
    BY <1>7 DEF CallRefused
  <2> HIDE DEF ErrorRun
  <2>3. QED
    BY <2>1, <2>2, GatherMoves
<1>8. ASSUME ToolFails(q)
      PROVE  ask[q].pc = "tools" /\ MovesTo(q, "done")
  BY <1>3, <1>8, ReplacedMoves DEF ToolFails, Outcomes
<1>9. QED
  BY <1>4, <1>5, <1>6, <1>7, <1>8 DEF RunTool

\* What a stage may still request of the provider.
Weight(pc) == IF pc = "call" THEN 2 ELSE IF pc \in {"model", "pause"} THEN 1 ELSE 0

\* Question q goes on, with no more requests to make than before.
Eases(q) ==
  \E pc \in Stages \ {"new"} : MovesTo(q, pc) /\ Weight(pc) <= Weight(ask[q].pc)

LEMMA RestEases ==
  ASSUME NEW q \in Question, NEW pc \in {"turn", "tools", "done"}, MovesTo(q, pc)
  PROVE  Eases(q)
<1>1. pc \in Stages \ {"new"}
  BY DEF Stages
<1>2. Weight(pc) <= Weight(ask[q].pc)
  BY DEF Weight
<1>3. QED
  BY <1>1, <1>2 DEF Eases

LEMMA AskEases ==
  ASSUME QuestionsInv, NEW q \in Question, NEW c \in Client, NEW asked \in SUBSET Fact,
         NEW valid \in BOOLEAN, NEW fate \in Fates, Ask(q, c, asked, valid, fate)
  PROVE  Eases(q)
<1> DEFINE hit == Hit(windows[c])
           begun == [Unasked EXCEPT !.asked = asked]
<1> PICK run : run = IF Admits(fate, hit)
                     THEN IF valid THEN [begun EXCEPT !.pc = "turn"]
                          ELSE [begun EXCEPT !.pc = "done", !.reply = Replaced("invalid")]
                     ELSE [begun EXCEPT !.pc = "done",
                             !.reply = Replaced(IF fate = Served THEN "rate_limited" ELSE "error")]
  OBVIOUS
<1>1. ask' = [ask EXCEPT ![q] = run] /\ ask[q].pc = "new"
  BY DEF Ask
<1>2. Unasked \in Run
  BY UnaskedLemma
<1>3. /\ run \in Run /\ run.pc \in {"turn", "done"} /\ run.evidence = NoEvidence
      /\ \E reply \in {"none", "invalid", "rate_limited", "error"} : run.reply = Replaced(reply)
  <2>1. \A reply \in {"none", "invalid", "rate_limited", "error"} : Replaced(reply) \in Reply
    BY ReplacedLemma DEF Outcomes
  <2>2. Unasked.evidence = NoEvidence /\ Unasked.reply = Replaced("none")
    BY DEF Unasked
  <2>3. CASE Admits(fate, hit) /\ valid
    <3>1. run = [Unasked EXCEPT !.asked = asked, !.pc = "turn"]
      BY <2>3
    <3>2. run \in Run /\ run.pc = "turn" /\ run.evidence = Unasked.evidence
          /\ run.reply = Unasked.reply
      BY <1>2, <3>1, ZenonT(40) DEF Run
    <3>3. QED
      BY <2>2, <3>2
  <2>4. ASSUME NEW reply \in {"none", "invalid", "rate_limited", "error"},
               run = [Unasked EXCEPT !.asked = asked, !.pc = "done", !.reply = Replaced(reply)]
        PROVE  run \in Run /\ run.pc = "done" /\ run.evidence = NoEvidence
               /\ run.reply = Replaced(reply)
    <3>1. Replaced(reply) \in Reply
      BY <2>1
    <3>2. QED
      BY <1>2, <2>2, <2>4, <3>1, ZenonT(40) DEF Run, Reply
  <2>5. CASE Admits(fate, hit) /\ ~ valid
    BY <2>4, <2>5
  <2>6. CASE ~ Admits(fate, hit)
    BY <2>4, <2>6
  <2>7. QED
    BY <2>3, <2>5, <2>6
<1>4. PICK reply \in {"none", "invalid", "rate_limited", "error"} : run.reply = Replaced(reply)
  BY <1>3
<1>5. ReplyHolds(Replaced(reply), run.asked, run.args, log)
  BY ReplacedLemma DEF Outcomes
<1>6. RunHolds(run, log)
  BY <1>3, <1>4, <1>5 DEF RunHolds, EvidenceHeld, NoEvidence, Looping
<1>7. MovesTo(q, run.pc)
  BY <1>1, <1>3, <1>6 DEF MovesTo
<1>8. QED
  BY <1>3, <1>7, RestEases

LEMMA AbortEases ==
  ASSUME QuestionsInv, NEW q \in Question, Abort(q)
  PROVE  Eases(q)
<1> PICK run : run = [ask[q] EXCEPT !.aborted = TRUE]
  OBVIOUS
<1>1. ask[q] \in Run /\ RunHolds(ask[q], log) /\ ask \in [Question -> Run]
  BY DEF QuestionsInv
<1>2. run \in Run /\ run.pc = ask[q].pc
  BY <1>1 DEF Run
<1>3. ask' = [ask EXCEPT ![q] = run] /\ ask[q].pc # "new" /\ ask[q].pc \in Stages
  BY <1>1 DEF Abort, Run, Stages
<1>4. /\ run.turn = ask[q].turn /\ run.evidence = ask[q].evidence /\ run.args = ask[q].args
      /\ run.reply = ask[q].reply /\ run.asked = ask[q].asked
  BY <1>1 DEF Run
<1>5. RunHolds(run, log)
  BY <1>1, <1>2, <1>4 DEF RunHolds, EvidenceHeld
<1>6. Weight(run.pc) <= Weight(ask[q].pc)
  BY <1>2 DEF Weight
<1>7. QED
  BY <1>2, <1>3, <1>5, <1>6 DEF Eases, MovesTo

LEMMA ModelRepliesEases ==
  ASSUME QuestionsInv, NEW q \in Question, ModelReplies(q)
  PROVE  Eases(q)
<1>1. ask[q] \in Run /\ RunHolds(ask[q], log) /\ ask \in [Question -> Run] /\ log \subseteq Event
  BY DEF QuestionsInv
<1>2. ASSUME MomentaryFailure(q) PROVE Eases(q)
  <2>1. ask[q].pc = "model" /\ Goto(q, "pause") /\ ask[q].turn < MaxIterations
    BY <1>1, <1>2 DEF MomentaryFailure, RunHolds, Looping
  <2>2. MovesTo(q, "pause")
    BY <2>1, GotoMoves DEF Stages
  <2>3. QED
    BY <2>1, <2>2 DEF Eases, Stages, Weight
<1>3. ASSUME ModelFails(q) PROVE Eases(q)
  BY <1>3, ReplacedMoves, RestEases DEF ModelFails, Outcomes
<1>4. ASSUME ModelCallsTools(q) PROVE Eases(q)
  <2> PICK run : run = [ask[q] EXCEPT !.pc = "tools", !.ran = 0]
    OBVIOUS
  <2>1. ask' = [ask EXCEPT ![q] = run] /\ ask[q].turn < MaxIterations
    BY <1>1, <1>4 DEF ModelCallsTools, RunHolds, Looping
  <2>2. run \in Run
    <3>1. 0 \in 0 .. (MaxToolCallsPerTurn + 1)
      BY AssistantAssumption
    <3>2. QED
      BY <1>1, <3>1 DEF Run
  <2>3. /\ run.turn = ask[q].turn /\ run.evidence = ask[q].evidence /\ run.args = ask[q].args
        /\ run.reply = ask[q].reply /\ run.asked = ask[q].asked /\ run.pc = "tools"
    BY <1>1 DEF Run
  <2>4. RunHolds(run, log)
    BY <1>1, <2>1, <2>3 DEF RunHolds, EvidenceHeld
  <2>5. MovesTo(q, "tools")
    BY <2>1, <2>2, <2>3, <2>4 DEF MovesTo
  <2>6. QED
    BY <2>5, RestEases
<1>5. ASSUME NEW kind \in {"blank", "instructions", "plain"}, NEW facts \in Few(Fact),
             ModelAnswers(q, [kind |-> kind, facts |-> facts])
      PROVE  Eases(q)
  <2>1. facts \in SUBSET Fact /\ IsFiniteSet(facts)
    BY DEF Few
  <2>2. PICK reply \in GroundAnswer([kind |-> kind, facts |-> facts], ask[q].asked,
                                    ask[q].evidence) : End(q, reply)
    BY <1>5 DEF ModelAnswers
  <2>3. reply \in Reply /\ ReplyHolds(reply, ask[q].asked, ask[q].args, log)
    BY <1>1, <2>1, <2>2, GroundAnswerLemma
  <2>4. QED
    BY <2>2, <2>3, EndMoves, RestEases
<1>6. QED
  BY <1>2, <1>3, <1>4, <1>5 DEF ModelReplies

LEMMA EndTurnEases ==
  ASSUME QuestionsInv, NEW q \in Question, EndTurn(q)
  PROVE  Eases(q)
<1> PICK run : run = [ask[q] EXCEPT !.pc = "turn", !.turn = @ + 1, !.ran = 0]
  OBVIOUS
<1>1. ask[q] \in Run /\ RunHolds(ask[q], log) /\ ask \in [Question -> Run]
  BY DEF QuestionsInv
<1>2. ask' = [ask EXCEPT ![q] = run] /\ ask[q].turn < MaxIterations
  BY <1>1 DEF EndTurn, RunHolds, Looping
<1>3. ask[q].turn + 1 \in 0 .. MaxIterations /\ 0 \in 0 .. (MaxToolCallsPerTurn + 1)
  BY <1>1, <1>2, AssistantAssumption DEF Run
<1>4. run \in Run
  BY <1>1, <1>3 DEF Run
<1>5. /\ run.evidence = ask[q].evidence /\ run.args = ask[q].args
      /\ run.reply = ask[q].reply /\ run.asked = ask[q].asked /\ run.pc = "turn"
  BY <1>1 DEF Run
<1>6. RunHolds(run, log)
  BY <1>1, <1>5 DEF RunHolds, EvidenceHeld, Looping
<1>7. MovesTo(q, "turn")
  BY <1>2, <1>4, <1>5, <1>6 DEF MovesTo
<1>8. QED
  BY <1>7, RestEases

\* The steps of a question that take no call and make no request.
Quiet(q) ==
  \/ MaxedOut(q) \/ OutOfTime(q) \/ CallAborted(q) \/ RunTool(q) \/ EndTurn(q)
  \/ ModelReplies(q) \/ Abort(q)

LEMMA QuietEases ==
  ASSUME QuestionsInv, NEW q \in Question, Quiet(q)
  PROVE  Eases(q) /\ ServiceSame
<1>1. ASSUME MaxedOut(q) \/ OutOfTime(q) \/ CallAborted(q) PROVE Eases(q)
  BY <1>1, ReplacedMoves, RestEases DEF MaxedOut, OutOfTime, CallAborted, Outcomes
<1>2. ASSUME RunTool(q) PROVE Eases(q)
  <2>1. ask[q].pc = "tools" /\ (MovesTo(q, "tools") \/ MovesTo(q, "done"))
    BY <1>2, RunToolMoves
  <2>2. QED
    BY <2>1, RestEases
<1>3. Eases(q)
  BY <1>1, <1>2, EndTurnEases, ModelRepliesEases, AbortEases, SMTT(30) DEF Quiet
<1>4. ServiceSame
  BY DEF Quiet, MaxedOut, OutOfTime, CallAborted, RunTool, ReadTimeline, SearchOrders,
         SummariseRejections, CallRefused, ToolFails, Gather, EndTurn, ModelReplies,
         MomentaryFailure, ModelFails, ModelCallsTools, ModelAnswers, Abort
<1>5. QED
  BY <1>3, <1>4

LEMMA TakeMoves ==
  ASSUME QuestionsInv, NEW q \in Question, NEW fate \in Fates, Take(q, fate)
  PROVE  IF fate = Served /\ taken[QuotaDay] + 1 <= DailyLimit
         THEN MovesTo(q, "call") ELSE MovesTo(q, "done")
<1>1. CASE fate = Served /\ taken[QuotaDay] + 1 <= DailyLimit
  <2>1. Goto(q, "call") /\ ~ Exhausted(q)
    BY <1>1 DEF Take
  <2>2. ask[q].turn < MaxIterations
    BY <2>1, AssistantAssumption DEF Exhausted, QuestionsInv, Run
  <2>3. QED
    BY <1>1, <2>1, <2>2, GotoMoves DEF Stages
<1>2. CASE ~ (fate = Served /\ taken[QuotaDay] + 1 <= DailyLimit)
  BY <1>2, ReplacedMoves DEF Take, Outcomes
<1>3. QED
  BY <1>1, <1>2

LEMMA RequestMoves ==
  ASSUME QuestionsInv, NEW q \in Question, CallModel(q) \/ Retry(q)
  PROVE  \E pc \in {"model", "retrying"} :
           Request(q, pc) /\ MovesTo(q, pc) /\ Weight(pc) + 1 = Weight(ask[q].pc)
<1>1. PICK pc \in {"model", "retrying"} :
        Request(q, pc) /\ Weight(pc) + 1 = Weight(ask[q].pc) /\ ask[q].pc \in Looping
  BY DEF CallModel, Retry, Weight, Looping
<1>2. ask[q].turn < MaxIterations
  BY <1>1 DEF QuestionsInv, RunHolds
<1>3. MovesTo(q, pc)
  BY <1>1, <1>2, GotoMoves DEF Request, Stages
<1>4. QED
  BY <1>1, <1>3

LEMMA MovePreservesQuestions ==
  ASSUME QuestionsInv, NEW q \in Question, NEW pc, MovesTo(q, pc), UNCHANGED log
  PROVE  QuestionsInv'
<1>1. PICK run \in Run : ask' = [ask EXCEPT ![q] = run] /\ RunHolds(run, log)
  BY DEF MovesTo
<1>2. ask' \in [Question -> Run] /\ \A p \in Question : RunHolds(ask'[p], log)
  BY <1>1 DEF QuestionsInv
<1>3. IsFiniteSet({p \in Question : ask'[p].pc # "new"})
  <2>1. {p \in Question : ask'[p].pc # "new"} \in SUBSET (Begun \cup {q})
    BY <1>1 DEF Begun, QuestionsInv
  <2>2. IsFiniteSet(Begun \cup {q})
    BY FS_AddElement DEF QuestionsInv
  <2>3. QED
    BY <2>1, <2>2, FS_Subset
<1>4. QED
  BY <1>2, <1>3 DEF QuestionsInv, Begun

LEMMA ProjectPreservesQuestions ==
  ASSUME QuestionsInv, NEW e \in Event, Project(e)
  PROVE  QuestionsInv'
<1>1. log' \subseteq Event /\ log \subseteq log' /\ ask' = ask
  BY DEF Project, QuestionsInv
<1>2. ASSUME NEW q \in Question
      PROVE  RunHolds(ask[q], log')
  BY <1>1, RunHoldsLater DEF QuestionsInv
<1>3. QED
  BY <1>1, <1>2 DEF QuestionsInv, Begun

LEMMA QuestionsUnchanged ==
  ASSUME QuestionsInv, UNCHANGED <<log, ask>>
  PROVE  QuestionsInv'
BY DEF QuestionsInv, Begun

-----------------------------------------------------------------------------
(* The windows of the rate limit.                                          *)

Least(a, b) == IF a <= b THEN a ELSE b

\* A client's window at w, opened o ticks ago, with admitted[n] questions let
\* in n ticks ago.  The open window let in no more than it counted, nor than
\* the limit, and one less if the hit that opened it is left out; whatever
\* came before it, in the time that still matters, is less than the limit.
WindowHolds(w, let, o) ==
  /\ w \in [count : Nat, left : 0 .. Window] /\ let \in [Age -> Nat] /\ o \in Nat
  /\ w.left = 0 => /\ o = 0 /\ w.count = 0 /\ let[0] = 0
                   /\ SetSum(let, Age) < Limit
  /\ w.left > 0 => /\ o + w.left = Window /\ w.count >= 1
                   /\ SetSum(let, 0 .. o) <= Least(w.count, Limit)
                   /\ SetSum(let, 0 .. (o - 1)) < Least(w.count, Limit)
                   /\ SetSum(let, (o + 1) .. (Window - 1)) < Limit

WindowsInv ==
  /\ windows \in [Client -> [count : Nat, left : 0 .. Window]]
  /\ admitted \in [Client -> [Age -> Nat]] /\ opened \in [Client -> Nat]
  /\ \A c \in Client : WindowHolds(windows[c], admitted[c], opened[c])

LEMMA AgesLemma ==
  /\ Limit \in Nat /\ Limit > 0 /\ Window \in Nat /\ Window > 0 /\ 0 \in Age
  /\ Age \subseteq Nat /\ Age = 0 .. (Window - 1)
  /\ \A T \in SUBSET Age : IsFiniteSet(T)
<1>1. IsFiniteSet(Age)
  BY FS_Interval, AssistantAssumption DEF Age
<1>2. \A T \in SUBSET Age : IsFiniteSet(T)
  BY <1>1, FS_Subset, Zenon
<1>3. /\ Limit \in Nat /\ Limit > 0 /\ Window \in Nat /\ Window > 0 /\ 0 \in Age
      /\ Age \subseteq Nat /\ Age = 0 .. (Window - 1)
  BY AssistantAssumption DEF Age
<1>4. QED
  BY <1>2, <1>3

\* Sums over some of the ages.
LEMMA SumsLemma ==
  ASSUME NEW let \in [Age -> Nat], NEW T \in SUBSET Age, NEW S \in SUBSET T
  PROVE  /\ SetSum(let, T) \in Nat /\ SetSum(let, S) \in Nat
         /\ SetSum(let, S) <= SetSum(let, T)
<1>1. IsFiniteSet(T) /\ IsFiniteSet(S) /\ S \subseteq T
  BY AgesLemma
<1>2. (\A x \in T : let[x] \in Nat) /\ (\A x \in S : let[x] \in Nat)
  OBVIOUS
<1>3. SetSum(let, T) \in Nat /\ SetSum(let, S) \in Nat
  BY <1>1, <1>2, SetSumTake
<1>4. QED
  BY <1>1, <1>2, <1>3, SetSumGrows

LEMMA NothingLetIn ==
  WindowHolds([count |-> 0, left |-> 0], [n \in Age |-> 0], 0)
<1> DEFINE none == [n \in Age |-> 0]
           Good == {t \in SUBSET Age : SetSum(none, t) = 0}
<1>1. ASSUME NEW t \in SUBSET Age, \A u \in SUBSET t : u # t => u \in Good
      PROVE  t \in Good
  <2>1. CASE t = {}
    BY <2>1, SetSumEmpty
  <2>2. CASE t # {}
    <3>1. PICK x \in t : TRUE
      BY <2>2
    <3>2. SetSum(none, t \ {x}) = 0
      BY <1>1
    <3>3. IsFiniteSet(t) /\ \A y \in t : none[y] \in Nat
      BY AgesLemma
    <3>4. SetSum(none, t) = none[x] + SetSum(none, t \ {x})
      BY <3>3, SetSumTake
    <3>5. QED
      BY <3>2, <3>4
  <2>3. QED
    BY <2>1, <2>2
<1>2. SUBSET Age \subseteq Good
  <2> HIDE DEF Good
  <2>1. IsFiniteSet(Age)
    BY AgesLemma
  <2>2. QED
    BY <1>1, <2>1, SubsetInduction
<1>3. SetSum(none, Age) = 0
  BY <1>2
<1>4. QED
  BY <1>3, AgesLemma DEF WindowHolds

\* Every question let in is a tick older.
LEMMA OlderSums ==
  ASSUME NEW let \in [Age -> Nat], NEW older \in [Age -> Nat], older[0] = 0,
         \A n \in Age : n > 0 => older[n] = let[n - 1]
  PROVE  /\ \A k \in Int : k + 1 \in Age => SetSum(older, 0 .. (k + 1)) = SetSum(let, 0 .. k)
         /\ \A k \in Age : SetSum(older, (k + 1) .. (Window - 1)) <= SetSum(let, k .. (Window - 1))
<1>1. ASSUME NEW i \in Nat, NEW j \in Int, j + 1 < Window
      PROVE  SetSum(older, (i + 1) .. (j + 1)) = SetSum(let, i .. j)
  <2>1. /\ i .. j \in SUBSET Age /\ i .. j \subseteq Int
        /\ \A x \in i .. j : let[x] \in Nat /\ older[x + 1] = let[x]
    <3>1. i .. j \in SUBSET Age /\ i .. j \subseteq Int
      BY <1>1, AgesLemma
    <3>2. ASSUME NEW x \in i .. j
          PROVE  let[x] \in Nat /\ older[x + 1] = let[x]
      <4>1. x \in Age /\ x + 1 \in Age /\ x + 1 > 0 /\ x + 1 - 1 = x
        BY <1>1, AgesLemma
      <4>2. QED
        BY <4>1
    <3>3. QED
      BY <3>1, <3>2
  <2>2. (i + 1) .. (j + 1) = {x + 1 : x \in i .. j}
    <3>1. ASSUME NEW x \in (i + 1) .. (j + 1)
          PROVE  x - 1 \in i .. j /\ x = (x - 1) + 1
      BY <3>1
    <3>2. ASSUME NEW x \in i .. j
          PROVE  x + 1 \in (i + 1) .. (j + 1)
      BY <3>2
    <3>3. QED
      BY <3>1, <3>2
  <2>3. IsFiniteSet(i .. j)
    BY <2>1, AgesLemma
  <2>4. QED
    BY <2>1, <2>2, <2>3, SetSumShift
<1>2. ASSUME NEW k \in Int, k + 1 \in Age
      PROVE  SetSum(older, 0 .. (k + 1)) = SetSum(let, 0 .. k)
  <2>1. SetSum(older, (0 + 1) .. (k + 1)) = SetSum(let, 0 .. k)
    BY <1>1, <1>2, AgesLemma
  <2> PICK T : T = (0 + 1) .. (k + 1)
    OBVIOUS
  <2>2. 0 .. (k + 1) = T \cup {0} /\ 0 \notin T /\ T \in SUBSET Age
    BY <1>2, AgesLemma
  <2>3. IsFiniteSet(T) /\ \A y \in T \cup {0} : older[y] \in Nat
    BY <2>2, AgesLemma
  <2>4. SetSum(older, T \cup {0}) = older[0] + SetSum(older, T)
    BY <2>2, <2>3, SetSumAdd
  <2>5. SetSum(older, T) \in Nat
    BY <2>2, SumsLemma
  <2>6. SetSum(older, T) = SetSum(let, 0 .. k)
    BY <2>1, Zenon
  <2>7. older[0] + SetSum(older, T) = SetSum(older, T)
    BY <2>5
  <2>8. QED
    BY <2>2, <2>4, <2>6, <2>7, Zenon
<1>3. ASSUME NEW k \in Age
      PROVE  SetSum(older, (k + 1) .. (Window - 1)) <= SetSum(let, k .. (Window - 1))
  <2>1. SetSum(older, (k + 1) .. (Window - 2 + 1)) = SetSum(let, k .. (Window - 2))
    BY <1>1, AgesLemma
  <2>2. Window - 2 + 1 = Window - 1
    BY AgesLemma
  <2>3. k .. (Window - 1) \in SUBSET Age /\ k .. (Window - 2) \in SUBSET (k .. (Window - 1))
    BY AgesLemma
  <2>4. SetSum(let, k .. (Window - 2)) <= SetSum(let, k .. (Window - 1))
    BY <2>3, SumsLemma
  <2>5. QED
    BY <2>1, <2>2, <2>4
<1>4. QED
  BY <1>2, <1>3

LEMMA Countdown ==
  ASSUME NEW o \in Nat, NEW left \in 0 .. Window, left > 1, o + left = Window
  PROVE  left - 1 > 0 /\ left - 1 # 0 /\ (o + 1) + (left - 1) = Window
<1>1. Window \in Nat
  BY AgesLemma
<1>2. QED
  BY <1>1

\* A tick passes: the window goes on, or it ends.
LEMMA TickHolds ==
  ASSUME NEW w, NEW let, NEW o, NEW v, NEW older, NEW p, WindowHolds(w, let, o),
         v = IF w.left > 1 THEN [w EXCEPT !.left = @ - 1] ELSE [count |-> 0, left |-> 0],
         older = [n \in Age |-> IF n = 0 THEN 0 ELSE let[n - 1]],
         p = IF w.left > 1 THEN o + 1 ELSE 0
  PROVE  WindowHolds(v, older, p)
<1>1. /\ w.left \in 0 .. Window /\ w.count \in Nat /\ let \in [Age -> Nat] /\ o \in Nat
      /\ w \in [count : Nat, left : 0 .. Window]
  BY DEF WindowHolds
<1>2. older \in [Age -> Nat] /\ older[0] = 0 /\ \A n \in Age : n > 0 => older[n] = let[n - 1]
  <2>1. \A n \in Age : n # 0 => n - 1 \in Age
    BY AgesLemma
  <2>2. QED
    BY <1>1, <2>1, AgesLemma, SMTT(30)
<1>3. \A k \in Int : k + 1 \in Age => SetSum(older, 0 .. (k + 1)) = SetSum(let, 0 .. k)
  BY <1>1, <1>2, OlderSums
<1>4. \A k \in Age : SetSum(older, (k + 1) .. (Window - 1)) <= SetSum(let, k .. (Window - 1))
  BY <1>1, <1>2, OlderSums
<1>5. CASE w.left > 1
  <2>1. /\ o + w.left = Window /\ w.count >= 1
        /\ SetSum(let, 0 .. o) <= Least(w.count, Limit)
        /\ SetSum(let, 0 .. (o - 1)) < Least(w.count, Limit)
        /\ SetSum(let, (o + 1) .. (Window - 1)) < Limit
    BY <1>1, <1>5 DEF WindowHolds
  <2>2. p = o + 1 /\ v.count = w.count /\ v.left = w.left - 1
        /\ v \in [count : Nat, left : 0 .. Window]
    <3>1. v = [w EXCEPT !.left = @ - 1] /\ w.left - 1 \in 0 .. Window /\ p = o + 1
      BY <1>1, <1>5, AgesLemma
    <3>2. QED
      BY <1>1, <3>1
  <2>3. o + 1 \in Age /\ (o - 1) + 1 \in Age /\ o \in Int /\ o - 1 \in Int
        /\ (o - 1) + 1 = p - 1 /\ p \in Nat
    <3>1. o \in Nat /\ o + w.left = Window /\ w.left \in Nat /\ w.left > 1 /\ p = o + 1
      BY <1>1, <1>5, <2>1, <2>2
    <3>2. o \in 0 .. (Window - 1) /\ o + 1 \in 0 .. (Window - 1)
      BY <3>1, AgesLemma
    <3>3. (o - 1) + 1 = o /\ p - 1 = o
      BY <3>1
    <3>4. QED
      BY <3>1, <3>2, <3>3, AgesLemma
  <2>4. SetSum(older, 0 .. p) <= Least(v.count, Limit)
    BY <1>3, <2>1, <2>2, <2>3
  <2>5. SetSum(older, 0 .. (p - 1)) < Least(v.count, Limit)
    <3>1. SetSum(older, 0 .. ((o - 1) + 1)) = SetSum(let, 0 .. (o - 1))
      BY <1>3, <2>3
    <3>2. QED
      BY <2>1, <2>2, <2>3, <3>1
  <2>6. SetSum(older, (p + 1) .. (Window - 1)) < Limit
    <3>1. SetSum(older, (p + 1) .. (Window - 1)) <= SetSum(let, p .. (Window - 1))
      BY <1>4, <2>2, <2>3
    <3>2. p .. (Window - 1) \in SUBSET Age /\ (p + 1) .. (Window - 1) \in SUBSET Age
      BY <2>3, AgesLemma, SMTT(30)
    <3>3. SetSum(older, (p + 1) .. (Window - 1)) \in Nat /\ SetSum(let, p .. (Window - 1)) \in Nat
      BY <1>1, <1>2, <3>2, SumsLemma
    <3>4. QED
      BY <2>1, <2>2, <3>1, <3>3, AgesLemma
  <2>7. v.left > 0 /\ v.left # 0 /\ p + v.left = Window /\ v.count >= 1
    <3>1. o + w.left = Window /\ w.count >= 1
      BY <2>1
    <3>2. w.left - 1 > 0 /\ w.left - 1 # 0 /\ (o + 1) + (w.left - 1) = Window
      BY <1>1, <1>5, <3>1, Countdown
    <3>3. QED
      BY <2>2, <3>1, <3>2
  <2>8. QED
    BY <1>2, <2>2, <2>3, <2>4, <2>5, <2>6, <2>7 DEF WindowHolds
<1>6. CASE ~ w.left > 1
  <2>1. v.left = 0 /\ v.count = 0 /\ p = 0 /\ v \in [count : Nat, left : 0 .. Window]
    BY <1>6, AgesLemma
  <2>2. SetSum(older, Age) = SetSum(let, 0 .. (Window - 2))
    <3>1. Window - 2 \in Int /\ (Window - 2) + 1 \in Age /\ Age = 0 .. ((Window - 2) + 1)
      BY AgesLemma
    <3>2. QED
      BY <1>3, <3>1
  <2>3. SetSum(let, 0 .. (Window - 2)) < Limit
    <3>1. CASE w.left = 1
      <4>1. o - 1 = Window - 2
        BY <1>1, <3>1, AgesLemma DEF WindowHolds
      <4>2. SetSum(let, 0 .. (o - 1)) < Least(w.count, Limit)
        BY <3>1 DEF WindowHolds
      <4>3. 0 .. (Window - 2) \in SUBSET Age
        BY AgesLemma
      <4>4. SetSum(let, 0 .. (Window - 2)) \in Nat
        BY <1>1, <4>3, SumsLemma
      <4>5. QED
        BY <1>1, <4>1, <4>2, <4>4, AgesLemma DEF Least
    <3>2. CASE w.left = 0
      <4>1. SetSum(let, Age) < Limit
        BY <3>2 DEF WindowHolds
      <4>2. Age \in SUBSET Age /\ 0 .. (Window - 2) \in SUBSET Age
        BY AgesLemma
      <4>3. /\ SetSum(let, 0 .. (Window - 2)) <= SetSum(let, Age)
            /\ SetSum(let, 0 .. (Window - 2)) \in Nat /\ SetSum(let, Age) \in Nat
        BY <1>1, <4>2, SumsLemma
      <4>4. QED
        BY <4>1, <4>3, AgesLemma
    <3>3. QED
      BY <1>1, <1>6, <3>1, <3>2
  <2>4. QED
    BY <1>2, <2>1, <2>2, <2>3 DEF WindowHolds
<1>7. QED
  BY <1>5, <1>6

\* One more question let in now.
LEMMA OneMoreSums ==
  ASSUME NEW let \in [Age -> Nat], NEW more, more = [let EXCEPT ![0] = @ + 1],
         NEW T \in SUBSET Age
  PROVE  /\ more \in [Age -> Nat] /\ SetSum(more, T) \in Nat /\ SetSum(let, T) \in Nat
         /\ 0 \in T => SetSum(more, T) = SetSum(let, T) + 1
         /\ 0 \notin T => SetSum(more, T) = SetSum(let, T)
<1>1. more \in [Age -> Nat] /\ more[0] = let[0] + 1 /\ let[0] \in Nat
  BY AgesLemma
<1>2. T \in SUBSET T /\ T \ {0} \in SUBSET Age /\ T \ {0} \in SUBSET (T \ {0})
  OBVIOUS
<1>3. IsFiniteSet(T) /\ IsFiniteSet(T \ {0})
  BY <1>2, AgesLemma, Zenon
<1>4. /\ SetSum(more, T) \in Nat /\ SetSum(let, T) \in Nat
      /\ SetSum(more, T \ {0}) \in Nat /\ SetSum(let, T \ {0}) \in Nat
  BY <1>1, <1>2, SumsLemma
<1>5. \A x \in T \ {0} : let[x] \in Nat /\ more[x] = let[x]
  BY AgesLemma
<1>6. SetSum(more, T \ {0}) = SetSum(let, T \ {0})
  BY <1>3, <1>5, SetSumSame
<1>7. CASE 0 \notin T
  <2>1. T \ {0} = T
    BY <1>7
  <2>2. QED
    BY <1>1, <1>4, <1>6, <1>7, <2>1
<1>8. CASE 0 \in T
  <2>1. (\A x \in T : let[x] \in Nat) /\ (\A x \in T : more[x] \in Nat)
    BY <1>1
  <2>2. SetSum(let, T) = let[0] + SetSum(let, T \ {0})
        /\ SetSum(more, T) = more[0] + SetSum(more, T \ {0})
    BY <1>3, <1>8, <2>1, SetSumTake
  <2>3. QED
    BY <1>1, <1>4, <1>6, <1>8, <2>2
<1>9. QED
  BY <1>7, <1>8

\* A question is counted, and let in if the count is within the limit.
LEMMA HitHolds ==
  ASSUME NEW w, NEW let, NEW o, NEW more, WindowHolds(w, let, o),
         \/ more = let
         \/ Hit(w).count <= Limit /\ more = [let EXCEPT ![0] = @ + 1]
  PROVE  WindowHolds(Hit(w), more, o)
<1>1. /\ w.left \in 0 .. Window /\ w.count \in Nat /\ let \in [Age -> Nat] /\ o \in Nat
      /\ w \in [count : Nat, left : 0 .. Window]
  BY DEF WindowHolds
<1>2. PICK v : v = Hit(w)
  OBVIOUS
<1>3. /\ v.count = w.count + 1 /\ v.left = IF w.left = 0 THEN Window ELSE w.left
      /\ v \in [count : Nat, left : 0 .. Window] /\ v.left > 0 /\ v.left # 0
  <2>1. w.count + 1 \in Nat /\ (IF w.left = 0 THEN Window ELSE w.left) \in 0 .. Window
    BY <1>1, AgesLemma
  <2>2. v = [count |-> w.count + 1, left |-> IF w.left = 0 THEN Window ELSE w.left]
    BY <1>2 DEF Hit
  <2>3. v.left > 0 /\ v.left # 0
    BY <1>1, <2>2, AgesLemma
  <2>4. QED
    BY <2>1, <2>2, <2>3
<1>4. \/ more = let
      \/ w.count + 1 <= Limit /\ more = [let EXCEPT ![0] = @ + 1]
  BY <1>2, <1>3
<1>5. more \in [Age -> Nat]
  <2>1. let \in [Age -> Nat] /\ 0 \in Age
    BY <1>1, AgesLemma
  <2>2. let[0] + 1 \in Nat
    BY <2>1
  <2>3. CASE more = let
    BY <2>1, <2>3
  <2>4. CASE more = [let EXCEPT ![0] = @ + 1]
    BY <2>1, <2>2, <2>4
  <2>5. QED
    BY <1>4, <2>3, <2>4
<1>6. ASSUME NEW T \in SUBSET Age
      PROVE  /\ SetSum(more, T) \in Nat /\ SetSum(let, T) \in Nat
             /\ SetSum(more, T) = SetSum(let, T)
                \/ (w.count + 1 <= Limit /\ 0 \in T /\ SetSum(more, T) = SetSum(let, T) + 1)
  <2>1. CASE more = let
    <3>1. T \in SUBSET T
      OBVIOUS
    <3>2. QED
      BY <1>1, <2>1, <3>1, SumsLemma
  <2>2. CASE w.count + 1 <= Limit /\ more = [let EXCEPT ![0] = @ + 1]
    <3>1. PICK m : m = [let EXCEPT ![0] = @ + 1]
      OBVIOUS
    <3>2. /\ SetSum(m, T) \in Nat /\ SetSum(let, T) \in Nat
          /\ 0 \in T => SetSum(m, T) = SetSum(let, T) + 1
          /\ 0 \notin T => SetSum(m, T) = SetSum(let, T)
      BY <1>1, <3>1, OneMoreSums, ZenonT(40)
    <3>3. more = m
      BY <2>2, <3>1
    <3>4. QED
      BY <2>2, <3>2, <3>3
  <2>3. QED
    BY <1>4, <2>1, <2>2
<1>7. /\ \A n \in Nat : Least(n, Limit) \in Nat /\ Least(n + 1, Limit) \in Nat
      /\ \A n \in Nat : Least(n, Limit) <= Least(n + 1, Limit)
      /\ \A n \in Nat : n + 1 <= Limit => Least(n, Limit) + 1 = Least(n + 1, Limit)
      /\ Least(0 + 1, Limit) = 1
  BY AgesLemma DEF Least
<1>8. CASE w.left = 0
  <2>1. o = 0 /\ w.count = 0 /\ let[0] = 0 /\ SetSum(let, Age) < Limit
    BY <1>8 DEF WindowHolds
  <2>2. v.count = 1 /\ v.left = Window /\ Least(v.count, Limit) = 1
    BY <1>3, <1>7, <1>8, <2>1
  <2>3. {0} \in SUBSET Age /\ {} \in SUBSET {0} /\ 0 .. 0 = {0} /\ 0 .. (0 - 1) = {}
    BY AgesLemma
  <2>4. SetSum(let, {}) = 0 /\ SetSum(more, {}) = 0
    BY SetSumEmpty
  <2>5. SetSum(let, {0}) = 0
    <3>1. IsFiniteSet({0}) /\ (\A x \in {0} : let[x] \in Nat) /\ {0} \ {0} = {}
      BY <1>1, <2>3, AgesLemma
    <3>2. SetSum(let, {0}) = let[0] + SetSum(let, {0} \ {0})
      BY <3>1, SetSumTake
    <3>3. SetSum(let, {0}) = let[0] + SetSum(let, {})
      BY <3>1, <3>2, Zenon
    <3>4. QED
      BY <2>1, <2>4, <3>3
  <2>6. SetSum(more, {0}) <= 1
    BY <1>6, <2>3, <2>5
  <2>7. SetSum(more, 1 .. (Window - 1)) < Limit
    <3>1. 1 .. (Window - 1) \in SUBSET Age /\ Age \in SUBSET Age /\ 0 \notin 1 .. (Window - 1)
      BY AgesLemma
    <3>2. SetSum(more, 1 .. (Window - 1)) = SetSum(let, 1 .. (Window - 1))
      BY <1>6, <3>1
    <3>3. /\ SetSum(let, 1 .. (Window - 1)) <= SetSum(let, Age)
          /\ SetSum(let, 1 .. (Window - 1)) \in Nat /\ SetSum(let, Age) \in Nat
      BY <1>1, <3>1, SumsLemma
    <3>4. QED
      BY <2>1, <3>2, <3>3, AgesLemma
  <2>8. /\ SetSum(more, 0 .. o) <= Least(v.count, Limit)
        /\ SetSum(more, 0 .. (o - 1)) < Least(v.count, Limit)
        /\ SetSum(more, (o + 1) .. (Window - 1)) < Limit
    <3>1. 0 .. o = {0} /\ 0 .. (o - 1) = {} /\ o + 1 = 1
      BY <2>1, <2>3
    <3>2. SetSum(more, {0}) <= Least(v.count, Limit)
          /\ SetSum(more, {}) < Least(v.count, Limit)
      BY <2>2, <2>4, <2>6
    <3>3. QED
      BY <2>7, <3>1, <3>2, Zenon
  <2>9. o + v.left = Window /\ v.count >= 1
    BY <2>1, <2>2, AgesLemma
  <2>10. QED
    BY <1>1, <1>2, <1>3, <1>5, <2>8, <2>9 DEF WindowHolds
<1>9. CASE w.left # 0
  <2>1. /\ o + w.left = Window /\ w.count >= 1 /\ w.left > 0
        /\ SetSum(let, 0 .. o) <= Least(w.count, Limit)
        /\ SetSum(let, 0 .. (o - 1)) < Least(w.count, Limit)
        /\ SetSum(let, (o + 1) .. (Window - 1)) < Limit
    BY <1>1, <1>9 DEF WindowHolds
  <2>2. v.left = w.left /\ o + v.left = Window /\ v.count >= 1
    BY <1>1, <1>3, <1>9, <2>1
  <2>3. 0 .. o \in SUBSET Age /\ 0 .. (o - 1) \in SUBSET Age
        /\ (o + 1) .. (Window - 1) \in SUBSET Age /\ 0 \notin (o + 1) .. (Window - 1)
    <3>1. o \in Age
      BY <1>1, <2>1, AgesLemma
    <3>2. QED
      BY <3>1, AgesLemma
  <2> PICK room, next : room = Least(w.count, Limit) /\ next = Least(v.count, Limit)
    OBVIOUS
  <2>4. /\ room \in Nat /\ next \in Nat /\ room <= next
        /\ w.count + 1 <= Limit => room + 1 = next
    BY <1>1, <1>3, <1>7
  <2>5. SetSum(more, 0 .. o) <= next
    <3>1. SetSum(let, 0 .. o) <= room /\ SetSum(let, 0 .. o) \in Nat
          /\ SetSum(more, 0 .. o) \in Nat
      BY <1>6, <2>1, <2>3
    <3>2. SetSum(more, 0 .. o) = SetSum(let, 0 .. o)
          \/ (w.count + 1 <= Limit /\ SetSum(more, 0 .. o) = SetSum(let, 0 .. o) + 1)
      BY <1>6, <2>3
    <3>3. QED
      BY <2>4, <3>1, <3>2
  <2>6. SetSum(more, 0 .. (o - 1)) < next
    <3>1. SetSum(let, 0 .. (o - 1)) < room /\ SetSum(let, 0 .. (o - 1)) \in Nat
          /\ SetSum(more, 0 .. (o - 1)) \in Nat
      BY <1>6, <2>1, <2>3
    <3>2. SetSum(more, 0 .. (o - 1)) = SetSum(let, 0 .. (o - 1))
          \/ (w.count + 1 <= Limit /\ SetSum(more, 0 .. (o - 1)) = SetSum(let, 0 .. (o - 1)) + 1)
      BY <1>6, <2>3
    <3>3. QED
      BY <2>4, <3>1, <3>2
  <2>7. SetSum(more, (o + 1) .. (Window - 1)) < Limit
    BY <1>6, <2>1, <2>3
  <2>8. QED
    BY <1>1, <1>2, <1>3, <1>5, <2>2, <2>5, <2>6, <2>7 DEF WindowHolds
<1>10. QED
  BY <1>8, <1>9

LEMMA TickPreservesWindows ==
  ASSUME WindowsInv, Tick
  PROVE  WindowsInv'
<1>1. ASSUME NEW c \in Client
      PROVE  WindowHolds(windows'[c], admitted'[c], opened'[c])
  <2> PICK w, let, o : w = windows[c] /\ let = admitted[c] /\ o = opened[c]
    OBVIOUS
  <2> PICK v, older, p : v = windows'[c] /\ older = admitted'[c] /\ p = opened'[c]
    OBVIOUS
  <2>1. WindowHolds(w, let, o)
    BY DEF WindowsInv
  <2>2. /\ w \in [count : Nat, left : 0 .. Window] /\ w.left \in Nat
        /\ w.left = 0 => w.count = 0
        /\ w.left > 1 => w.count >= 1
    BY <2>1 DEF WindowHolds
  <2>3. /\ Aged(w) = IF w.left > 1 THEN [w EXCEPT !.left = @ - 1]
                                   ELSE [count |-> 0, left |-> 0]
        /\ Aged(w).count > 0 <=> w.left > 1
    <3>1. CASE w.left > 1
      <4>1. Aged(w) = [w EXCEPT !.left = @ - 1]
        BY <3>1 DEF Aged
      <4>2. Aged(w).count = w.count
        BY <2>2, <4>1
      <4>3. QED
        BY <2>2, <3>1, <4>1, <4>2
    <3>2. CASE w.left = 1
      <4>1. Aged(w) = [count |-> 0, left |-> 0]
        BY <3>2 DEF Aged
      <4>2. QED
        BY <3>2, <4>1
    <3>3. CASE w.left = 0
      <4>1. Aged(w) = w /\ w = [count |-> 0, left |-> 0]
        BY <2>2, <3>3 DEF Aged
      <4>2. QED
        BY <3>3, <4>1
    <3>4. QED
      BY <2>2, <3>1, <3>2, <3>3
  <2>4. v = Aged(w) /\ p = IF Aged(w).count > 0 THEN o + 1 ELSE 0
    BY DEF Tick
  <2>5. older = [n \in Age |-> IF n = 0 THEN 0 ELSE let[n - 1]]
    BY DEF Tick
  <2>6. v = IF w.left > 1 THEN [w EXCEPT !.left = @ - 1] ELSE [count |-> 0, left |-> 0]
    BY <2>3, <2>4
  <2>7. p = IF w.left > 1 THEN o + 1 ELSE 0
    BY <2>3, <2>4
  <2>8. WindowHolds(v, older, p)
    BY <2>1, <2>5, <2>6, <2>7, TickHolds
  <2>9. QED
    BY <2>8
<1>2. /\ windows' \in [Client -> [count : Nat, left : 0 .. Window]]
      /\ admitted' \in [Client -> [Age -> Nat]] /\ opened' \in [Client -> Nat]
  <2>1. \A c \in Client : /\ windows'[c] \in [count : Nat, left : 0 .. Window]
                          /\ admitted'[c] \in [Age -> Nat] /\ opened'[c] \in Nat
    BY <1>1 DEF WindowHolds
  <2>2. /\ windows' = [c \in Client |-> windows'[c]]
        /\ admitted' = [c \in Client |-> admitted'[c]]
        /\ opened' = [c \in Client |-> opened'[c]]
    BY DEF Tick
  <2>3. QED
    BY <2>1, <2>2, Zenon
<1>3. QED
  BY <1>1, <1>2 DEF WindowsInv

LEMMA AskPreservesWindows ==
  ASSUME WindowsInv, NEW q \in Question, NEW c \in Client, NEW asked, NEW valid, NEW fate,
         Ask(q, c, asked, valid, fate)
  PROVE  WindowsInv'
<1>1. /\ windows \in [Client -> [count : Nat, left : 0 .. Window]]
      /\ admitted \in [Client -> [Age -> Nat]] /\ opened \in [Client -> Nat]
      /\ WindowHolds(windows[c], admitted[c], opened[c])
  BY DEF WindowsInv
<1> PICK hit, more : /\ hit = Hit(windows[c])
                     /\ more = IF Admits(fate, hit) THEN [admitted[c] EXCEPT ![0] = @ + 1]
                               ELSE admitted[c]
  OBVIOUS
<1>2. /\ windows' = IF fate = "refused" THEN windows ELSE [windows EXCEPT ![c] = hit]
      /\ opened' = opened
  BY DEF Ask
<1>3. admitted' = [admitted EXCEPT ![c] = more]
  <2>1. admitted' = IF Admits(fate, hit) THEN [admitted EXCEPT ![c][0] = @ + 1] ELSE admitted
    BY DEF Ask
  <2>2. QED
    BY <1>1, <2>1, AgesLemma
<1>4. CASE fate = "refused"
  <2>1. more = admitted[c]
    BY <1>4 DEF Admits, Served
  <2>2. admitted' = admitted /\ windows' = windows
    BY <1>1, <1>2, <1>3, <1>4, <2>1
  <2>3. QED
    BY <1>2, <2>2 DEF WindowsInv
<1>5. CASE fate # "refused"
  <2>1. \/ more = admitted[c]
        \/ hit.count <= Limit /\ more = [admitted[c] EXCEPT ![0] = @ + 1]
    BY DEF Admits
  <2>2. WindowHolds(hit, more, opened[c])
    BY <1>1, <2>1, HitHolds
  <2>3. hit \in [count : Nat, left : 0 .. Window] /\ more \in [Age -> Nat]
    BY <2>2 DEF WindowHolds
  <2>4. windows' = [windows EXCEPT ![c] = hit]
    BY <1>2, <1>5
  <2>5. /\ windows' \in [Client -> [count : Nat, left : 0 .. Window]]
        /\ admitted' \in [Client -> [Age -> Nat]] /\ opened' \in [Client -> Nat]
    BY <1>1, <1>2, <1>3, <2>3, <2>4
  <2>6. ASSUME NEW d \in Client
        PROVE  WindowHolds(windows'[d], admitted'[d], opened'[d])
    <3>1. CASE d = c
      <4>1. windows'[d] = hit /\ admitted'[d] = more /\ opened'[d] = opened[c]
        BY <1>1, <1>2, <1>3, <2>4, <3>1
      <4>2. QED
        BY <2>2, <4>1
    <3>2. CASE d # c
      <4>1. windows'[d] = windows[d] /\ admitted'[d] = admitted[d] /\ opened'[d] = opened[d]
        BY <1>1, <1>2, <1>3, <2>4, <3>2
      <4>2. QED
        BY <4>1 DEF WindowsInv
    <3>3. QED
      BY <3>1, <3>2
  <2>7. QED
    BY <2>5, <2>6 DEF WindowsInv
<1>6. QED
  BY <1>4, <1>5

\* Every counter is gone, and every key.
LEMMA NoWindows ==
  ASSUME windows' = [c \in Client |-> [count |-> 0, left |-> 0]],
         admitted' = [c \in Client |-> [n \in Age |-> 0]],
         opened' = [c \in Client |-> 0]
  PROVE  WindowsInv'
<1>1. WindowHolds([count |-> 0, left |-> 0], [n \in Age |-> 0], 0)
  BY NothingLetIn
<1>2. /\ [count |-> 0, left |-> 0] \in [count : Nat, left : 0 .. Window]
      /\ [n \in Age |-> 0] \in [Age -> Nat]
  BY <1>1 DEF WindowHolds
<1>3. /\ windows' \in [Client -> [count : Nat, left : 0 .. Window]]
      /\ admitted' \in [Client -> [Age -> Nat]] /\ opened' \in [Client -> Nat]
  BY <1>2
<1>4. \A c \in Client : WindowHolds(windows'[c], admitted'[c], opened'[c])
  BY <1>1
<1>5. QED
  BY <1>3, <1>4 DEF WindowsInv

LEMMA WindowsInit ==
  ASSUME Init
  PROVE  WindowsInv
<1>1. WindowHolds([count |-> 0, left |-> 0], [n \in Age |-> 0], 0)
  BY NothingLetIn
<1>2. /\ [count |-> 0, left |-> 0] \in [count : Nat, left : 0 .. Window]
      /\ [n \in Age |-> 0] \in [Age -> Nat]
  BY <1>1 DEF WindowHolds
<1>3. /\ windows \in [Client -> [count : Nat, left : 0 .. Window]]
      /\ admitted \in [Client -> [Age -> Nat]] /\ opened \in [Client -> Nat]
  BY <1>2 DEF Init
<1>4. \A c \in Client : WindowHolds(windows[c], admitted[c], opened[c])
  BY <1>1 DEF Init
<1>5. QED
  BY <1>3, <1>4 DEF WindowsInv

LEMMA WindowsUnchanged ==
  ASSUME WindowsInv, UNCHANGED <<windows, admitted, opened>>
  PROVE  WindowsInv'
BY DEF WindowsInv

Total(let) == FoldFunction(+, 0, let)

LEMMA TotalIsSum ==
  ASSUME NEW let, IsFiniteSet(DOMAIN let)
  PROVE  Total(let) = SetSum(let, DOMAIN let)
<1> DEFINE T == DOMAIN let
<1>1. PICK g : PartialSums(g, let, T)
  BY PartialSumsExist
<1>2. g = [t \in SUBSET T |-> IF t = {} THEN 0 ELSE let[Picked(t)] + g[t \ {Picked(t)}]]
  BY <1>1 DEF PartialSums
<1>3. PICK h :
        /\ h = [t \in SUBSET T |-> IF t = {} THEN 0 ELSE let[Picked(t)] + h[t \ {Picked(t)}]]
        /\ Total(let) = h[T]
  BY <1>2, ZenonT(40) DEF Total, FoldFunction, FoldFunctionOnSet, MapThenFoldSet, Picked
<1>4. PartialSums(h, let, T)
  BY <1>3 DEF PartialSums
<1>5. QED
  BY <1>3, <1>4, SetSumIs

LEMMA WindowsBound ==
  ASSUME WindowsInv
  PROVE  BurstBound /\ WindowEnds
<1>1. ASSUME NEW c \in Client
      PROVE  opened[c] < Window
  <2> PICK left, o : left = windows[c].left /\ o = opened[c]
    OBVIOUS
  <2>1. /\ left \in 0 .. Window /\ o \in Nat
        /\ left = 0 => o = 0
        /\ left > 0 => o + left = Window
    BY DEF WindowsInv, WindowHolds
  <2>2. o < Window
    BY <2>1, AgesLemma
  <2>3. QED
    BY <2>2
<1>2. ASSUME NEW c \in Client
      PROVE  Total(admitted[c]) < 2 * Limit
  <2> PICK let, o, w : let = admitted[c] /\ o = opened[c] /\ w = windows[c]
    OBVIOUS
  <2>1. /\ WindowHolds(w, let, o) /\ let \in [Age -> Nat] /\ w.count \in Nat
        /\ w.left \in 0 .. Window /\ o \in Nat
    BY DEF WindowsInv, WindowHolds
  <2>2. Total(let) = SetSum(let, Age)
    <3>1. DOMAIN let = Age /\ IsFiniteSet(Age)
      BY <2>1, AgesLemma
    <3>2. QED
      BY <3>1, TotalIsSum
  <2>3. CASE w.left = 0
    <3>1. SetSum(let, Age) < Limit /\ Age \in SUBSET Age
      BY <2>3 DEF WindowHolds, WindowsInv
    <3>2. SetSum(let, Age) \in Nat
      BY <2>1, <3>1, SumsLemma
    <3>3. QED
      BY <2>2, <3>1, <3>2, AgesLemma
  <2>4. CASE w.left # 0
    <3>1. /\ o + w.left = Window /\ SetSum(let, 0 .. o) <= Least(w.count, Limit)
          /\ SetSum(let, (o + 1) .. (Window - 1)) < Limit
      BY <2>1, <2>4 DEF WindowHolds
    <3>2. o \in Age
      BY <2>1, <2>4, <3>1, AgesLemma
    <3> PICK S, T : S = 0 .. o /\ T = (o + 1) .. (Window - 1)
      OBVIOUS
    <3>3. S \in SUBSET Age /\ T \in SUBSET Age /\ S \cap T = {} /\ S \cup T = Age
      BY <3>2, AgesLemma
    <3>4. IsFiniteSet(S) /\ IsFiniteSet(T)
      BY <3>3, AgesLemma, Zenon
    <3>5. \A n \in S \cup T : let[n] \in Nat
      BY <2>1, <3>3
    <3>6. SetSum(let, S \cup T) = SetSum(let, S) + SetSum(let, T)
      BY <3>3, <3>4, <3>5, SetSumSplit
    <3>7. S \in SUBSET S /\ T \in SUBSET T
      OBVIOUS
    <3>8. SetSum(let, S) \in Nat /\ SetSum(let, T) \in Nat
      BY <2>1, <3>3, <3>7, SumsLemma
    <3>9. SetSum(let, S) <= Limit
      BY <2>1, <3>1, <3>8, AgesLemma DEF Least
    <3>10. SetSum(let, T) < Limit /\ SetSum(let, Age) = SetSum(let, S) + SetSum(let, T)
      BY <3>1, <3>3, <3>6
    <3>11. QED
      BY <2>2, <3>8, <3>9, <3>10, AgesLemma
  <2>5. QED
    BY <2>3, <2>4
<1>3. BurstBound
  BY <1>2, Zenon DEF BurstBound, Total
<1>4. WindowEnds
  BY <1>1 DEF WindowEnds
<1>5. QED
  BY <1>3, <1>4

-----------------------------------------------------------------------------
(* The budget of model calls.                                              *)

\* The requests that the questions may still make on the calls they took.
Owed == 2 * Cardinality(Asking({"call"})) + Cardinality(Asking({"model", "pause"}))

\* What the provider counted today, and what it may still be asked for, is paid
\* by the calls taken today: those the counter shows, those of the counters that
\* Redis lost, and those taken before midnight.
DayInStep ==
  called[ProviderDay] + Owed
    <= 2 * (Least(taken[ProviderDay], DailyLimit) + DailyLimit * restarts + late[ProviderDay])

BudgetTyped ==
  /\ taken \in [Day -> Nat] /\ clock \in 0 .. LastHalfDay
  /\ faults \in 0 .. MaxFaults /\ restarts \in 0 .. MaxRestarts
  /\ called \in [Day -> Nat] /\ late \in [Day -> Nat]

BudgetInv ==
  /\ BudgetTyped
  /\ \A d \in Day : d > ProviderDay => called[d] = 0
  /\ DayInStep
  /\ ProviderDayBound

LEMMA DaysLemma ==
  /\ DailyLimit \in Nat /\ LastHalfDay \in Nat /\ MaxFaults \in Nat /\ MaxRestarts \in Nat
  /\ Day \subseteq Nat
  /\ clock \in 0 .. LastHalfDay => ProviderDay \in Day /\ ProviderDay \in Nat
<1>1. DailyLimit \in Nat /\ LastHalfDay \in Nat /\ MaxFaults \in Nat /\ MaxRestarts \in Nat
  BY AssistantAssumption
<1>2. QED
  BY <1>1 DEF Day, ProviderDay

LEMMA AskingFinite ==
  ASSUME QuestionsInv, NEW pcs, "new" \notin pcs
  PROVE  IsFiniteSet(Asking(pcs)) /\ Cardinality(Asking(pcs)) \in Nat
<1>1. Asking(pcs) \in SUBSET Begun
  BY DEF Asking, Begun
<1>2. QED
  BY <1>1, FS_Subset, FS_CardinalityType DEF QuestionsInv

\* One question leaves its stage for another.
LEMMA AskingStep ==
  ASSUME QuestionsInv, NEW q \in Question, NEW pc, MovesTo(q, pc), NEW pcs, "new" \notin pcs
  PROVE  Cardinality(Asking(pcs)') + (IF ask[q].pc \in pcs THEN 1 ELSE 0)
           = Cardinality(Asking(pcs)) + (IF pc \in pcs THEN 1 ELSE 0)
<1> PICK S, T : S = Asking(pcs) /\ T = Asking(pcs)'
  OBVIOUS
<1> PICK R : R = S \ {q}
  OBVIOUS
<1>1. PICK run \in Run : ask' = [ask EXCEPT ![q] = run] /\ run.pc = pc
  BY DEF MovesTo
<1>2. /\ ask \in [Question -> Run] /\ ask'[q].pc = pc
      /\ \A p \in Question : p # q => ask'[p] = ask[p]
  BY <1>1 DEF QuestionsInv
<1>3. S = {p \in Question : ask[p].pc \in pcs} /\ T = {p \in Question : ask'[p].pc \in pcs}
  BY DEF Asking
<1>4. /\ S = IF ask[q].pc \in pcs THEN R \cup {q} ELSE R
      /\ T = IF pc \in pcs THEN R \cup {q} ELSE R
  BY <1>2, <1>3
<1>5. IsFiniteSet(R) /\ q \notin R
  <2>1. IsFiniteSet(S) /\ R \in SUBSET S
    BY AskingFinite
  <2>2. QED
    BY <2>1, FS_Subset
<1>6. Cardinality(R) \in Nat /\ Cardinality(R \cup {q}) = Cardinality(R) + 1
  BY <1>5, FS_CardinalityType, FS_AddElement
<1>7. /\ Cardinality(S) = Cardinality(R) + (IF ask[q].pc \in pcs THEN 1 ELSE 0)
      /\ Cardinality(T) = Cardinality(R) + (IF pc \in pcs THEN 1 ELSE 0)
  <2> PICK U : U = R \cup {q}
    OBVIOUS
  <2>1. Cardinality(U) = Cardinality(R) + 1
    BY <1>6
  <2>2. /\ ask[q].pc \in pcs => Cardinality(S) = Cardinality(U)
        /\ ask[q].pc \notin pcs => Cardinality(S) = Cardinality(R)
        /\ pc \in pcs => Cardinality(T) = Cardinality(U)
        /\ pc \notin pcs => Cardinality(T) = Cardinality(R)
    BY <1>4, Zenon
  <2>3. PICK s, t, m, n : /\ s = Cardinality(S) /\ t = Cardinality(T)
                          /\ m = Cardinality(R) /\ n = Cardinality(U)
    OBVIOUS
  <2>4. /\ s = m + (IF ask[q].pc \in pcs THEN 1 ELSE 0)
        /\ t = m + (IF pc \in pcs THEN 1 ELSE 0)
    BY <1>6, <2>1, <2>2, <2>3
  <2>5. QED
    BY <2>3, <2>4
<1>8. QED
  BY <1>6, <1>7

LEMMA OwedStep ==
  ASSUME QuestionsInv, NEW q \in Question, NEW pc \in Stages, MovesTo(q, pc), UNCHANGED log
  PROVE  Owed \in Nat /\ Owed' \in Nat /\ Owed' + Weight(ask[q].pc) = Owed + Weight(pc)
<1>1. "new" \notin {"call"} /\ "new" \notin {"model", "pause"}
  OBVIOUS
<1>2. QuestionsInv'
  BY MovePreservesQuestions
<1> PICK a, b, c, d : /\ a = Cardinality(Asking({"call"}))
                      /\ b = Cardinality(Asking({"model", "pause"}))
                      /\ c = Cardinality(Asking({"call"})')
                      /\ d = Cardinality(Asking({"model", "pause"})')
  OBVIOUS
<1>3. a \in Nat /\ b \in Nat
  BY <1>1, AskingFinite
<1>4. c \in Nat /\ d \in Nat
  <2>1. /\ Asking({"call"})' \in SUBSET Begun' /\ Asking({"model", "pause"})' \in SUBSET Begun'
        /\ IsFiniteSet(Begun')
    BY <1>2 DEF Asking, Begun, QuestionsInv
  <2>2. IsFiniteSet(Asking({"call"})') /\ IsFiniteSet(Asking({"model", "pause"})')
    BY <2>1, FS_Subset
  <2>3. QED
    BY <2>2, FS_CardinalityType
<1>5. c + (IF ask[q].pc \in {"call"} THEN 1 ELSE 0) = a + (IF pc \in {"call"} THEN 1 ELSE 0)
  BY <1>1, AskingStep
<1>6. d + (IF ask[q].pc \in {"model", "pause"} THEN 1 ELSE 0)
        = b + (IF pc \in {"model", "pause"} THEN 1 ELSE 0)
  BY <1>1, AskingStep
<1>7. Owed = 2 * a + b /\ Owed' = 2 * c + d
  BY DEF Owed
<1>8. \A stage : Weight(stage) = 2 * (IF stage \in {"call"} THEN 1 ELSE 0)
                                  + (IF stage \in {"model", "pause"} THEN 1 ELSE 0)
  BY DEF Weight
<1> PICK u, v, x, y : /\ u = (IF ask[q].pc \in {"call"} THEN 1 ELSE 0)
                      /\ v = (IF ask[q].pc \in {"model", "pause"} THEN 1 ELSE 0)
                      /\ x = (IF pc \in {"call"} THEN 1 ELSE 0)
                      /\ y = (IF pc \in {"model", "pause"} THEN 1 ELSE 0)
  OBVIOUS
<1>9. u \in Nat /\ v \in Nat /\ x \in Nat /\ y \in Nat
  OBVIOUS
<1>10. Weight(ask[q].pc) = 2 * u + v /\ Weight(pc) = 2 * x + y
  BY <1>8
<1>11. c + u = a + x /\ d + v = b + y
  BY <1>5, <1>6
<1>12. QED
  BY <1>3, <1>4, <1>7, <1>9, <1>10, <1>11

LEMMA ProductGrows ==
  ASSUME NEW r \in Nat, NEW s \in Nat, r <= s
  PROVE  /\ DailyLimit * (1 + r) \in Nat /\ DailyLimit * (1 + s) \in Nat
         /\ DailyLimit * (1 + r) <= DailyLimit * (1 + s)
<1> PICK more : more = s - r
  OBVIOUS
<1>1. DailyLimit \in Nat /\ more \in Nat /\ s = r + more
  BY DaysLemma
<1>2. DailyLimit * (1 + s) = DailyLimit * (1 + r) + DailyLimit * more
  BY <1>1
<1>3. DailyLimit * more \in Nat /\ DailyLimit * (1 + r) \in Nat
  BY <1>1
<1>4. QED
  BY <1>2, <1>3

\* A day that adds up is within its bound.
LEMMA DayBound ==
  ASSUME NEW r \in Nat, NEW used \in Nat, NEW before \in Nat, NEW owed \in Nat, NEW n \in Nat,
         n + owed <= 2 * (Least(used, DailyLimit) + DailyLimit * r + before)
  PROVE  n <= 2 * (DailyLimit * (1 + r) + before)
<1> PICK lost : lost = DailyLimit * r
  OBVIOUS
<1>1. DailyLimit \in Nat /\ lost \in Nat /\ DailyLimit * (1 + r) = DailyLimit + lost
  BY DaysLemma
<1>2. Least(used, DailyLimit) \in Nat /\ Least(used, DailyLimit) <= DailyLimit
  BY <1>1 DEF Least
<1>3. QED
  BY <1>1, <1>2

\* What keeps the budget: the counters of today move with what is owed, and
\* nothing else about it changes.
LEMMA DayKept ==
  ASSUME BudgetInv, BudgetTyped', UNCHANGED <<clock, late>>, DayInStep',
         \A d \in Day : d # ProviderDay => called'[d] = called[d],
         restarts <= restarts', Owed' \in Nat
  PROVE  BudgetInv'
<1>1. ProviderDay' = ProviderDay /\ ProviderDay \in Day /\ Day \subseteq Nat
  BY DaysLemma DEF ProviderDay, BudgetInv, BudgetTyped
<1>2. ASSUME NEW d \in Day, d > ProviderDay
      PROVE  called'[d] = 0
  <2>1. d # ProviderDay
    BY <1>1, <1>2
  <2>2. QED
    BY <1>2, <2>1 DEF BudgetInv
<1>3. ASSUME NEW d \in Day
      PROVE  called'[d] <= 2 * (DailyLimit * (1 + restarts') + late'[d])
  <2>1. CASE d = ProviderDay
    <3> PICK r, used, before, n :
          /\ r = restarts' /\ used = taken'[ProviderDay] /\ before = late'[ProviderDay]
          /\ n = called'[ProviderDay]
      OBVIOUS
    <3>1. r \in Nat /\ used \in Nat /\ before \in Nat /\ n \in Nat
      BY <1>1, DaysLemma DEF BudgetTyped
    <3>2. n + Owed' <= 2 * (Least(used, DailyLimit) + DailyLimit * r + before)
      BY <1>1 DEF DayInStep
    <3>3. n <= 2 * (DailyLimit * (1 + r) + before)
      BY <3>1, <3>2, DayBound
    <3>4. QED
      BY <2>1, <3>3
  <2>2. CASE d # ProviderDay
    <3> PICK r, s, before, n : r = restarts /\ s = restarts' /\ before = late[d] /\ n = called[d]
      OBVIOUS
    <3>1. r \in Nat /\ s \in Nat /\ r <= s /\ before \in Nat /\ n \in Nat
      BY DaysLemma DEF BudgetInv, BudgetTyped
    <3>2. n <= 2 * (DailyLimit * (1 + r) + before)
      BY DEF BudgetInv, ProviderDayBound
    <3>3. DailyLimit * (1 + r) <= DailyLimit * (1 + s) /\ DailyLimit * (1 + r) \in Nat
          /\ DailyLimit * (1 + s) \in Nat
      BY <3>1, DaysLemma, ProductGrows
    <3> PICK x, y : x = DailyLimit * (1 + r) /\ y = DailyLimit * (1 + s)
      OBVIOUS
    <3>4. n <= 2 * (x + before) /\ x <= y /\ x \in Nat /\ y \in Nat
      BY <3>2, <3>3
    <3>5. n <= 2 * (y + before)
      BY <3>1, <3>4
    <3>6. called'[d] = n /\ late'[d] = before
      BY <2>2
    <3>7. QED
      BY <3>5, <3>6
  <2>3. QED
    BY <2>1, <2>2
<1>4. QED
  BY <1>1, <1>2, <1>3 DEF BudgetInv, ProviderDayBound

\* The questions owe no more, and the counters stay.
LEMMA EasingPreservesBudget ==
  ASSUME BudgetInv, UNCHANGED <<taken, clock, restarts, called, late>>,
         faults' \in 0 .. MaxFaults, Owed \in Nat, Owed' \in Nat, Owed' <= Owed
  PROVE  BudgetInv'
<1>1. ProviderDay' = ProviderDay /\ ProviderDay \in Day
  BY DaysLemma DEF ProviderDay, BudgetInv, BudgetTyped
<1>2. BudgetTyped'
  BY DEF BudgetInv, BudgetTyped
<1>3. DayInStep'
  <2> PICK n, paid : /\ n = called[ProviderDay]
                     /\ paid = 2 * (Least(taken[ProviderDay], DailyLimit)
                                    + DailyLimit * restarts + late[ProviderDay])
    OBVIOUS
  <2>1. n + Owed <= paid /\ n \in Nat
    BY <1>1 DEF BudgetInv, DayInStep, BudgetTyped
  <2>2. paid \in Int
    <3>1. taken[ProviderDay] \in Nat /\ late[ProviderDay] \in Nat /\ restarts \in Nat
      BY <1>1, DaysLemma DEF BudgetInv, BudgetTyped
    <3>2. Least(taken[ProviderDay], DailyLimit) \in Nat /\ DailyLimit * restarts \in Nat
      BY <3>1, DaysLemma DEF Least
    <3>3. QED
      BY <3>1, <3>2
  <2>3. n + Owed' <= paid
    BY <2>1, <2>2
  <2>4. QED
    BY <1>1, <2>3 DEF DayInStep
<1>4. restarts <= restarts'
  BY DaysLemma DEF BudgetInv, BudgetTyped
<1>5. QED
  BY <1>2, <1>3, <1>4, DayKept

\* What the counter of the day, and the counters lost, pay for.
LEMMA LostLemma ==
  ASSUME NEW r \in Nat
  PROVE  DailyLimit * r \in Nat /\ DailyLimit * (r + 1) = DailyLimit * r + DailyLimit
BY DaysLemma

LEMMA PaidLemma ==
  ASSUME NEW used \in Nat
  PROVE  /\ Least(used, DailyLimit) \in Nat /\ Least(used + 1, DailyLimit) \in Nat
         /\ Least(used, DailyLimit) <= Least(used + 1, DailyLimit)
         /\ used + 1 <= DailyLimit => Least(used + 1, DailyLimit) = Least(used, DailyLimit) + 1
         /\ Least(used, DailyLimit) <= DailyLimit /\ Least(0, DailyLimit) = 0
<1>1. DailyLimit \in Nat
  BY DaysLemma
<1>2. QED
  BY <1>1 DEF Least

LEMMA NoneMoved ==
  ASSUME NEW owed \in Nat, NEW now \in Nat, NEW a, NEW b, a = 0, b = 0, now + b = owed + a
  PROVE  now = owed
OBVIOUS

LEMMA TakePreservesBudget ==
  ASSUME QuestionsInv, BudgetInv, NEW q \in Question, NEW fate \in Fates, Take(q, fate)
  PROVE  BudgetInv'
<1>1. /\ ProviderDay' = ProviderDay /\ ProviderDay \in Day /\ QuotaDay = ProviderDay
      /\ UNCHANGED <<log, clock, restarts, called, late>> /\ ask[q].pc = "turn"
  BY DaysLemma DEF Take, ProviderDay, QuotaDay, BudgetInv, BudgetTyped, provider
<1>2. /\ taken \in [Day -> Nat] /\ taken[ProviderDay] \in Nat
      /\ taken' = IF fate = "refused" THEN taken
                  ELSE [taken EXCEPT ![ProviderDay] = taken[ProviderDay] + 1]
  BY <1>1 DEF Take, BudgetInv, BudgetTyped
<1>3. BudgetTyped'
  <2>1. faults' \in 0 .. MaxFaults
    BY DaysLemma DEF Take, RedisFate, BudgetInv, BudgetTyped
  <2>2. taken' \in [Day -> Nat]
    <3>1. taken[ProviderDay] + 1 \in Nat
      BY <1>2
    <3>2. [taken EXCEPT ![ProviderDay] = taken[ProviderDay] + 1] \in [Day -> Nat]
      BY <1>2, <3>1
    <3>3. QED
      BY <1>2, <3>2, Zenon
  <2>3. QED
    BY <1>1, <2>1, <2>2 DEF BudgetInv, BudgetTyped
<1> DEFINE pc == IF fate = Served /\ taken[ProviderDay] + 1 <= DailyLimit THEN "call" ELSE "done"
<1>4. MovesTo(q, pc) /\ pc \in Stages /\ Weight(ask[q].pc) = 0
      /\ Weight(pc) = IF fate = Served /\ taken[ProviderDay] + 1 <= DailyLimit THEN 2 ELSE 0
  <2>1. MovesTo(q, pc)
    BY <1>1, TakeMoves
  <2>2. QED
    BY <1>1, <2>1 DEF Stages, Weight
<1> HIDE DEF pc
<1>5. Owed \in Nat /\ Owed' \in Nat /\ Owed' + Weight(ask[q].pc) = Owed + Weight(pc)
  BY <1>1, <1>4, OwedStep
<1>6. DayInStep'
  <2> PICK used, r, before, n : /\ used = taken[ProviderDay] /\ r = restarts
                                /\ before = late[ProviderDay] /\ n = called[ProviderDay]
    OBVIOUS
  <2>1. used \in Nat /\ r \in Nat /\ before \in Nat /\ n \in Nat
    BY <1>1, DaysLemma DEF BudgetInv, BudgetTyped
  <2> PICK lost, pays, next : /\ lost = DailyLimit * r /\ pays = Least(used, DailyLimit)
                              /\ next = Least(taken'[ProviderDay], DailyLimit)
    OBVIOUS
  <2>2. lost \in Nat /\ pays \in Nat
    BY <2>1, PaidLemma, LostLemma
  <2>3. n + Owed <= 2 * (pays + lost + before)
    BY DEF BudgetInv, DayInStep
  <2>4. taken'[ProviderDay] = used \/ taken'[ProviderDay] = used + 1
    BY <1>1, <1>2
  <2>5. next \in Nat /\ pays <= next
    <3>1. pays <= Least(used + 1, DailyLimit) /\ Least(used + 1, DailyLimit) \in Nat
      BY <2>1, PaidLemma
    <3>2. QED
      BY <2>2, <2>4, <3>1
  <2>6. n + Owed' <= 2 * (next + lost + before)
    <3>1. CASE fate = Served /\ used + 1 <= DailyLimit
      <4>1. taken'[ProviderDay] = used + 1
        BY <1>1, <1>2, <3>1 DEF Served
      <4>2. next = pays + 1
        BY <2>1, <3>1, <4>1, PaidLemma
      <4>3. Owed' = Owed + 2
        BY <1>4, <1>5, <3>1
      <4>4. QED
        BY <1>5, <2>1, <2>2, <2>3, <4>2, <4>3
    <3>2. CASE ~ (fate = Served /\ used + 1 <= DailyLimit)
      <4>1. Weight(pc) = 0 /\ Weight(ask[q].pc) = 0
        BY <1>4, <3>2
      <4>2. Owed' = Owed
        BY <1>5, <4>1, NoneMoved, Zenon
      <4>3. Owed' <= Owed
        BY <1>5, <4>2
      <4>4. QED
        BY <1>5, <2>1, <2>2, <2>3, <2>5, <4>3
    <3>3. QED
      BY <3>1, <3>2
  <2>7. QED
    BY <1>1, <2>6 DEF DayInStep
<1>7. restarts <= restarts'
  BY <1>1, DaysLemma DEF BudgetInv, BudgetTyped
<1>8. QED
  BY <1>1, <1>3, <1>5, <1>6, <1>7, DayKept

LEMMA RequestPreservesBudget ==
  ASSUME QuestionsInv, BudgetInv, NEW q \in Question, CallModel(q) \/ Retry(q)
  PROVE  BudgetInv'
<1>1. PICK pc \in {"model", "retrying"} :
        Request(q, pc) /\ MovesTo(q, pc) /\ Weight(pc) + 1 = Weight(ask[q].pc)
  BY RequestMoves
<1>2. /\ UNCHANGED <<log, taken, clock, faults, restarts, late>>
      /\ called' = [called EXCEPT ![ProviderDay] = @ + 1]
  BY <1>1 DEF Request, store
<1>3. ProviderDay' = ProviderDay /\ ProviderDay \in Day
  BY <1>2, DaysLemma DEF ProviderDay, BudgetInv, BudgetTyped
<1>4. called \in [Day -> Nat] /\ called'[ProviderDay] = called[ProviderDay] + 1
      /\ called' \in [Day -> Nat] /\ called[ProviderDay] \in Nat
  BY <1>2, <1>3 DEF BudgetInv, BudgetTyped
<1>5. BudgetTyped'
  BY <1>2, <1>4 DEF BudgetInv, BudgetTyped
<1>6. Owed \in Nat /\ Owed' \in Nat /\ Owed' + 1 <= Owed
  <2>1. pc \in Stages /\ Weight(pc) \in Nat
    BY DEF Stages, Weight
  <2>2. Owed \in Nat /\ Owed' \in Nat /\ Owed' + Weight(ask[q].pc) = Owed + Weight(pc)
    BY <1>1, <1>2, <2>1, OwedStep
  <2>3. QED
    BY <1>1, <2>1, <2>2
<1>7. DayInStep'
  <2> DEFINE n == called[ProviderDay]
             paid == 2 * (Least(taken[ProviderDay], DailyLimit)
                          + DailyLimit * restarts + late[ProviderDay])
  <2>1. n + Owed <= paid /\ n \in Nat
    BY <1>4 DEF BudgetInv, DayInStep
  <2>2. paid \in Int
    <3>1. taken[ProviderDay] \in Nat /\ late[ProviderDay] \in Nat /\ restarts \in Nat
      BY <1>3, DaysLemma DEF BudgetInv, BudgetTyped
    <3>2. Least(taken[ProviderDay], DailyLimit) \in Nat /\ DailyLimit * restarts \in Nat
      BY <3>1, PaidLemma, LostLemma
    <3>3. QED
      BY <3>1, <3>2
  <2>3. (n + 1) + Owed' <= paid
    <3> HIDE DEF n, paid
    <3>1. PICK now : now = Owed'
      OBVIOUS
    <3>2. now \in Nat /\ now + 1 <= Owed
      BY <1>6, <3>1, Zenon
    <3>3. (n + 1) + now <= paid
      BY <1>6, <2>1, <2>2, <3>2
    <3>4. QED
      BY <3>1, <3>3, Zenon
  <2>4. QED
    BY <1>2, <1>3, <1>4, <2>3 DEF DayInStep
<1>8. restarts <= restarts' /\ \A d \in Day : d # ProviderDay => called'[d] = called[d]
  BY <1>2, <1>4, DaysLemma DEF BudgetInv, BudgetTyped
<1>9. QED
  BY <1>2, <1>5, <1>6, <1>7, <1>8, DayKept

LEMMA OwedSame ==
  ASSUME QuestionsInv, UNCHANGED ask
  PROVE  Owed \in Nat /\ Owed' = Owed
<1>1. "new" \notin {"call"} /\ "new" \notin {"model", "pause"}
  OBVIOUS
<1>2. Cardinality(Asking({"call"})) \in Nat /\ Cardinality(Asking({"model", "pause"})) \in Nat
  BY <1>1, AskingFinite
<1>3. QED
  BY <1>2 DEF Owed, Asking

LEMMA RestartPreservesBudget ==
  ASSUME QuestionsInv, BudgetInv, RedisRestarts
  PROVE  BudgetInv'
<1>1. /\ UNCHANGED <<log, ask, clock, faults, called, late>> /\ restarts' = restarts + 1
      /\ restarts < MaxRestarts /\ taken' = [d \in Day |-> 0]
  BY DEF RedisRestarts, provider
<1>2. ProviderDay' = ProviderDay /\ ProviderDay \in Day
  BY <1>1, DaysLemma DEF ProviderDay, BudgetInv, BudgetTyped
<1>3. restarts \in Nat /\ restarts <= restarts' /\ restarts' \in 0 .. MaxRestarts
  BY <1>1, DaysLemma DEF BudgetInv, BudgetTyped
<1>4. BudgetTyped'
  BY <1>1, <1>3 DEF BudgetInv, BudgetTyped
<1>5. Owed \in Nat /\ Owed' = Owed
  BY <1>1, OwedSame
<1>6. DayInStep'
  <2> PICK used, r, before, n : /\ used = taken[ProviderDay] /\ r = restarts
                                /\ before = late[ProviderDay] /\ n = called[ProviderDay]
    OBVIOUS
  <2>1. used \in Nat /\ r \in Nat /\ before \in Nat /\ n \in Nat
    BY <1>2, <1>3 DEF BudgetInv, BudgetTyped
  <2> PICK lost, pays, more : /\ lost = DailyLimit * r /\ pays = Least(used, DailyLimit)
                              /\ more = DailyLimit * (r + 1)
    OBVIOUS
  <2>2. lost \in Nat /\ pays \in Nat /\ pays <= DailyLimit /\ more = lost + DailyLimit
        /\ Least(0, DailyLimit) = 0 /\ DailyLimit \in Nat
    BY <2>1, PaidLemma, LostLemma, DaysLemma
  <2>3. n + Owed <= 2 * (pays + lost + before)
    BY DEF BudgetInv, DayInStep
  <2>4. n + Owed <= 2 * (0 + more + before)
    BY <1>5, <2>1, <2>2, <2>3
  <2>5. taken'[ProviderDay] = 0
    BY <1>1, <1>2
  <2>6. QED
    BY <1>1, <1>2, <1>5, <2>2, <2>4, <2>5 DEF DayInStep
<1>7. QED
  BY <1>1, <1>3, <1>4, <1>5, <1>6, DayKept

\* Half a day passes; at midnight what is owed is carried over.
LEMMA HalfDayPreservesBudget ==
  ASSUME QuestionsInv, BudgetInv, HalfDay
  PROVE  BudgetInv'
<1>1. /\ UNCHANGED <<log, ask, taken, faults, restarts, called>>
      /\ clock' = clock + 1 /\ clock < LastHalfDay
      /\ late' = IF ProviderDay' = ProviderDay THEN late
                 ELSE [late EXCEPT ![ProviderDay'] = Cardinality({q \in Question : Owing(q)})]
  BY DEF HalfDay, store
<1>2. /\ clock \in 0 .. LastHalfDay /\ clock' \in 0 .. LastHalfDay
      /\ ProviderDay \in Day /\ ProviderDay \in Nat /\ Day \subseteq Nat
  BY <1>1, DaysLemma DEF BudgetInv, BudgetTyped
<1>3. /\ ProviderDay' \in Day /\ ProviderDay' \in Nat
      /\ ProviderDay' = ProviderDay \/ ProviderDay' = ProviderDay + 1
  BY <1>1, <1>2, DaysLemma DEF ProviderDay, Day
<1>4. Owed \in Nat /\ Owed' = Owed
  BY <1>1, OwedSame
<1>5. CASE ProviderDay' = ProviderDay
  <2>1. late' = late
    BY <1>1, <1>5
  <2>2. BudgetTyped'
    BY <1>1, <1>2, <2>1 DEF BudgetInv, BudgetTyped
  <2>3. DayInStep'
    BY <1>1, <1>4, <1>5, <2>1 DEF BudgetInv, DayInStep
  <2>4. ProviderDayBound'
    BY <1>1, <2>1 DEF BudgetInv, ProviderDayBound
  <2>5. QED
    BY <1>1, <1>5, <2>2, <2>3, <2>4 DEF BudgetInv
<1>6. CASE ProviderDay' # ProviderDay
  <2> PICK today, n : today = ProviderDay' /\ n = Cardinality({q \in Question : Owing(q)})
    OBVIOUS
  <2>1. today \in Day /\ today = ProviderDay + 1 /\ today > ProviderDay
    BY <1>2, <1>3, <1>6
  <2>2. n \in Nat /\ Owed <= 2 * n
    <3> DEFINE A == Asking({"call"})
               B == Asking({"model", "pause"})
    <3>1. "new" \notin {"call"} /\ "new" \notin {"model", "pause"}
      OBVIOUS
    <3>2. /\ IsFiniteSet(A) /\ IsFiniteSet(B)
          /\ Cardinality(A) \in Nat /\ Cardinality(B) \in Nat
      BY <3>1, AskingFinite
    <3>3. A \cap B = {} /\ {q \in Question : Owing(q)} = A \cup B
      BY DEF Asking, Owing
    <3> HIDE DEF A, B
    <3>4. Cardinality(A \cup B) = Cardinality(A) + Cardinality(B) - Cardinality(A \cap B)
      BY <3>2, FS_Union
    <3>5. Cardinality(A \cap B) = 0
      BY <3>3, FS_EmptySet
    <3>6. n = Cardinality(A \cup B)
      BY <3>3
    <3>7. n = Cardinality(A) + Cardinality(B)
      BY <3>2, <3>4, <3>5, <3>6
    <3>8. Owed = 2 * Cardinality(A) + Cardinality(B)
      BY DEF Owed, A, B
    <3>9. QED
      BY <3>2, <3>7, <3>8
  <2>3. late \in [Day -> Nat] /\ late' = [late EXCEPT ![today] = n]
    BY <1>1, <1>6 DEF BudgetInv, BudgetTyped
  <2>4. late' \in [Day -> Nat] /\ late'[today] = n
        /\ \A d \in Day : d # today => late'[d] = late[d]
    BY <2>1, <2>2, <2>3
  <2>5. BudgetTyped'
    BY <1>1, <1>2, <2>4 DEF BudgetInv, BudgetTyped
  <2>6. called[today] = 0
    BY <2>1 DEF BudgetInv
  <2>7. DayInStep'
    <3> DEFINE paid == 2 * (Least(taken[today], DailyLimit) + DailyLimit * restarts + n)
    <3>1. taken[today] \in Nat /\ restarts \in Nat
      BY <2>1, DaysLemma DEF BudgetInv, BudgetTyped
    <3>2. Least(taken[today], DailyLimit) \in Nat /\ DailyLimit * restarts \in Nat
      BY <3>1, PaidLemma, LostLemma
    <3>3. 0 + Owed <= paid
      BY <1>4, <2>2, <3>2
    <3>4. QED
      BY <1>1, <1>4, <2>4, <2>6, <3>3 DEF DayInStep
  <2>8. ProviderDayBound'
    <3>1. SUFFICES ASSUME NEW d \in Day
                   PROVE  called[d] <= 2 * (DailyLimit * (1 + restarts) + late'[d])
      BY <1>1 DEF ProviderDayBound
    <3>2. CASE d = today
      <4>1. restarts \in Nat /\ restarts <= restarts
        BY DaysLemma DEF BudgetInv, BudgetTyped
      <4>2. DailyLimit * (1 + restarts) \in Nat
        BY <4>1, ProductGrows
      <4>3. 0 <= 2 * (DailyLimit * (1 + restarts) + n)
        BY <2>2, <4>2
      <4>4. QED
        BY <2>4, <2>6, <3>2, <4>3
    <3>3. CASE d # today
      BY <2>4, <3>3 DEF BudgetInv, ProviderDayBound
    <3>4. QED
      BY <3>2, <3>3
  <2>9. ASSUME NEW d \in Day, d > today
        PROVE  called[d] = 0
    <3>1. d > ProviderDay
      BY <1>2, <2>1, <2>9
    <3>2. QED
      BY <3>1 DEF BudgetInv
  <2>10. QED
    BY <1>1, <2>5, <2>7, <2>8, <2>9 DEF BudgetInv
<1>7. QED
  BY <1>5, <1>6

LEMMA BudgetInit ==
  ASSUME Init, QuestionsInv
  PROVE  BudgetInv
<1>1. BudgetTyped
  BY DaysLemma DEF Init, BudgetTyped
<1>2. ProviderDay \in Day
  BY <1>1, DaysLemma DEF BudgetTyped
<1>3. Asking({"call"}) = {} /\ Asking({"model", "pause"}) = {}
  BY DEF Init, Asking, Unasked
<1>4. Owed = 0
  BY <1>3, FS_EmptySet DEF Owed
<1>5. \A d \in Day : called[d] = 0 /\ taken[d] = 0 /\ late[d] = 0
  BY DEF Init
<1>6. restarts = 0 /\ restarts \in Nat /\ DailyLimit \in Nat
      /\ DailyLimit * restarts = 0 /\ DailyLimit * (1 + restarts) \in Nat
  BY DaysLemma DEF Init
<1>7. DayInStep
  BY <1>2, <1>4, <1>5, <1>6 DEF DayInStep, Least
<1>8. ProviderDayBound
  BY <1>5, <1>6 DEF ProviderDayBound
<1>9. QED
  BY <1>1, <1>5, <1>7, <1>8 DEF BudgetInv

-----------------------------------------------------------------------------
(* The whole invariant.                                                    *)

AssistantInv == QuestionsInv /\ WindowsInv /\ BudgetInv

LEMMA InitEstablishes ==
  ASSUME Init
  PROVE  AssistantInv
<1>1. QuestionsInv
  <2>1. log = {} /\ ask = [q \in Question |-> Unasked]
    BY DEF Init
  <2>2. Unasked \in Run /\ RunHolds(Unasked, {}) /\ Unasked.pc = "new"
    BY UnaskedLemma DEF Unasked
  <2>3. Begun = {}
    BY <2>1, <2>2 DEF Begun
  <2>4. IsFiniteSet(Begun)
    BY <2>3, FS_EmptySet
  <2>5. QED
    BY <2>1, <2>2, <2>4 DEF QuestionsInv
<1>2. WindowsInv
  BY WindowsInit
<1>3. BudgetInv
  BY <1>1, BudgetInit
<1>4. QED
  BY <1>1, <1>2, <1>3 DEF AssistantInv

\* A question goes on and owes no more: the budget is kept.
LEMMA EasesKept ==
  ASSUME AssistantInv, NEW q \in Question, Eases(q),
         UNCHANGED <<log, taken, clock, restarts, called, late>>, faults' \in 0 .. MaxFaults
  PROVE  QuestionsInv' /\ BudgetInv'
<1>1. PICK pc \in Stages \ {"new"} : MovesTo(q, pc) /\ Weight(pc) <= Weight(ask[q].pc)
  BY DEF Eases
<1>2. QuestionsInv'
  BY <1>1, MovePreservesQuestions DEF AssistantInv
<1>3. Owed \in Nat /\ Owed' \in Nat /\ Owed' + Weight(ask[q].pc) = Owed + Weight(pc)
  BY <1>1, OwedStep DEF AssistantInv
<1>4. Owed' <= Owed
  <2>1. PICK now, a, b : now = Owed' /\ a = Weight(pc) /\ b = Weight(ask[q].pc)
    OBVIOUS
  <2>2. a \in Nat /\ b \in Nat /\ a <= b
    BY <1>1, <2>1 DEF Weight
  <2>3. now \in Nat /\ now + b = Owed + a
    BY <1>3, <2>1, Zenon
  <2>4. now <= Owed
    BY <1>3, <2>2, <2>3
  <2>5. QED
    BY <2>1, <2>4, Zenon
<1>5. BudgetInv'
  BY <1>3, <1>4, EasingPreservesBudget DEF AssistantInv
<1>6. QED
  BY <1>2, <1>5

\* One more Redis command may have failed.
LEMMA FateKeepsFaults ==
  ASSUME AssistantInv, NEW fate, RedisFate(fate)
  PROVE  faults' \in 0 .. MaxFaults
BY DaysLemma DEF RedisFate, AssistantInv, BudgetInv, BudgetTyped

LEMMA AskPreserves ==
  ASSUME AssistantInv, NEW q \in Question, NEW c \in Client, NEW asked \in Few(Fact),
         NEW valid \in BOOLEAN, NEW fate \in Fates, Ask(q, c, asked, valid, fate)
  PROVE  AssistantInv'
<1>1. asked \in SUBSET Fact
  BY DEF Few
<1>2. Eases(q)
  BY <1>1, AskEases DEF AssistantInv
<1>3. UNCHANGED <<log, taken, clock, restarts, called, late>> /\ RedisFate(fate)
  BY DEF Ask, provider
<1>4. faults' \in 0 .. MaxFaults
  BY <1>3, FateKeepsFaults
<1>5. QuestionsInv' /\ BudgetInv'
  BY <1>2, <1>3, <1>4, EasesKept
<1>6. WindowsInv'
  BY AskPreservesWindows DEF AssistantInv
<1>7. QED
  BY <1>5, <1>6 DEF AssistantInv

LEMMA QuietPreserves ==
  ASSUME AssistantInv, NEW q \in Question, Quiet(q)
  PROVE  AssistantInv'
<1>1. Eases(q) /\ ServiceSame
  BY QuietEases DEF AssistantInv
<1>2. /\ UNCHANGED <<log, taken, clock, restarts, called, late>>
      /\ UNCHANGED <<windows, admitted, opened>> /\ faults' = faults
  BY <1>1 DEF ServiceSame, store, provider
<1>3. faults' \in 0 .. MaxFaults
  BY <1>2 DEF AssistantInv, BudgetInv, BudgetTyped
<1>4. QuestionsInv' /\ BudgetInv'
  BY <1>1, <1>2, <1>3, EasesKept
<1>5. WindowsInv'
  BY <1>2, WindowsUnchanged DEF AssistantInv
<1>6. QED
  BY <1>4, <1>5 DEF AssistantInv

LEMMA TakePreserves ==
  ASSUME AssistantInv, NEW q \in Question, NEW fate \in Fates, Take(q, fate)
  PROVE  AssistantInv'
<1>1. UNCHANGED log /\ UNCHANGED <<windows, admitted, opened>>
  BY DEF Take
<1>2. \E pc \in Stages : MovesTo(q, pc)
  BY TakeMoves DEF AssistantInv, Stages
<1>3. QuestionsInv'
  BY <1>1, <1>2, MovePreservesQuestions DEF AssistantInv
<1>4. WindowsInv'
  BY <1>1, WindowsUnchanged DEF AssistantInv
<1>5. BudgetInv'
  BY TakePreservesBudget DEF AssistantInv
<1>6. QED
  BY <1>3, <1>4, <1>5 DEF AssistantInv

LEMMA RequestPreserves ==
  ASSUME AssistantInv, NEW q \in Question, CallModel(q) \/ Retry(q)
  PROVE  AssistantInv'
<1>1. PICK pc : Request(q, pc) /\ MovesTo(q, pc)
  BY RequestMoves DEF AssistantInv
<1>2. UNCHANGED log /\ UNCHANGED <<windows, admitted, opened>>
  BY <1>1 DEF Request, store
<1>3. QuestionsInv'
  BY <1>1, <1>2, MovePreservesQuestions DEF AssistantInv
<1>4. WindowsInv'
  BY <1>2, WindowsUnchanged DEF AssistantInv
<1>5. BudgetInv'
  BY RequestPreservesBudget DEF AssistantInv
<1>6. QED
  BY <1>3, <1>4, <1>5 DEF AssistantInv

\* What the questions and the counters of the budget do not notice.
LEMMA BudgetUnchanged ==
  ASSUME AssistantInv, UNCHANGED <<ask, taken, clock, faults, restarts, called, late>>
  PROVE  BudgetInv'
<1>1. Owed \in Nat /\ Owed' = Owed
  BY OwedSame DEF AssistantInv
<1>2. faults' \in 0 .. MaxFaults
  BY DEF AssistantInv, BudgetInv, BudgetTyped
<1>3. Owed' \in Nat /\ Owed' <= Owed
  BY <1>1
<1>4. QED
  BY <1>1, <1>2, <1>3, EasingPreservesBudget DEF AssistantInv

LEMMA NextPreserves ==
  ASSUME AssistantInv, Next
  PROVE  AssistantInv'
<1>1. ASSUME NEW e \in Event, Project(e)
      PROVE  AssistantInv'
  <2>1. /\ UNCHANGED <<ask, taken, clock, faults, restarts, called, late>>
        /\ UNCHANGED <<windows, admitted, opened>>
    BY <1>1 DEF Project, store, provider
  <2>2. QuestionsInv'
    BY <1>1, ProjectPreservesQuestions DEF AssistantInv
  <2>3. WindowsInv' /\ BudgetInv'
    BY <2>1, WindowsUnchanged, BudgetUnchanged DEF AssistantInv
  <2>4. QED
    BY <2>2, <2>3 DEF AssistantInv
<1>2. CASE Tick
  <2>1. UNCHANGED <<log, ask>> /\ UNCHANGED <<ask, taken, clock, faults, restarts, called, late>>
    BY <1>2 DEF Tick, provider
  <2>2. QuestionsInv' /\ BudgetInv'
    BY <2>1, QuestionsUnchanged, BudgetUnchanged DEF AssistantInv
  <2>3. WindowsInv'
    BY <1>2, TickPreservesWindows DEF AssistantInv
  <2>4. QED
    BY <2>2, <2>3 DEF AssistantInv
<1>3. CASE HalfDay
  <2>1. UNCHANGED <<log, ask>> /\ UNCHANGED <<windows, admitted, opened>>
    BY <1>3 DEF HalfDay, store
  <2>2. QuestionsInv' /\ WindowsInv'
    BY <2>1, QuestionsUnchanged, WindowsUnchanged DEF AssistantInv
  <2>3. BudgetInv'
    BY <1>3, HalfDayPreservesBudget DEF AssistantInv
  <2>4. QED
    BY <2>2, <2>3 DEF AssistantInv
<1>4. CASE RedisRestarts
  <2>1. /\ UNCHANGED <<log, ask>>
        /\ windows' = [c \in Client |-> [count |-> 0, left |-> 0]]
        /\ admitted' = [c \in Client |-> [n \in Age |-> 0]]
        /\ opened' = [c \in Client |-> 0]
    BY <1>4 DEF RedisRestarts
  <2>2. QuestionsInv' /\ WindowsInv'
    BY <2>1, QuestionsUnchanged, NoWindows DEF AssistantInv
  <2>3. BudgetInv'
    BY <1>4, RestartPreservesBudget DEF AssistantInv
  <2>4. QED
    BY <2>2, <2>3 DEF AssistantInv
<1>5. ASSUME NEW q \in Question, Arrives(q)
      PROVE  AssistantInv'
  BY <1>5, AskPreserves DEF Arrives
<1>6. ASSUME NEW q \in Question, Abort(q) \/ Advance(q) \/ ModelReplies(q)
      PROVE  AssistantInv'
  <2>1. \/ Quiet(q) \/ CallModel(q) \/ Retry(q)
        \/ \E fate \in Fates : Take(q, fate)
    BY <1>6 DEF Quiet, Advance
  <2>2. QED
    BY <2>1, QuietPreserves, RequestPreserves, TakePreserves
<1>7. QED
  BY <1>1, <1>2, <1>3, <1>4, <1>5, <1>6 DEF Next

LEMMA StutterPreserves ==
  ASSUME AssistantInv, UNCHANGED vars
  PROVE  AssistantInv'
<1>1. /\ UNCHANGED <<log, ask>> /\ UNCHANGED <<windows, admitted, opened>>
      /\ UNCHANGED <<ask, taken, clock, faults, restarts, called, late>>
  BY DEF vars
<1>2. QED
  BY <1>1, QuestionsUnchanged, WindowsUnchanged, BudgetUnchanged DEF AssistantInv

\* The invariant implies each property the runs check.
LEMMA InvariantImplies ==
  ASSUME AssistantInv
  PROVE  /\ TypeOK /\ AnswersAreGrounded /\ NamedIsCited
         /\ BurstBound /\ WindowEnds /\ ProviderDayBound
<1>1. TypeOK
  BY DEF AssistantInv, QuestionsInv, WindowsInv, BudgetInv, BudgetTyped, TypeOK
<1>2. AnswersAreGrounded
  BY DEF AssistantInv, QuestionsInv, RunHolds, ReplyHolds, Held, AnswersAreGrounded
<1>3. NamedIsCited
  BY DEF AssistantInv, QuestionsInv, RunHolds, ReplyHolds, CitesNamed, NamedIsCited
<1>4. BurstBound /\ WindowEnds
  BY WindowsBound DEF AssistantInv
<1>5. ProviderDayBound
  BY DEF AssistantInv, BudgetInv
<1>6. QED
  BY <1>1, <1>2, <1>3, <1>4, <1>5

-----------------------------------------------------------------------------
(* Theorems.                                                               *)

\* The inductive invariant holds of every behaviour, however many questions are
\* in the loop at once and whatever Redis, the model and the clock do.
THEOREM AssistantInvariant == Spec => []AssistantInv
<1>1. Init => AssistantInv
  BY InitEstablishes
<1>2. AssistantInv /\ [Next]_vars => AssistantInv'
  BY NextPreserves, StutterPreserves
<1>3. QED
  BY <1>1, <1>2, PTL DEF Spec

\* execute keeps its turns, its calls of tools and what it returns to their types.
THEOREM AssistantTyped == Spec => []TypeOK
<1>1. AssistantInv => TypeOK
  BY InvariantImplies
<1>2. QED
  BY <1>1, AssistantInvariant, PTL

\* groundAnswer lets no ID and no value through that is not of the question, of
\* the model's own arguments or of the read model, the counts of its orders
\* included, and cites only what is there.
THEOREM NothingInvented == Spec => []AnswersAreGrounded
<1>1. AssistantInv => AnswersAreGrounded
  BY InvariantImplies
<1>2. QED
  BY <1>1, AssistantInvariant, PTL

\* An answer's IDs can be looked up: the order of each is cited.
THEOREM AnswersCanBeChecked == Spec => []NamedIsCited
<1>1. AssistantInv => NamedIsCited
  BY InvariantImplies
<1>2. QED
  BY <1>1, AssistantInvariant, PTL

\* hit: the fixed window lets in less than twice the limit in any stretch of
\* its length, for every limit and every length of the window.
THEOREM BurstsBounded == Spec => []BurstBound
<1>1. AssistantInv => BurstBound
  BY InvariantImplies
<1>2. QED
  BY <1>1, AssistantInvariant, PTL

\* EXPIRE NX: a window is not prolonged by the hits that follow.
THEOREM WindowsEnd == Spec => []WindowEnds
<1>1. AssistantInv => WindowEnds
  BY InvariantImplies
<1>2. QED
  BY <1>1, AssistantInvariant, PTL

\* take: the requests of a day of the provider are paid by the calls of its
\* budget, of the budgets Redis lost, and by those taken before midnight.
THEOREM BudgetBoundsRequests == Spec => []ProviderDayBound
<1>1. AssistantInv => ProviderDayBound
  BY InvariantImplies
<1>2. QED
  BY <1>1, AssistantInvariant, PTL
=============================================================================
