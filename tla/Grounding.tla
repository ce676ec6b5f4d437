----------------------------- MODULE Grounding -----------------------------
(***************************************************************************)
(* What the assistant may say: the evidence its tools gather while one     *)
(* question is answered, and the check of the model's final text against   *)
(* that evidence.                                                          *)
(*                                                                         *)
(* A text is its kind and the set of the facts it names.  A fact is the ID *)
(* of an order, the ID of an event, or a value: an amount, which is a      *)
(* number of cents, or a SKU.  The spellings of a fact (the case of its    *)
(* letters, 20 for 20.00) are one member.  Citations are a set: the order  *)
(* they are listed in is left out.                                         *)
(***************************************************************************)
EXTENDS Naturals, FiniteSets

CONSTANTS
  Order,        \* order IDs
  Event,        \* event IDs
  Value,        \* amounts and SKUs
  OrderOf,      \* OrderOf[e]: the order event e is about
  Carries,      \* Carries[e]: the numbers, as amounts, and the SKUs in the payload of e
  Rejection,    \* the order.rejected events
  MaxCitations  \* MAX_CITATIONS

ASSUME GroundingAssumption ==
  /\ OrderOf \in [Event -> Order]
  /\ Carries \in [Event -> SUBSET Value]
  /\ Rejection \subseteq Event
  /\ MaxCitations \in Nat

Fact == Order \cup Event \cup Value

Text == [kind : {"blank", "instructions", "plain"}, facts : SUBSET Fact]

\* What the tools returned, all of them or one run.
Evidence == [orders : SUBSET Order, events : SUBSET Event, values : SUBSET Value]

NoEvidence == [orders |-> {}, events |-> {}, values |-> {}]

\* add for each order of the run, then addValues of its output.
Add(evidence, run) == [part \in DOMAIN evidence |-> evidence[part] \cup run[part]]

-----------------------------------------------------------------------------
(* The tools, over the events the read model holds. *)

Known(log) == {OrderOf[e] : e \in log}
Rejected(log) == {OrderOf[e] : e \in log \cap Rejection}
EventsOf(log, orders) == {e \in log : OrderOf[e] \in orders}
ValuesIn(events) == UNION {Carries[e] : e \in events}

\* amountReturned: any number in an output is recorded as an amount, so how many
\* orders there are, 3, as 3.00.
Sizes(sets) == {100 * Cardinality(orders) : orders \in sets} \cap Value

\* What counting some of the orders may have recorded.
CountsOf(orders) == Sizes(SUBSET orders)

\* get_order_timeline of a known order.  It may come from the cache, so the
\* events seen are some of those the order has by now.
TimelineFound(log, o) ==
  {[orders |-> {o}, events |-> seen, values |-> ValuesIn(seen)] :
     seen \in SUBSET EventsOf(log, {o}) \ {{}}}

\* Seeded bug: an order nobody knows is evidence all the same.
TimelineMissing_AsEvidence(id) ==
  [orders |-> {id} \cap Order, events |-> {}, values |-> {id} \cap Value]

\* get_order_timeline of an order_id nobody knows: no evidence, but the output
\* repeats the argument, and the values in an output are recorded.
TimelineMissing(id) == [orders |-> {}, events |-> {}, values |-> {id} \cap Value]

\* search_orders: the orders the filters and the limit let through, with some
\* of their fields, and how many they are.
SearchRuns(log) ==
  UNION {{[orders |-> found, events |-> {}, values |-> shown \cup Sizes({found})] :
            shown \in SUBSET ValuesIn(EventsOf(log, found))} :
         found \in SUBSET Known(log)}

\* The rejected orders, grouped by their reasons.
Groupings(orders) ==
  {groups \in SUBSET SUBSET orders :
     /\ {} \notin groups /\ UNION groups = orders
     /\ \A one, other \in groups : one = other \/ one \cap other = {}}

\* The sets of orders that are counted: each group, and in another query, at the
\* same time, the total; an order rejected meanwhile is in one of them.
Counted(log, matched) ==
  {groups \cup {total} :
     groups \in Groupings(matched),
     total \in {t \in SUBSET Rejected(log) : t \subseteq matched \/ matched \subseteq t}}

\* rejection_summary: the products and the reason of each group, how many orders
\* there are, and some of them (at most 20).
SummaryRuns(log) ==
  UNION {{[orders |-> named, events |-> {}, values |-> shown \cup Sizes(counted)] :
            named \in SUBSET matched, shown \in SUBSET ValuesIn(EventsOf(log, matched)),
            counted \in Counted(log, matched)} :
         matched \in SUBSET Rejected(log)}

\* An unknown tool, invalid arguments, or one call too many: an error for the model.
ErrorRun == NoEvidence

-----------------------------------------------------------------------------
\* factsAreGrounded and the loop over idsIn(answer): what neither the tools
\* returned nor the question brought.
Invented(facts, asked, evidence) ==
  facts \ (asked \cup evidence.orders \cup evidence.events \cup evidence.values)

\* orderOf, for every ID of the answer.
Cited(facts, evidence) ==
  {o \in evidence.orders : o \in facts \/ \E e \in facts \cap evidence.events : OrderOf[e] = o}

\* One citation per order, for as many of these orders as an answer may cite.
Listings(orders, evidence) ==
  LET room == IF Cardinality(orders) < MaxCitations THEN Cardinality(orders) ELSE MaxCitations
  IN {{[order |-> o, events |-> {e \in evidence.events : OrderOf[e] = o}] : o \in listed} :
        listed \in {some \in SUBSET orders : Cardinality(some) = room}}

\* Seeded bug: the evidence is cited, whatever the answer names.
Citations_All(facts, evidence) == Listings(evidence.orders, evidence)

\* citations and the slice: the orders named, or all when none is named.
Citations(facts, evidence) ==
  LET cited == Cited(facts, evidence)
  IN Listings(IF cited # {} THEN cited ELSE evidence.orders, evidence)

Replaced(outcome) == [outcome |-> outcome, facts |-> {}, citations |-> {}]

\* quotesInstructions, then groundAnswer: the answers the text may end up as.
GroundAnswer(text, asked, evidence) ==
  CASE text.kind = "instructions" -> {Replaced("leaked")}
    [] text.kind = "blank" -> {Replaced("no_data")}
    [] text.kind = "plain" ->
         IF Invented(text.facts, asked, evidence) # {}
         THEN {Replaced("ungrounded")}
         ELSE {[outcome |-> IF cites # {} THEN "answered" ELSE "no_data",
                facts |-> text.facts, citations |-> cites] :
                 cites \in Citations(text.facts, evidence)}
=============================================================================
