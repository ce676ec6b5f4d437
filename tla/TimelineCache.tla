--------------------------- MODULE TimelineCache ---------------------------
(***************************************************************************)
(* The timeline of one order, cached aside in Redis (GetOrderTimeline,     *)
(* ProjectOrderEvent.execute after its commit, RedisTimelineCache).        *)
(*                                                                         *)
(* Reads and projections are asynchronous handlers of one Node process:    *)
(* they interleave at every command to Redis and statement to PostgreSQL.  *)
(* What the events do to the order is in OrderHistory; here a timeline is  *)
(* told apart by how many events had committed when it was read.  Time     *)
(* passes in ticks; a tick is one EntryTtl-th of ttlSeconds.               *)
(***************************************************************************)
EXTENDS Naturals

CONSTANTS
  Reader,      \* requests for the timeline that may be in flight at once
  MaxEvents,   \* bound: events committed for the order
  EntryTtl,    \* ttlSeconds, in ticks
  ReadTicks,   \* bound: ticks that may pass while one request is served
  FaultKinds,  \* the kinds of fault a run lets happen
  MaxFaults    \* bound: how many of them happen

\* A Redis command fails (or its answer is lost); Redis evicts a key; Redis,
\* which keeps nothing on disk, restarts; a statement to PostgreSQL fails;
\* the process dies.
FaultKind == {"command", "eviction", "restart", "database", "crash"}

ASSUME CacheAssumption ==
  /\ MaxEvents \in Nat /\ EntryTtl \in Nat \ {0} /\ ReadTicks \in Nat
  /\ FaultKinds \subseteq FaultKind /\ MaxFaults \in Nat

GenerationTtl == EntryTtl * 10

VARIABLES
  committed,   \* events of the order in PostgreSQL
  owed,        \* handlers between their commit and their invalidation
  generation,  \* the generation key; left = 0: no such key
  entry,       \* the entry key; left = 0: no such key
  reader,      \* reader[r]: the getOrLoad call of request r
  faults       \* faults so far

\* History: life counts the resets of the generation counter, and cleared is
\* how many events had committed at the last invalidation.
VARIABLES life, cleared

redis == <<generation, entry>>
vars == <<committed, owed, generation, entry, reader, faults, life, cleared>>

-----------------------------------------------------------------------------
\* The timeline read from PostgreSQL: its view after v events, e in its log.
NoGeneration == MaxEvents + 1   \* the read of the generation failed

NoKey == [value |-> 0, left |-> 0]
NoEntry == [gen |-> 0, life |-> 0, view |-> 0, events |-> 0, left |-> 0]

\* get of the generation key, null read as '0'.
Current == IF generation.left = 0 THEN 0 ELSE generation.value

\* A read now would find an entry of the current generation and return it.
Hit == entry.left # 0 /\ entry.gen = Current

Idle == [pc |-> "idle", gen |-> 0, life |-> 0, view |-> 0, events |-> 0, ticks |-> 0]

Init ==
  /\ committed = 0 /\ owed = 0
  /\ generation = NoKey /\ entry = NoEntry
  /\ reader = [r \in Reader |-> Idle]
  /\ faults = 0 /\ life = 0 /\ cleared = 0

Fault(kind) ==
  /\ kind \in FaultKinds /\ faults < MaxFaults
  /\ faults' = faults + 1

-----------------------------------------------------------------------------
(* getOrLoad.                                                              *)

\* mGet misses: the generation seen is kept for the store.
Miss(r) ==
  /\ reader[r].pc = "idle" /\ ~ Hit
  /\ reader' = [reader EXCEPT ![r] = [Idle EXCEPT !.pc = "view", !.gen = Current, !.life = life]]
  /\ UNCHANGED <<committed, owed, redis, faults, life, cleared>>

\* mGet fails: fail open, and nothing will be stored.
ReadFails(r) ==
  /\ reader[r].pc = "idle"
  /\ reader' = [reader EXCEPT ![r] = [Idle EXCEPT !.pc = "view", !.gen = NoGeneration]]
  /\ Fault("command")
  /\ UNCHANGED <<committed, owed, redis, life, cleared>>

\* findTimeline reads the view row; without one there is no timeline, and
\* nothing to store.
FindView(r) ==
  /\ reader[r].pc = "view"
  /\ reader' = [reader EXCEPT ![r] =
       IF committed = 0 THEN Idle ELSE [@ EXCEPT !.pc = "events", !.view = committed]]
  /\ UNCHANGED <<committed, owed, redis, faults, life, cleared>>

\* findTimeline then reads the event log, in a statement of its own.
FindEvents(r) ==
  /\ reader[r].pc = "events"
  /\ reader' = [reader EXCEPT ![r] =
       IF @.gen = NoGeneration THEN Idle ELSE [@ EXCEPT !.pc = "store", !.events = committed]]
  /\ UNCHANGED <<committed, owed, redis, faults, life, cleared>>

\* A statement fails, and the request with it.
LoadFails(r) ==
  /\ reader[r].pc \in {"view", "events"}
  /\ reader' = [reader EXCEPT ![r] = Idle]
  /\ Fault("database")
  /\ UNCHANGED <<committed, owed, redis, life, cleared>>

\* Seeded bug: stored under the generation of now, not of before the load.
Store_CurrentGeneration(r) ==
  /\ reader[r].pc = "store"
  /\ entry' = [gen |-> Current, life |-> life, view |-> reader[r].view,
               events |-> reader[r].events, left |-> EntryTtl]
  /\ reader' = [reader EXCEPT ![r] = Idle]
  /\ UNCHANGED <<committed, owed, generation, faults, life, cleared>>

\* Seeded bug: the entry gets the TTL meant for the generation.
Store_LongTtl(r) ==
  /\ reader[r].pc = "store"
  /\ entry' = [gen |-> reader[r].gen, life |-> reader[r].life, view |-> reader[r].view,
               events |-> reader[r].events, left |-> GenerationTtl]
  /\ reader' = [reader EXCEPT ![r] = Idle]
  /\ UNCHANGED <<committed, owed, generation, faults, life, cleared>>

Store(r) ==
  /\ reader[r].pc = "store"
  /\ entry' = [gen |-> reader[r].gen, life |-> reader[r].life, view |-> reader[r].view,
               events |-> reader[r].events, left |-> EntryTtl]
  /\ reader' = [reader EXCEPT ![r] = Idle]
  /\ UNCHANGED <<committed, owed, generation, faults, life, cleared>>

StoreFails(r) ==
  /\ reader[r].pc = "store"
  /\ reader' = [reader EXCEPT ![r] = Idle]
  /\ Fault("command")
  /\ UNCHANGED <<committed, owed, redis, life, cleared>>

-----------------------------------------------------------------------------
(* The projection.                                                         *)

\* A handler commits an event; its invalidation comes next.
Commit ==
  /\ committed < MaxEvents
  /\ committed' = committed + 1 /\ owed' = owed + 1
  /\ UNCHANGED <<redis, reader, faults, life, cleared>>

\* invalidate: INCR, EXPIRE and DEL in one MULTI.
Invalidate ==
  /\ owed > 0
  /\ owed' = owed - 1
  /\ generation' = [value |-> Current + 1, left |-> GenerationTtl]
  /\ entry' = NoEntry
  /\ cleared' = committed
  /\ UNCHANGED <<committed, reader, faults, life>>

\* The invalidation does not reach Redis: logged, and forgotten.
InvalidateFails ==
  /\ owed > 0
  /\ owed' = owed - 1
  /\ Fault("command")
  /\ UNCHANGED <<committed, redis, reader, life, cleared>>

\* The process dies: a redelivered event is a duplicate and invalidates
\* nothing.
Crash ==
  /\ owed' = 0 /\ reader' = [r \in Reader |-> Idle]
  /\ Fault("crash")
  /\ UNCHANGED <<committed, redis, life, cleared>>

-----------------------------------------------------------------------------
(* Redis and time.                                                         *)

\* The generation key goes away.
Reset ==
  /\ generation.left # 0
  /\ generation' = NoKey /\ life' = life + 1

\* Seeded bug: keys are set without EX and EXPIRE, and stay.
Older_Never(key, none) == key

Older(key, none) == IF key.left <= 1 THEN none ELSE [key EXCEPT !.left = @ - 1]

\* The request is one tick longer under way.
Aged(rd) == IF rd.pc = "idle" THEN rd ELSE [rd EXCEPT !.ticks = @ + 1]

\* One tick less to live for every key.
Tick ==
  /\ entry.left # 0 \/ generation.left # 0
  /\ \A r \in Reader : reader[r].pc # "idle" => reader[r].ticks < ReadTicks
  /\ reader' = [r \in Reader |-> Aged(reader[r])]
  /\ entry' = Older(entry, NoEntry)
  /\ IF generation.left = 1
     THEN Reset
     ELSE generation' = Older(generation, NoKey) /\ UNCHANGED life
  /\ UNCHANGED <<committed, owed, faults, cleared>>

\* allkeys-lru: a key goes whatever its TTL.
Evict ==
  /\ \/ Reset /\ UNCHANGED entry
     \/ entry.left # 0 /\ entry' = NoEntry /\ UNCHANGED <<generation, life>>
  /\ Fault("eviction")
  /\ UNCHANGED <<committed, owed, reader, cleared>>

Restart ==
  /\ Reset /\ entry' = NoEntry
  /\ Fault("restart")
  /\ UNCHANGED <<committed, owed, reader, cleared>>

-----------------------------------------------------------------------------
Request(r) == Miss(r) \/ ReadFails(r)

Load(r) == FindView(r) \/ FindEvents(r) \/ Store(r)

Next ==
  \/ \E r \in Reader : Request(r) \/ Load(r) \/ LoadFails(r) \/ StoreFails(r)
  \/ Commit \/ Invalidate \/ InvalidateFails \/ Crash
  \/ Tick \/ Evict \/ Restart

Spec == Init /\ [][Next]_vars

\* A request under way and a projection are carried on by the event loop,
\* and time passes; nobody has to ask.
FairSpec ==
  /\ Spec /\ WF_vars(Invalidate) /\ WF_vars(Tick)
  /\ \A r \in Reader : WF_vars(Load(r))

-----------------------------------------------------------------------------
(* Properties.                                                             *)

Version == 0 .. MaxEvents

\* The variables are typed, and no key outlives its TTL.
TypeOK ==
  /\ committed \in Version /\ cleared \in Version /\ owed \in Version
  /\ generation \in [value : Version, left : 0 .. GenerationTtl]
  /\ entry \in [gen : Version, life : Nat, view : Version, events : Version,
                left : 0 .. EntryTtl]
  /\ reader \in [Reader -> [pc : {"idle", "view", "events", "store"},
                            gen : Version \cup {NoGeneration}, life : Nat,
                            view : Version, events : Version, ticks : 0 .. ReadTicks]]
  /\ faults \in 0 .. MaxFaults /\ life \in Nat

\* A timeline that shows what had committed by the last invalidation.
UpToDate(timeline) == timeline.view >= cleared /\ timeline.events >= cleared

\* The race the generation is there for: while the counter is not reset, a
\* read that loaded before an event's invalidation is never a hit after it,
\* whatever else fails.
NoStaleHit == Hit /\ entry.life = life => UpToDate(entry)

\* "The TTL bounds how stale an entry can get if an invalidation is lost":
\* once events stop, every hit ends up showing all of them.
StalenessEnds ==
  <>[](Hit => entry.view = committed /\ entry.events = committed)
=============================================================================
