------------------------ MODULE TimelineCache_proofs ------------------------
(***************************************************************************)
(* Proofs about TimelineCache, for any number of requests, events and      *)
(* faults and every TTL.                                                   *)
(***************************************************************************)
EXTENDS TimelineCache, TLAPS

-----------------------------------------------------------------------------
(* The inductive invariant.                                                *)

\* Every invalidation is of an event that committed, so the counters stay
\* behind the log.
CountersBehindLog ==
  /\ cleared <= committed
  /\ generation.value + owed <= committed
  /\ generation.left = 0 => generation = NoKey

\* No one saw a reset of the counter that is still to come.
LivesPast ==
  /\ entry.life <= life
  /\ \A r \in Reader : reader[r].life <= life

\* What a request under way keeps true.  Only one that saw a generation gets
\* as far as its store.  One that saw a generation of this life saw none
\* later than the current; if it saw the current one, all it has read since
\* is at least as new as the last invalidation.
Coherent(rd) ==
  /\ rd.pc = "store" => rd.gen # NoGeneration
  /\ rd.pc # "idle" /\ rd.gen # NoGeneration /\ rd.life = life =>
       /\ rd.gen <= Current
       /\ rd.gen = Current =>
            /\ rd.pc \in {"events", "store"} => rd.view >= cleared
            /\ rd.pc = "store" => rd.events >= cleared

ReadersCoherent == \A r \in Reader : Coherent(reader[r])

CacheInv ==
  /\ TypeOK /\ CountersBehindLog /\ LivesPast /\ ReadersCoherent /\ NoStaleHit

Call == [pc : {"idle", "view", "events", "store"}, gen : Version \cup {NoGeneration},
         life : Nat, view : Version, events : Version, ticks : 0 .. ReadTicks]

-----------------------------------------------------------------------------
(* Steps of a request.                                                     *)

\* A fault stays within the bound on faults.
LEMMA FaultBound ==
  ASSUME faults \in 0 .. MaxFaults, NEW kind, Fault(kind)
  PROVE  faults' \in 0 .. MaxFaults
BY CacheAssumption DEF Fault

\* The current generation is a version.
LEMMA CurrentIsVersion ==
  ASSUME TypeOK
  PROVE  Current \in Version /\ Current # NoGeneration
BY CacheAssumption DEF TypeOK, Current, Version, NoGeneration

\* A request that ends leaves nothing behind to go wrong.
LEMMA IdleIsCoherent == Idle \in Call /\ Idle.life = 0 /\ Coherent(Idle)
BY CacheAssumption DEF Idle, Call, Coherent, Version

\* A step that moves one request on.
LEMMA RequestFrame ==
  ASSUME CacheInv, NEW r \in Reader, NEW rd \in Call,
         reader' = [reader EXCEPT ![r] = rd],
         UNCHANGED <<committed, owed, redis, life, cleared>>,
         faults' \in 0 .. MaxFaults,
         rd.life <= life, Coherent(rd)
  PROVE  CacheInv'
<1>1. /\ \A q \in Reader : reader'[q] = IF q = r THEN rd ELSE reader[q]
      /\ reader' \in [Reader -> Call]
  BY DEF CacheInv, TypeOK, Call
<1>2. TypeOK'
  BY <1>1 DEF CacheInv, TypeOK, Call, redis, Version
<1>3. CountersBehindLog' /\ NoStaleHit'
  BY DEF CacheInv, CountersBehindLog, NoStaleHit, Hit, UpToDate, Current, redis
<1>4. LivesPast'
  BY <1>1 DEF CacheInv, LivesPast, redis
<1>5. Current' = Current
  BY DEF Current, redis
<1>6. ReadersCoherent'
  BY <1>1, <1>5 DEF CacheInv, ReadersCoherent, Coherent, redis
<1>7. QED
  BY <1>2, <1>3, <1>4, <1>6 DEF CacheInv

\* A step that ends one request.
LEMMA EndFrame ==
  ASSUME CacheInv, NEW r \in Reader, reader' = [reader EXCEPT ![r] = Idle],
         UNCHANGED <<committed, owed, redis, life, cleared>>,
         faults' \in 0 .. MaxFaults
  PROVE  CacheInv'
<1>1. 0 <= life
  BY DEF CacheInv, TypeOK
<1>2. QED
  BY <1>1, IdleIsCoherent, RequestFrame

LEMMA RequestPreserves ==
  ASSUME CacheInv, NEW r \in Reader, Request(r)
  PROVE  CacheInv'
<1>1. CASE Miss(r)
  <2> DEFINE rd == [Idle EXCEPT !.pc = "view", !.gen = Current, !.life = life]
  <2>1. rd \in Call /\ rd.life = life
    BY CurrentIsVersion, IdleIsCoherent DEF CacheInv, TypeOK, Call, Idle
  <2>2. Coherent(rd)
    BY CurrentIsVersion, CacheAssumption DEF CacheInv, Coherent, Idle, Version
  <2>3. reader' = [reader EXCEPT ![r] = rd] /\ UNCHANGED <<committed, owed, redis, life, cleared>>
    BY <1>1 DEF Miss
  <2>4. faults' \in 0 .. MaxFaults /\ rd.life <= life
    BY <1>1, <2>1 DEF Miss, CacheInv, TypeOK
  <2>5. QED
    BY <2>1, <2>2, <2>3, <2>4, RequestFrame
<1>2. CASE ReadFails(r)
  <2> DEFINE rd == [Idle EXCEPT !.pc = "view", !.gen = NoGeneration]
  <2>1. rd \in Call /\ rd.life = 0 /\ Coherent(rd)
    BY IdleIsCoherent DEF Call, Idle, Coherent
  <2>2. faults' \in 0 .. MaxFaults /\ rd.life <= life
    BY <1>2, <2>1, FaultBound DEF ReadFails, CacheInv, TypeOK
  <2>3. QED
    BY <1>2, <2>1, <2>2, RequestFrame DEF ReadFails
<1>3. QED
  BY <1>1, <1>2 DEF Request

LEMMA LoadPreserves ==
  ASSUME CacheInv, NEW r \in Reader, Load(r)
  PROVE  CacheInv'
<1> DEFINE now == reader[r]
<1>1. /\ now \in Call /\ now.life <= life /\ Coherent(now)
      /\ committed \in Version /\ cleared <= committed
      /\ cleared \in Nat /\ committed \in Nat
  BY CacheAssumption
  DEF CacheInv, TypeOK, Call, LivesPast, ReadersCoherent, CountersBehindLog, Version
<1>2. CASE FindView(r)
  <2>1. CASE committed = 0
    BY <1>2, <2>1, EndFrame DEF FindView, CacheInv, TypeOK
  <2>2. CASE committed # 0
    <3> DEFINE rd == [now EXCEPT !.pc = "events", !.view = committed]
    <3>1. rd \in Call /\ rd.life <= life
      BY <1>1 DEF Call
    <3>2. Coherent(rd)
      BY <1>1, <1>2 DEF Coherent, FindView, Call
    <3>3. reader' = [reader EXCEPT ![r] = rd] /\ faults' \in 0 .. MaxFaults
      BY <1>2, <2>2 DEF FindView, CacheInv, TypeOK
    <3>4. QED
      BY <1>2, <3>1, <3>2, <3>3, RequestFrame DEF FindView
  <2>3. QED
    BY <2>1, <2>2
<1>3. CASE FindEvents(r)
  <2>1. CASE now.gen = NoGeneration
    BY <1>3, <2>1, EndFrame DEF FindEvents, CacheInv, TypeOK
  <2>2. CASE now.gen # NoGeneration
    <3> DEFINE rd == [now EXCEPT !.pc = "store", !.events = committed]
    <3>1. rd \in Call /\ rd.life <= life
      BY <1>1 DEF Call
    <3>2. Coherent(rd)
      BY <1>1, <1>3, <2>2 DEF Coherent, FindEvents, Call
    <3>3. reader' = [reader EXCEPT ![r] = rd] /\ faults' \in 0 .. MaxFaults
      BY <1>3, <2>2 DEF FindEvents, CacheInv, TypeOK
    <3>4. QED
      BY <1>3, <3>1, <3>2, <3>3, RequestFrame DEF FindEvents
  <2>3. QED
    BY <2>1, <2>2
<1>4. CASE Store(r)
  <2>1. /\ \A q \in Reader : reader'[q] = IF q = r THEN Idle ELSE reader[q]
        /\ UNCHANGED <<committed, owed, generation, faults, life, cleared>>
        /\ Current' = Current
    BY <1>4 DEF Store, CacheInv, TypeOK, Current
  <2>2. now.gen \in Version
    BY <1>1, <1>4 DEF Store, Call, Coherent
  <2>3. TypeOK'
    BY <1>1, <1>4, <2>1, <2>2, IdleIsCoherent, CacheAssumption
    DEF Store, CacheInv, TypeOK, Call, Version
  <2>4. CountersBehindLog'
    BY <2>1 DEF CacheInv, CountersBehindLog
  <2>5. 0 <= life
    BY DEF CacheInv, TypeOK
  <2>6. LivesPast'
    BY <1>1, <1>4, <2>1, <2>5, IdleIsCoherent DEF Store, CacheInv, LivesPast
  <2>7. Coherent(Idle)' /\ \A q \in Reader : Coherent(reader[q])
    BY <2>1 DEF Coherent, Idle, CacheInv, ReadersCoherent
  <2>8. ReadersCoherent'
    BY <2>1, <2>7 DEF ReadersCoherent, Coherent
  <2>9. NoStaleHit'
    BY <1>1, <1>4, <2>1, <2>2 DEF Store, NoStaleHit, Hit, UpToDate, Coherent, Call
  <2>10. QED
    BY <2>3, <2>4, <2>6, <2>8, <2>9 DEF CacheInv
<1>5. QED
  BY <1>2, <1>3, <1>4 DEF Load

LEMMA FailuresPreserve ==
  ASSUME CacheInv, NEW r \in Reader, LoadFails(r) \/ StoreFails(r)
  PROVE  CacheInv'
<1>1. faults' \in 0 .. MaxFaults
  BY FaultBound DEF LoadFails, StoreFails, CacheInv, TypeOK
<1>2. QED
  BY <1>1, EndFrame DEF LoadFails, StoreFails

-----------------------------------------------------------------------------
(* Steps of the projection.                                                *)

LEMMA CommitPreserves ==
  ASSUME CacheInv, Commit
  PROVE  CacheInv'
<1>1. /\ committed' = committed + 1 /\ owed' = owed + 1 /\ committed < MaxEvents
      /\ UNCHANGED <<generation, entry, reader, faults, life, cleared>>
  BY DEF Commit, redis
<1>2. TypeOK'
  <2>1. committed' \in Version
    BY <1>1, CacheAssumption DEF CacheInv, TypeOK, Version
  <2>2. owed' \in Version
    BY <1>1, CacheAssumption DEF CacheInv, TypeOK, Version, CountersBehindLog
  <2>3. QED
    BY <1>1, <2>1, <2>2 DEF CacheInv, TypeOK
<1>3. CountersBehindLog'
  BY <1>1, CacheAssumption DEF CacheInv, CountersBehindLog, TypeOK, Version
<1>4. LivesPast' /\ ReadersCoherent' /\ NoStaleHit'
  BY <1>1 DEF CacheInv, LivesPast, ReadersCoherent, Coherent, NoStaleHit, Hit, UpToDate,
     Current
<1>5. QED
  BY <1>2, <1>3, <1>4 DEF CacheInv

\* The invalidation moves the generation past every one seen in this life.
LEMMA InvalidatePreserves ==
  ASSUME CacheInv, Invalidate
  PROVE  CacheInv'
<1>1. /\ owed > 0 /\ owed' = owed - 1
      /\ generation' = [value |-> Current + 1, left |-> GenerationTtl]
      /\ entry' = NoEntry /\ cleared' = committed
      /\ UNCHANGED <<committed, reader, faults, life>>
  BY DEF Invalidate
<1>2. GenerationTtl \in Nat /\ GenerationTtl # 0
  BY CacheAssumption DEF GenerationTtl
<1>3. /\ Current \in Nat /\ Current + owed <= committed
      /\ Current' = Current + 1
  BY <1>1, <1>2, CurrentIsVersion, CacheAssumption
  DEF CacheInv, CountersBehindLog, TypeOK, Current, Version, NoKey
<1>4. TypeOK'
  <2>1. owed' \in Version /\ cleared' \in Version /\ Current + 1 \in Version
    BY <1>1, <1>3, CacheAssumption DEF CacheInv, TypeOK, Version
  <2>2. generation' \in [value : Version, left : 0 .. GenerationTtl]
    BY <1>1, <1>2, <2>1
  <2>3. entry' \in [gen : Version, life : Nat, view : Version, events : Version,
                    left : 0 .. EntryTtl]
    BY <1>1, CacheAssumption DEF NoEntry, Version
  <2>4. QED
    BY <1>1, <2>1, <2>2, <2>3 DEF CacheInv, TypeOK
<1>5. CountersBehindLog'
  BY <1>1, <1>2, <1>3, CacheAssumption
  DEF CacheInv, CountersBehindLog, TypeOK, Version, NoKey
<1>6. LivesPast'
  BY <1>1 DEF CacheInv, LivesPast, TypeOK, NoEntry
<1>7. ReadersCoherent'
  <2>1. SUFFICES ASSUME NEW r \in Reader
                 PROVE  Coherent(reader[r])'
    BY <1>1 DEF ReadersCoherent
  <2>2. reader[r] \in Call /\ Coherent(reader[r])
    BY DEF CacheInv, TypeOK, Call, ReadersCoherent
  <2>3. QED
    BY <1>1, <1>3, <2>2, CacheAssumption DEF Coherent, Call, Version
<1>8. NoStaleHit'
  BY <1>1 DEF NoStaleHit, Hit, NoEntry
<1>9. QED
  BY <1>4, <1>5, <1>6, <1>7, <1>8 DEF CacheInv

\* An invalidation that is lost moves nothing, so nothing becomes too old.
LEMMA InvalidateFailsPreserves ==
  ASSUME CacheInv, InvalidateFails
  PROVE  CacheInv'
<1>1. /\ owed > 0 /\ owed' = owed - 1 /\ faults' \in 0 .. MaxFaults
      /\ UNCHANGED <<committed, generation, entry, reader, life, cleared>>
  BY FaultBound DEF InvalidateFails, redis, CacheInv, TypeOK
<1>2. TypeOK' /\ CountersBehindLog'
  BY <1>1, CacheAssumption DEF CacheInv, TypeOK, CountersBehindLog, Version
<1>3. LivesPast' /\ ReadersCoherent' /\ NoStaleHit'
  BY <1>1 DEF CacheInv, LivesPast, ReadersCoherent, Coherent, NoStaleHit, Hit, UpToDate,
     Current
<1>4. QED
  BY <1>2, <1>3 DEF CacheInv

LEMMA CrashPreserves ==
  ASSUME CacheInv, Crash
  PROVE  CacheInv'
<1>1. /\ owed' = 0 /\ reader' = [r \in Reader |-> Idle] /\ faults' \in 0 .. MaxFaults
      /\ UNCHANGED <<committed, generation, entry, life, cleared>>
  BY FaultBound DEF Crash, redis, CacheInv, TypeOK
<1>2. TypeOK' /\ CountersBehindLog'
  BY <1>1, IdleIsCoherent, CacheAssumption
  DEF CacheInv, TypeOK, CountersBehindLog, Version, Call
<1>3. LivesPast'
  BY <1>1 DEF CacheInv, LivesPast, TypeOK, Idle
<1>4. ReadersCoherent'
  BY <1>1 DEF ReadersCoherent, Coherent, Idle
<1>5. NoStaleHit'
  BY <1>1 DEF CacheInv, NoStaleHit, Hit, UpToDate, Current
<1>6. QED
  BY <1>2, <1>3, <1>4, <1>5 DEF CacheInv

-----------------------------------------------------------------------------
(* Steps of Redis and of time.                                             *)

\* Keys may go and requests age: a step that takes the entry away or leaves
\* it to live, and leaves the generation or resets it.
LEMMA KeysFrame ==
  ASSUME CacheInv, UNCHANGED <<committed, owed, cleared>>, faults' \in 0 .. MaxFaults,
         \/ entry' = NoEntry
         \/ entry.left # 0 /\ \E l \in 0 .. EntryTtl : entry' = [entry EXCEPT !.left = l]
         \/ UNCHANGED entry,
         \/ Reset
         \/ UNCHANGED <<generation, life>>
         \/ /\ generation.left # 0 /\ UNCHANGED life
            /\ \E l \in 1 .. GenerationTtl : generation' = [generation EXCEPT !.left = l],
         reader' \in [Reader -> Call],
         \A r \in Reader : \E k \in 0 .. ReadTicks :
           reader'[r] = [reader[r] EXCEPT !.ticks = k]
  PROVE  CacheInv'
<1>1. /\ entry \in [gen : Version, life : Nat, view : Version, events : Version,
                    left : 0 .. EntryTtl]
      /\ generation \in [value : Version, left : 0 .. GenerationTtl]
      /\ life \in Nat
  BY DEF CacheInv, TypeOK
<1>2. entry' \in [gen : Version, life : Nat, view : Version, events : Version,
                  left : 0 .. EntryTtl]
  BY <1>1, CacheAssumption DEF NoEntry, Version
<1>3. /\ generation' \in [value : Version, left : 0 .. GenerationTtl]
      /\ generation'.value <= generation.value
      /\ generation'.left = 0 => generation' = NoKey
  BY <1>1, CacheAssumption
  DEF Reset, NoKey, Version, GenerationTtl, CacheInv, CountersBehindLog
<1>4. /\ life' \in Nat
      /\ \/ life' = life /\ Current' = Current
         \/ life' = life + 1
  BY <1>1 DEF Reset, Current
<1>5. TypeOK'
  BY <1>2, <1>3, <1>4 DEF CacheInv, TypeOK, Call
<1>6. CountersBehindLog'
  BY <1>1, <1>3, CacheAssumption DEF CacheInv, CountersBehindLog, TypeOK, Version
<1>7. \A r \in Reader : /\ reader[r] \in Call
                        /\ \E k \in 0 .. ReadTicks : reader'[r] = [reader[r] EXCEPT !.ticks = k]
  BY DEF CacheInv, TypeOK, Call
<1>8. LivesPast'
  BY <1>1, <1>4, <1>7 DEF CacheInv, LivesPast, NoEntry, Call
<1>9. ReadersCoherent'
  <2>1. SUFFICES ASSUME NEW r \in Reader
                 PROVE  Coherent(reader[r])'
    BY DEF ReadersCoherent
  <2>2. Coherent(reader[r]) /\ reader[r].life <= life
    BY DEF CacheInv, ReadersCoherent, LivesPast
  <2>3. QED
    BY <1>1, <1>4, <1>7, <2>2 DEF Coherent, Call
<1>10. NoStaleHit'
  BY <1>1, <1>4 DEF CacheInv, NoStaleHit, Hit, UpToDate, LivesPast, NoEntry
<1>11. QED
  BY <1>5, <1>6, <1>8, <1>9, <1>10 DEF CacheInv

LEMMA TickPreserves ==
  ASSUME CacheInv, Tick
  PROVE  CacheInv'
<1>1. /\ entry \in [gen : Version, life : Nat, view : Version, events : Version,
                    left : 0 .. EntryTtl]
      /\ generation \in [value : Version, left : 0 .. GenerationTtl]
      /\ reader \in [Reader -> Call]
      /\ generation.left = 0 => generation = NoKey
  BY DEF CacheInv, TypeOK, Call, CountersBehindLog
<1>2. \/ entry' = NoEntry
      \/ entry.left # 0 /\ \E l \in 0 .. EntryTtl : entry' = [entry EXCEPT !.left = l]
  <2>1. CASE entry.left <= 1
    BY <2>1 DEF Tick, Older
  <2>2. CASE ~ entry.left <= 1
    <3>1. entry.left # 0 /\ entry.left - 1 \in 0 .. EntryTtl
      BY <1>1, <2>2, CacheAssumption
    <3>2. entry' = [entry EXCEPT !.left = entry.left - 1]
      BY <2>2 DEF Tick, Older
    <3>3. QED
      BY <3>1, <3>2
  <2>3. QED
    BY <2>1, <2>2
<1>3. \/ Reset
      \/ UNCHANGED <<generation, life>>
      \/ /\ generation.left # 0 /\ UNCHANGED life
         /\ \E l \in 1 .. GenerationTtl : generation' = [generation EXCEPT !.left = l]
  <2>1. CASE generation.left = 0
    BY <1>1, <2>1 DEF Tick, Older
  <2>2. CASE generation.left = 1
    BY <2>2 DEF Tick
  <2>3. CASE generation.left \notin {0, 1}
    <3>1. generation.left - 1 \in 1 .. GenerationTtl
      BY <1>1, <2>3, CacheAssumption DEF GenerationTtl
    <3>2. UNCHANGED life /\ generation' = [generation EXCEPT !.left = generation.left - 1]
      BY <1>1, <2>3 DEF Tick, Older
    <3>3. QED
      BY <2>3, <3>1, <3>2
  <2>4. QED
    BY <2>1, <2>2, <2>3
<1>4. ASSUME NEW r \in Reader
      PROVE  reader'[r] \in Call /\ \E k \in 0 .. ReadTicks :
               reader'[r] = [reader[r] EXCEPT !.ticks = k]
  <2>1. reader[r] \in Call /\ reader'[r] = Aged(reader[r])
    BY <1>1 DEF Tick
  <2>2. CASE reader[r].pc = "idle"
    <3>1. reader'[r] = [reader[r] EXCEPT !.ticks = reader[r].ticks] /\ reader[r].ticks \in 0 .. ReadTicks
      BY <2>1, <2>2 DEF Aged, Call
    <3>2. QED
      BY <2>1, <2>2, <3>1 DEF Aged
  <2>3. CASE reader[r].pc # "idle"
    <3>1. reader[r].ticks + 1 \in 0 .. ReadTicks
      BY <2>1, <2>3, CacheAssumption DEF Tick, Call
    <3>2. reader'[r] = [reader[r] EXCEPT !.ticks = reader[r].ticks + 1]
      BY <2>1, <2>3 DEF Aged
    <3>3. reader'[r] \in Call
      BY <2>1, <3>1, <3>2 DEF Call
    <3>4. QED
      BY <3>1, <3>2, <3>3
  <2>4. QED
    BY <2>2, <2>3
<1>5. reader' \in [Reader -> Call]
  BY <1>4 DEF Tick
<1>6. UNCHANGED <<committed, owed, cleared>> /\ faults' \in 0 .. MaxFaults
  BY DEF Tick, CacheInv, TypeOK
<1>7. QED
  BY <1>2, <1>3, <1>4, <1>5, <1>6, KeysFrame

LEMMA EvictOrRestartPreserves ==
  ASSUME CacheInv, Evict \/ Restart
  PROVE  CacheInv'
<1>1. /\ UNCHANGED <<committed, owed, cleared, reader>> /\ faults' \in 0 .. MaxFaults
      /\ entry' = NoEntry \/ UNCHANGED entry
      /\ Reset \/ UNCHANGED <<generation, life>>
  BY FaultBound DEF Evict, Restart, CacheInv, TypeOK
<1>2. /\ reader' \in [Reader -> Call]
      /\ \A r \in Reader : /\ reader[r].ticks \in 0 .. ReadTicks
                           /\ reader'[r] = [reader[r] EXCEPT !.ticks = reader[r].ticks]
  BY <1>1 DEF CacheInv, TypeOK, Call
<1>3. QED
  BY <1>1, <1>2, KeysFrame

-----------------------------------------------------------------------------
LEMMA InitEstablishes == Init => CacheInv
<1> SUFFICES ASSUME Init PROVE CacheInv
  OBVIOUS
<1>1. TypeOK
  BY CacheAssumption, IdleIsCoherent
  DEF Init, TypeOK, Version, NoKey, NoEntry, Call, GenerationTtl
<1>2. CountersBehindLog /\ LivesPast /\ NoStaleHit
  BY DEF Init, CountersBehindLog, LivesPast, NoStaleHit, Hit, NoKey, NoEntry, Idle
<1>3. ReadersCoherent
  BY IdleIsCoherent DEF Init, ReadersCoherent
<1>4. QED
  BY <1>1, <1>2, <1>3 DEF CacheInv

LEMMA StepPreserves == CacheInv /\ [Next]_vars => CacheInv'
<1> SUFFICES ASSUME CacheInv, [Next]_vars PROVE CacheInv'
  OBVIOUS
<1>1. CASE Next
  BY <1>1, RequestPreserves, LoadPreserves, FailuresPreserve, CommitPreserves,
     InvalidatePreserves, InvalidateFailsPreserves, CrashPreserves, TickPreserves,
     EvictOrRestartPreserves DEF Next
<1>2. CASE UNCHANGED vars
  BY <1>2 DEF vars, CacheInv, TypeOK, CountersBehindLog, LivesPast, ReadersCoherent,
     Coherent, NoStaleHit, Hit, UpToDate, Current
<1>3. QED
  BY <1>1, <1>2

\* The invariant the others follow from.
THEOREM CacheInvariant == Spec => []CacheInv
BY InitEstablishes, StepPreserves, PTL DEF Spec

\* The counters stay within the events there are, and keys within their TTLs.
THEOREM Typing == Spec => []TypeOK
<1>1. CacheInv => TypeOK
  BY DEF CacheInv
<1>2. QED
  BY <1>1, CacheInvariant, PTL

\* The fill that races an invalidation: whatever fails, while the counter is
\* not reset no timeline that was read before an event's invalidation is
\* ever returned after it.
THEOREM HitsAreUpToDate == Spec => []NoStaleHit
<1>1. CacheInv => NoStaleHit
  BY DEF CacheInv
<1>2. QED
  BY <1>1, CacheInvariant, PTL
=============================================================================
