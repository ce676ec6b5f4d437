-------------------------- MODULE MCTimelineCache --------------------------
(* Small instances of TimelineCache for TLC. *)
EXTENDS TimelineCache, TLC

\* Requests are told apart by nothing but their name.
Readers == Permutations(Reader)
=============================================================================
