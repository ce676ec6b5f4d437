---------------------------- MODULE MCOrderSaga ----------------------------
(* Small instances of OrderSaga for TLC. *)
EXTENDS OrderSaga, TLC

CONSTANTS o1, o2, s1, s2

\* Two orders compete for the last unit of s1; o1 also takes one of s2.
MCInitialStock == s1 :> 1 @@ s2 :> 1
MCDemand == [o \in Order |-> s1 :> 1 @@ s2 :> IF o = o1 THEN 1 ELSE 0]
=============================================================================
