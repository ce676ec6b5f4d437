---------------------------- MODULE MCAssistant ----------------------------
(* Small instances of Assistant: two orders, one of them rejected; values that *)
(* events carry, that nothing carries (made), and that a count comes to (100). *)
EXTENDS Assistant, TLC

CONSTANTS o1, o2, e1, r1, e2, v1, made

NoFunction == [e \in {} |-> {}]
MCOrderOf == (e1 :> o1) @@ (r1 :> o1) @@ (e2 :> o2)
MCCarries == (e1 :> {v1}) @@ (r1 :> {}) @@ (e2 :> {v1})

Questions == Permutations(Question)
=============================================================================
