---------------------------- MODULE MCOrderFlow ----------------------------
(* A small instance of OrderFlow for TLC. *)
EXTENDS OrderFlow

CONSTANTS r1, r2, h, g

\* One client sends an id.
MCHeader == r1 :> h @@ r2 :> NoId

Lines(quantity, price) == <<[quantity |-> quantity, price |-> price]>>

\* A price of one cent and a half, for both; one that no column holds, although
\* one would before it is rounded; and a malformed body.
MCBody == r1 :> {Lines(3, 15), Lines(1, 99)} @@ r2 :> {<<>>, Lines(3, 15)}

MCMaxQuantity == 3
MCMaxPrice == 99
=============================================================================
