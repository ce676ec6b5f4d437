------------------------ MODULE MCInventoryReplicas ------------------------
(* A small instance of InventoryReplicas for TLC. *)
EXTENDS InventoryReplicas, TLC

CONSTANTS a, b, c, s1, s2

Items(skus) == [i \in DOMAIN skus |-> [sku |-> skus[i], quantity |-> 1]]

\* a and b lock the two products in opposite orders; c repeats a product.
\* s1 does not last for all three.
MCLines == a :> Items(<<s1, s2>>) @@ b :> Items(<<s2, s1>>) @@ c :> Items(<<s1, s1>>)
MCInitialStock == s1 :> 3 @@ s2 :> 2
=============================================================================
