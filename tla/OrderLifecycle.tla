--------------------------- MODULE OrderLifecycle ---------------------------
(***************************************************************************)
(* What the saga promises, with no queue, task or failure in sight: an     *)
(* order is placed, its stock is set aside once and wholly or not at all,  *)
(* and the order ends confirmed or rejected as the stock decided.          *)
(***************************************************************************)
EXTENDS Naturals

CONSTANTS Order, Sku, InitialStock, Demand

VARIABLES status, decision, stock

lifecycleVars == <<status, decision, stock>>

LifecycleInit ==
  /\ status = [o \in Order |-> "none"]
  /\ decision = [o \in Order |-> "none"]
  /\ stock = InitialStock

Place(o) ==
  /\ status[o] = "none"
  /\ status' = [status EXCEPT ![o] = "pending"]
  /\ UNCHANGED <<decision, stock>>

SetAside(o) ==
  /\ status[o] = "pending" /\ decision[o] = "none"
  /\ \A s \in Sku : Demand[o][s] <= stock[s]
  /\ decision' = [decision EXCEPT ![o] = "reserved"]
  /\ stock' = [s \in Sku |-> stock[s] - Demand[o][s]]
  /\ UNCHANGED status

TurnDown(o) ==
  /\ status[o] = "pending" /\ decision[o] = "none"
  /\ \E s \in Sku : Demand[o][s] > stock[s]
  /\ decision' = [decision EXCEPT ![o] = "rejected"]
  /\ UNCHANGED <<status, stock>>

Close(o) ==
  /\ status[o] = "pending" /\ decision[o] # "none"
  /\ status' = [status EXCEPT ![o] =
                  IF decision[o] = "reserved" THEN "confirmed" ELSE "rejected"]
  /\ UNCHANGED <<decision, stock>>

LifecycleNext ==
  \E o \in Order : Place(o) \/ SetAside(o) \/ TurnDown(o) \/ Close(o)

LifecycleSpec == LifecycleInit /\ [][LifecycleNext]_lifecycleVars
=============================================================================
