--------------------------- MODULE MCOrderHistory ---------------------------
(* Small instances of OrderHistory for TLC. *)
EXTENDS OrderHistory, TLC

\* The clock of inventory-service is behind that of order-service.
MCOccurredAt ==
  "order.created" :> 2 @@ "stock.reserved" :> 1 @@ "stock.rejected" :> 1
    @@ "order.confirmed" :> 3 @@ "order.rejected" :> 3
=============================================================================
