------------------------------ MODULE MCDemand ------------------------------
(***************************************************************************)
(* Two products and two orders with both of them, on three days of a week  *)
(* of two days: one order may be made on the first day, the other on the   *)
(* second, and each is paid and refunded then or later.                    *)
(***************************************************************************)
EXTENDS Demand, TLC

CONSTANTS o1, o2, cake, bread

MCOrderDays == o1 :> {0} @@ o2 :> {1}

MCParts == {Names \ {"user_behavior_aggregation"}, {"user_behavior_aggregation"}}

MCBasket == o1 :> (cake :> 2 @@ bread :> 1) @@ o2 :> (cake :> 1 @@ bread :> 2)

=============================================================================
