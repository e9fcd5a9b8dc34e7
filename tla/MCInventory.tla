---------------------------- MODULE MCInventory ----------------------------
(***************************************************************************)
(* The stock service on a small instance: a tracked product and one that   *)
(* is only limited by daily capacity, a cart and an order, two days.       *)
(***************************************************************************)
EXTENDS Inventory

CONSTANTS bread, coffee, c1, o1

MCInitialStock == [p \in Products |-> 2]

=============================================================================
