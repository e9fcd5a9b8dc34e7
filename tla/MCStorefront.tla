---------------------------- MODULE MCStorefront ----------------------------
(***************************************************************************)
(* The storefront on a small instance: two web workers serve one cart that *)
(* is open in several tabs.                                                *)
(***************************************************************************)
EXTENDS Storefront, TLC

CONSTANTS bread, coffee, c1, c2, o1, o2, w1, w2, w3

MCInitialStock == [p \in Products |-> 2]
Symmetry == Permutations(Orders) \cup Permutations(Workers)

=============================================================================
