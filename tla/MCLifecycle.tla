---------------------------- MODULE MCLifecycle ----------------------------
(***************************************************************************)
(* Two orders of one customer: o1 is placed and paid online; o2 is placed  *)
(* at the counter and refunded too early, which raises, or (MCResends) was *)
(* placed with payment on delivery.  Two request handlers and two workers, *)
(* or one of each.                                                         *)
(***************************************************************************)
EXTENDS Lifecycle, TLC

CONSTANTS o1, o2, w1, w2, t1, t2

MCOperations == o1 :> {"place_online", "pay_online"} @@ o2 :> {"place_counter", "refund"}

MCCodOperations ==
    o1 :> {"place_online", "pay_online"} @@ o2 :> {"place_cod", "confirm_cod", "receive_cod"}

Symmetry == Permutations(Web) \cup Permutations(Tasks)

=============================================================================
