---------------------------- MODULE OrderStates ----------------------------
(***************************************************************************)
(* The state machine of an order (apps/delivery/state_machine.py), shared  *)
(* by the modules that move orders.                                        *)
(***************************************************************************)
EXTENDS Integers, Sequences, FiniteSets

OrderStatuses == {"pending_payment", "awaiting_payment", "paid", "confirmed_by_shop",
                  "preparing", "packaged", "out_for_delivery", "delivered",
                  "cancelled", "refunded"}

ALLOWED_TRANSITIONS ==
    [pending_payment   |-> {"paid", "confirmed_by_shop", "cancelled"},
     awaiting_payment  |-> {"preparing", "cancelled"},
     paid              |-> {"confirmed_by_shop", "cancelled", "refunded"},
     confirmed_by_shop |-> {"preparing", "cancelled", "refunded"},
     preparing         |-> {"packaged", "cancelled", "refunded"},
     packaged          |-> {"out_for_delivery", "cancelled", "refunded"},
     out_for_delivery  |-> {"delivered", "cancelled", "refunded"},
     delivered         |-> {"refunded"},
     cancelled         |-> {},
     refunded          |-> {}]

can_transition(s, t) == s = t \/ t \in ALLOWED_TRANSITIONS[s]

Closed == {"cancelled", "refunded"}

=============================================================================
