-------------------------- MODULE MCOrderPayments --------------------------
(***************************************************************************)
(* An order of either checkout, either provider or the legacy kind, with   *)
(* up to two payments; or two orders of the counter checkout, which share  *)
(* the lists of the screens, each of which shows one order.  Orders share  *)
(* no row of these tables.                                                 *)
(***************************************************************************)
EXTENDS StaffDesk

CONSTANTS o1, o2, o3, o4, o5

MCcreated_at == [o \in Orders |->
    CASE o = o1 -> 1 [] o = o2 -> 2 [] o = o3 -> 3 [] o = o4 -> 4 [] o = o5 -> 5]

MClocaldate == [o \in Orders |-> 1]

MCScopes == {{o1}, {o2}, {o4}, {o3, o5}}

=============================================================================
