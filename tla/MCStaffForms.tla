---------------------------- MODULE MCStaffForms ----------------------------
(***************************************************************************)
(* One product, one cart and one order, while staff edit stock, capacity   *)
(* and reservations.                                                       *)
(***************************************************************************)
EXTENDS StaffForms

CONSTANTS bread, c1, o1

MCInitialStock == [p \in Products |-> 2]

MCRowEntries ==
    {ActiveRow(1, 1), [ActiveRow(2, 0) EXCEPT !.overdue = TRUE],
     [ActiveRow(1, 0) EXCEPT !.status = "confirmed"]}

=============================================================================
