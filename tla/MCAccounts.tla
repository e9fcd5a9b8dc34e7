----------------------------- MODULE MCAccounts -----------------------------
(***************************************************************************)
(* One browser with two tabs, in which a customer and a member of the      *)
(* staff log in and out.                                                   *)
(***************************************************************************)
EXTENDS Accounts, TLC

CONSTANTS bread, ann, eva, o1, w1, w2, tab

MCInitialStock == [p \in Products |-> 1]

Interchangeable == Permutations(Workers)

=============================================================================
