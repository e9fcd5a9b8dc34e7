-------------------------------- MODULE Sums --------------------------------
(***************************************************************************)
(* Sums of the rows that a query aggregates or a loop adds up.             *)
(***************************************************************************)
EXTENDS Integers, FiniteSets, FiniteSetsExt

\* The sum of f[x] over the elements x of a finite set.
Total(f, S) == MapThenSumSet(LAMBDA x : f[x], S)

=============================================================================
