---------------------------- MODULE StockLedger ----------------------------
(***************************************************************************)
(* What the stock service promises, without its bookkeeping: how many      *)
(* units of each product the shop has, and which units are promised to     *)
(* which cart or order.  There is no cached counter here: whether another  *)
(* unit may be promised is decided by counting the promises themselves.    *)
(***************************************************************************)
EXTENDS Integers, FiniteSets

CONSTANTS Products, Owners, Quantities, Tracked, Preorder

VARIABLES
    stock,  \* units on hand, per product
    held    \* per product, the set of promised units <<owner, k>>

ledgerVars == <<stock, held>>

UnitsOfOthers(A, h) == {u \in h : u[1] \notin A}

\* A transaction on behalf of the owners A changes their promises only, and
\* promises no unit beyond the stock of a product that takes no preorders.
Book(A) ==
    /\ held' \in [Products -> SUBSET (Owners \X Quantities)]
    /\ \A p \in Products : UnitsOfOthers(A, held'[p]) = UnitsOfOthers(A, held[p])
    /\ \A p \in Tracked \ Preorder :
          \/ Cardinality(held'[p]) <= Cardinality(held[p])
          \/ Cardinality(held'[p]) <= stock[p]
    /\ UNCHANGED stock

\* Promises lapse or are withdrawn; the units are free again.
Withdraw ==
    /\ held' \in [Products -> SUBSET (Owners \X Quantities)]
    /\ \A p \in Products : held'[p] \subseteq held[p]
    /\ UNCHANGED stock

\* Units promised to o are handed over: the promise and the units go together.
HandOver(o) ==
    /\ held' \in [Products -> SUBSET (Owners \X Quantities)]
    /\ \A p \in Products : /\ held'[p] \subseteq held[p]
                           /\ UnitsOfOthers({o}, held'[p]) = UnitsOfOthers({o}, held[p])
    /\ stock' = [p \in Products |->
           LET sold == Cardinality(held[p] \ held'[p])
           IN  IF p \notin Tracked THEN stock[p]
               ELSE IF sold > stock[p] THEN 0 ELSE stock[p] - sold]

Recount(p) ==
    /\ stock'[p] \in Nat
    /\ stock' = [stock EXCEPT ![p] = stock'[p]]
    /\ UNCHANGED held

LedgerInit ==
    /\ stock \in [Products -> Nat]
    /\ held = [p \in Products |-> {}]

LedgerNext ==
    \/ \E o1, o2 \in Owners : Book({o1, o2})
    \/ Withdraw
    \/ \E o \in Owners : HandOver(o)
    \/ \E p \in Products : Recount(p)

LedgerSpec == LedgerInit /\ [][LedgerNext]_ledgerVars

=============================================================================
