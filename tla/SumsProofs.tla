----------------------------- MODULE SumsProofs -----------------------------
(***************************************************************************)
(* Facts about sums over finite sets, and the arithmetic that goes with    *)
(* them.  Total is defined by a fold, which is a recursive function on the *)
(* subsets of a set; its facts are proved by looking at a smallest set for *)
(* which they would fail.                                                  *)
(***************************************************************************)
EXTENDS Sums, FiniteSetTheorems, TLAPS

-----------------------------------------------------------------------------
(* Sums. *)

\* Every nonempty set of numbers has a least one.
LEMMA Least1 ==
    ASSUME NEW T \in SUBSET Nat, T # {}
    PROVE  \E n \in T : \A m \in T : n <= m
<1>1. IsWellFoundedOn(OpToRel(<, Nat), Nat)
  BY NatLessThanWellFounded
<1>2. \E n \in T : \A m \in T : ~(<<m, n>> \in OpToRel(<, Nat))
  BY <1>1, WFMin
<1>3. PICK n \in T : \A m \in T : ~(<<m, n>> \in OpToRel(<, Nat))
  BY <1>2
<1>4. \A m \in T : ~(m < n)
  BY <1>3 DEF OpToRel
<1> QED
  BY <1>4

\* So a finite set for which something fails, which is in a set F of such sets, can be
\* taken as one of the least size.
LEMMA Smallest ==
    ASSUME NEW F, F # {}, \A s \in F : IsFiniteSet(s)
    PROVE  \E s \in F : \A t \in F : Cardinality(s) <= Cardinality(t)
<1> DEFINE T == {Cardinality(s) : s \in F}
<1>1. T \in SUBSET Nat /\ T # {}
  BY FS_CardinalityType
<1>2. PICK n \in T : \A m \in T : n <= m
  BY <1>1, Least1
<1> QED
  BY <1>2

Pick(s) == CHOOSE x \in s : TRUE

\* The fold's rule at one set.
Follows(g, f, s) == g[s] = IF s = {} THEN 0 ELSE f[Pick(s)] + g[s \ {Pick(s)}]

\* The recursive function that sums up the subsets of S.
Summed(f, S) == CHOOSE g : g = [s \in SUBSET S |-> IF s = {} THEN 0 ELSE f[Pick(s)] + g[s \ {Pick(s)}]]

\* That function gives the sum.
LEMMA TotalIsSummed == ASSUME NEW f, NEW S PROVE Total(f, S) = Summed(f, S)[S]
  BY DEF Total, MapThenSumSet, MapThenFoldSet, Summed, Pick

\* The chosen element is one.
LEMMA PickIn == ASSUME NEW s, s # {} PROVE Pick(s) \in s
  BY DEF Pick

\* A finite set without one of its elements has one element fewer.
LEMMA Without ==
    ASSUME NEW s, IsFiniteSet(s), NEW x \in s
    PROVE  /\ IsFiniteSet(s \ {x}) /\ Cardinality(s) \in Nat /\ Cardinality(s \ {x}) \in Nat
           /\ Cardinality(s) = Cardinality(s \ {x}) + 1
<1>1. IsFiniteSet(s \ {x}) /\ Cardinality(s \ {x}) = Cardinality(s) - 1
  BY FS_RemoveElement
<1>2. Cardinality(s) \in Nat /\ Cardinality(s \ {x}) \in Nat
  BY <1>1, FS_CardinalityType
<1> QED
  BY <1>1, <1>2

\* The function exists.
LEMMA SummedFollows ==
    ASSUME NEW f, NEW S, IsFiniteSet(S), NEW s \in SUBSET S
    PROVE  Follows(Summed(f, S), f, s)
<1> DEFINE Upto(n) == \E g : /\ g = [x \in SUBSET S |-> g[x]]
                             /\ \A x \in SUBSET S : Cardinality(x) <= n => Follows(g, f, x)
<1>1. \A x \in SUBSET S : IsFiniteSet(x) /\ Cardinality(x) \in Nat /\ Cardinality(x) <= Cardinality(S)
  BY FS_Subset, FS_CardinalityType
<1>2. Upto(0)
  <2> DEFINE g == [x \in SUBSET S |-> 0]
  <2>1. \A x \in SUBSET S : Cardinality(x) <= 0 => x = {}
    BY <1>1, FS_EmptySet
  <2>2. \A x \in SUBSET S : Cardinality(x) <= 0 => Follows(g, f, x)
    BY <2>1 DEF Follows
  <2>3. g = [x \in SUBSET S |-> g[x]]
    OBVIOUS
  <2> QED
    BY <2>2, <2>3
<1>3. ASSUME NEW n \in Nat, Upto(n) PROVE Upto(n + 1)
  <2>1. PICK g : /\ g = [x \in SUBSET S |-> g[x]]
                 /\ \A x \in SUBSET S : Cardinality(x) <= n => Follows(g, f, x)
    BY <1>3
  <2> DEFINE h == [x \in SUBSET S |-> IF Cardinality(x) <= n THEN g[x]
                                      ELSE f[Pick(x)] + g[x \ {Pick(x)}]]
  <2>2. ASSUME NEW x \in SUBSET S, Cardinality(x) <= n + 1 PROVE Follows(h, f, x)
    <3>1. CASE x = {}
      <4>1. Cardinality(x) <= n
        BY <3>1, FS_EmptySet
      <4> QED
        BY <2>1, <3>1, <4>1 DEF Follows
    <3>2. CASE x # {}
      <4> DEFINE y == x \ {Pick(x)}
      <4>1. y \in SUBSET S /\ Cardinality(y) <= n
        BY <1>1, <2>2, <3>2, PickIn, Without
      <4>2. h[y] = g[y]
        BY <4>1
      <4>3. CASE Cardinality(x) <= n
        <5>1. h[x] = g[x] /\ Follows(g, f, x)
          BY <2>1, <4>3
        <5> QED
          BY <3>2, <4>2, <5>1 DEF Follows
      <4>4. CASE ~(Cardinality(x) <= n)
        BY <3>2, <4>2, <4>4 DEF Follows
      <4> QED
        BY <4>3, <4>4
    <3> QED
      BY <3>1, <3>2
  <2>3. h = [x \in SUBSET S |-> h[x]]
    OBVIOUS
  <2> HIDE DEF h
  <2> QED
    BY <2>2, <2>3
<1> HIDE DEF Upto
<1>4. \A n \in Nat : Upto(n)
  <2> SUFFICES ASSUME \E n \in Nat : ~Upto(n) PROVE FALSE
    OBVIOUS
  <2> DEFINE T == {n \in Nat : ~Upto(n)}
  <2>1. PICK n \in T : \A m \in T : n <= m
    BY Least1
  <2>2. n # 0
    BY <1>2
  <2>3. n - 1 \in Nat /\ Upto(n - 1)
    BY <2>1, <2>2
  <2>4. Upto(n - 1 + 1)
    BY <1>3, <2>3
  <2> QED
    BY <2>1, <2>4
<1>5. \E g : g = [x \in SUBSET S |-> IF x = {} THEN 0 ELSE f[Pick(x)] + g[x \ {Pick(x)}]]
  <2>1. Upto(Cardinality(S))
    BY <1>1, <1>4
  <2>2. PICK g : /\ g = [x \in SUBSET S |-> g[x]]
                 /\ \A x \in SUBSET S : Cardinality(x) <= Cardinality(S) => Follows(g, f, x)
    BY <2>1 DEF Upto
  <2>3. \A x \in SUBSET S : g[x] = IF x = {} THEN 0 ELSE f[Pick(x)] + g[x \ {Pick(x)}]
    BY <1>1, <2>2 DEF Follows
  <2>4. g = [x \in SUBSET S |-> IF x = {} THEN 0 ELSE f[Pick(x)] + g[x \ {Pick(x)}]]
    BY <2>2, <2>3
  <2> QED
    BY <2>4
<1>6. Summed(f, S) = [x \in SUBSET S |-> IF x = {} THEN 0
                         ELSE f[Pick(x)] + Summed(f, S)[x \ {Pick(x)}]]
  BY <1>5 DEF Summed
<1> QED
  BY <1>6 DEF Follows

\* It does not depend on the set it is defined on.
LEMMA SummedSame ==
    ASSUME NEW f, NEW S, IsFiniteSet(S), NEW T \in SUBSET S, NEW s \in SUBSET T
    PROVE  Summed(f, S)[s] = Summed(f, T)[s]
<1> DEFINE F == {x \in SUBSET T : Summed(f, S)[x] # Summed(f, T)[x]}
<1> SUFFICES ASSUME F # {} PROVE FALSE
  OBVIOUS
<1>1. IsFiniteSet(T) /\ \A x \in SUBSET T : IsFiniteSet(x) /\ x \in SUBSET S
  BY FS_Subset
<1>2. PICK x \in F : \A y \in F : Cardinality(x) <= Cardinality(y)
  <2>1. \A y \in F : IsFiniteSet(y)
    BY <1>1
  <2> HIDE DEF F
  <2> QED
    BY <2>1, Smallest
<1>3. Follows(Summed(f, S), f, x) /\ Follows(Summed(f, T), f, x)
  BY <1>1, <1>2, SummedFollows
<1>4. x # {}
  BY <1>2, <1>3 DEF Follows
<1> DEFINE y == x \ {Pick(x)}
<1>5. Cardinality(y) < Cardinality(x) /\ Cardinality(x) \in Nat /\ Cardinality(y) \in Nat
  BY <1>1, <1>2, <1>4, PickIn, Without
<1>6. y \in SUBSET T /\ y \notin F
  BY <1>2, <1>5
<1>7. Summed(f, S)[y] = Summed(f, T)[y]
  BY <1>6
<1> QED
  BY <1>2, <1>3, <1>4, <1>7 DEF Follows

\* So a sum is one of its terms and the sum of the others,
LEMMA TotalPick ==
    ASSUME NEW f, NEW S, IsFiniteSet(S)
    PROVE  /\ S = {} => Total(f, S) = 0
           /\ S # {} => Pick(S) \in S /\ Total(f, S) = f[Pick(S)] + Total(f, S \ {Pick(S)})
<1>1. Follows(Summed(f, S), f, S)
  BY SummedFollows
<1>2. Total(f, S) = Summed(f, S)[S]
  BY TotalIsSummed
<1>3. CASE S # {}
  <2> DEFINE T == S \ {Pick(S)}
  <2>1. Summed(f, S)[T] = Summed(f, T)[T]
    BY SummedSame
  <2>2. Total(f, T) = Summed(f, T)[T]
    BY TotalIsSummed
  <2> QED
    BY <1>1, <1>2, <1>3, <2>1, <2>2, PickIn DEF Follows
<1> QED
  BY <1>1, <1>2, <1>3 DEF Follows

\* ... whichever term is taken,
LEMMA TotalAny ==
    ASSUME NEW f, NEW S, IsFiniteSet(S), \A x \in S : f[x] \in Nat, NEW a \in S
    PROVE  Total(f, S \ {a}) \in Nat /\ Total(f, S) = f[a] + Total(f, S \ {a})
<1> DEFINE F == {T \in SUBSET S : \/ Total(f, T) \notin Nat
                                  \/ \E b \in T : Total(f, T) # f[b] + Total(f, T \ {b})}
<1>1. \A T \in SUBSET S : IsFiniteSet(T)
  BY FS_Subset
<1>2. F = {}
  <2> SUFFICES ASSUME F # {} PROVE FALSE
    OBVIOUS
  <2>1. PICK T \in F : \A U \in F : Cardinality(T) <= Cardinality(U)
    <3>1. \A T \in F : IsFiniteSet(T)
      BY <1>1
    <3> HIDE DEF F
    <3> QED
      BY <3>1, Smallest
  <2>2. T \in SUBSET S /\ IsFiniteSet(T)
    BY <1>1
  <2>3. \A U \in SUBSET S : Cardinality(U) < Cardinality(T) =>
           /\ Total(f, U) \in Nat
           /\ \A b \in U : Total(f, U) = f[b] + Total(f, U \ {b})
    <3>1. \A U \in SUBSET S : Cardinality(U) \in Nat
      BY <1>1, FS_CardinalityType
    <3>2. ASSUME NEW U \in SUBSET S, Cardinality(U) < Cardinality(T) PROVE U \notin F
      <4>1. Cardinality(U) \in Nat /\ Cardinality(T) \in Nat
        BY <2>2, <3>1
      <4> HIDE DEF F
      <4> QED
        BY <2>1, <3>2, <4>1
    <3> QED
      BY <3>2
  <2>4. T # {}
    <3> SUFFICES ASSUME T = {} PROVE FALSE
      OBVIOUS
    <3>1. Total(f, T) = 0
      BY <2>2, TotalPick
    <3> QED
      BY <3>1
  <2> DEFINE p == Pick(T)
  <2>5. p \in T /\ Total(f, T) = f[p] + Total(f, T \ {p})
    BY <2>2, <2>4, TotalPick
  <2>6. \A b \in T : T \ {b} \in SUBSET S /\ Cardinality(T \ {b}) < Cardinality(T)
    <3> TAKE b \in T
    <3>1. Cardinality(T) \in Nat /\ Cardinality(T \ {b}) \in Nat /\ Cardinality(T) = Cardinality(T \ {b}) + 1
      BY <2>2, Without
    <3> QED
      BY <2>2, <3>1
  <2>7. \A b \in T : Total(f, T \ {b}) \in Nat
    BY <2>3, <2>6
  <2>8. Total(f, T) \in Nat
    BY <2>2, <2>5, <2>7
  <2>9. ASSUME NEW b \in T PROVE Total(f, T) = f[b] + Total(f, T \ {b})
    <3> SUFFICES ASSUME b # p PROVE Total(f, T) = f[b] + Total(f, T \ {b})
      BY <2>5
    <3>1. Total(f, T \ {p}) = f[b] + Total(f, (T \ {p}) \ {b})
      BY <2>3, <2>5, <2>6
    <3>2. Total(f, T \ {b}) = f[p] + Total(f, (T \ {b}) \ {p})
      BY <2>3, <2>5, <2>6
    <3>3. (T \ {p}) \ {b} = (T \ {b}) \ {p}
      OBVIOUS
    <3>4. (T \ {b}) \ {p} \in SUBSET S /\ Cardinality((T \ {b}) \ {p}) < Cardinality(T)
      <4>1. p \in T \ {b} /\ IsFiniteSet(T \ {b})
        BY <2>5, <2>6, <1>1
      <4>2. /\ Cardinality(T \ {b}) = Cardinality((T \ {b}) \ {p}) + 1
            /\ Cardinality((T \ {b}) \ {p}) \in Nat
        BY <4>1, Without
      <4>3. Cardinality(T) \in Nat /\ Cardinality(T \ {b}) \in Nat
        BY <2>2, <4>1, FS_CardinalityType
      <4> QED
        BY <2>2, <2>6, <4>2, <4>3
    <3>5. Total(f, (T \ {b}) \ {p}) \in Nat
      BY <2>3, <3>4
    <3>6. f[b] \in Nat /\ f[p] \in Nat
      BY <2>2, <2>5
    <3>7. Total(f, T \ {p}) = f[b] + Total(f, (T \ {b}) \ {p})
      BY <3>1, <3>3
    <3> HIDE DEF p
    <3> QED
      BY <2>5, <3>2, <3>5, <3>6, <3>7
  <2> QED
    BY <2>1, <2>8, <2>9
<1>3. \A T \in SUBSET S : Total(f, T) \in Nat /\ \A b \in T : Total(f, T) = f[b] + Total(f, T \ {b})
  BY <1>2
<1>4. S \in SUBSET S /\ S \ {a} \in SUBSET S
  OBVIOUS
<1> QED
  BY <1>3, <1>4

\* a natural number,
LEMMA TotalType ==
    ASSUME NEW f, NEW S, IsFiniteSet(S), \A x \in S : f[x] \in Nat
    PROVE  Total(f, S) \in Nat
<1>1. CASE S = {}
  <2>1. Total(f, S) = 0
    BY <1>1, TotalPick
  <2> QED
    BY <2>1
<1>2. CASE S # {}
  <2>1. PICK a \in S : TRUE
    BY <1>2
  <2>2. Total(f, S \ {a}) \in Nat /\ Total(f, S) = f[a] + Total(f, S \ {a})
    BY TotalAny
  <2>3. f[a] \in Nat
    BY <2>1
  <2> QED
    BY <2>2, <2>3
<1> QED
  BY <1>1, <1>2

\* more than zero if a term is,
LEMMA TotalPositive ==
    ASSUME NEW f, NEW S, IsFiniteSet(S), S # {}, \A x \in S : f[x] \in Nat /\ f[x] > 0
    PROVE  Total(f, S) \in Nat /\ Total(f, S) > 0
<1>1. PICK a \in S : TRUE
  OBVIOUS
<1>2. Total(f, S \ {a}) \in Nat /\ Total(f, S) = f[a] + Total(f, S \ {a})
  BY TotalAny
<1> QED
  BY <1>1, <1>2

\* the term itself if there is only one,
LEMMA TotalSingle ==
    ASSUME NEW f, NEW a, f[a] \in Nat
    PROVE  Total(f, {a}) = f[a]
<1>1. IsFiniteSet({a}) /\ IsFiniteSet({})
  BY FS_Singleton, FS_EmptySet
<1>2. Total(f, {a}) = f[a] + Total(f, {a} \ {a})
  BY <1>1, TotalAny
<1>3. {a} \ {a} = {}
  OBVIOUS
<1>4. Total(f, {}) = 0
  BY <1>1, TotalPick
<1>5. Total(f, {a} \ {a}) = 0
  BY <1>3, <1>4
<1> QED
  BY <1>2, <1>5

\* and no less than the sum of some of its terms.
LEMMA TotalSubset ==
    ASSUME NEW f, NEW S, IsFiniteSet(S), \A x \in S : f[x] \in Nat, NEW T \in SUBSET S
    PROVE  Total(f, T) <= Total(f, S)
<1> DEFINE F == {U \in SUBSET S : T \subseteq U /\ ~(Total(f, T) <= Total(f, U))}
<1>1. \A U \in SUBSET S : IsFiniteSet(U) /\ Total(f, U) \in Nat
  BY FS_Subset, TotalType
<1>2. F = {}
  <2> SUFFICES ASSUME F # {} PROVE FALSE
    OBVIOUS
  <2>1. PICK U \in F : \A V \in F : Cardinality(U) <= Cardinality(V)
    <3>1. \A V \in F : IsFiniteSet(V)
      BY <1>1
    <3> HIDE DEF F
    <3> QED
      BY <3>1, Smallest
  <2>2. U # T
    BY <1>1
  <2>3. PICK a \in U : a \notin T
    BY <2>2
  <2>4. /\ Cardinality(U) = Cardinality(U \ {a}) + 1
        /\ Cardinality(U \ {a}) \in Nat
    BY <1>1, Without
  <2>5. U \ {a} \notin F
    <3> SUFFICES ASSUME U \ {a} \in F PROVE FALSE
      OBVIOUS
    <3> HIDE DEF F
    <3> QED
      BY <2>1, <2>4
  <2>6. Total(f, T) <= Total(f, U \ {a})
    BY <2>3, <2>5
  <2>7. Total(f, U) = f[a] + Total(f, U \ {a})
    BY <1>1, TotalAny
  <2>8. f[a] \in Nat /\ Total(f, U \ {a}) \in Nat /\ Total(f, T) \in Nat
    BY <1>1
  <2> QED
    BY <2>6, <2>7, <2>8
<1> QED
  BY <1>2

-----------------------------------------------------------------------------
(* Arithmetic. *)

\* Quotients and products of natural numbers are natural numbers.
LEMMA DivNat == \A a \in Nat, b \in Nat \ {0} : a \div b \in Nat
  OBVIOUS

\* The product of positive numbers is positive.
LEMMA TimesPositive == \A a, b \in Nat \ {0} : a * b \in Nat \ {0}
  OBVIOUS

\* The product of natural numbers is one.
LEMMA TimesNat == \A a, b \in Nat : a * b \in Nat
  OBVIOUS

\* Multiplying and dividing by the same number.
LEMMA DivSame == \A a \in Nat, b \in Nat \ {0} : (a * b) \div b = a
  OBVIOUS

\* The remainder of a smaller number is the number,
LEMMA ModSmall == \A k \in Nat, w \in Nat \ {0} : k < w => k % w = k
  OBVIOUS

\* ... and that of the divisor is zero.
LEMMA ModSelf == \A w \in Nat \ {0} : w % w = 0
  OBVIOUS

\* The units of the window cancel out.
LEMMA Cancel ==
    ASSUME NEW total \in Nat \ {0}, NEW n \in Nat \ {0}, NEW u \in Nat
    PROVE  (100 * total * (u * n)) \div (n * (1 * total)) = 100 * u
<1>1. 100 * total * (u * n) = (100 * u) * (n * total)
  OBVIOUS
<1>2. n * (1 * total) = n * total
  OBVIOUS
<1>3. n * total \in Nat \ {0} /\ 100 * u \in Nat
  BY TimesPositive
<1> QED
  BY <1>1, <1>2, <1>3, DivSame

=============================================================================
