---------------------------- MODULE CommonLemmas ----------------------------
(***************************************************************************)
(* Facts about numbers, finite sets and sums over them that the proofs about *)
(* several components need; the library has no sums.                       *)
(***************************************************************************)
EXTENDS Integers, FiniteSets, Functions, FiniteSetTheorems, WellFoundedInduction, TLAPS

\* A set of numbers has a least one.
LEMMA LeastNumber ==
    ASSUME NEW T, T \subseteq Nat, T # {}
    PROVE  \E x \in T : \A y \in T : x <= y
<1> DEFINE R == OpToRel(<, Nat)
<1>1. IsWellFoundedOn(R, Nat)
  BY NatLessThanWellFounded
<1>2. \A x, y \in Nat : <<y, x>> \in R <=> y < x
  BY DEF OpToRel
<1> HIDE DEF R
<1>3. \E x \in T : \A y \in T : ~ (<<y, x>> \in R)
  BY <1>1, WFMin
<1>4. \A x, y \in Nat : x <= y \/ y < x
  OBVIOUS
<1> QED BY <1>2, <1>3, <1>4

\* So what holds of 0 and of each successor holds of all numbers.
LEMMA Induction ==
    ASSUME NEW T, 0 \in T, \A n \in Nat : n \in T => n + 1 \in T
    PROVE  Nat \subseteq T
<1> SUFFICES ASSUME Nat \ T # {} PROVE FALSE
  OBVIOUS
<1>1. PICK n \in Nat \ T : \A m \in Nat \ T : n <= m
  BY LeastNumber
<1>2. n # 0 /\ n - 1 \in Nat /\ (n - 1) + 1 = n
  BY <1>1
<1>3. n - 1 \in T
  BY <1>1, <1>2
<1> QED BY <1>1, <1>2, <1>3

\* A finite set is built from the empty one by adding its elements one by one.
LEMMA SetInduction ==
    ASSUME NEW S, IsFiniteSet(S), NEW T, {} \in T,
           \A s \in SUBSET S, x \in S : s \in T /\ x \notin s => s \cup {x} \in T
    PROVE  SUBSET S \subseteq T
<1> DEFINE N == {n \in Nat : \A s \in SUBSET S : Cardinality(s) = n => s \in T}
<1>1. \A s \in SUBSET S : IsFiniteSet(s) /\ Cardinality(s) \in Nat
  BY FS_Subset, FS_CardinalityType
<1>2. 0 \in N
  BY <1>1, FS_EmptySet
<1>3. ASSUME NEW n \in Nat, n \in N PROVE n + 1 \in N
  <2> SUFFICES ASSUME NEW s \in SUBSET S, Cardinality(s) = n + 1 PROVE s \in T
    OBVIOUS
  <2>1. s # {}
    BY FS_EmptySet
  <2>2. PICK x \in s : TRUE
    BY <2>1
  <2>3. s \ {x} \in SUBSET S /\ Cardinality(s \ {x}) = n
    <3>1. IsFiniteSet(s)
      BY <1>1
    <3>2. Cardinality(s \ {x}) = Cardinality(s) - 1
      BY <2>2, <3>1, FS_RemoveElement
    <3> QED BY <3>2
  <2>4. s \ {x} \in T
    BY <1>3, <2>3
  <2>5. (s \ {x}) \cup {x} \in T
    BY <2>2, <2>3, <2>4
  <2>6. (s \ {x}) \cup {x} = s
    BY <2>2
  <2> QED BY <2>5, <2>6
<1> HIDE DEF N
<1>4. Nat \subseteq N
  BY <1>2, <1>3, Induction
<1> QED BY <1>1, <1>4 DEF N

-----------------------------------------------------------------------------
(* Quotients and remainders *)

\* What the provers know of a quotient and a remainder.
LEMMA DivMod ==
    ASSUME NEW m \in Nat \ {0}, NEW x \in Int
    PROVE  /\ x \div m \in Int /\ x % m \in 0 .. m - 1
           /\ x = (x \div m) * m + (x % m)
OBVIOUS

\* A remainder below the modulus is the only one.
LEMMA UniqueMod ==
    ASSUME NEW m \in Nat \ {0}, NEW q \in Int, NEW r \in 0 .. m - 1
    PROVE  (q * m + r) % m = r
<1> DEFINE x == q * m + r
<1>1. q * m \in Int /\ x \in Int
  OBVIOUS
<1>2. x = (x \div m) * m + (x % m) /\ x \div m \in Int /\ x % m \in 0 .. m - 1
  BY <1>1, DivMod
<1> DEFINE a == x \div m
           b == x % m
<1>3. (q - a) * m = b - r
  BY <1>2
<1> HIDE DEF x, a, b
<1>4. a \in Int /\ b \in 0 .. m - 1
  BY <1>2 DEF a, b
<1>5. q - a = 0
  <2>1. CASE q - a >= 1
    BY <1>3, <1>4, <2>1
  <2>2. CASE q - a <= -1
    BY <1>3, <1>4, <2>2
  <2> QED BY <1>4, <2>1, <2>2
<1>6. b = r
  BY <1>3, <1>4, <1>5
<1> QED BY <1>6 DEF x, b

-----------------------------------------------------------------------------
(* Sums *)

First(s) == CHOOSE x \in s : TRUE

\* The recursion behind SumFunctionOnSet.
IsSum(h, f, S) ==
    h = [s \in SUBSET S |-> IF s = {} THEN 0 ELSE f[First(s)] + h[s \ {First(s)}]]

\* A sum is the value of the recursion for its set.
LEMMA SumIsRecursion ==
    ASSUME NEW f, NEW S
    PROVE  SumFunctionOnSet(f, S) = (CHOOSE h : IsSum(h, f, S))[S]
BY Zenon DEF SumFunctionOnSet, FoldFunctionOnSet, MapThenFoldSet, IsSum, First

\* The recursion has a solution on the subsets of a finite set, with numbers for values.
LEMMA SumExists ==
    ASSUME NEW f, NEW S, IsFiniteSet(S), \A x \in S : f[x] \in Nat
    PROVE  \E h \in [SUBSET S -> Nat] : IsSum(h, f, S)
<1> DEFINE Value(h, s) == IF s = {} THEN 0 ELSE f[First(s)] + h[s \ {First(s)}]
           Good(h, n) == /\ h \in [SUBSET S -> Nat]
                         /\ \A s \in SUBSET S : Cardinality(s) <= n => h[s] = Value(h, s)
           N == {n \in Nat : \E h : Good(h, n)}
<1>1. \A s \in SUBSET S : IsFiniteSet(s) /\ Cardinality(s) \in Nat
  BY FS_Subset, FS_CardinalityType
<1>2. \A s \in SUBSET S : s # {} => /\ First(s) \in s
                                    /\ s \ {First(s)} \in SUBSET S
                                    /\ Cardinality(s \ {First(s)}) = Cardinality(s) - 1
  BY <1>1, FS_RemoveElement DEF First
<1>3. 0 \in N
  <2> DEFINE h == [s \in SUBSET S |-> 0]
  <2>1. \A s \in SUBSET S : Cardinality(s) <= 0 => s = {}
    BY <1>1, FS_EmptySet
  <2>2. Good(h, 0)
    BY <2>1
  <2> HIDE DEF Good, h
  <2> QED BY <2>2
<1>4. ASSUME NEW n \in Nat, n \in N PROVE n + 1 \in N
  <2>1. PICK h : Good(h, n)
    BY <1>4
  <2> DEFINE g == [s \in SUBSET S |-> IF Cardinality(s) = n + 1 THEN Value(h, s) ELSE h[s]]
  <2>2. ASSUME NEW s \in SUBSET S PROVE Value(h, s) \in Nat
    <3>1. CASE s = {}
      BY <3>1
    <3>2. CASE s # {}
      <4>1. First(s) \in S /\ h[s \ {First(s)}] \in Nat
        BY <1>2, <2>1, <3>2
      <4> QED BY <3>2, <4>1
    <3> QED BY <3>1, <3>2
  <2>3. g \in [SUBSET S -> Nat]
    <3> HIDE DEF Value
    <3> QED BY <2>1, <2>2
  <2>4. ASSUME NEW s \in SUBSET S, Cardinality(s) <= n + 1 PROVE g[s] = Value(g, s)
    <3>1. s # {} => g[s \ {First(s)}] = h[s \ {First(s)}]
      BY <1>1, <1>2, <2>4
    <3>2. Value(g, s) = Value(h, s)
      BY <3>1
    <3>3. CASE Cardinality(s) = n + 1
      <4> HIDE DEF Value
      <4> QED BY <3>2, <3>3
    <3>4. CASE Cardinality(s) <= n
      <4>1. g[s] = h[s]
        BY <3>4, <1>1
      <4> HIDE DEF g
      <4> QED BY <2>1, <3>2, <3>4, <4>1
    <3> QED BY <1>1, <2>4, <3>3, <3>4
  <2>5. Good(g, n + 1)
    BY <2>3, <2>4
  <2> HIDE DEF Good, g
  <2> QED BY <2>5
<1> HIDE DEF N
<1>5. Cardinality(S) \in N
  BY <1>1, <1>3, <1>4, Induction
<1>6. PICK h : Good(h, Cardinality(S))
  BY <1>5 DEF N
<1>7. \A s \in SUBSET S : h[s] = Value(h, s)
  BY <1>6, FS_Subset
<1>8. IsSum(h, f, S)
  BY <1>6, <1>7 DEF IsSum
<1> QED BY <1>6, <1>8

\* Two solutions, one of them for a larger set, agree.
LEMMA SumUnique ==
    ASSUME NEW f, NEW S, IsFiniteSet(S), NEW R, R \subseteq S, NEW h, IsSum(h, f, S), NEW g, IsSum(g, f, R)
    PROVE  \A s \in SUBSET R : g[s] = h[s]
<1> DEFINE N == {n \in Nat : \A s \in SUBSET R : Cardinality(s) = n => g[s] = h[s]}
<1>1. \A s \in SUBSET R : IsFiniteSet(s) /\ Cardinality(s) \in Nat
  BY FS_Subset, FS_CardinalityType
<1>2. \A s \in SUBSET R : s # {} => /\ First(s) \in s
                                    /\ s \ {First(s)} \in SUBSET R
                                    /\ Cardinality(s \ {First(s)}) = Cardinality(s) - 1
  BY <1>1, FS_RemoveElement DEF First
<1>3. \A s \in SUBSET R : g[s] = IF s = {} THEN 0 ELSE f[First(s)] + g[s \ {First(s)}]
  BY DEF IsSum
<1>4. \A s \in SUBSET R : h[s] = IF s = {} THEN 0 ELSE f[First(s)] + h[s \ {First(s)}]
  BY DEF IsSum
<1>5. 0 \in N
  BY <1>1, <1>3, <1>4, FS_EmptySet
<1>6. ASSUME NEW n \in Nat, n \in N PROVE n + 1 \in N
  <2> SUFFICES ASSUME NEW s \in SUBSET R, Cardinality(s) = n + 1 PROVE g[s] = h[s]
    OBVIOUS
  <2>1. s # {}
    BY FS_EmptySet
  <2>2. g[s \ {First(s)}] = h[s \ {First(s)}]
    BY <1>2, <1>6, <2>1
  <2> QED BY <1>3, <1>4, <2>1, <2>2
<1> HIDE DEF N
<1>7. Nat \subseteq N
  BY <1>5, <1>6, Induction
<1> QED BY <1>1, <1>7 DEF N

\* So one function gives the sums of all subsets.
LEMMA SumFunctionOfSubsets ==
    ASSUME NEW f, NEW S, IsFiniteSet(S), \A x \in S : f[x] \in Nat
    PROVE  \E h \in [SUBSET S -> Nat] :
             /\ IsSum(h, f, S)
             /\ \A s \in SUBSET S : SumFunctionOnSet(f, s) = h[s]
<1>1. PICK h \in [SUBSET S -> Nat] : IsSum(h, f, S)
  BY SumExists
<1>2. ASSUME NEW s \in SUBSET S PROVE SumFunctionOnSet(f, s) = h[s]
  <2> DEFINE g == CHOOSE k : IsSum(k, f, s)
  <2>1. IsFiniteSet(s)
    BY FS_Subset
  <2>2. \E k : IsSum(k, f, s)
    BY <2>1, SumExists
  <2>3. IsSum(g, f, s)
    BY <2>2
  <2>4. SumFunctionOnSet(f, s) = g[s]
    BY SumIsRecursion
  <2> HIDE DEF g
  <2>5. g[s] = h[s]
    BY <1>1, <2>3, SumUnique
  <2> QED BY <2>4, <2>5
<1> QED BY <1>1, <1>2

\* A sum of numbers is a number.
LEMMA SumType ==
    ASSUME NEW f, NEW S, IsFiniteSet(S), \A x \in S : f[x] \in Nat
    PROVE  SumFunctionOnSet(f, S) \in Nat
<1>1. PICK h \in [SUBSET S -> Nat] :
         IsSum(h, f, S) /\ \A s \in SUBSET S : SumFunctionOnSet(f, s) = h[s]
  BY SumFunctionOfSubsets
<1>2. S \in SUBSET S
  OBVIOUS
<1> QED BY <1>1, <1>2

\* There is nothing to add up in the empty set.
LEMMA SumEmpty == ASSUME NEW f PROVE SumFunctionOnSet(f, {}) = 0
<1>1. PICK h \in [SUBSET {} -> Nat] : IsSum(h, f, {}) /\ \A s \in SUBSET {} : SumFunctionOnSet(f, s) = h[s]
  BY SumFunctionOfSubsets, FS_EmptySet
<1>2. h[{}] = 0
  BY <1>1 DEF IsSum
<1> QED BY <1>1, <1>2

\* Any of the elements may be taken out first.
LEMMA SumRemove ==
    ASSUME NEW f, NEW S, IsFiniteSet(S), \A x \in S : f[x] \in Nat, NEW e \in S
    PROVE  SumFunctionOnSet(f, S) = f[e] + SumFunctionOnSet(f, S \ {e})
<1>1. PICK h \in [SUBSET S -> Nat] :
         IsSum(h, f, S) /\ \A s \in SUBSET S : SumFunctionOnSet(f, s) = h[s]
  BY SumFunctionOfSubsets
<1>2. \A s \in SUBSET S : s # {} => h[s] = f[First(s)] + h[s \ {First(s)}]
  BY <1>1 DEF IsSum
<1> DEFINE N == {n \in Nat : \A s \in SUBSET S : Cardinality(s) = n =>
                                \A x \in s : h[s] = f[x] + h[s \ {x}]}
<1>3. \A s \in SUBSET S : IsFiniteSet(s) /\ Cardinality(s) \in Nat
  BY FS_Subset, FS_CardinalityType
<1>4. 0 \in N
  BY <1>3, FS_EmptySet
<1>5. ASSUME NEW n \in Nat, n \in N PROVE n + 1 \in N
  <2> SUFFICES ASSUME NEW s \in SUBSET S, Cardinality(s) = n + 1, NEW x \in s
               PROVE  h[s] = f[x] + h[s \ {x}]
    OBVIOUS
  <2> DEFINE y == First(s)
  <2>1. y \in s /\ h[s] = f[y] + h[s \ {y}]
    BY <1>2 DEF First
  <2> HIDE DEF y
  <2>2. CASE x = y
    BY <2>1, <2>2
  <2>3. CASE x # y
    <3>1. /\ s \ {y} \in SUBSET S /\ Cardinality(s \ {y}) = n /\ x \in s \ {y}
          /\ s \ {x} \in SUBSET S /\ Cardinality(s \ {x}) = n /\ y \in s \ {x}
      <4>1. IsFiniteSet(s)
        BY <1>3
      <4>2. Cardinality(s \ {x}) = Cardinality(s) - 1 /\ Cardinality(s \ {y}) = Cardinality(s) - 1
        BY <2>1, <4>1, FS_RemoveElement
      <4> QED BY <2>1, <2>3, <4>2
    <3>2. h[s \ {y}] = f[x] + h[(s \ {y}) \ {x}] /\ h[s \ {x}] = f[y] + h[(s \ {x}) \ {y}]
      BY <1>5, <3>1
    <3>3. (s \ {y}) \ {x} = (s \ {x}) \ {y} /\ (s \ {x}) \ {y} \in SUBSET S
      OBVIOUS
    <3>4. f[x] \in Nat /\ f[y] \in Nat /\ h[(s \ {x}) \ {y}] \in Nat
      BY <1>1, <2>1, <3>3
    <3> DEFINE a == h[(s \ {x}) \ {y}]
               b == f[x]
               d == f[y]
    <3>5. h[s] = d + (b + a) /\ h[s \ {x}] = d + a
      BY <2>1, <3>2, <3>3
    <3>6. a \in Nat /\ b \in Nat /\ d \in Nat
      BY <3>4
    <3> HIDE DEF a, b, d
    <3>7. h[s] = b + h[s \ {x}]
      BY <3>5, <3>6
    <3> QED BY <3>7 DEF b
  <2> QED BY <2>2, <2>3
<1> HIDE DEF N
<1>6. Nat \subseteq N
  BY <1>4, <1>5, Induction
<1>7. h[S] = f[e] + h[S \ {e}]
  BY <1>3, <1>6 DEF N
<1> QED BY <1>1, <1>7

\* One element more.
LEMMA SumAdd ==
    ASSUME NEW f, NEW S, IsFiniteSet(S), NEW e, e \notin S, \A x \in S \cup {e} : f[x] \in Nat
    PROVE  SumFunctionOnSet(f, S \cup {e}) = SumFunctionOnSet(f, S) + f[e]
<1>1. IsFiniteSet(S \cup {e}) /\ (S \cup {e}) \ {e} = S
  BY FS_AddElement
<1>2. SumFunctionOnSet(f, S \cup {e}) = f[e] + SumFunctionOnSet(f, S)
  BY <1>1, SumRemove
<1>3. f[e] \in Nat /\ SumFunctionOnSet(f, S) \in Nat
  BY SumType
<1> QED BY <1>2, <1>3

\* A sum of nothing but zeros.
LEMMA SumZero ==
    ASSUME NEW f, NEW S, IsFiniteSet(S), \A x \in S : f[x] = 0
    PROVE  SumFunctionOnSet(f, S) = 0
<1> DEFINE T == {s \in SUBSET S : SumFunctionOnSet(f, s) = 0}
<1>1. {} \in T
  BY SumEmpty
<1>2. ASSUME NEW s \in SUBSET S, NEW x \in S, s \in T, x \notin s PROVE s \cup {x} \in T
  <2>1. IsFiniteSet(s)
    BY FS_Subset
  <2>2. SumFunctionOnSet(f, s \cup {x}) = SumFunctionOnSet(f, s) + f[x]
    BY <1>2, <2>1, SumAdd
  <2> QED BY <1>2, <2>2
<1> HIDE DEF T
<1>3. SUBSET S \subseteq T
  BY <1>1, <1>2, SetInduction
<1> QED BY <1>3 DEF T

\* The greater the parts, the greater the sum.
LEMMA SumMonotone ==
    ASSUME NEW f, NEW g, NEW S, IsFiniteSet(S),
           \A x \in S : f[x] \in Nat /\ g[x] \in Nat /\ f[x] <= g[x]
    PROVE  SumFunctionOnSet(f, S) <= SumFunctionOnSet(g, S)
<1> DEFINE T == {s \in SUBSET S : SumFunctionOnSet(f, s) <= SumFunctionOnSet(g, s)}
<1>1. {} \in T
  BY SumEmpty
<1>2. ASSUME NEW s \in SUBSET S, NEW x \in S, s \in T, x \notin s PROVE s \cup {x} \in T
  <2>1. IsFiniteSet(s)
    BY FS_Subset
  <2>2. /\ SumFunctionOnSet(f, s \cup {x}) = SumFunctionOnSet(f, s) + f[x]
        /\ SumFunctionOnSet(g, s \cup {x}) = SumFunctionOnSet(g, s) + g[x]
    BY <1>2, <2>1, SumAdd
  <2>3. SumFunctionOnSet(f, s) \in Nat /\ SumFunctionOnSet(g, s) \in Nat
    BY <2>1, SumType
  <2> QED BY <1>2, <2>2, <2>3
<1> HIDE DEF T
<1>3. SUBSET S \subseteq T
  BY <1>1, <1>2, SetInduction
<1> QED BY <1>3 DEF T

\* What is the same on the set has the same sum.
LEMMA SumSame ==
    ASSUME NEW f, NEW g, NEW S, IsFiniteSet(S), \A x \in S : f[x] \in Nat /\ f[x] = g[x]
    PROVE  SumFunctionOnSet(f, S) = SumFunctionOnSet(g, S)
<1>1. SumFunctionOnSet(f, S) <= SumFunctionOnSet(g, S) /\ SumFunctionOnSet(g, S) <= SumFunctionOnSet(f, S)
  BY SumMonotone
<1>2. SumFunctionOnSet(f, S) \in Nat /\ SumFunctionOnSet(g, S) \in Nat
  BY SumType
<1> QED BY <1>1, <1>2

\* A sum over fewer elements is not greater.
LEMMA SumSubset ==
    ASSUME NEW f, NEW S, IsFiniteSet(S), NEW R \in SUBSET S, \A x \in S : f[x] \in Nat
    PROVE  SumFunctionOnSet(f, R) <= SumFunctionOnSet(f, S)
<1> DEFINE T == {s \in SUBSET (S \ R) : SumFunctionOnSet(f, R) <= SumFunctionOnSet(f, R \cup s)}
<1>1. IsFiniteSet(R) /\ IsFiniteSet(S \ R)
  BY FS_Subset
<1>2. {} \in T
  <2>1. R \cup {} = R /\ SumFunctionOnSet(f, R) \in Nat
    BY <1>1, SumType
  <2> QED BY <2>1
<1>3. ASSUME NEW s \in SUBSET (S \ R), NEW x \in S \ R, s \in T, x \notin s PROVE s \cup {x} \in T
  <2>1. IsFiniteSet(R \cup s) /\ R \cup s \subseteq S /\ x \notin R \cup s
    BY <1>3, FS_Subset
  <2>2. SumFunctionOnSet(f, (R \cup s) \cup {x}) = SumFunctionOnSet(f, R \cup s) + f[x]
    BY <2>1, SumAdd
  <2>3. SumFunctionOnSet(f, R) \in Nat /\ SumFunctionOnSet(f, R \cup s) \in Nat /\ f[x] \in Nat
    BY <1>1, <2>1, SumType
  <2>4. (R \cup s) \cup {x} = R \cup (s \cup {x})
    OBVIOUS
  <2>5. SumFunctionOnSet(f, R) <= SumFunctionOnSet(f, (R \cup s) \cup {x})
    BY <1>3, <2>2, <2>3
  <2>6. SumFunctionOnSet(f, R) <= SumFunctionOnSet(f, R \cup (s \cup {x}))
    BY <2>4, <2>5
  <2> QED BY <1>3, <2>6
<1> HIDE DEF T
<1>4. SUBSET (S \ R) \subseteq T
  <2> DEFINE D == S \ R
  <2>1. IsFiniteSet(D) /\ {} \in T
    BY <1>1, <1>2
  <2>2. \A s \in SUBSET D, x \in D : s \in T /\ x \notin s => s \cup {x} \in T
    BY <1>3
  <2> HIDE DEF D
  <2>3. SUBSET D \subseteq T
    BY <2>1, <2>2, SetInduction
  <2> QED BY <2>3 DEF D
<1>5. R \cup (S \ R) = S
  OBVIOUS
<1> QED BY <1>4, <1>5 DEF T

\* A part that changes changes the sum as much.
LEMMA SumChange ==
    ASSUME NEW f, NEW g, NEW S, IsFiniteSet(S), NEW e \in S,
           \A x \in S : f[x] \in Nat /\ g[x] \in Nat, \A x \in S \ {e} : f[x] = g[x]
    PROVE  SumFunctionOnSet(g, S) = SumFunctionOnSet(f, S) + g[e] - f[e]
<1>1. IsFiniteSet(S \ {e})
  BY FS_RemoveElement
<1>2. SumFunctionOnSet(f, S \ {e}) = SumFunctionOnSet(g, S \ {e}) /\ SumFunctionOnSet(f, S \ {e}) \in Nat
  BY <1>1, SumSame, SumType
<1>3. /\ SumFunctionOnSet(f, S) = f[e] + SumFunctionOnSet(f, S \ {e})
      /\ SumFunctionOnSet(g, S) = g[e] + SumFunctionOnSet(g, S \ {e})
  BY SumRemove
<1>4. f[e] \in Nat /\ g[e] \in Nat
  OBVIOUS
<1> QED BY <1>2, <1>3, <1>4

\* The sum of one part.
LEMMA SumSingle ==
    ASSUME NEW f, NEW e, f[e] \in Nat
    PROVE  SumFunctionOnSet(f, {e}) = f[e]
<1>1. {} \cup {e} = {e} /\ \A x \in {} \cup {e} : f[x] \in Nat
  OBVIOUS
<1>2. SumFunctionOnSet(f, {} \cup {e}) = SumFunctionOnSet(f, {}) + f[e]
  BY <1>1, FS_EmptySet, SumAdd
<1> QED BY <1>1, <1>2, SumEmpty

-----------------------------------------------------------------------------
(* Sets *)

\* The image of a finite set is finite.
LEMMA FiniteImage ==
    ASSUME NEW S, IsFiniteSet(S), NEW f
    PROVE  IsFiniteSet({f[x] : x \in S})
<1> DEFINE T == {f[x] : x \in S}
           g == [x \in S |-> f[x]]
<1>1. g \in Surjection(S, T)
  BY DEF Surjection
<1> HIDE DEF g, T
<1>2. IsFiniteSet(T)
  BY <1>1, FS_Surjection
<1> QED BY <1>2 DEF T

\* Two sets without a common element.
LEMMA DisjointUnion ==
    ASSUME NEW S, NEW T, IsFiniteSet(S), IsFiniteSet(T), S \cap T = {}
    PROVE  IsFiniteSet(S \cup T) /\ Cardinality(S \cup T) = Cardinality(S) + Cardinality(T)
<1>1. Cardinality(S \cap T) = 0
  BY FS_EmptySet
<1>2. Cardinality(S) \in Nat /\ Cardinality(T) \in Nat
  BY FS_CardinalityType
<1>3. /\ IsFiniteSet(S \cup T)
      /\ Cardinality(S \cup T) = Cardinality(S) + Cardinality(T) - Cardinality(S \cap T)
  BY FS_Union
<1> QED BY <1>1, <1>2, <1>3

\* A set between two others has a cardinality between theirs.
LEMMA Between ==
    ASSUME NEW R, NEW S, NEW T, IsFiniteSet(T), R \subseteq S, S \subseteq T
    PROVE  /\ IsFiniteSet(S) /\ Cardinality(R) \in Nat /\ Cardinality(S) \in Nat /\ Cardinality(T) \in Nat
           /\ Cardinality(R) <= Cardinality(S) /\ Cardinality(S) <= Cardinality(T)
<1>1. IsFiniteSet(S) /\ Cardinality(S) <= Cardinality(T)
  BY FS_Subset
<1>2. IsFiniteSet(R) /\ Cardinality(R) <= Cardinality(S)
  BY <1>1, FS_Subset
<1> QED BY <1>1, <1>2, FS_CardinalityType
=============================================================================
