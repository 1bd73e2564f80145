---------------------------- MODULE DataTheorems ----------------------------
(***************************************************************************)
(* What the proofs of several parts use about numbers and finite sets.     *)
(* Induction is stated about a set that is closed, because none of the     *)
(* provers can instantiate a theorem about every predicate; and so are     *)
(* sums over a finite set about functions.                                 *)
(***************************************************************************)
EXTENDS Integers, FiniteSetsExt, Functions, FiniteSetTheorems,
        WellFoundedInduction, TLAPS

-----------------------------------------------------------------------------
(* Induction.                                                              *)

LEMMA Least ==
    ASSUME NEW T \in SUBSET Nat, T # {}
    PROVE  \E x \in T : \A y \in T : x <= y
<1>1. PICK x \in T : \A y \in T : ~ (<<y, x>> \in OpToRel(<, Nat))
  BY WFMin, NatLessThanWellFounded
<1>2. \A y \in T : ~ (y < x)
  BY <1>1 DEF OpToRel
<1> QED
  BY <1>2

LEMMA Induct ==
    ASSUME NEW T, 0 \in T, \A n \in Nat : n \in T => n + 1 \in T
    PROVE  Nat \subseteq T
<1> SUFFICES ASSUME Nat \ T # {} PROVE FALSE
  OBVIOUS
<1>1. PICK x \in Nat \ T : \A y \in Nat \ T : x <= y
  BY Least
<1>2. x # 0 /\ x - 1 \in Nat /\ ~ (x <= x - 1) /\ (x - 1) + 1 = x
  BY <1>1
<1> QED
  BY <1>1, <1>2

\* A set of sets that has the empty one, and with each set those that have
\* one element more, has every finite set.
LEMMA InductOnSets ==
    ASSUME NEW S, IsFiniteSet(S), NEW T, {} \in T,
           \A U \in SUBSET S : U # {} /\ (\A x \in U : U \ {x} \in T) => U \in T
    PROVE  S \in T
<1> DEFINE N == {n \in Nat : \A U \in SUBSET S : Cardinality(U) = n => U \in T}
<1>1. \A U \in SUBSET S : IsFiniteSet(U) /\ Cardinality(U) \in Nat
  BY FS_Subset, FS_CardinalityType
<1>2. 0 \in N
  <2>1. \A U \in SUBSET S : Cardinality(U) = 0 => U = {}
    BY <1>1, FS_EmptySet
  <2> QED
    BY <2>1
<1>3. ASSUME NEW n \in Nat, n \in N PROVE n + 1 \in N
  <2> SUFFICES ASSUME NEW U \in SUBSET S, Cardinality(U) = n + 1 PROVE U \in T
    OBVIOUS
  <2>1. U # {}
    <3>1. n + 1 # 0 /\ Cardinality({}) = 0
      BY FS_EmptySet
    <3> QED
      BY <3>1
  <2>2. ASSUME NEW x \in U PROVE U \ {x} \in T
    <3>1. Cardinality(U \ {x}) = n
      BY <1>1, FS_RemoveElement
    <3> QED
      BY <1>3, <3>1
  <2> QED
    BY <2>1, <2>2
<1> HIDE DEF N
<1>4. Nat \subseteq N
  BY ONLY <1>2, <1>3, Induct
<1> QED
  BY <1>1, <1>4 DEF N

\* The values of a function on a finite set are finitely many.
LEMMA ImageIsFinite ==
    ASSUME NEW S, IsFiniteSet(S), NEW f
    PROVE  IsFiniteSet({f[x] : x \in S})
<1> DEFINE T == {f[x] : x \in S}
           g == [x \in S |-> f[x]]
<1>1. g \in [S -> T] /\ \A t \in T : \E x \in S : g[x] = t
  OBVIOUS
<1> HIDE DEF T, g
<1>2. g \in Surjection(S, T)
  BY ONLY <1>1 DEF Surjection
<1>3. IsFiniteSet(T)
  BY ONLY <1>2, IsFiniteSet(S), FS_Surjection
<1> QED
  BY <1>3 DEF T

\* Finitely many numbers have a largest.
LEMMA LargestOfSome ==
    ASSUME NEW S, IsFiniteSet(S), S # {}, \A x \in S : x \in Int
    PROVE  Max(S) \in S /\ \A y \in S : Max(S) >= y
<1> DEFINE Has(U) == \E x \in U : \A y \in U : x >= y
           T == {U \in SUBSET S : U = {} \/ Has(U)}
<1>1. {} \in T
  OBVIOUS
<1>2. ASSUME NEW U \in SUBSET S, U # {}, \A x \in U : U \ {x} \in T PROVE U \in T
  <2>1. PICK z \in U : TRUE
    BY <1>2
  <2>2. CASE U \ {z} = {}
    <3>1. \A y \in U : y = z
      BY <2>2
    <3> QED
      BY <2>1, <3>1
  <2>3. CASE U \ {z} # {}
    <3>1. PICK x \in U \ {z} : \A y \in U \ {z} : x >= y
      BY <1>2, <2>3
    <3>2. x \in Int /\ z \in Int /\ \A y \in U : y \in Int
      OBVIOUS
    <3>3. CASE z >= x
      BY <3>1, <3>2, <3>3
    <3>4. CASE ~ (z >= x)
      BY <3>1, <3>2, <3>4
    <3> QED
      BY <3>3, <3>4
  <2> QED
    BY <2>2, <2>3
<1> HIDE DEF T
<1>3. S \in T
  BY ONLY <1>1, <1>2, IsFiniteSet(S), InductOnSets
<1>4. \E x \in S : \A y \in S : x >= y
  BY <1>3 DEF T
<1> QED
  BY <1>4 DEF Max

\* And a smallest.
LEMMA SmallestOfSome ==
    ASSUME NEW S, IsFiniteSet(S), S # {}, \A x \in S : x \in Int
    PROVE  \E x \in S : \A y \in S : x <= y
<1> DEFINE minus == [x \in S |-> -x]
           T == {minus[x] : x \in S}
<1>1. IsFiniteSet(T)
  BY ONLY IsFiniteSet(S), ImageIsFinite
<1>2. T # {} /\ (\A t \in T : t \in Int) /\ \A x \in S : -x \in T
  OBVIOUS
<1> DEFINE m == Max(T)
<1>3. m \in T /\ \A t \in T : m >= t
  <2> HIDE DEF T
  <2> QED
    BY ONLY <1>1, <1>2, LargestOfSome
<1>4. PICK x \in S : m = -x
  BY <1>3
<1>5. m \in Int /\ \A y \in S : m >= -y
  BY <1>2, <1>3
<1> HIDE DEF m, T
<1>6. \A y \in S : x <= y
  BY ONLY <1>4, <1>5, x \in S, \A y \in S : y \in Int
<1> QED
  BY <1>6

LEMMA SmallestOfTwo ==
    ASSUME NEW a \in Int, NEW b \in Int
    PROVE  Min({a, b}) = IF a <= b THEN a ELSE b
BY DEF Min

LEMMA LargestOfTwo ==
    ASSUME NEW a \in Int, NEW b \in Int
    PROVE  Max({a, b}) = IF a >= b THEN a ELSE b
BY DEF Max

-----------------------------------------------------------------------------
(* Division.                                                               *)

LEMMA Division ==
    ASSUME NEW x \in Int, NEW d \in Nat \ {0}
    PROVE  /\ x \div d \in Int
           /\ (x \div d) * d <= x /\ x < (x \div d) * d + d
BY Z3

LEMMA DivisionAtLeast ==
    ASSUME NEW x \in Int, NEW d \in Nat \ {0}, NEW q \in Int, q * d <= x
    PROVE  q <= x \div d
<1> DEFINE y == x \div d
<1>1. y \in Int /\ x < y * d + d
  BY Division
<1>2. y * d + d = (y + 1) * d
  BY <1>1
<1>3. q * d < (y + 1) * d
  BY <1>1, <1>2
<1>4. q < y + 1
  BY <1>1, <1>3
<1> QED
  BY <1>1, <1>4

LEMMA DivisionOfMultiple ==
    ASSUME NEW r \in Int, NEW d \in Nat \ {0}
    PROVE  (d * r) \div d = r
<1> DEFINE x == d * r
           y == x \div d
<1>1. x \in Int /\ x = r * d
  OBVIOUS
<1> HIDE DEF x
<1>2. y \in Int /\ y * d <= x
  BY <1>1, Division
<1>3. r <= y
  BY <1>1, DivisionAtLeast
<1> HIDE DEF y
<1>4. y * d <= r * d
  BY <1>1, <1>2
<1>5. y <= r
  <2> SUFFICES ASSUME r + 1 <= y PROVE FALSE
    BY <1>2
  <2>1. (r + 1) * d <= y * d
    <3> DEFINE e == y - (r + 1)
    <3>1. e \in Nat /\ y = (r + 1) + e
      BY <1>2
    <3> HIDE DEF e
    <3>2. y * d = (r + 1) * d + e * d /\ e * d >= 0 /\ (r + 1) * d \in Int /\ e * d \in Int
      BY ONLY <3>1, r \in Int, d \in Nat \ {0}
    <3> QED
      BY ONLY <3>2
  <2>2. (r + 1) * d = r * d + d /\ r * d \in Int /\ y * d \in Int /\ d > 0
    BY <1>2
  <2> QED
    BY ONLY <1>4, <2>1, <2>2, d \in Nat
<1> QED
  BY <1>2, <1>3, <1>5 DEF x, y

-----------------------------------------------------------------------------
(* Sums over a finite set, which the library defines by taking elements    *)
(* out one after the other.                                                *)

AnyOf(s) == CHOOSE x \in s : TRUE

IsSum(F, f, S) ==
    F = [s \in SUBSET S |->
            IF s = {} THEN 0 ELSE f[AnyOf(s)] + F[s \ {AnyOf(s)}]]

LEMMA SumUnfolds ==
    ASSUME NEW f, NEW S
    PROVE  SumFunctionOnSet(f, S) = (CHOOSE F : IsSum(F, f, S))[S]
BY DEF SumFunctionOnSet, FoldFunctionOnSet, MapThenFoldSet, IsSum, AnyOf

LEMMA SumExists ==
    ASSUME NEW f, NEW S, IsFiniteSet(S)
    PROVE  \E F : IsSum(F, f, S)
<1> DEFINE D(n) == {s \in SUBSET S : Cardinality(s) <= n}
           Upto(F, n) == F = [s \in D(n) |->
                          IF s = {} THEN 0 ELSE f[AnyOf(s)] + F[s \ {AnyOf(s)}]]
           N == {n \in Nat : \E F : Upto(F, n)}
<1>1. \A s \in SUBSET S : IsFiniteSet(s) /\ Cardinality(s) \in Nat /\ Cardinality(s) <= Cardinality(S)
  BY FS_Subset, FS_CardinalityType
<1>2. \A s \in SUBSET S : s # {} => AnyOf(s) \in s
  BY DEF AnyOf
<1>3. ASSUME NEW n \in Nat, NEW s \in D(n + 1), s # {}
      PROVE  s \ {AnyOf(s)} \in D(n)
  <2>1. Cardinality(s \ {AnyOf(s)}) = Cardinality(s) - 1
    BY <1>1, <1>2, <1>3, FS_RemoveElement
  <2>2. Cardinality(s) \in Nat /\ Cardinality(s) <= n + 1
    BY <1>1
  <2> QED
    BY ONLY <2>1, <2>2, s \in D(n + 1), n \in Nat
<1>4. 0 \in N
  <2> DEFINE F == [s \in D(0) |-> 0]
  <2>1. \A s \in D(0) : s = {}
    BY <1>1, FS_EmptySet
  <2>2. Upto(F, 0)
    BY <2>1
  <2> QED
    BY <2>2
<1>5. ASSUME NEW n \in Nat, n \in N PROVE n + 1 \in N
  <2>1. PICK F : Upto(F, n)
    BY <1>5
  <2> DEFINE G == [s \in D(n + 1) |->
                     IF s = {} THEN 0 ELSE f[AnyOf(s)] + F[s \ {AnyOf(s)}]]
  <2>2. ASSUME NEW s \in D(n) PROVE s \in D(n + 1) /\ G[s] = F[s]
    <3>1. s \in D(n + 1)
      <4>1. Cardinality(s) \in Nat /\ Cardinality(s) <= n
        BY <1>1
      <4>2. Cardinality(s) <= n + 1
        BY ONLY <4>1, n \in Nat
      <4> QED
        BY <4>2
    <3> HIDE DEF D
    <3>2. F[s] = IF s = {} THEN 0 ELSE f[AnyOf(s)] + F[s \ {AnyOf(s)}]
      BY <2>1
    <3> QED
      BY <3>1, <3>2
  <2>3. ASSUME NEW s \in D(n + 1), s # {}
        PROVE  G[s \ {AnyOf(s)}] = F[s \ {AnyOf(s)}]
    BY <1>3, <2>2, <2>3
  <2>4. Upto(G, n + 1)
    <3> HIDE DEF D
    <3>1. \A s \in D(n + 1) : (IF s = {} THEN 0 ELSE f[AnyOf(s)] + F[s \ {AnyOf(s)}])
                            = (IF s = {} THEN 0 ELSE f[AnyOf(s)] + G[s \ {AnyOf(s)}])
      <4> HIDE DEF G
      <4> QED
        BY <2>3
    <3> QED
      BY <3>1
  <2> HIDE DEF G, Upto, D
  <2> QED
    BY <2>4
<1> HIDE DEF N
<1>6. Cardinality(S) \in N
  <2>1. Nat \subseteq N
    BY ONLY <1>4, <1>5, Induct
  <2> QED
    BY <1>1, <2>1
<1>7. D(Cardinality(S)) = SUBSET S
  BY <1>1
<1>8. PICK F : Upto(F, Cardinality(S))
  BY <1>6 DEF N
<1> QED
  BY <1>7, <1>8 DEF IsSum

\* Two sums of functions that agree on what both are taken over agree.
LEMMA SumIsUnique ==
    ASSUME NEW f, NEW g, NEW S, NEW R, IsFiniteSet(S), NEW F, NEW G,
           IsSum(F, f, S), IsSum(G, g, R), \A x \in S : f[x] = g[x], S \subseteq R
    PROVE  F[S] = G[S]
<1> DEFINE T == {U \in SUBSET S : F[U] = G[U]}
<1>1. {} \in T
  <2>1. F[{}] = 0
    BY DEF IsSum
  <2>2. G[{}] = 0
    BY DEF IsSum
  <2> QED
    BY <2>1, <2>2
<1>2. ASSUME NEW U \in SUBSET S, U # {}, \A x \in U : U \ {x} \in T PROVE U \in T
  <2>1. AnyOf(U) \in U /\ AnyOf(U) \in S
    BY <1>2 DEF AnyOf
  <2>2. F[U] = f[AnyOf(U)] + F[U \ {AnyOf(U)}]
    BY <1>2 DEF IsSum
  <2>3. G[U] = g[AnyOf(U)] + G[U \ {AnyOf(U)}]
    BY <1>2 DEF IsSum
  <2> QED
    BY <1>2, <2>1, <2>2, <2>3
<1> HIDE DEF T
<1>3. S \in T
  BY ONLY <1>1, <1>2, IsFiniteSet(S), InductOnSets
<1> QED
  BY <1>3 DEF T

LEMMA SumsAgree ==
    ASSUME NEW f, NEW g, NEW S, IsFiniteSet(S), \A x \in S : f[x] = g[x]
    PROVE  SumFunctionOnSet(f, S) = SumFunctionOnSet(g, S)
<1>1. IsSum(CHOOSE F : IsSum(F, f, S), f, S)
  BY SumExists
<1>2. IsSum(CHOOSE F : IsSum(F, g, S), g, S)
  BY SumExists
<1> QED
  BY <1>1, <1>2, SumIsUnique, SumUnfolds

LEMMA SumOfNone == ASSUME NEW f PROVE SumFunctionOnSet(f, {}) = 0
<1>1. IsSum(CHOOSE F : IsSum(F, f, {}), f, {})
  BY SumExists, FS_EmptySet
<1>2. ASSUME NEW F, IsSum(F, f, {}) PROVE F[{}] = 0
  BY <1>2 DEF IsSum
<1> QED
  BY <1>1, <1>2, SumUnfolds

LEMMA SumTakesOut ==
    ASSUME NEW f, NEW S, IsFiniteSet(S), S # {}
    PROVE  /\ AnyOf(S) \in S
           /\ SumFunctionOnSet(f, S)
                = f[AnyOf(S)] + SumFunctionOnSet(f, S \ {AnyOf(S)})
<1> DEFINE x == AnyOf(S)
           R == S \ {x}
<1>1. x \in S /\ R \subseteq S /\ IsFiniteSet(R)
  BY FS_Subset DEF AnyOf
<1>2. PICK F : F = (CHOOSE H : IsSum(H, f, S))
  OBVIOUS
<1>3. PICK G : G = (CHOOSE H : IsSum(H, f, R))
  OBVIOUS
<1>4. IsSum(F, f, S)
  BY <1>2, SumExists
<1>5. IsSum(G, f, R)
  BY <1>1, <1>3, SumExists
<1>6. F[S] = f[x] + F[R]
  BY <1>4 DEF IsSum
<1>7. F[R] = G[R]
  <2> HIDE DEF R
  <2> QED
    BY <1>1, <1>4, <1>5, SumIsUnique
<1>8. SumFunctionOnSet(f, S) = F[S] /\ SumFunctionOnSet(f, R) = G[R]
  BY <1>2, <1>3, SumUnfolds
<1> QED
  BY <1>1, <1>6, <1>7, <1>8

LEMMA SumIsAnInteger ==
    ASSUME NEW f, NEW S, IsFiniteSet(S), \A x \in S : f[x] \in Int
    PROVE  SumFunctionOnSet(f, S) \in Int
<1> DEFINE T == {U \in SUBSET S : SumFunctionOnSet(f, U) \in Int}
<1>1. {} \in T
  BY SumOfNone
<1>2. ASSUME NEW U \in SUBSET S, U # {}, \A x \in U : U \ {x} \in T PROVE U \in T
  <2>1. IsFiniteSet(U)
    BY FS_Subset
  <2>2. AnyOf(U) \in U /\ AnyOf(U) \in S
    BY <1>2 DEF AnyOf
  <2>3. SumFunctionOnSet(f, U) = f[AnyOf(U)] + SumFunctionOnSet(f, U \ {AnyOf(U)})
    BY <1>2, <2>1, SumTakesOut
  <2>4. f[AnyOf(U)] \in Int /\ SumFunctionOnSet(f, U \ {AnyOf(U)}) \in Int
    BY <1>2, <2>2
  <2> QED
    BY <2>3, <2>4
<1> HIDE DEF T
<1>3. S \in T
  BY ONLY <1>1, <1>2, IsFiniteSet(S), InductOnSets
<1> QED
  BY <1>3 DEF T

\* Any element can be taken out first.
LEMMA SumWithout ==
    ASSUME NEW f, NEW S, IsFiniteSet(S), \A x \in S : f[x] \in Int, NEW x \in S
    PROVE  SumFunctionOnSet(f, S) = f[x] + SumFunctionOnSet(f, S \ {x})
<1> DEFINE Without(U, y) == SumFunctionOnSet(f, U) = f[y] + SumFunctionOnSet(f, U \ {y})
           T == {U \in SUBSET S : \A y \in U : Without(U, y)}
<1>0. \A U \in SUBSET S : IsFiniteSet(U) /\ SumFunctionOnSet(f, U) \in Int
  BY FS_Subset, SumIsAnInteger
<1>1. {} \in T
  OBVIOUS
<1>2. ASSUME NEW U \in SUBSET S, U # {}, \A y \in U : U \ {y} \in T PROVE U \in T
  <2> DEFINE z == AnyOf(U)
  <2>1. z \in U /\ SumFunctionOnSet(f, U) = f[z] + SumFunctionOnSet(f, U \ {z})
    BY <1>0, <1>2, SumTakesOut
  <2> HIDE DEF z
  <2> SUFFICES ASSUME NEW y \in U, y # z PROVE Without(U, y)
    BY <2>1
  <2>2. Without(U \ {z}, y) /\ Without(U \ {y}, z)
    BY <1>2, <2>1
  <2>3. (U \ {z}) \ {y} = (U \ {y}) \ {z}
    OBVIOUS
  <2>4. f[y] \in Int /\ f[z] \in Int /\ SumFunctionOnSet(f, (U \ {y}) \ {z}) \in Int
    BY <1>0, <2>1
  <2> DEFINE w == SumFunctionOnSet(f, (U \ {y}) \ {z})
  <2>5. SumFunctionOnSet(f, U \ {z}) = f[y] + w
    BY ONLY <2>2, <2>3
  <2>6. SumFunctionOnSet(f, U \ {y}) = f[z] + w
    BY ONLY <2>2
  <2>7. w \in Int
    BY <2>4
  <2> HIDE DEF w
  <2>8. SumFunctionOnSet(f, U) = f[y] + SumFunctionOnSet(f, U \ {y})
    BY ONLY <2>1, <2>4, <2>5, <2>6, <2>7
  <2> QED
    BY <2>8
<1> HIDE DEF T
<1>3. S \in T
  BY ONLY <1>1, <1>2, IsFiniteSet(S), InductOnSets
<1> QED
  BY <1>3 DEF T

LEMMA SumChanged ==
    ASSUME NEW f, NEW g, NEW S, IsFiniteSet(S), NEW x \in S,
           \A y \in S : f[y] \in Int /\ g[y] \in Int,
           \A y \in S \ {x} : f[y] = g[y]
    PROVE  SumFunctionOnSet(g, S) = SumFunctionOnSet(f, S) + (g[x] - f[x])
<1>1. IsFiniteSet(S \ {x})
  BY FS_Subset
<1>2. SumFunctionOnSet(f, S \ {x}) = SumFunctionOnSet(g, S \ {x})
  BY <1>1, SumsAgree
<1>3. /\ SumFunctionOnSet(f, S) = f[x] + SumFunctionOnSet(f, S \ {x})
      /\ SumFunctionOnSet(g, S) = g[x] + SumFunctionOnSet(g, S \ {x})
  BY SumWithout
<1>4. SumFunctionOnSet(f, S \ {x}) \in Int /\ f[x] \in Int /\ g[x] \in Int
  BY <1>1, SumIsAnInteger
<1> QED
  BY ONLY <1>2, <1>3, <1>4

LEMMA SumOfSums ==
    ASSUME NEW f, NEW g, NEW h, NEW S, IsFiniteSet(S),
           \A x \in S : f[x] \in Int /\ g[x] \in Int /\ h[x] = f[x] + g[x]
    PROVE  SumFunctionOnSet(h, S) = SumFunctionOnSet(f, S) + SumFunctionOnSet(g, S)
<1> DEFINE Adds(U) == SumFunctionOnSet(h, U) = SumFunctionOnSet(f, U) + SumFunctionOnSet(g, U)
           T == {U \in SUBSET S : Adds(U)}
<1>1. {} \in T
  BY SumOfNone
<1>2. ASSUME NEW U \in SUBSET S, U # {}, \A y \in U : U \ {y} \in T PROVE U \in T
  <2> DEFINE z == AnyOf(U)
             R == U \ {z}
  <2>1. IsFiniteSet(U) /\ IsFiniteSet(R)
    BY FS_Subset
  <2>2. /\ z \in U
        /\ SumFunctionOnSet(f, U) = f[z] + SumFunctionOnSet(f, R)
        /\ SumFunctionOnSet(g, U) = g[z] + SumFunctionOnSet(g, R)
        /\ SumFunctionOnSet(h, U) = h[z] + SumFunctionOnSet(h, R)
    BY <1>2, <2>1, SumTakesOut
  <2>3. /\ f[z] \in Int /\ g[z] \in Int /\ h[z] = f[z] + g[z]
        /\ SumFunctionOnSet(f, R) \in Int /\ SumFunctionOnSet(g, R) \in Int
    <3>1. R \in SUBSET S
      OBVIOUS
    <3>2. (\A x \in R : f[x] \in Int) /\ (\A x \in R : g[x] \in Int)
      BY <3>1
    <3> HIDE DEF R
    <3>3. SumFunctionOnSet(f, R) \in Int /\ SumFunctionOnSet(g, R) \in Int
      BY ONLY <2>1, <3>2, SumIsAnInteger
    <3> QED
      BY <2>2, <3>3
  <2>4. Adds(R)
    BY <1>2, <2>2
  <2> HIDE DEF z, R
  <2> QED
    BY <2>2, <2>3, <2>4
<1> HIDE DEF T
<1>3. S \in T
  BY ONLY <1>1, <1>2, IsFiniteSet(S), InductOnSets
<1> QED
  BY <1>3 DEF T

\* What is not summed may as well be summed as nothing.
LEMMA SumOfSome ==
    ASSUME NEW f, NEW g, NEW S, IsFiniteSet(S), NEW R \in SUBSET S,
           \A x \in R : f[x] \in Int /\ g[x] = f[x], \A x \in S \ R : g[x] = 0
    PROVE  SumFunctionOnSet(f, R) = SumFunctionOnSet(g, S)
<1> DEFINE T == {U \in SUBSET S : SumFunctionOnSet(f, U \cap R) = SumFunctionOnSet(g, U)}
<1>1. {} \in T
  <2>1. {} \cap R = {}
    OBVIOUS
  <2> QED
    BY <2>1, SumOfNone
<1>2. ASSUME NEW U \in SUBSET S, U # {}, \A y \in U : U \ {y} \in T PROVE U \in T
  <2> DEFINE z == AnyOf(U)
             Q == U \cap R
  <2>1. IsFiniteSet(U) /\ IsFiniteSet(Q) /\ IsFiniteSet(U \ {z})
    BY FS_Subset
  <2>2. z \in U /\ SumFunctionOnSet(g, U) = g[z] + SumFunctionOnSet(g, U \ {z})
    BY <1>2, <2>1, SumTakesOut
  <2>3. SumFunctionOnSet(f, (U \ {z}) \cap R) = SumFunctionOnSet(g, U \ {z})
    BY <1>2, <2>2
  <2>4. CASE z \in R
    <3>1. z \in Q /\ Q \ {z} = (U \ {z}) \cap R /\ (\A x \in Q : f[x] \in Int) /\ g[z] = f[z]
      BY <2>2, <2>4
    <3> HIDE DEF z, Q
    <3>2. SumFunctionOnSet(f, Q) = f[z] + SumFunctionOnSet(f, Q \ {z})
      BY ONLY <2>1, <3>1, SumWithout
    <3> QED
      BY <2>2, <2>3, <3>1, <3>2 DEF Q
  <2>5. CASE z \notin R
    <3>1. Q = (U \ {z}) \cap R /\ g[z] = 0
      BY <2>2, <2>5
    <3>2. SumFunctionOnSet(f, (U \ {z}) \cap R) \in Int
      <4>1. (\A x \in Q : f[x] \in Int)
        OBVIOUS
      <4> HIDE DEF Q
      <4> QED
        BY ONLY <2>1, <3>1, <4>1, SumIsAnInteger
    <3> HIDE DEF z, Q
    <3> QED
      BY <2>2, <2>3, <3>1, <3>2 DEF Q
  <2> QED
    BY <2>4, <2>5
<1> HIDE DEF T
<1>3. S \in T
  BY ONLY <1>1, <1>2, IsFiniteSet(S), InductOnSets
<1>4. S \cap R = R
  OBVIOUS
<1> QED
  BY <1>3, <1>4 DEF T

\* A sum goes on with what is added to it, here the same p each time.
LEMMA SumGoesOn ==
    ASSUME NEW f, NEW a \in Nat, NEW b \in Nat, a <= b, NEW p \in Int,
           \A u \in 1..b : f[u] \in Int, \A u \in a + 1 .. b : f[u] = p
    PROVE  SumFunctionOnSet(f, 1..b) = SumFunctionOnSet(f, 1..a) + (b - a) * p
<1> DEFINE S(n) == SumFunctionOnSet(f, 1..n)
           T == {t \in Nat : a + t <= b => S(a + t) = S(a) + t * p}
<1>1. \A n \in Nat : n <= b => S(n) \in Int
  <2>1. ASSUME NEW n \in Nat, n <= b PROVE S(n) \in Int
    <3>1. IsFiniteSet(1..n) /\ \A u \in 1..n : f[u] \in Int
      BY <2>1, FS_Interval
    <3> QED
      BY <3>1, SumIsAnInteger
  <2> QED
    BY <2>1
<1>2. 0 \in T
  <2>1. a + 0 = a /\ 0 * p = 0 /\ S(a) \in Int
    BY <1>1
  <2> HIDE DEF S
  <2> QED
    BY <2>1
<1>3. ASSUME NEW t \in Nat, t \in T PROVE t + 1 \in T
  <2> SUFFICES ASSUME a + (t + 1) <= b PROVE S(a + (t + 1)) = S(a) + (t + 1) * p
    OBVIOUS
  <2> DEFINE n == a + t
  <2>1. n \in Nat /\ n + 1 <= b /\ n <= b /\ a + (t + 1) = n + 1
    OBVIOUS
  <2>2. S(n) = S(a) + t * p
    BY <1>3, <2>1
  <2> HIDE DEF n
  <2>3. /\ IsFiniteSet(1..(n + 1)) /\ n + 1 \in 1..(n + 1)
        /\ \A u \in 1..(n + 1) : f[u] \in Int
        /\ (1..(n + 1)) \ {n + 1} = 1..n
    <3>1. IsFiniteSet(1..(n + 1))
      BY <2>1, FS_Interval
    <3>2. \A u \in 1..(n + 1) : u \in 1..b
      BY <2>1
    <3>3. n + 1 \in 1..(n + 1) /\ (1..(n + 1)) \ {n + 1} = 1..n
      BY <2>1
    <3> QED
      BY <3>1, <3>2, <3>3
  <2>4. S(n + 1) = f[n + 1] + S(n)
    <3>1. S(n + 1) = f[n + 1] + SumFunctionOnSet(f, (1..(n + 1)) \ {n + 1})
      BY ONLY <2>3, SumWithout
    <3> QED
      BY <2>3, <3>1
  <2>5. f[n + 1] = p
    <3>1. n + 1 \in a + 1 .. b
      BY <2>1 DEF n
    <3> QED
      BY <3>1
  <2>6. (t + 1) * p = t * p + p /\ t * p \in Int
    OBVIOUS
  <2>7. S(a) \in Int
    BY <1>1
  <2>8. S(a + (t + 1)) = S(n + 1)
    BY <2>1
  <2>9. S(n + 1) = p + (S(a) + t * p)
    BY <2>2, <2>4, <2>5
  <2> HIDE DEF S, T
  <2> QED
    BY ONLY <2>6, <2>7, <2>8, <2>9, p \in Int
<1>4. b - a \in T
  <2> HIDE DEF T
  <2>1. Nat \subseteq T
    BY ONLY <1>2, <1>3, Induct
  <2> QED
    BY <2>1
<1>5. a + (b - a) = b
  OBVIOUS
<1> QED
  BY <1>4, <1>5

-----------------------------------------------------------------------------
(* Folds over a sequence, which the library defines by taking the largest  *)
(* index out of a set of them.                                             *)

LEMMA LastOfFirst ==
    ASSUME NEW k \in Nat, k > 0
    PROVE  Max(1..k) = k /\ (1..k) \ {k} = 1..(k - 1)
<1>1. k \in 1..k /\ \A x \in 1..k : k >= x
  OBVIOUS
<1>2. \A x \in 1..k : (\A y \in 1..k : x >= y) => x = k
  BY <1>1
<1>3. Max(1..k) = k
  BY <1>1, <1>2 DEF Max
<1> QED
  BY <1>3

IsFold(F, base, step, m) ==
    \A s \in SUBSET (1..m) :
        F[s] = IF s = {} THEN base ELSE step[<<Max(s), F[s \ {Max(s)}]>>]

Folded(base, step, R, m) ==
    \E F \in [SUBSET (1..m) -> R] : IsFold(F, base, step, m)

\* Whatever a step makes of an index and a value, there is what it makes of all.
LEMMA FoldExists ==
    ASSUME NEW n \in Nat, NEW R, NEW base \in R, NEW step \in [(1..n) \X R -> R]
    PROVE  Folded(base, step, R, n)
<1> DEFINE T == {m \in Nat : m <= n => Folded(base, step, R, m)}
<1>1. ASSUME NEW m \in Nat, NEW s \in SUBSET (1..(m + 1)), s # {}
      PROVE  Max(s) \in s /\ s \ {Max(s)} \in SUBSET (1..m)
  <2>1. IsFiniteSet(s) /\ \A x \in s : x \in Int
    <3>1. IsFiniteSet(1..(m + 1)) /\ \A x \in 1..(m + 1) : x \in Int
      <4>1. m + 1 \in Int
        OBVIOUS
      <4> QED
        BY <4>1, FS_Interval
    <3> QED
      BY <3>1, FS_Subset
  <2>2. Max(s) \in s /\ \A y \in s : Max(s) >= y
    BY <1>1, <2>1, LargestOfSome
  <2>3. ASSUME NEW y \in s \ {Max(s)} PROVE y \in 1..m
    <3>1. y \in 1..(m + 1) /\ Max(s) \in 1..(m + 1) /\ Max(s) >= y /\ y # Max(s)
      BY <2>2
    <3> QED
      BY ONLY <3>1, m \in Nat
  <2> QED
    BY <2>2, <2>3
<1>2. 0 \in T
  <2> DEFINE F == [s \in SUBSET (1..0) |-> base]
  <2>1. F \in [SUBSET (1..0) -> R] /\ \A s \in SUBSET (1..0) : s = {} /\ F[s] = base
    OBVIOUS
  <2>2. IsFold(F, base, step, 0)
    BY <2>1 DEF IsFold
  <2>3. Folded(base, step, R, 0)
    BY <2>1, <2>2 DEF Folded
  <2> QED
    BY <2>3
<1>3. ASSUME NEW m \in Nat, m \in T PROVE m + 1 \in T
  <2> SUFFICES ASSUME m + 1 <= n PROVE Folded(base, step, R, m + 1)
    OBVIOUS
  <2>0. Folded(base, step, R, m)
    BY <1>3
  <2>1. PICK G \in [SUBSET (1..m) -> R] : IsFold(G, base, step, m)
    BY ONLY <2>0 DEF Folded
  <2> DEFINE F == [s \in SUBSET (1..(m + 1)) |->
                      IF s = {} THEN base ELSE step[<<Max(s), G[s \ {Max(s)}]>>]]
  <2>2. ASSUME NEW s \in SUBSET (1..(m + 1)), s # {}
        PROVE  Max(s) \in 1..n /\ s \ {Max(s)} \in SUBSET (1..m)
               /\ s \ {Max(s)} \in SUBSET (1..(m + 1))
    <3>1. Max(s) \in s /\ s \ {Max(s)} \in SUBSET (1..m)
      BY <1>1, <2>2
    <3>2. Max(s) \in 1..(m + 1)
      BY <3>1
    <3> QED
      BY <3>1, <3>2
  <2>3. ASSUME NEW s \in SUBSET (1..(m + 1)) PROVE F[s] \in R
    <3>1. CASE s = {}
      BY <3>1
    <3>2. CASE s # {}
      <4>1. <<Max(s), G[s \ {Max(s)}]>> \in (1..n) \X R
        BY <2>2, <3>2
      <4> QED
        BY <3>2, <4>1
    <3> QED
      BY <3>1, <3>2
  <2>4. ASSUME NEW s \in SUBSET (1..m) PROVE F[s] = G[s]
    <3>1. s \in SUBSET (1..(m + 1))
      OBVIOUS
    <3> QED
      BY <2>1, <3>1 DEF IsFold
  <2>5. ASSUME NEW s \in SUBSET (1..(m + 1))
        PROVE  F[s] = IF s = {} THEN base ELSE step[<<Max(s), F[s \ {Max(s)}]>>]
    <3>1. CASE s = {}
      BY <3>1
    <3>2. CASE s # {}
      <4>1. F[s \ {Max(s)}] = G[s \ {Max(s)}]
        BY <2>2, <2>4, <3>2
      <4>2. F[s] = step[<<Max(s), G[s \ {Max(s)}]>>]
        BY <3>2
      <4> HIDE DEF F
      <4> QED
        BY <3>2, <4>1, <4>2
    <3> QED
      BY <3>1, <3>2
  <2>6. F \in [SUBSET (1..(m + 1)) -> R]
    BY <2>3
  <2> HIDE DEF F
  <2> QED
    BY <2>5, <2>6 DEF IsFold, Folded
<1> HIDE DEF T
<1>4. n \in T
  <2>1. Nat \subseteq T
    BY ONLY <1>2, <1>3, Induct
  <2> QED
    BY <2>1
<1> QED
  BY <1>4 DEF T

\* What holds of the start of a loop and of each turn if of the one before.
LEMMA Turns ==
    ASSUME NEW n \in Nat, NEW T, 0 \in T, \A k \in 1..n : k - 1 \in T => k \in T
    PROVE  \A k \in 0..n : k \in T
<1> DEFINE U == {k \in Nat : k <= n => k \in T}
<1>1. 0 \in U
  OBVIOUS
<1>2. ASSUME NEW k \in Nat, k \in U PROVE k + 1 \in U
  <2> SUFFICES ASSUME k + 1 <= n PROVE k + 1 \in T
    OBVIOUS
  <2>1. k \in T /\ k + 1 \in 1..n /\ (k + 1) - 1 = k
    BY <1>2
  <2> QED
    BY <2>1
<1> HIDE DEF U
<1>3. Nat \subseteq U
  BY ONLY <1>1, <1>2, Induct
<1> QED
  BY <1>3 DEF U

LEMMA LastOfSome ==
    ASSUME NEW n \in Nat, NEW s \in SUBSET (1..n), s # {}
    PROVE  Max(s) \in 1..n /\ s \ {Max(s)} \in SUBSET (1..n)
<1>1. IsFiniteSet(1..n) /\ \A x \in 1..n : x \in Int
  <2>1. n \in Int
    OBVIOUS
  <2> QED
    BY <2>1, FS_Interval
<1>2. IsFiniteSet(s) /\ \A x \in s : x \in Int
  BY <1>1, FS_Subset
<1>3. Max(s) \in s
  BY <1>2, LargestOfSome
<1> QED
  BY <1>3

LEMMA FirstOnes ==
    ASSUME NEW n \in Nat, NEW k \in 1..n
    PROVE  /\ 1..k # {} /\ 1..k \in SUBSET (1..n) /\ k \in 0..n /\ k - 1 \in 0..n
           /\ Max(1..k) = k /\ (1..k) \ {k} = 1..(k - 1)
<1>1. k \in Nat /\ k > 0 /\ 1 \in 1..k
  OBVIOUS
<1>2. Max(1..k) = k /\ (1..k) \ {k} = 1..(k - 1)
  BY <1>1, LastOfFirst
<1> QED
  BY <1>1, <1>2

=============================================================================
