-------------------------- MODULE MakerBook_proofs --------------------------
(***************************************************************************)
(* Facts about the arithmetic of Engine and MakerBook, for every market,   *)
(* fee and book: integer division, the rounding of fees and collateral,    *)
(* sums over levels, and what the reserve of a set of bids is.             *)
(*                                                                         *)
(* A sum is a fold; what it computes is proved by induction, on a set of   *)
(* natural numbers (NatSetInduction) or a set of subsets of the domain     *)
(* (SubsetInduction) that has the wanted elements.                         *)
(***************************************************************************)
EXTENDS MakerBook, FiniteSets, FiniteSetTheorems, WellFoundedInduction, TLAPS

-----------------------------------------------------------------------------
(* Integer division *)

\* Division rounds down: the bounds that characterise a quotient.
LEMMA DivFacts ==
  ASSUME NEW a \in Int, NEW d \in Nat \ {0}
  PROVE  /\ a \div d \in Int
         /\ d * (a \div d) <= a
         /\ a < d * (a \div d) + d
BY Z3

\* The quotient is the only number within those bounds.
LEMMA DivUnique ==
  ASSUME NEW a \in Int, NEW d \in Nat \ {0}, NEW q \in Int,
         d * q <= a, a < d * q + d
  PROVE  a \div d = q
<1>1. /\ a \div d \in Int
      /\ d * (a \div d) <= a
      /\ a < d * (a \div d) + d
  BY DivFacts
<1> DEFINE x == a \div d
<1> HIDE DEF x
<1>2. d * x < d * q + d /\ d * q < d * x + d
  BY <1>1 DEF x
<1>3. d * (x - q) < d /\ d * (q - x) < d
  BY <1>1, <1>2, Z3 DEF x
<1>4. x - q < 1 /\ q - x < 1
  BY <1>1, <1>3, Z3 DEF x
<1> QED BY <1>1, <1>4 DEF x

\* A bound on a quotient from above.
LEMMA DivAtMost ==
  ASSUME NEW a \in Int, NEW d \in Nat \ {0}, NEW q \in Int, a < d * q + d
  PROVE  a \div d <= q
<1> DEFINE x == a \div d
<1>1. x \in Int /\ d * x <= a
  BY DivFacts
<1> HIDE DEF x
<1>3. d * (x - q) < d
  BY <1>1, Z3
<1>4. x - q < 1
  BY <1>1, <1>3, Z3
<1> QED BY <1>1, <1>4 DEF x

\* A bound on a quotient from below.
LEMMA DivAtLeast ==
  ASSUME NEW a \in Int, NEW d \in Nat \ {0}, NEW q \in Int, d * q <= a
  PROVE  q <= a \div d
<1> DEFINE x == a \div d
<1>1. x \in Int /\ a < d * x + d
  BY DivFacts
<1> HIDE DEF x
<1>3. d * (q - x) < d
  BY <1>1, Z3
<1>4. q - x < 1
  BY <1>1, <1>3, Z3
<1> QED BY <1>1, <1>4 DEF x

\* The bounds that characterise the rounded-up quotient of CeilDiv.
LEMMA CeilDivFacts ==
  ASSUME NEW a \in Int, NEW d \in Nat \ {0}
  PROVE  /\ CeilDiv(a, d) \in Int
         /\ a <= d * CeilDiv(a, d)
         /\ d * CeilDiv(a, d) < a + d
<1>1. a + d - 1 \in Int
  OBVIOUS
<1> DEFINE x == (a + d - 1) \div d
<1>2. x \in Int /\ d * x <= a + d - 1 /\ a + d - 1 < d * x + d
  BY <1>1, DivFacts
<1> HIDE DEF x
<1>3. d * x \in Int
  BY <1>2
<1>4. a <= d * x /\ d * x < a + d
  BY <1>2, <1>3
<1> QED BY <1>2, <1>4 DEF x, CeilDiv

\* A larger dividend has no smaller quotient.
LEMMA DivMonotone ==
  ASSUME NEW a \in Int, NEW b \in Int, NEW d \in Nat \ {0}, a <= b
  PROVE  a \div d <= b \div d
<1> DEFINE q == b \div d
<1>1. q \in Int /\ b < d * q + d
  BY DivFacts
<1> HIDE DEF q
<1>2. a < d * q + d
  BY <1>1
<1>3. a \div d <= q
  BY <1>1, <1>2, DivAtMost
<1> QED BY <1>3 DEF q

\* A number with no remainder is a multiple.
LEMMA ModZero ==
  ASSUME NEW a \in Int, NEW d \in Nat \ {0}, a % d = 0
  PROVE  a = d * (a \div d)
BY Z3

\* A multiple divides exactly, rounding up or down.
LEMMA DivExact ==
  ASSUME NEW x \in Int, NEW y \in Nat, NEW d \in Nat \ {0}, x = y * d
  PROVE  x \div d = y /\ CeilDiv(x, d) = y
<1>1. d * y <= x /\ x < d * y + d
  BY Z3
<1>2. x \div d = y
  BY <1>1, DivUnique
<1>3. d * y <= x + d - 1 /\ x + d - 1 < d * y + d
  BY Z3
<1>4. (x + d - 1) \div d = y
  BY <1>3, DivUnique
<1> QED BY <1>2, <1>4 DEF CeilDiv

\* calculate_fee returns an integer; a fee is never negative.
LEMMA FeeType ==
  ASSUME NEW q \in Nat, NEW f \in Int
  PROVE  CalculateFee(q, f) \in Int
<1>1. CASE f > 0
  <2>1. q * f \in Int
    OBVIOUS
  <2> QED BY <1>1, <2>1, CeilDivFacts, WordAssumption DEF CalculateFee
<1>2. CASE ~(f > 0)
  <2>1. q * (-f) \in Int
    OBVIOUS
  <2>2. (q * (-f)) \div PPM_DIVISOR \in Int
    BY <2>1, DivFacts, WordAssumption
  <2> QED BY <1>2, <2>2 DEF CalculateFee
<1> QED BY <1>1, <1>2

-----------------------------------------------------------------------------
(* Sums *)

\* A set of natural numbers with 0 and every successor is Nat.
LEMMA NatSetInduction ==
  ASSUME NEW T \in SUBSET Nat, 0 \in T, \A n \in T : n + 1 \in T
  PROVE  T = Nat
<1> SUFFICES ASSUME Nat \ T # {} PROVE FALSE
  OBVIOUS
<1> DEFINE R == OpToRel(<, Nat)
           U == Nat \ T
<1>1. U \subseteq Nat /\ U # {}
  OBVIOUS
<1>2. PICK m \in U : \A k \in U : ~ (<<k, m>> \in R)
  <2> HIDE DEF U
  <2> QED BY <1>1, NatLessThanWellFounded, WFMin
<1>3. m \in Nat /\ m # 0
  BY <1>2
<1>4. m - 1 \in Nat /\ m - 1 < m /\ (m - 1) + 1 = m
  BY <1>3
<1>5. m - 1 \in T
  <2> SUFFICES ASSUME m - 1 \in U PROVE FALSE
    BY <1>4
  <2>1. <<m - 1, m>> \in Nat \X Nat /\ <<m - 1, m>>[1] < <<m - 1, m>>[2]
    BY <1>3, <1>4
  <2> QED BY <2>1, <1>2 DEF OpToRel
<1> QED
  BY <1>2, <1>4, <1>5

\* The recursion behind SumFunctionOnSet: take an element, add the rest.
Pick(s) == CHOOSE x \in s : TRUE
Body(f, it, s) == IF s = {} THEN 0 ELSE f[Pick(s)] + it[s \ {Pick(s)}]
Iterates(f, it, S) == it = [s \in SUBSET S |-> Body(f, it, s)]

\* SumFunctionOnSet is that recursion.
LEMMA SumIsIterate ==
  ASSUME NEW f, NEW S
  PROVE  SumFunctionOnSet(f, S) = (CHOOSE it : Iterates(f, it, S))[S]
  BY Zenon DEF SumFunctionOnSet, FoldFunctionOnSet, MapThenFoldSet, Pick, Body, Iterates

\* The element taken is one of the set.
LEMMA PickIn == \A s : s # {} => Pick(s) \in s
  BY DEF Pick

\* What is left is finite and smaller by one.
LEMMA SmallerSet ==
  ASSUME NEW s, IsFiniteSet(s), s # {}
  PROVE  /\ IsFiniteSet(s \ {Pick(s)})
         /\ Cardinality(s) \in Nat /\ Cardinality(s) > 0
         /\ Cardinality(s \ {Pick(s)}) = Cardinality(s) - 1
<1>1. Pick(s) \in s
  BY PickIn
<1>2. IsFiniteSet(s \ {Pick(s)}) /\ Cardinality(s \ {Pick(s)}) = Cardinality(s) - 1
  BY <1>1, FS_RemoveElement
<1>3. Cardinality(s) \in Nat /\ Cardinality(s \ {Pick(s)}) \in Nat
  BY <1>2, FS_CardinalityType
<1> QED
  BY <1>2, <1>3

\* The recursion has a solution on a finite set.
LEMMA IterateExists ==
  ASSUME NEW f, NEW S, IsFiniteSet(S)
  PROVE  \E it : Iterates(f, it, S)
<1> DEFINE D(n) == {s \in SUBSET S : Cardinality(s) <= n}
           T == {n \in Nat : \E g : g = [s \in D(n) |-> Body(f, g, s)]}
<1>0. \A s \in SUBSET S : IsFiniteSet(s) /\ Cardinality(s) \in Nat
  BY FS_Subset, FS_CardinalityType
<1>1. 0 \in T
  <2> DEFINE g == [s \in D(0) |-> 0]
  <2>1. \A s \in D(0) : s = {}
    BY <1>0, FS_EmptySet
  <2>2. g = [s \in D(0) |-> Body(f, g, s)]
    BY <2>1 DEF Body
  <2> QED BY <2>2
<1>2. ASSUME NEW n \in T PROVE n + 1 \in T
  <2>1. n \in Nat
    OBVIOUS
  <2>2. PICK g : g = [s \in D(n) |-> Body(f, g, s)]
    BY <1>2
  <2> DEFINE h == [s \in D(n + 1) |-> Body(f, g, s)]
  <2>3. ASSUME NEW s \in D(n + 1), s # {} PROVE s \ {Pick(s)} \in D(n)
    BY <1>0, <2>1, <2>3, SmallerSet
  <2>4. ASSUME NEW s \in D(n) PROVE s \in D(n + 1) /\ h[s] = g[s]
    <3>1. s \in D(n + 1)
      BY <1>0, <2>1
    <3>2. h[s] = Body(f, g, s)
      BY <3>1
    <3> QED BY <2>2, <3>1, <3>2
  <2>5. ASSUME NEW s \in D(n + 1) PROVE Body(f, g, s) = Body(f, h, s)
    <3> HIDE DEF h
    <3> QED BY <2>3, <2>4 DEF Body
  <2>6. h = [s \in D(n + 1) |-> Body(f, h, s)]
    BY <2>5
  <2>7. n + 1 \in Nat
    BY <2>1
  <2> QED BY <2>6, <2>7
<1>3. T = Nat
  <2> HIDE DEF T
  <2> QED BY <1>1, <1>2, NatSetInduction DEF T
<1>4. D(Cardinality(S)) = SUBSET S
  <2>1. \A s \in SUBSET S : Cardinality(s) <= Cardinality(S)
    BY FS_Subset
  <2> QED BY <2>1
<1>5. Cardinality(S) \in T
  BY <1>0, <1>3
<1> QED
  BY <1>4, <1>5 DEF Iterates

\* Solutions on two sets agree on the finite sets they share.
LEMMA IterateAgree ==
  ASSUME NEW f, NEW S1, NEW S2, NEW it1, NEW it2, Iterates(f, it1, S1), Iterates(f, it2, S2),
         NEW S, S \subseteq S1, S \subseteq S2, IsFiniteSet(S)
  PROVE  it1[S] = it2[S]
<1> DEFINE T == {n \in Nat : \A s \in SUBSET S : Cardinality(s) = n => it1[s] = it2[s]}
<1>0. \A s \in SUBSET S : /\ IsFiniteSet(s) /\ Cardinality(s) \in Nat
                          /\ it1[s] = Body(f, it1, s) /\ it2[s] = Body(f, it2, s)
  <2>1. \A s \in SUBSET S : IsFiniteSet(s) /\ Cardinality(s) \in Nat
    BY FS_Subset, FS_CardinalityType
  <2>2. \A s \in SUBSET S1 : it1[s] = Body(f, it1, s)
    BY DEF Iterates
  <2>3. \A s \in SUBSET S2 : it2[s] = Body(f, it2, s)
    BY DEF Iterates
  <2> QED BY <2>1, <2>2, <2>3
<1>1. 0 \in T
  <2>1. \A s \in SUBSET S : Cardinality(s) = 0 => s = {}
    BY <1>0, FS_EmptySet
  <2> QED BY <1>0, <2>1 DEF Body
<1>2. ASSUME NEW n \in T PROVE n + 1 \in T
  <2>1. n \in Nat /\ \A s \in SUBSET S : Cardinality(s) = n => it1[s] = it2[s]
    BY <1>2
  <2>2. ASSUME NEW s \in SUBSET S, Cardinality(s) = n + 1 PROVE it1[s] = it2[s]
    <3>1. s # {}
      <4> SUFFICES ASSUME s = {} PROVE FALSE
        OBVIOUS
      <4>1. Cardinality(s) = 0
        BY FS_EmptySet
      <4> QED BY <2>1, <2>2, <4>1
    <3>2. Cardinality(s \ {Pick(s)}) = n /\ s \ {Pick(s)} \in SUBSET S
      BY <1>0, <2>1, <2>2, <3>1, SmallerSet
    <3>3. it1[s \ {Pick(s)}] = it2[s \ {Pick(s)}]
      BY <2>1, <3>2
    <3> QED BY <1>0, <3>1, <3>3 DEF Body
  <2> QED BY <2>1, <2>2
<1>3. T = Nat
  <2> HIDE DEF T
  <2> QED BY <1>1, <1>2, NatSetInduction DEF T
<1> QED
  BY <1>0, <1>3

\* The recursion SumFunctionOnSet stands for.
LEMMA SumUnfold ==
  ASSUME NEW f, NEW S, IsFiniteSet(S), S # {}
  PROVE  SumFunctionOnSet(f, S) = f[Pick(S)] + SumFunctionOnSet(f, S \ {Pick(S)})
<1> DEFINE R == S \ {Pick(S)}
           it == CHOOSE h : Iterates(f, h, S)
           jt == CHOOSE h : Iterates(f, h, R)
<1>1. IsFiniteSet(R)
  BY SmallerSet
<1>2. Iterates(f, it, S)
  BY IterateExists
<1>3. Iterates(f, jt, R)
  BY <1>1, IterateExists
<1>4. it[R] = jt[R]
  <2> HIDE DEF it, jt, R
  <2>1. R \subseteq S
    BY DEF R
  <2> QED BY <1>1, <1>2, <1>3, <2>1, IterateAgree
<1>5. it[S] = Body(f, it, S)
  <2> HIDE DEF it
  <2> QED BY <1>2 DEF Iterates
<1>6. it[S] = f[Pick(S)] + it[R]
  BY <1>5 DEF Body
<1>7. SumFunctionOnSet(f, S) = it[S] /\ SumFunctionOnSet(f, R) = jt[R]
  BY SumIsIterate
<1> QED
  BY <1>4, <1>6, <1>7

\* The sum over no element is zero.
LEMMA SumEmpty ==
  ASSUME NEW f
  PROVE  SumFunctionOnSet(f, {}) = 0
<1> DEFINE it == CHOOSE h : Iterates(f, h, {})
<1>1. Iterates(f, it, {})
  BY IterateExists, FS_EmptySet
<1>2. it[{}] = Body(f, it, {})
  <2> HIDE DEF it
  <2> QED BY <1>1 DEF Iterates
<1>3. SumFunctionOnSet(f, {}) = it[{}]
  BY SumIsIterate
<1> QED
  BY <1>2, <1>3 DEF Body

-----------------------------------------------------------------------------
\* Induction over the subsets of a finite set, as a set G of subsets.
LEMMA SubsetInduction ==
  ASSUME NEW S, IsFiniteSet(S), NEW G, {} \in G,
         \A s \in SUBSET S : (s # {} /\ \A x \in s : s \ {x} \in G) => s \in G
  PROVE  S \in G
<1> DEFINE T == {n \in Nat : \A s \in SUBSET S : Cardinality(s) = n => s \in G}
<1>0. \A s \in SUBSET S : IsFiniteSet(s) /\ Cardinality(s) \in Nat
  BY FS_Subset, FS_CardinalityType
<1>1. 0 \in T
  <2>1. \A s \in SUBSET S : Cardinality(s) = 0 => s = {}
    BY <1>0, FS_EmptySet
  <2> QED BY <2>1
<1>2. ASSUME NEW n \in T PROVE n + 1 \in T
  <2>1. n \in Nat /\ \A s \in SUBSET S : Cardinality(s) = n => s \in G
    BY <1>2
  <2>2. ASSUME NEW s \in SUBSET S, Cardinality(s) = n + 1 PROVE s \in G
    <3>1. CASE s = {}
      BY <3>1
    <3>2. CASE s # {}
      <4>1. \A x \in s : Cardinality(s \ {x}) = n /\ s \ {x} \in SUBSET S
        BY <1>0, <2>1, <2>2, FS_RemoveElement
      <4> QED BY <2>1, <3>2, <4>1
    <3> QED BY <3>1, <3>2
  <2> QED BY <2>1, <2>2
<1>3. T = Nat
  <2> HIDE DEF T
  <2> QED BY <1>1, <1>2, NatSetInduction DEF T
<1> QED
  BY <1>0, <1>3

\* A sum of integers is an integer.
LEMMA SumInt ==
  ASSUME NEW f, NEW S, IsFiniteSet(S), \A x \in S : f[x] \in Int
  PROVE  SumFunctionOnSet(f, S) \in Int
<1> DEFINE G == {s \in SUBSET S : SumFunctionOnSet(f, s) \in Int}
<1>1. {} \in G
  BY SumEmpty
<1>2. ASSUME NEW s \in SUBSET S, s # {}, \A x \in s : s \ {x} \in G PROVE s \in G
  <2>1. IsFiniteSet(s) /\ Pick(s) \in S /\ s \ {Pick(s)} \in G
    BY <1>2, FS_Subset, PickIn
  <2> QED BY <1>2, <2>1, SumUnfold
<1>3. S \in G
  <2> HIDE DEF G
  <2> QED BY <1>1, <1>2, SubsetInduction
<1> QED
  BY <1>3

\* A sum of natural numbers is a natural number.
LEMMA SumNat ==
  ASSUME NEW f, NEW S, IsFiniteSet(S), \A x \in S : f[x] \in Nat
  PROVE  SumFunctionOnSet(f, S) \in Nat
<1> DEFINE G == {s \in SUBSET S : SumFunctionOnSet(f, s) \in Nat}
<1>1. {} \in G
  BY SumEmpty
<1>2. ASSUME NEW s \in SUBSET S, s # {}, \A x \in s : s \ {x} \in G PROVE s \in G
  <2>1. IsFiniteSet(s) /\ Pick(s) \in S /\ s \ {Pick(s)} \in G
    BY <1>2, FS_Subset, PickIn
  <2> QED BY <1>2, <2>1, SumUnfold
<1>3. S \in G
  <2> HIDE DEF G
  <2> QED BY <1>1, <1>2, SubsetInduction
<1> QED
  BY <1>3

\* A sum depends on the function's values on the set only.
LEMMA SumSame ==
  ASSUME NEW f, NEW g, NEW S, IsFiniteSet(S), \A x \in S : f[x] = g[x]
  PROVE  SumFunctionOnSet(f, S) = SumFunctionOnSet(g, S)
<1> DEFINE G == {s \in SUBSET S : SumFunctionOnSet(f, s) = SumFunctionOnSet(g, s)}
<1>1. {} \in G
  BY SumEmpty
<1>2. ASSUME NEW s \in SUBSET S, s # {}, \A x \in s : s \ {x} \in G PROVE s \in G
  <2>1. IsFiniteSet(s) /\ Pick(s) \in S /\ s \ {Pick(s)} \in G
    BY <1>2, FS_Subset, PickIn
  <2> QED BY <1>2, <2>1, SumUnfold
<1>3. S \in G
  <2> HIDE DEF G
  <2> QED BY <1>1, <1>2, SubsetInduction
<1> QED
  BY <1>3

\* Any element may be taken out first.
LEMMA SumRemove ==
  ASSUME NEW f, NEW S, IsFiniteSet(S), \A x \in S : f[x] \in Int, NEW a \in S
  PROVE  SumFunctionOnSet(f, S) = f[a] + SumFunctionOnSet(f, S \ {a})
<1> DEFINE Sum(s) == SumFunctionOnSet(f, s)
           G == {s \in SUBSET S : \A x \in s : Sum(s) = f[x] + Sum(s \ {x})}
<1>1. {} \in G
  OBVIOUS
<1>2. ASSUME NEW s \in SUBSET S, s # {}, \A x \in s : s \ {x} \in G PROVE s \in G
  <2> DEFINE p == Pick(s)
  <2>1. IsFiniteSet(s) /\ p \in s /\ f[p] \in Int
    BY <1>2, FS_Subset, PickIn
  <2>2. Sum(s) = f[p] + Sum(s \ {p})
    BY <1>2, <2>1, SumUnfold
  <2>3. ASSUME NEW x \in s, x # p PROVE Sum(s) = f[x] + Sum(s \ {x})
    <3>1. x \in s \ {p} /\ f[x] \in Int
      BY <2>3
    <3>2. Sum(s \ {p}) = f[x] + Sum((s \ {p}) \ {x})
      BY <1>2, <2>1, <3>1
    <3>3. IsFiniteSet(s \ {x}) /\ IsFiniteSet((s \ {p}) \ {x})
      BY <2>1, FS_Subset
    <3>4. Sum((s \ {p}) \ {x}) \in Int
      BY <3>3, SumInt
    <3>5. Sum(s \ {x}) = f[p] + Sum((s \ {p}) \ {x})
      <4>1. s \ {x} \in G /\ p \in s \ {x} /\ (s \ {x}) \ {p} = (s \ {p}) \ {x}
        BY <1>2, <2>1, <2>3
      <4>2. Sum(s \ {x}) = f[p] + Sum((s \ {x}) \ {p})
        BY <4>1
      <4> QED BY <4>1, <4>2
    <3> QED BY <2>1, <2>2, <3>1, <3>2, <3>4, <3>5
  <2> QED BY <2>2, <2>3
<1>3. S \in G
  <2> HIDE DEF G
  <2> QED BY <1>1, <1>2, SubsetInduction
<1> QED
  BY <1>3

\* A sum grows with its terms.
LEMMA SumLe ==
  ASSUME NEW f, NEW g, NEW S, IsFiniteSet(S),
         \A x \in S : f[x] \in Int /\ g[x] \in Int /\ f[x] <= g[x]
  PROVE  SumFunctionOnSet(f, S) <= SumFunctionOnSet(g, S)
<1> DEFINE G == {s \in SUBSET S : SumFunctionOnSet(f, s) <= SumFunctionOnSet(g, s)}
<1>1. {} \in G
  BY SumEmpty
<1>2. ASSUME NEW s \in SUBSET S, s # {}, \A x \in s : s \ {x} \in G PROVE s \in G
  <2>1. IsFiniteSet(s) /\ Pick(s) \in S /\ s \ {Pick(s)} \in G /\ IsFiniteSet(s \ {Pick(s)})
    BY <1>2, FS_Subset, PickIn
  <2>2. SumFunctionOnSet(f, s \ {Pick(s)}) \in Int /\ SumFunctionOnSet(g, s \ {Pick(s)}) \in Int
    BY <1>2, <2>1, SumInt
  <2>3. SumFunctionOnSet(f, s) = f[Pick(s)] + SumFunctionOnSet(f, s \ {Pick(s)})
    BY <1>2, <2>1, SumUnfold
  <2>4. SumFunctionOnSet(g, s) = g[Pick(s)] + SumFunctionOnSet(g, s \ {Pick(s)})
    BY <1>2, <2>1, SumUnfold
  <2> QED BY <2>1, <2>2, <2>3, <2>4
<1>3. S \in G
  <2> HIDE DEF G
  <2> QED BY <1>1, <1>2, SubsetInduction
<1> QED
  BY <1>3

\* The sum of sums.
LEMMA SumAdd ==
  ASSUME NEW f, NEW g, NEW h, NEW S, IsFiniteSet(S),
         \A x \in S : f[x] \in Int /\ g[x] \in Int /\ h[x] = f[x] + g[x]
  PROVE  SumFunctionOnSet(h, S) = SumFunctionOnSet(f, S) + SumFunctionOnSet(g, S)
<1> DEFINE G == {s \in SUBSET S :
                   SumFunctionOnSet(h, s) = SumFunctionOnSet(f, s) + SumFunctionOnSet(g, s)}
<1>1. {} \in G
  BY SumEmpty
<1>2. ASSUME NEW s \in SUBSET S, s # {}, \A x \in s : s \ {x} \in G PROVE s \in G
  <2> DEFINE r == s \ {Pick(s)}
  <2>1. IsFiniteSet(s) /\ Pick(s) \in S /\ r \in G /\ IsFiniteSet(r)
    BY <1>2, FS_Subset, PickIn
  <2>2. SumFunctionOnSet(f, r) \in Int /\ SumFunctionOnSet(g, r) \in Int
    BY <1>2, <2>1, SumInt
  <2>3. SumFunctionOnSet(f, s) = f[Pick(s)] + SumFunctionOnSet(f, r)
    BY <1>2, <2>1, SumUnfold
  <2>4. SumFunctionOnSet(g, s) = g[Pick(s)] + SumFunctionOnSet(g, r)
    BY <1>2, <2>1, SumUnfold
  <2>5. SumFunctionOnSet(h, s) = h[Pick(s)] + SumFunctionOnSet(h, r)
    BY <1>2, <2>1, SumUnfold
  <2> HIDE DEF r
  <2> QED BY <2>1, <2>2, <2>3, <2>4, <2>5
<1>3. S \in G
  <2> HIDE DEF G
  <2> QED BY <1>1, <1>2, SubsetInduction
<1> QED
  BY <1>3

\* A common factor comes out of a sum.
LEMMA SumScale ==
  ASSUME NEW f, NEW g, NEW k \in Int, NEW S, IsFiniteSet(S),
         \A x \in S : f[x] \in Int /\ g[x] = k * f[x]
  PROVE  SumFunctionOnSet(g, S) = k * SumFunctionOnSet(f, S)
<1> DEFINE G == {s \in SUBSET S : SumFunctionOnSet(g, s) = k * SumFunctionOnSet(f, s)}
<1>1. {} \in G
  BY SumEmpty
<1>2. ASSUME NEW s \in SUBSET S, s # {}, \A x \in s : s \ {x} \in G PROVE s \in G
  <2> DEFINE r == s \ {Pick(s)}
             a == f[Pick(s)]
             b == SumFunctionOnSet(f, r)
  <2>1. IsFiniteSet(s) /\ Pick(s) \in S /\ r \in G /\ IsFiniteSet(r)
    BY <1>2, FS_Subset, PickIn
  <2>2. a \in Int /\ b \in Int
    BY <1>2, <2>1, SumInt
  <2>3. SumFunctionOnSet(f, s) = a + b
    BY <1>2, <2>1, SumUnfold
  <2>4. SumFunctionOnSet(g, s) = k * a + k * b
    BY <1>2, <2>1, SumUnfold
  <2> HIDE DEF a, b
  <2>5. k * (a + b) = k * a + k * b
    BY <2>2, Z3
  <2> QED BY <2>3, <2>4, <2>5
<1>3. S \in G
  <2> HIDE DEF G
  <2> QED BY <1>1, <1>2, SubsetInduction
<1> QED
  BY <1>3

\* A term of a sum of natural numbers is at most the sum.
LEMMA SumTerm ==
  ASSUME NEW f, NEW S, IsFiniteSet(S), \A x \in S : f[x] \in Nat, NEW a \in S
  PROVE  f[a] <= SumFunctionOnSet(f, S)
<1>1. SumFunctionOnSet(f, S) = f[a] + SumFunctionOnSet(f, S \ {a})
  BY SumRemove
<1>2. SumFunctionOnSet(f, S \ {a}) \in Nat
  BY SumNat, FS_Subset
<1> QED
  BY <1>1, <1>2

\* One term changed.
LEMMA SumChange ==
  ASSUME NEW f, NEW g, NEW S, IsFiniteSet(S), \A x \in S : f[x] \in Int /\ g[x] \in Int,
         NEW a \in S, \A x \in S \ {a} : g[x] = f[x]
  PROVE  SumFunctionOnSet(g, S) = SumFunctionOnSet(f, S) - f[a] + g[a]
<1>1. SumFunctionOnSet(f, S) = f[a] + SumFunctionOnSet(f, S \ {a})
  BY SumRemove
<1>2. SumFunctionOnSet(g, S) = g[a] + SumFunctionOnSet(g, S \ {a})
  BY SumRemove
<1>3. IsFiniteSet(S \ {a})
  BY FS_Subset
<1>4. SumFunctionOnSet(f, S \ {a}) = SumFunctionOnSet(g, S \ {a})
  BY <1>3, SumSame
<1>5. SumFunctionOnSet(f, S \ {a}) \in Int
  BY <1>3, SumInt
<1> QED
  BY <1>1, <1>2, <1>4, <1>5

-----------------------------------------------------------------------------
(* Rounding up *)

\* The rounded-up quotient of a natural number.
LEMMA CeilDivNat ==
  ASSUME NEW a \in Nat, NEW d \in Nat \ {0}
  PROVE  CeilDiv(a, d) \in Nat
<1> DEFINE x == CeilDiv(a, d)
<1>1. x \in Int /\ a <= d * x
  BY CeilDivFacts
<1> HIDE DEF x
<1>2. x >= 0
  BY <1>1, Z3
<1> QED
  BY <1>1, <1>2 DEF x

\* The least multiple that reaches a bound.
LEMMA CeilDivAtMost ==
  ASSUME NEW a \in Int, NEW d \in Nat \ {0}, NEW q \in Int, a <= d * q
  PROVE  CeilDiv(a, d) <= q
<1> DEFINE x == CeilDiv(a, d)
<1>1. x \in Int /\ d * x < a + d
  BY CeilDivFacts
<1> HIDE DEF x
<1>2. d * (x - q) < d
  BY <1>1, Z3
<1>3. x - q < 1
  BY <1>1, <1>2, Z3
<1> QED
  BY <1>1, <1>3 DEF x

\* Rounding up a larger number gives no less.
LEMMA CeilDivMonotone ==
  ASSUME NEW a \in Int, NEW b \in Int, NEW d \in Nat \ {0}, a <= b
  PROVE  CeilDiv(a, d) <= CeilDiv(b, d)
<1> DEFINE y == CeilDiv(b, d)
<1>1. y \in Int /\ b <= d * y
  BY CeilDivFacts
<1> HIDE DEF y
<1>2. a <= d * y
  BY <1>1, Z3
<1> QED
  BY <1>1, <1>2, CeilDivAtMost DEF y

\* Rounding up the parts costs at most one more than rounding up the whole,
\* and never less.
LEMMA CeilDivSplit ==
  ASSUME NEW a \in Int, NEW b \in Int, NEW d \in Nat \ {0}
  PROVE  /\ CeilDiv(a + b, d) <= CeilDiv(a, d) + CeilDiv(b, d)
         /\ CeilDiv(a, d) + CeilDiv(b, d) <= CeilDiv(a + b, d) + 1
<1> DEFINE x == CeilDiv(a, d)
           y == CeilDiv(b, d)
           z == CeilDiv(a + b, d)
<1>1. x \in Int /\ a <= d * x /\ d * x < a + d
  BY CeilDivFacts
<1>2. y \in Int /\ b <= d * y /\ d * y < b + d
  BY CeilDivFacts
<1>3. z \in Int /\ a + b <= d * z /\ d * z < a + b + d
  BY CeilDivFacts
<1> HIDE DEF x, y, z
<1>4. d * (z - x - y) < d /\ d * (x + y - z) < 2 * d
  BY <1>1, <1>2, <1>3, Z3
<1>5. z - x - y < 1 /\ x + y - z < 2
  BY <1>1, <1>2, <1>3, <1>4, Z3
<1> QED
  BY <1>1, <1>2, <1>3, <1>5 DEF x, y, z

\* base_to_quote_lots returns a natural number, on a market of positive sizes.
LEMMA MatchLotsNat ==
  ASSUME NEW m, m.base_lot \in Nat \ {0}, m.quote_lot \in Nat \ {0},
         m.tick_size \in Nat \ {0}, BaseAtomsPerBaseUnit(m) \in Nat \ {0},
         NEW b \in Nat, NEW p \in Nat, NEW side
  PROVE  BaseToQuoteLots(m, b, p, side) \in Nat
<1> DEFINE num == b * m.base_lot * p * m.tick_size
           at == QuoteAtoms(m, b, p)
<1>0. \A u, v \in Nat : u * v \in Nat
  BY Z3
<1>2. num \in Nat
  <2>1. b * m.base_lot \in Nat
    BY <1>0
  <2>2. b * m.base_lot * p \in Nat
    BY <1>0, <2>1
  <2> QED BY <1>0, <2>2
<1>3. at = num \div BaseAtomsPerBaseUnit(m)
  BY DEF QuoteAtoms
<1> HIDE DEF num, at
<1>4. at \in Nat
  BY <1>2, <1>3, DivFacts, DivAtLeast
<1>5. at \div m.quote_lot \in Nat
  BY <1>4, DivFacts, DivAtLeast
<1>6. CeilDiv(at, m.quote_lot) \in Nat
  <2>1. at + m.quote_lot - 1 \in Nat
    BY <1>4
  <2> QED BY <2>1, DivFacts, DivAtLeast DEF CeilDiv
<1> QED BY <1>5, <1>6 DEF BaseToQuoteLots, at

-----------------------------------------------------------------------------
(* The fee buffer of required_quote_reserve *)

\* The fee a lock of n quote lots leaves room for; a rebate needs none.
FeeBuffer(n, f) == IF f > 0 THEN CeilDiv(n * f, PPM_DIVISOR) ELSE 0

\* It grows with the notional and the fee, and is rounded up once: buffers of
\* two parts are worth that of the whole, or one lot more.
LEMMA BufferFacts ==
  ASSUME NEW a \in Nat, NEW b \in Nat, NEW f \in Int
  PROVE  /\ FeeBuffer(a, f) \in Nat
         /\ a <= b => FeeBuffer(a, f) <= FeeBuffer(b, f)
         /\ FeeBuffer(a + b, f) <= FeeBuffer(a, f) + FeeBuffer(b, f)
         /\ FeeBuffer(a, f) + FeeBuffer(b, f) <= FeeBuffer(a + b, f) + 1
<1>1. PPM_DIVISOR \in Nat \ {0}
  BY WordAssumption
<1>2. CASE f > 0
  <2>1. a * f \in Nat /\ b * f \in Nat /\ (a + b) * f = a * f + b * f
    BY <1>2, Z3
  <2>2. a <= b => a * f <= b * f
    BY <1>2, Z3
  <2>3. CeilDiv(a * f, PPM_DIVISOR) \in Nat
    BY <1>1, <2>1, CeilDivNat
  <2>4. a <= b => CeilDiv(a * f, PPM_DIVISOR) <= CeilDiv(b * f, PPM_DIVISOR)
    BY <1>1, <2>1, <2>2, CeilDivMonotone
  <2>5. /\ CeilDiv(a * f + b * f, PPM_DIVISOR)
             <= CeilDiv(a * f, PPM_DIVISOR) + CeilDiv(b * f, PPM_DIVISOR)
        /\ CeilDiv(a * f, PPM_DIVISOR) + CeilDiv(b * f, PPM_DIVISOR)
             <= CeilDiv(a * f + b * f, PPM_DIVISOR) + 1
    BY <1>1, <2>1, CeilDivSplit
  <2>6. /\ FeeBuffer(a, f) = CeilDiv(a * f, PPM_DIVISOR)
        /\ FeeBuffer(b, f) = CeilDiv(b * f, PPM_DIVISOR)
        /\ FeeBuffer(a + b, f) = CeilDiv(a * f + b * f, PPM_DIVISOR)
    BY <1>2, <2>1 DEF FeeBuffer
  <2> QED BY <2>3, <2>4, <2>5, <2>6
<1>3. CASE ~(f > 0)
  BY <1>3 DEF FeeBuffer
<1> QED
  BY <1>2, <1>3

\* A higher fee sets no less aside.
LEMMA BufferFeeMonotone ==
  ASSUME NEW a \in Nat, NEW f \in Int, NEW g \in Int, f <= g
  PROVE  FeeBuffer(a, f) <= FeeBuffer(a, g)
<1>1. PPM_DIVISOR \in Nat \ {0} /\ FeeBuffer(a, g) \in Nat
  BY WordAssumption, BufferFacts
<1>2. CASE f > 0
  <2>1. g > 0 /\ a * f \in Nat /\ a * g \in Nat /\ a * f <= a * g
    BY <1>2, Z3
  <2> QED BY <1>1, <1>2, <2>1, CeilDivMonotone DEF FeeBuffer
<1>3. CASE ~(f > 0)
  BY <1>1, <1>3 DEF FeeBuffer
<1> QED
  BY <1>2, <1>3

-----------------------------------------------------------------------------
(* The reserve of a set of bids *)

\* A lot-tick is worth Num / Den quote lots; a level's lots round up.
LotsCeil(size, price) == CeilDiv(size * price * TickConversionNum, TickConversionDen)

\* The conversion factors between lots and ticks are positive.
LEMMA ConversionPositive ==
  TickConversionNum \in Nat \ {0} /\ TickConversionDen \in Nat \ {0}
<1>1. \A u, v \in Nat \ {0} : u * v \in Nat \ {0}
  BY Z3
<1> QED
  BY <1>1, BookAssumption DEF TickConversionNum, TickConversionDen

\* The collateral of a bid is a natural number.
LEMMA LotsCeilNat ==
  ASSUME NEW n \in Nat, NEW p \in Nat
  PROVE  LotsCeil(n, p) \in Nat
<1>1. n * p \in Nat
  BY Z3
<1>2. n * p * TickConversionNum \in Nat
  BY <1>1, ConversionPositive, Z3
<1> QED
  BY <1>2, ConversionPositive, CeilDivNat DEF LotsCeil

\* Levels of finitely many bids.
LevelsOk(levels) ==
  /\ IsFiniteSet(DOMAIN levels)
  /\ \A i \in DOMAIN levels : levels[i] \in [offset : Int, size : Nat]

\* The lots of each level at a mid.
LotsAt(levels, mid) ==
  [i \in DOMAIN levels |-> LotsCeil(levels[i].size, mid + levels[i].offset)]

\* remaining_bid_quote_lots is the sum of the per-level ceilings, in its closed
\* form too: where a lot-tick is a whole number of lots every ceiling is exact.
LEMMA RemainingIsSum ==
  ASSUME NEW levels, LevelsOk(levels), NEW mid \in Int
  PROVE  RemainingBidQuoteLots(levels, mid) = SumFunction(LotsAt(levels, mid))
<1> DEFINE D == DOMAIN levels
           size(i) == levels[i].size
           price(i) == mid + levels[i].offset
           k == TickConversionNum \div TickConversionDen
           f == [i \in D |-> size(i) * price(i)]
           g == LotsAt(levels, mid)
<1>1. CASE TickConversionNum % TickConversionDen = 0
  <2>1. k \in Int
    BY ConversionPositive, DivFacts
  <2>2. TickConversionNum = TickConversionDen * k
    BY <1>1, ConversionPositive, ModZero
  <2>3. k \in Nat
    <3> HIDE DEF k
    <3> QED BY <2>1, <2>2, ConversionPositive, Z3
  <2>4. ASSUME NEW i \in D PROVE f[i] \in Int /\ g[i] = k * f[i]
    <3> DEFINE n == size(i)
               p == price(i)
               x == n * p
    <3>1. n \in Nat /\ p \in Int /\ f[i] = x
      BY DEF LevelsOk
    <3>2. x \in Int
      BY <3>1
    <3>3. g[i] = CeilDiv(x * TickConversionNum, TickConversionDen)
      BY DEF LotsAt, LotsCeil
    <3> HIDE DEF x, k, f, g
    <3>4. x * TickConversionNum = TickConversionDen * (k * x) /\ k * x \in Int
      BY <2>2, <2>3, <3>2, ConversionPositive, Z3
    <3>5. CeilDiv(TickConversionDen * (k * x), TickConversionDen) = k * x
      <4> DEFINE y == k * x
                 d == TickConversionDen
      <4>1. y \in Int /\ d \in Nat \ {0}
        BY <3>4, ConversionPositive
      <4> HIDE DEF y, d
      <4>2. d * y <= d * y + d - 1 /\ d * y + d - 1 < d * y + d /\ d * y \in Int
        BY <4>1
      <4>3. (d * y + d - 1) \div d = y
        BY <4>1, <4>2, DivUnique
      <4> QED BY <4>3 DEF y, d, CeilDiv
    <3> QED BY <3>1, <3>2, <3>3, <3>4, <3>5
  <2>5. DOMAIN f = D /\ DOMAIN g = D
    BY DEF LotsAt
  <2>6. SumFunctionOnSet(g, D) = k * SumFunctionOnSet(f, D)
    <3> HIDE DEF f, g, k
    <3> QED BY <2>1, <2>4, SumScale DEF LevelsOk
  <2>7. RemainingBidQuoteLots(levels, mid) = k * SumFunction(f)
    BY <1>1 DEF RemainingBidQuoteLots
  <2> QED BY <2>5, <2>6, <2>7 DEF SumFunction
<1>2. CASE TickConversionNum % TickConversionDen # 0
  BY <1>2 DEF RemainingBidQuoteLots, LotsAt, LotsCeil
<1> QED
  BY <1>1, <1>2

\* With no price below zero where a size rests, every level's lots are a
\* natural number, and so is their sum.
LEMMA RemainingNat ==
  ASSUME NEW levels, LevelsOk(levels), NEW mid \in Int,
         \A i \in Active(levels) : mid + levels[i].offset >= 0
  PROVE  /\ \A i \in DOMAIN levels : LotsAt(levels, mid)[i] \in Nat
         /\ RemainingBidQuoteLots(levels, mid) \in Nat
<1>1. ASSUME NEW i \in DOMAIN levels PROVE LotsAt(levels, mid)[i] \in Nat
  <2> DEFINE n == levels[i].size
             p == mid + levels[i].offset
  <2>1. n \in Nat /\ p \in Int /\ (n > 0 => p >= 0)
    BY DEF LevelsOk, Active
  <2>2. LotsAt(levels, mid)[i] = LotsCeil(n, p)
    BY DEF LotsAt
  <2> HIDE DEF n, p
  <2>3. CASE n > 0
    <3>1. p \in Nat
      BY <2>1, <2>3
    <3> QED BY <2>1, <2>2, <3>1, LotsCeilNat
  <2>4. CASE n = 0
    <3>1. n * p = n * 0
      BY <2>1, <2>4
    <3>2. LotsCeil(n, p) = LotsCeil(n, 0)
      BY <3>1 DEF LotsCeil
    <3> QED BY <2>1, <2>2, <3>2, LotsCeilNat
  <2> QED BY <2>1, <2>3, <2>4
<1>2. DOMAIN LotsAt(levels, mid) = DOMAIN levels
  BY DEF LotsAt
<1>3. SumFunctionOnSet(LotsAt(levels, mid), DOMAIN levels) \in Nat
  BY <1>1, SumNat DEF LevelsOk
<1> QED
  BY <1>1, <1>2, <1>3, RemainingIsSum DEF SumFunction

\* Whatever the prices, the reserve is an integer.
LEMMA ReserveInt ==
  ASSUME NEW levels, LevelsOk(levels), NEW mid \in Int, NEW f \in Int
  PROVE  /\ RemainingBidQuoteLots(levels, mid) \in Int
         /\ RequiredQuoteReserve(levels, mid, f) \in Int
<1>1. ASSUME NEW i \in DOMAIN levels PROVE LotsAt(levels, mid)[i] \in Int
  <2> DEFINE n == levels[i].size
             p == mid + levels[i].offset
  <2>1. n \in Nat /\ p \in Int
    BY DEF LevelsOk
  <2>2. n * p \in Int
    BY <2>1
  <2>3. n * p * TickConversionNum \in Int
    BY <2>2, ConversionPositive
  <2> QED BY <2>3, ConversionPositive, CeilDivFacts DEF LotsAt, LotsCeil
<1>2. SumFunctionOnSet(LotsAt(levels, mid), DOMAIN levels) \in Int
  BY <1>1, SumInt DEF LevelsOk
<1>3. RemainingBidQuoteLots(levels, mid) \in Int
  BY <1>2, RemainingIsSum DEF SumFunction, LotsAt
<1>4. RemainingBidQuoteLots(levels, mid) * f \in Int
  BY <1>3
<1>5. CeilDiv(RemainingBidQuoteLots(levels, mid) * f, PPM_DIVISOR) \in Int
  BY <1>4, WordAssumption, CeilDivFacts
<1> QED
  BY <1>3, <1>5 DEF RequiredQuoteReserve

\* required_quote_reserve: the sum of the levels' lots and the buffer on it.
LEMMA ReserveIs ==
  ASSUME NEW levels, LevelsOk(levels), NEW mid \in Int, NEW f \in Int,
         \A i \in Active(levels) : mid + levels[i].offset >= 0
  PROVE  LET n == SumFunctionOnSet(LotsAt(levels, mid), DOMAIN levels)
         IN  /\ n \in Nat /\ FeeBuffer(n, f) \in Nat
             /\ RequiredQuoteReserve(levels, mid, f) = n + FeeBuffer(n, f)
<1> DEFINE n == SumFunctionOnSet(LotsAt(levels, mid), DOMAIN levels)
<1>1. n \in Nat /\ RemainingBidQuoteLots(levels, mid) = n
  BY RemainingNat, RemainingIsSum DEF SumFunction, LotsAt
<1>2. RequiredQuoteReserve(levels, mid, f) = n + FeeBuffer(n, f)
  BY <1>1 DEF RequiredQuoteReserve, FeeBuffer
<1> HIDE DEF n
<1>3. n \in Nat /\ FeeBuffer(n, f) \in Nat /\ RequiredQuoteReserve(levels, mid, f) = n + FeeBuffer(n, f)
  BY <1>1, <1>2, BufferFacts
<1> QED
  BY <1>3 DEF n

\* quote_lots_ceil saturates only beyond a u64 of lots: the account's
\* denominator is a u64, so the product fits a u128 where the lots fit a u64.
LEMMA QuoteLotsCeilExact ==
  ASSUME NEW n \in Nat, NEW p \in Nat, LotsCeil(n, p) <= U64_MAX
  PROVE  QuoteLotsCeil(TheMarket, n, p) = LotsCeil(n, p)
<1> DEFINE num == n * p * TickConversionNum
           den == TickConversionDen
           x == CeilDiv(num, den)
           W == U64_MAX
<1>1. n * p \in Nat
  BY Z3
<1>2. num \in Nat /\ den \in Nat \ {0} /\ den <= W
  BY <1>1, ConversionPositive, BookAssumption, Z3
<1>3. x \in Nat /\ num <= den * x /\ x <= W
  BY <1>2, CeilDivNat, CeilDivFacts DEF LotsCeil
<1>4. n * p * TheMarket.tick_size * TheMarket.base_lot = num
  <2>1. n * p * TheMarket.tick_size * TheMarket.base_lot
          = n * p * (TheMarket.tick_size * TheMarket.base_lot)
    BY <1>1, BookAssumption, Z3
  <2> QED BY <2>1 DEF TickConversionNum
<1>5. BaseAtomsPerBaseUnit(TheMarket) * TheMarket.quote_lot = den
  BY DEF TickConversionDen
<1>6. x = (num + den - 1) \div den
  BY DEF CeilDiv
<1>7. U128_MAX = (W + 1) * (W + 1) - 1 /\ W \in Nat
  BY BookAssumption, WordAssumption
<1>8. LotsCeil(n, p) = x
  BY DEF LotsCeil
<1> HIDE DEF num, den, x, W
<1>9. den * x <= W * W
  BY <1>2, <1>3, <1>7, Z3
<1>10. U128_MAX = W * W + 2 * W
  BY <1>7, Z3
<1>11. num <= U128_MAX /\ num + den - 1 <= U128_MAX
  BY <1>2, <1>3, <1>7, <1>9, <1>10
<1>12. U128_MAX \in Nat
  BY WordAssumption
<1>13. Least(num, U128_MAX) = num /\ Least(num + den - 1, U128_MAX) = num + den - 1
  BY <1>2, <1>11, <1>12 DEF Least
<1>14. Least(x, U64_MAX) = x
  BY <1>3 DEF Least, W
<1> QED
  BY <1>4, <1>5, <1>6, <1>8, <1>13, <1>14 DEF QuoteLotsCeil

=============================================================================
