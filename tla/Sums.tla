-------------------------------- MODULE Sums --------------------------------
(***************************************************************************)
(* Sums over finite sets, and the choice of a least element: what the      *)
(* proofs need of SumFunctionOnSet and of the natural numbers.             *)
(***************************************************************************)
EXTENDS Functions, FiniteSetTheorems, WellFoundedInduction, TLAPS

LEMMA LeastMember ==
    ASSUME NEW W, W \subseteq Nat, W # {}
    PROVE  \E n \in W : \A m \in W : ~(m < n)
<1> DEFINE less == {ss \in Nat \X Nat : ss[1] < ss[2]}
<1>1. IsWellFoundedOn(less, Nat)
  BY NatLessThanWellFounded, Zenon DEF OpToRel
<1> HIDE DEF less
<1>2. PICK n \in W : \A m \in W : ~(<<m, n>> \in less)
  BY <1>1, WFMin
<1> QED
  BY <1>2 DEF less

\* A finite set of numbers has a greatest.
LEMMA GreatestMember ==
    ASSUME NEW W, W \subseteq Nat, IsFiniteSet(W), W # {}
    PROVE  \E n \in W : \A m \in W : ~(n < m)
<1> DEFINE above(n) == {m \in W : n < m}
           sizes == {Cardinality(above(n)) : n \in W}
<1>1. \A n \in W : IsFiniteSet(above(n)) /\ Cardinality(above(n)) \in Nat
  BY FS_Subset, FS_CardinalityType
<1>2. sizes \subseteq Nat /\ sizes # {}
  BY <1>1
<1> HIDE DEF sizes
<1>3. PICK k \in sizes : \A j \in sizes : ~(j < k)
  BY <1>2, LeastMember, Zenon
<1>4. PICK n \in W : k = Cardinality(above(n))
  BY <1>3 DEF sizes
<1>5. ASSUME NEW m \in W, n < m PROVE FALSE
  <2>1. \A j \in W : m < j => n < j
    BY <1>5
  <2>2. ~(m < m)
    OBVIOUS
  <2>3. above(m) \subseteq above(n) /\ m \in above(n) /\ m \notin above(m)
    BY <1>5, <2>1, <2>2, Zenon
  <2>4. Cardinality(above(m)) \in sizes
    BY DEF sizes
  <2> HIDE DEF above
  <2>5. /\ Cardinality(above(m)) <= Cardinality(above(n))
        /\ Cardinality(above(m)) # Cardinality(above(n))
    BY <1>1, <2>3, FS_Subset
  <2>6. Cardinality(above(m)) < Cardinality(above(n))
    BY <1>1, <2>5
  <2> QED
    BY <1>3, <1>4, <2>4, <2>6
<1> QED
  BY <1>5

\* Of any subsets of a finite set one loses its membership of the collection
\* with any of its elements.
LEMMA SmallestSet ==
    ASSUME NEW S, IsFiniteSet(S), NEW B, B \subseteq SUBSET S, B # {}
    PROVE  \E T \in B : IsFiniteSet(T) /\ \A x \in T : T \ {x} \notin B
<1> DEFINE W == {Cardinality(T) : T \in B}
<1>1. \A T \in SUBSET S : IsFiniteSet(T) /\ Cardinality(T) \in Nat
  BY FS_Subset, FS_CardinalityType
<1>2. W \subseteq Nat /\ W # {}
  BY <1>1
<1> HIDE DEF W
<1>3. PICK n \in W : \A m \in W : ~(m < n)
  BY <1>2, LeastMember, Zenon
<1>4. PICK T \in B : n = Cardinality(T)
  BY <1>3 DEF W
<1>5. ASSUME NEW x \in T, T \ {x} \in B PROVE FALSE
  <2>1. IsFiniteSet(T)
    BY <1>1
  <2>2. Cardinality(T \ {x}) = Cardinality(T) - 1
    BY <2>1, FS_RemoveElement
  <2>3. Cardinality(T \ {x}) \in W
    BY <1>5 DEF W
  <2> QED
    BY <1>1, <1>3, <1>4, <2>2, <2>3
<1> QED
  BY <1>1, <1>4, <1>5
-----------------------------------------------------------------------------
(***************************************************************************)
(* The recursive definition behind a sum.                                  *)
(***************************************************************************)

\* The element a sum adds first.
Some(s) == CHOOSE x \in s : TRUE

LEMMA SomeMember == ASSUME NEW s, s # {} PROVE Some(s) \in s
BY DEF Some

\* What the sum of f over s is, when it is g below s.
Unfolded(f, g, s) == IF s = {} THEN 0 ELSE f[Some(s)] + g[s \ {Some(s)}]

\* The sums of f over all subsets of S.
PartialSums(f, S) == CHOOSE g : g = [s \in SUBSET S |-> Unfolded(f, g, s)]

LEMMA SumIsPartialSum == ASSUME NEW f, NEW S PROVE SumFunctionOnSet(f, S) = PartialSums(f, S)[S]
BY DEF SumFunctionOnSet, FoldFunctionOnSet, MapThenFoldSet, PartialSums, Unfolded, Some
-----------------------------------------------------------------------------

\* There is such a function: one on the sets of at most n elements extends to
\* those of n + 1.
LEMMA PartialSum ==
    ASSUME NEW f, NEW S, IsFiniteSet(S), NEW T \in SUBSET S
    PROVE  PartialSums(f, S)[T] = Unfolded(f, PartialSums(f, S), T)
<1> DEFINE Upto(n) == {s \in SUBSET S : Cardinality(s) <= n}
           Defined(n) == \E g : g = [s \in Upto(n) |-> Unfolded(f, g, s)]
           W == {n \in Nat : ~Defined(n)}
<1>1. \A s \in SUBSET S : IsFiniteSet(s) /\ Cardinality(s) \in Nat
  BY FS_Subset, FS_CardinalityType
<1>2. Defined(0)
  <2>1. \A s \in Upto(0) : s = {}
    BY <1>1, FS_EmptySet
  <2> DEFINE g == [s \in Upto(0) |-> 0]
  <2>2. g = [s \in Upto(0) |-> Unfolded(f, g, s)]
    BY <2>1 DEF Unfolded
  <2> QED
    BY <2>2
<1>3. ASSUME NEW n \in Nat, Defined(n) PROVE Defined(n + 1)
  <2>1. PICK g : g = [s \in Upto(n) |-> Unfolded(f, g, s)]
    BY <1>3
  <2> DEFINE h == [s \in Upto(n + 1) |-> Unfolded(f, g, s)]
  <2>2. \A s \in Upto(n) : s \in Upto(n + 1) /\ h[s] = g[s]
    BY <1>1, <2>1
  <2>3. ASSUME NEW s \in Upto(n + 1), s # {} PROVE s \ {Some(s)} \in Upto(n)
    <3>1. Some(s) \in s
      BY <2>3, SomeMember
    <3>2. Cardinality(s \ {Some(s)}) = Cardinality(s) - 1
      BY <1>1, <3>1, FS_RemoveElement
    <3> QED
      BY <1>1, <3>2
  <2>4. \A s \in Upto(n + 1) : Unfolded(f, g, s) = Unfolded(f, h, s)
    BY <2>2, <2>3 DEF Unfolded
  <2>5. h = [s \in Upto(n + 1) |-> Unfolded(f, h, s)]
    BY <2>4
  <2> QED
    BY <2>5
<1>4. W = {}
  <2> SUFFICES ASSUME W # {} PROVE FALSE
    OBVIOUS
  <2>1. W \subseteq Nat
    OBVIOUS
  <2> HIDE DEF W
  <2>2. PICK n \in W : \A m \in W : ~(m < n)
    BY <2>1, LeastMember, Zenon
  <2> USE DEF W
  <2> HIDE DEF Defined
  <2>3. n \in Nat /\ ~Defined(n) /\ \A m \in Nat : m < n => Defined(m)
    BY <2>2
  <2>4. n # 0
    BY <1>2, <2>3
  <2>5. n - 1 \in Nat /\ n - 1 < n /\ (n - 1) + 1 = n
    BY <2>3, <2>4
  <2>6. Defined(n - 1)
    BY <2>3, <2>5
  <2>7. Defined((n - 1) + 1)
    BY <1>3, <2>5, <2>6
  <2> QED
    BY <2>3, <2>5, <2>7
<1> DEFINE m == Cardinality(S)
<1>5. m \in Nat /\ Upto(m) = SUBSET S
  BY FS_Subset, FS_CardinalityType
<1>6. Defined(m)
  BY <1>4, <1>5
<1>7. \E g : g = [s \in SUBSET S |-> Unfolded(f, g, s)]
  BY <1>5, <1>6
<1>8. PICK h : h = PartialSums(f, S) /\ h = [s \in SUBSET S |-> Unfolded(f, h, s)]
  BY <1>7 DEF PartialSums
<1> QED
  BY <1>8

\* The sums over the subsets of a subset are the same.
LEMMA PartialSumsAgree ==
    ASSUME NEW f, NEW S, IsFiniteSet(S), NEW T \in SUBSET S
    PROVE  PartialSums(f, S)[T] = PartialSums(f, T)[T]
<1> DEFINE B == {s \in SUBSET T : PartialSums(f, S)[s] # PartialSums(f, T)[s]}
<1> SUFFICES ASSUME B # {} PROVE FALSE
  OBVIOUS
<1>1. IsFiniteSet(T)
  BY FS_Subset
<1>2. PICK s \in B : \A x \in s : s \ {x} \notin B
  <2>1. B \subseteq SUBSET T
    OBVIOUS
  <2> HIDE DEF B
  <2> QED
    BY <1>1, <2>1, SmallestSet
<1> DEFINE g == PartialSums(f, S)
           h == PartialSums(f, T)
<1>3. s \in SUBSET S /\ s \in SUBSET T
  OBVIOUS
<1>4. g[s] = Unfolded(f, g, s)
  BY <1>3, PartialSum
<1>5. h[s] = Unfolded(f, h, s)
  BY <1>1, <1>3, PartialSum
<1>6. s # {} => g[s \ {Some(s)}] = h[s \ {Some(s)}]
  BY <1>2, <1>3, SomeMember
<1>7. Unfolded(f, g, s) = Unfolded(f, h, s)
  BY <1>6 DEF Unfolded
<1> QED
  BY <1>4, <1>5, <1>7
-----------------------------------------------------------------------------
(***************************************************************************)
(* What a sum is.                                                          *)
(***************************************************************************)

LEMMA SumEmpty == ASSUME NEW f PROVE SumFunctionOnSet(f, {}) = 0
<1>1. PartialSums(f, {})[{}] = Unfolded(f, PartialSums(f, {}), {})
  BY PartialSum, FS_EmptySet
<1> QED
  BY <1>1, SumIsPartialSum DEF Unfolded

LEMMA SumUnfolds ==
    ASSUME NEW f, NEW S, IsFiniteSet(S), S # {}
    PROVE  SumFunctionOnSet(f, S) = f[Some(S)] + SumFunctionOnSet(f, S \ {Some(S)})
<1>1. PartialSums(f, S)[S] = Unfolded(f, PartialSums(f, S), S)
  BY PartialSum
<1>2. PartialSums(f, S)[S \ {Some(S)}] = PartialSums(f, S \ {Some(S)})[S \ {Some(S)}]
  BY PartialSumsAgree
<1> QED
  BY <1>1, <1>2, SumIsPartialSum DEF Unfolded

LEMMA SumInt ==
    ASSUME NEW S, IsFiniteSet(S), NEW f, \A x \in S : f[x] \in Int
    PROVE  SumFunctionOnSet(f, S) \in Int
<1> DEFINE B == {s \in SUBSET S : SumFunctionOnSet(f, s) \notin Int}
<1> SUFFICES ASSUME B # {} PROVE FALSE
  OBVIOUS
<1>1. PICK s \in B : IsFiniteSet(s) /\ \A x \in s : s \ {x} \notin B
  <2>1. B \subseteq SUBSET S
    OBVIOUS
  <2> HIDE DEF B
  <2> QED
    BY <2>1, SmallestSet
<1>2. s # {}
  BY SumEmpty
<1>3. SumFunctionOnSet(f, s \ {Some(s)}) \in Int /\ f[Some(s)] \in Int
  BY <1>1, <1>2, SomeMember
<1> QED
  BY <1>1, <1>2, <1>3, SumUnfolds

\* Any element may be added first.
LEMMA SumRemove ==
    ASSUME NEW S, IsFiniteSet(S), NEW f, \A x \in S : f[x] \in Int, NEW x \in S
    PROVE  SumFunctionOnSet(f, S) = f[x] + SumFunctionOnSet(f, S \ {x})
<1> DEFINE Sum(s) == SumFunctionOnSet(f, s)
           B == {s \in SUBSET S : \E y \in s : Sum(s) # f[y] + Sum(s \ {y})}
<1> SUFFICES ASSUME B # {} PROVE FALSE
  OBVIOUS
<1>1. PICK s \in B : IsFiniteSet(s) /\ \A y \in s : s \ {y} \notin B
  <2>1. B \subseteq SUBSET S
    OBVIOUS
  <2> HIDE DEF B
  <2> QED
    BY <2>1, SmallestSet
<1>2. PICK y \in s : Sum(s) # f[y] + Sum(s \ {y})
  OBVIOUS
<1> DEFINE z == Some(s)
<1>3. z \in s
  BY SomeMember
<1> HIDE DEF z
<1>4. Sum(s) = f[z] + Sum(s \ {z})
  BY <1>1, <1>3, SumUnfolds DEF z
<1>5. y # z
  BY <1>2, <1>4
<1>6. Sum(s \ {z}) = f[y] + Sum((s \ {z}) \ {y})
  BY <1>1, <1>3, <1>5
<1>7. Sum(s \ {y}) = f[z] + Sum((s \ {z}) \ {y})
  <2>1. Sum(s \ {y}) = f[z] + Sum((s \ {y}) \ {z})
    BY <1>1, <1>3, <1>5
  <2>2. (s \ {y}) \ {z} = (s \ {z}) \ {y}
    OBVIOUS
  <2> QED
    BY <2>1, <2>2, Zenon
<1>8. Sum((s \ {z}) \ {y}) \in Int /\ f[y] \in Int /\ f[z] \in Int
  <2>1. IsFiniteSet((s \ {z}) \ {y})
    BY <1>1, FS_RemoveElement
  <2> QED
    BY <1>3, <2>1, SumInt
<1> HIDE DEF Sum
<1> QED
  BY <1>2, <1>4, <1>6, <1>7, <1>8

\* The sum depends on nothing but the numbers added.
LEMMA SumSame ==
    ASSUME NEW S, IsFiniteSet(S), NEW f, NEW g, \A x \in S : f[x] = g[x]
    PROVE  SumFunctionOnSet(f, S) = SumFunctionOnSet(g, S)
<1> DEFINE B == {s \in SUBSET S : SumFunctionOnSet(f, s) # SumFunctionOnSet(g, s)}
<1> SUFFICES ASSUME B # {} PROVE FALSE
  OBVIOUS
<1>1. PICK s \in B : IsFiniteSet(s) /\ \A x \in s : s \ {x} \notin B
  <2>1. B \subseteq SUBSET S
    OBVIOUS
  <2> HIDE DEF B
  <2> QED
    BY <2>1, SmallestSet
<1>2. s # {}
  BY SumEmpty
<1>3. SumFunctionOnSet(f, s \ {Some(s)}) = SumFunctionOnSet(g, s \ {Some(s)})
  BY <1>1, <1>2, SomeMember
<1>4. f[Some(s)] = g[Some(s)]
  BY <1>2, SomeMember
<1> QED
  BY <1>1, <1>2, <1>3, <1>4, SumUnfolds
-----------------------------------------------------------------------------

LEMMA SumAdd ==
    ASSUME NEW S, IsFiniteSet(S), NEW x, x \notin S, NEW f, \A y \in S \cup {x} : f[y] \in Int
    PROVE  SumFunctionOnSet(f, S \cup {x}) = f[x] + SumFunctionOnSet(f, S)
<1>1. IsFiniteSet(S \cup {x})
  BY FS_AddElement
<1>2. (S \cup {x}) \ {x} = S
  OBVIOUS
<1>3. x \in S \cup {x}
  OBVIOUS
<1> QED
  BY <1>1, <1>2, <1>3, SumRemove

\* One number changes, and the sum by as much.
LEMMA SumShifts ==
    ASSUME NEW S, IsFiniteSet(S), NEW x \in S,
           NEW f, \A y \in S : f[y] \in Int,
           NEW g, \A y \in S : g[y] \in Int,
           \A y \in S : y # x => g[y] = f[y]
    PROVE  SumFunctionOnSet(g, S) = SumFunctionOnSet(f, S) + (g[x] - f[x])
<1>1. IsFiniteSet(S \ {x})
  BY FS_RemoveElement
<1>2. SumFunctionOnSet(g, S \ {x}) = SumFunctionOnSet(f, S \ {x})
  BY <1>1, SumSame
<1>3. SumFunctionOnSet(f, S \ {x}) \in Int
  BY <1>1, SumInt
<1>4. SumFunctionOnSet(f, S) = f[x] + SumFunctionOnSet(f, S \ {x})
  BY SumRemove
<1>5. SumFunctionOnSet(g, S) = g[x] + SumFunctionOnSet(g, S \ {x})
  BY SumRemove
<1> QED
  BY <1>2, <1>3, <1>4, <1>5

\* Two numbers change, and the sum by what they change together.
LEMMA SumShiftsTwo ==
    ASSUME NEW S, IsFiniteSet(S), NEW x \in S, NEW y \in S, x # y,
           NEW f, \A z \in S : f[z] \in Int,
           NEW g, \A z \in S : g[z] \in Int,
           \A z \in S : z # x /\ z # y => g[z] = f[z]
    PROVE  SumFunctionOnSet(g, S) = SumFunctionOnSet(f, S) + (g[x] - f[x]) + (g[y] - f[y])
<1> DEFINE h == [z \in S |-> IF z = x THEN g[z] ELSE f[z]]
<1>1. /\ \A z \in S : h[z] \in Int
      /\ \A z \in S : z # x => h[z] = f[z]
      /\ \A z \in S : z # y => g[z] = h[z]
      /\ h[x] = g[x] /\ h[y] = f[y]
  OBVIOUS
<1> HIDE DEF h
<1>2. SumFunctionOnSet(h, S) = SumFunctionOnSet(f, S) + (h[x] - f[x])
  BY <1>1, SumShifts
<1>3. SumFunctionOnSet(g, S) = SumFunctionOnSet(h, S) + (g[y] - h[y])
  BY <1>1, SumShifts
<1>4. SumFunctionOnSet(f, S) \in Int
  BY SumInt
<1> QED
  BY <1>1, <1>2, <1>3, <1>4
=============================================================================
