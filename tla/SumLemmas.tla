----------------------------- MODULE SumLemmas -----------------------------
(***************************************************************************)
(* What MapThenSumSet returns when the set is finite and what is added are *)
(* integers.  The sum is a recursive function on the subsets of the set;   *)
(* an induction over finite sets is the choice of a smallest               *)
(* counterexample, of which the library's well-foundedness theorems, which *)
(* take sets, not operators, say that it exists.                           *)
(***************************************************************************)
EXTENDS Integers, FiniteSetsExt, FiniteSetTheorems, TLAPS

\* The sum of f over S
SumOver(f, S) == MapThenSumSet(LAMBDA x : f[x], S)

\* The element that is added first
FirstOf(S) == CHOOSE x \in S : TRUE

\* One unfolding of the recursion of MapThenFoldSet
Unfolded(g, f, S) ==
  [s \in SUBSET S |-> IF s = {} THEN 0 ELSE f[FirstOf(s)] + g[s \ {FirstOf(s)}]]

\* A set of finite sets that is not empty has a member with no smaller member
\* in the set.
LEMMA SmallestSet ==
  ASSUME NEW T, T # {}, \A s \in T : IsFiniteSet(s)
  PROVE  \E s \in T : \A t \in T : ~ (t \subseteq s /\ t # s)
<1> DEFINE S == UNION T
<1>1. T \subseteq FiniteSubsetsOf(S)
  BY DEF FiniteSubsetsOf
<1>2. IsWellFoundedOn(StrictSubsetOrdering(S), FiniteSubsetsOf(S))
  BY FS_StrictSubsetOrderingWellFounded
<1>3. PICK s \in T : \A t \in T : <<t, s>> \notin StrictSubsetOrdering(S)
  BY <1>1, <1>2, WFMin
<1> QED
  BY <1>3 DEF StrictSubsetOrdering

\* A set of naturals has a smallest element.
LEMMA LeastNatural ==
  ASSUME NEW T, T \subseteq Nat, T # {}
  PROVE  \E n \in T : \A m \in T : n <= m
<1>1. IsWellFoundedOn(OpToRel(<, Nat), Nat)
  BY NatLessThanWellFounded
<1>2. PICK n \in T : \A m \in T : <<m, n>> \notin OpToRel(<, Nat)
  BY <1>1, WFMin
<1>3. \A m \in T : ~ (m < n)
  BY <1>2 DEF OpToRel
<1>4. \A m \in T : n <= m
  BY <1>3
<1> QED
  BY <1>4

\* A chosen element is an element.
LEMMA FirstIn ==
  ASSUME NEW s, s # {}
  PROVE  FirstOf(s) \in s
  BY DEF FirstOf

\* A finite set without its chosen element has one fewer.
LEMMA FiniteRest ==
  ASSUME NEW s, IsFiniteSet(s), s # {}
  PROVE  /\ FirstOf(s) \in s
         /\ IsFiniteSet(s \ {FirstOf(s)})
         /\ Cardinality(s) \in Nat
         /\ Cardinality(s \ {FirstOf(s)}) = Cardinality(s) - 1
  BY FirstIn, FS_RemoveElement, FS_CardinalityType

-----------------------------------------------------------------------------
\* g satisfies the recursion on the sets of at most n elements.
UnfoldsUpTo(g, f, S, n) ==
  \A s \in SUBSET S : Cardinality(s) <= n =>
    g[s] = IF s = {} THEN 0 ELSE f[FirstOf(s)] + g[s \ {FirstOf(s)}]

\* A function that unfolds to some depth can be made to unfold one deeper.
LEMMA UnfoldsFurther ==
  ASSUME NEW S, IsFiniteSet(S), NEW f, NEW n \in Nat, NEW g, UnfoldsUpTo(g, f, S, n)
  PROVE  UnfoldsUpTo(Unfolded(g, f, S), f, S, n + 1)
<1> DEFINE h == Unfolded(g, f, S)
<1> SUFFICES ASSUME NEW s \in SUBSET S, Cardinality(s) <= n + 1
             PROVE  h[s] = IF s = {} THEN 0 ELSE f[FirstOf(s)] + h[s \ {FirstOf(s)}]
  BY DEF UnfoldsUpTo
<1>1. CASE s = {}
  BY <1>1 DEF Unfolded
<1>2. CASE s # {}
  <2> DEFINE r == s \ {FirstOf(s)}
  <2>1. IsFiniteSet(s)
    BY FS_Subset
  <2>2. Cardinality(r) <= n
    BY <1>2, <2>1, FiniteRest
  <2>3. r \in SUBSET S
    OBVIOUS
  <2>4. g[r] = IF r = {} THEN 0 ELSE f[FirstOf(r)] + g[r \ {FirstOf(r)}]
    BY <2>2, <2>3 DEF UnfoldsUpTo
  <2>5. h[r] = g[r]
    BY <2>3, <2>4 DEF Unfolded
  <2>6. h[s] = f[FirstOf(s)] + g[r]
    BY <1>2 DEF Unfolded
  <2> QED
    BY <1>2, <2>5, <2>6
<1> QED
  BY <1>1, <1>2

\* For every depth some function unfolds as the recursion says.
LEMMA UnfoldsExists ==
  ASSUME NEW S, IsFiniteSet(S), NEW f
  PROVE  \A n \in Nat : \E g : UnfoldsUpTo(g, f, S, n)
<1> DEFINE Bad == {n \in Nat : ~ \E g : UnfoldsUpTo(g, f, S, n)}
<1> SUFFICES ASSUME Bad # {} PROVE FALSE
  OBVIOUS
<1>1. PICK n \in Bad : \A m \in Bad : n <= m
  BY LeastNatural
<1>2. n # 0
  <2> DEFINE zero == [s \in SUBSET S |-> 0]
  <2>1. \A s \in SUBSET S : Cardinality(s) <= 0 => s = {}
    BY FS_Subset, FS_EmptySet, FS_CardinalityType
  <2>2. UnfoldsUpTo(zero, f, S, 0)
    BY <2>1 DEF UnfoldsUpTo
  <2> QED
    BY <1>1, <2>2
<1>3. n - 1 \in Nat /\ n - 1 \notin Bad
  BY <1>1, <1>2
<1>4. PICK g : UnfoldsUpTo(g, f, S, n - 1)
  BY <1>3
<1>5. UnfoldsUpTo(Unfolded(g, f, S), f, S, (n - 1) + 1)
  BY <1>3, <1>4, UnfoldsFurther
<1>6. (n - 1) + 1 = n
  BY <1>1
<1> QED
  BY <1>1, <1>5, <1>6

\* So the recursion has a solution.
LEMMA RecursionHolds ==
  ASSUME NEW S, IsFiniteSet(S), NEW f
  PROVE  \E g : g = Unfolded(g, f, S)
<1> DEFINE n == Cardinality(S)
<1>1. n \in Nat /\ \A s \in SUBSET S : Cardinality(s) <= n
  BY FS_CardinalityType, FS_Subset
<1>2. PICK g : UnfoldsUpTo(g, f, S, n)
  BY <1>1, UnfoldsExists
<1> DEFINE h == [s \in SUBSET S |-> g[s]]
<1>3. \A s \in SUBSET S :
        h[s] = IF s = {} THEN 0 ELSE f[FirstOf(s)] + h[s \ {FirstOf(s)}]
  <2> SUFFICES ASSUME NEW s \in SUBSET S
               PROVE  h[s] = IF s = {} THEN 0 ELSE f[FirstOf(s)] + h[s \ {FirstOf(s)}]
    OBVIOUS
  <2>1. s \ {FirstOf(s)} \in SUBSET S
    OBVIOUS
  <2>2. g[s] = IF s = {} THEN 0 ELSE f[FirstOf(s)] + g[s \ {FirstOf(s)}]
    BY <1>1, <1>2 DEF UnfoldsUpTo
  <2> QED
    BY <2>1, <2>2
<1>4. h = Unfolded(h, f, S)
  BY <1>3 DEF Unfolded
<1> QED
  BY <1>4

\* Two solutions agree where both are defined.
LEMMA RecursionAgrees ==
  ASSUME NEW S, NEW R, NEW f, NEW g, NEW h, g = Unfolded(g, f, S), h = Unfolded(h, f, R),
         NEW T \in SUBSET (S \cap R), IsFiniteSet(T)
  PROVE  g[T] = h[T]
<1> DEFINE Bad == {s \in SUBSET T : g[s] # h[s]}
<1> SUFFICES ASSUME Bad # {} PROVE FALSE
  OBVIOUS
<1>1. \A s \in Bad : IsFiniteSet(s)
  BY FS_Subset
<1>2. PICK s \in Bad : \A t \in Bad : ~ (t \subseteq s /\ t # s)
  <2> HIDE DEF Bad
  <2> QED
    BY <1>1, SmallestSet
<1>3. g[s] = IF s = {} THEN 0 ELSE f[FirstOf(s)] + g[s \ {FirstOf(s)}]
  BY DEF Unfolded
<1>4. h[s] = IF s = {} THEN 0 ELSE f[FirstOf(s)] + h[s \ {FirstOf(s)}]
  BY DEF Unfolded
<1>5. s # {}
  BY <1>3, <1>4
<1>6. s \ {FirstOf(s)} \in SUBSET T /\ s \ {FirstOf(s)} # s
  BY <1>5, FirstIn
<1>7. g[s \ {FirstOf(s)}] = h[s \ {FirstOf(s)}]
  BY <1>2, <1>6
<1> QED
  BY <1>3, <1>4, <1>5, <1>7

\* The sum is such a solution.
LEMMA SumIsRecursive ==
  ASSUME NEW S, IsFiniteSet(S), NEW f
  PROVE  \E g : g = Unfolded(g, f, S) /\ \A T \in SUBSET S : SumOver(f, T) = g[T]
<1>1. PICK g : g = Unfolded(g, f, S)
  BY RecursionHolds
<1>2. ASSUME NEW T \in SUBSET S
      PROVE  SumOver(f, T) = g[T]
  <2> DEFINE k == CHOOSE k : k = Unfolded(k, f, T)
  <2>1. IsFiniteSet(T)
    BY FS_Subset
  <2>2. k = Unfolded(k, f, T)
    BY <2>1, RecursionHolds
  <2>3. SumOver(f, T) = k[T]
    BY Zenon DEF SumOver, MapThenSumSet, MapThenFoldSet, Unfolded, FirstOf
  <2> HIDE DEF k
  <2>4. k[T] = g[T]
    BY <1>1, <2>1, <2>2, RecursionAgrees
  <2> QED
    BY <2>3, <2>4
<1> QED
  BY <1>1, <1>2

\* From here on the sum is known by its recursion only.
LEMMA SumStep ==
  ASSUME NEW S, IsFiniteSet(S), NEW f
  PROVE  SumOver(f, S) = IF S = {} THEN 0 ELSE f[FirstOf(S)] + SumOver(f, S \ {FirstOf(S)})
<1>1. PICK g : g = Unfolded(g, f, S) /\ \A T \in SUBSET S : SumOver(f, T) = g[T]
  BY SumIsRecursive
<1>2. SumOver(f, S) = g[S] /\ SumOver(f, S \ {FirstOf(S)}) = g[S \ {FirstOf(S)}]
  BY <1>1
<1>3. g[S] = IF S = {} THEN 0 ELSE f[FirstOf(S)] + g[S \ {FirstOf(S)}]
  BY <1>1 DEF Unfolded
<1> QED
  BY <1>2, <1>3
-----------------------------------------------------------------------------
(***************************************************************************)
(* The laws of sums.                                                       *)
(***************************************************************************)
LEMMA SumEmpty == ASSUME NEW f PROVE SumOver(f, {}) = 0
  BY SumStep, FS_EmptySet

\* A sum of integers is an integer.
LEMMA SumType ==
  ASSUME NEW D, NEW f \in [D -> Int], NEW S \in SUBSET D, IsFiniteSet(S)
  PROVE  SumOver(f, S) \in Int
<1> DEFINE Bad == {s \in SUBSET S : SumOver(f, s) \notin Int}
<1> SUFFICES ASSUME Bad # {} PROVE FALSE
  OBVIOUS
<1>1. \A s \in Bad : IsFiniteSet(s)
  BY FS_Subset
<1>2. PICK s \in Bad : \A t \in Bad : ~ (t \subseteq s /\ t # s)
  <2> HIDE DEF Bad
  <2> QED
    BY <1>1, SmallestSet
<1>3. SumOver(f, s) = IF s = {} THEN 0 ELSE f[FirstOf(s)] + SumOver(f, s \ {FirstOf(s)})
  BY <1>1, SumStep
<1>4. s # {}
  BY <1>3
<1>5. FirstOf(s) \in s
  BY <1>4, FirstIn
<1>6. SumOver(f, s \ {FirstOf(s)}) \in Int
  BY <1>2, <1>5
<1>7. f[FirstOf(s)] \in Int
  BY <1>5
<1> QED
  BY <1>3, <1>4, <1>6, <1>7

\* The order of the additions does not matter.
LEMMA SumRemove ==
  ASSUME NEW D, NEW f \in [D -> Int], NEW S \in SUBSET D, IsFiniteSet(S), NEW x \in S
  PROVE  SumOver(f, S) = f[x] + SumOver(f, S \ {x})
<1> DEFINE Bad == {s \in SUBSET S : \E y \in s : SumOver(f, s) # f[y] + SumOver(f, s \ {y})}
<1> SUFFICES ASSUME Bad # {} PROVE FALSE
  OBVIOUS
<1>1. \A s \in Bad : IsFiniteSet(s)
  BY FS_Subset
<1>2. PICK s \in Bad : \A t \in Bad : ~ (t \subseteq s /\ t # s)
  <2> HIDE DEF Bad
  <2> QED
    BY <1>1, SmallestSet
<1>3. PICK y \in s : SumOver(f, s) # f[y] + SumOver(f, s \ {y})
  OBVIOUS
<1> DEFINE z == FirstOf(s)
<1>4. z \in s /\ IsFiniteSet(s) /\ s \in SUBSET S
  BY <1>1, FirstIn
<1>5. SumOver(f, s) = f[z] + SumOver(f, s \ {z})
  BY <1>4, SumStep
<1>6. y # z
  BY <1>3, <1>5
<1> HIDE DEF z
<1> DEFINE r == (s \ {z}) \ {y}
<1>7. SumOver(f, s \ {z}) = f[y] + SumOver(f, r)
  <2>1. s \ {z} \notin Bad
    BY <1>2, <1>4
  <2>2. y \in s \ {z} /\ s \ {z} \in SUBSET S
    BY <1>4, <1>6
  <2> QED
    BY <2>1, <2>2
<1>8. SumOver(f, s \ {y}) = f[z] + SumOver(f, r)
  <2>1. s \ {y} \notin Bad
    BY <1>2, <1>4
  <2>2. z \in s \ {y} /\ s \ {y} \in SUBSET S
    BY <1>4, <1>6
  <2>3. (s \ {y}) \ {z} = r
    OBVIOUS
  <2>4. SumOver(f, s \ {y}) = f[z] + SumOver(f, (s \ {y}) \ {z})
    BY <2>1, <2>2
  <2> QED
    BY <2>3, <2>4
<1>9. f[y] \in Int /\ f[z] \in Int /\ SumOver(f, r) \in Int
  <2>1. r \in SUBSET D /\ IsFiniteSet(r)
    BY <1>4, FS_Subset
  <2> QED
    BY <1>4, <2>1, SumType
<1> QED
  BY <1>3, <1>5, <1>7, <1>8, <1>9

\* One element more adds its value.
LEMMA SumAdd ==
  ASSUME NEW D, NEW f \in [D -> Int], NEW S \in SUBSET D, IsFiniteSet(S),
         NEW x \in D, x \notin S
  PROVE  SumOver(f, S \cup {x}) = SumOver(f, S) + f[x]
<1>1. IsFiniteSet(S \cup {x}) /\ S \cup {x} \in SUBSET D
  BY FS_AddElement
<1>2. (S \cup {x}) \ {x} = S
  OBVIOUS
<1>3. SumOver(f, S \cup {x}) = f[x] + SumOver(f, (S \cup {x}) \ {x})
  BY <1>1, SumRemove
<1>4. SumOver(f, S) \in Int /\ f[x] \in Int
  BY SumType
<1>5. SumOver(f, (S \cup {x}) \ {x}) = SumOver(f, S)
  BY <1>2, Zenon
<1> QED
  BY <1>3, <1>4, <1>5

\* A sum over one element is its value.
LEMMA SumSingle ==
  ASSUME NEW D, NEW f \in [D -> Int], NEW x \in D
  PROVE  SumOver(f, {x}) = f[x]
<1>1. SumOver(f, {} \cup {x}) = SumOver(f, {}) + f[x]
  BY SumAdd, FS_EmptySet
<1> QED
  BY <1>1, SumEmpty

\* Functions that agree on the set have the same sum.
LEMMA SumSame ==
  ASSUME NEW f, NEW h, NEW S, IsFiniteSet(S), \A x \in S : f[x] = h[x]
  PROVE  SumOver(f, S) = SumOver(h, S)
<1> DEFINE Bad == {s \in SUBSET S : SumOver(f, s) # SumOver(h, s)}
<1> SUFFICES ASSUME Bad # {} PROVE FALSE
  OBVIOUS
<1>1. \A s \in Bad : IsFiniteSet(s)
  BY FS_Subset
<1>2. PICK s \in Bad : \A t \in Bad : ~ (t \subseteq s /\ t # s)
  <2> HIDE DEF Bad
  <2> QED
    BY <1>1, SmallestSet
<1>3. SumOver(f, s) = IF s = {} THEN 0 ELSE f[FirstOf(s)] + SumOver(f, s \ {FirstOf(s)})
  BY <1>1, SumStep
<1>4. SumOver(h, s) = IF s = {} THEN 0 ELSE h[FirstOf(s)] + SumOver(h, s \ {FirstOf(s)})
  BY <1>1, SumStep
<1>5. s # {}
  BY <1>3, <1>4
<1>6. FirstOf(s) \in s
  BY <1>5, FirstIn
<1>7. SumOver(f, s \ {FirstOf(s)}) = SumOver(h, s \ {FirstOf(s)})
  BY <1>2, <1>6
<1>8. f[FirstOf(s)] = h[FirstOf(s)]
  BY <1>6
<1> QED
  BY <1>3, <1>4, <1>5, <1>7, <1>8

\* A sum of naturals is one, and no smaller than the sum over a subset.
LEMMA SumMonotone ==
  ASSUME NEW D, NEW f \in [D -> Nat], NEW S \in SUBSET D, IsFiniteSet(S), NEW R \in SUBSET S
  PROVE  SumOver(f, R) \in Nat /\ SumOver(f, S) \in Nat /\ SumOver(f, R) <= SumOver(f, S)
<1> DEFINE Bad == {s \in SUBSET S : ~ (/\ SumOver(f, s) \in Nat
                                      /\ \A t \in SUBSET s : SumOver(f, t) <= SumOver(f, s))}
<1>0. f \in [D -> Int]
  OBVIOUS
<1>1. ASSUME Bad # {} PROVE FALSE
  <2>1. \A s \in Bad : IsFiniteSet(s)
    BY FS_Subset
  <2>2. PICK s \in Bad : \A t \in Bad : ~ (t \subseteq s /\ t # s)
    <3> HIDE DEF Bad
    <3> QED
      BY <1>1, <2>1, SmallestSet
  <2>3. IsFiniteSet(s) /\ s \in SUBSET D
    BY <2>1
  <2>4. ASSUME NEW x \in s
        PROVE  /\ SumOver(f, s) = f[x] + SumOver(f, s \ {x})
               /\ f[x] \in Nat /\ SumOver(f, s \ {x}) \in Nat
               /\ \A t \in SUBSET (s \ {x}) : SumOver(f, t) <= SumOver(f, s \ {x})
    <3>1. s \ {x} \notin Bad /\ s \ {x} \in SUBSET S
      BY <2>2
    <3>2. SumOver(f, s) = f[x] + SumOver(f, s \ {x})
      BY <1>0, <2>3, SumRemove
    <3> QED
      BY <3>1, <3>2
  <2>5. SumOver(f, s) \in Nat
    <3>1. CASE s = {}
      <4>1. SumOver(f, s) = 0
        BY <3>1, SumEmpty, Zenon
      <4> QED
        BY <4>1
    <3>2. CASE s # {}
      <4>1. PICK x \in s : TRUE
        BY <3>2
      <4>2. /\ SumOver(f, s) = f[x] + SumOver(f, s \ {x})
            /\ f[x] \in Nat /\ SumOver(f, s \ {x}) \in Nat
        BY <2>4
      <4> QED
        BY <4>2
    <3> QED
      BY <3>1, <3>2
  <2>6. ASSUME NEW t \in SUBSET s
        PROVE  SumOver(f, t) <= SumOver(f, s)
    <3>1. CASE t = s
      BY <3>1, <2>5
    <3>2. CASE t # s
      <4>1. PICK x \in s : x \notin t
        BY <3>2
      <4>2. t \in SUBSET (s \ {x}) /\ IsFiniteSet(t) /\ t \in SUBSET D
        BY <2>3, <4>1, FS_Subset
      <4>3. SumOver(f, t) \in Int
        BY <1>0, <4>2, SumType
      <4>4. /\ SumOver(f, s) = f[x] + SumOver(f, s \ {x})
            /\ f[x] \in Nat /\ SumOver(f, s \ {x}) \in Nat
            /\ SumOver(f, t) <= SumOver(f, s \ {x})
        BY <2>4, <4>2
      <4> QED
        BY <4>3, <4>4
    <3> QED
      BY <3>1, <3>2
  <2> QED
    BY <2>5, <2>6
<1>2. S \notin Bad
  BY <1>1
<1>3. SumOver(f, S) \in Nat /\ \A t \in SUBSET S : SumOver(f, t) <= SumOver(f, S)
  BY <1>2
<1>4. R \notin Bad
  BY <1>1
<1> QED
  BY <1>3, <1>4

\* Two functions that differ at one element only
LEMMA SumChange ==
  ASSUME NEW D, IsFiniteSet(D), NEW f \in [D -> Int], NEW h \in [D -> Int], NEW x \in D,
         \A y \in D \ {x} : f[y] = h[y]
  PROVE  /\ SumOver(f, D) \in Int
         /\ SumOver(h, D) = SumOver(f, D) + (h[x] - f[x])
<1>1. IsFiniteSet(D \ {x}) /\ D \ {x} \in SUBSET D /\ D \in SUBSET D
  BY FS_RemoveElement
<1>2. SumOver(f, D) = f[x] + SumOver(f, D \ {x})
  BY <1>1, SumRemove
<1>3. SumOver(h, D) = h[x] + SumOver(h, D \ {x})
  BY <1>1, SumRemove
<1>4. SumOver(f, D \ {x}) = SumOver(h, D \ {x})
  BY <1>1, SumSame
<1>5. SumOver(f, D \ {x}) \in Int /\ f[x] \in Int /\ h[x] \in Int
  BY <1>1, SumType
<1> QED
  BY <1>2, <1>3, <1>4, <1>5

\* A function that is nowhere greater has no greater sum.
LEMMA SumPointwise ==
  ASSUME NEW D, IsFiniteSet(D), NEW f \in [D -> Int], NEW h \in [D -> Int],
         \A x \in D : f[x] <= h[x]
  PROVE  SumOver(f, D) <= SumOver(h, D)
<1> DEFINE Bad == {s \in SUBSET D : ~ (SumOver(f, s) <= SumOver(h, s))}
<1> SUFFICES ASSUME Bad # {} PROVE FALSE
  OBVIOUS
<1>1. \A s \in Bad : IsFiniteSet(s)
  BY FS_Subset
<1>2. PICK s \in Bad : \A t \in Bad : ~ (t \subseteq s /\ t # s)
  <2> HIDE DEF Bad
  <2> QED
    BY <1>1, SmallestSet
<1>3. s # {}
  <2> SUFFICES ASSUME s = {} PROVE FALSE
    OBVIOUS
  <2>1. SumOver(f, {}) = 0 /\ SumOver(h, {}) = 0
    BY SumEmpty
  <2>2. ~ (SumOver(f, {}) <= SumOver(h, {}))
    BY <1>2
  <2> QED
    BY <2>1, <2>2
<1>4. PICK x \in s : TRUE
  BY <1>3
<1>5. /\ s \in SUBSET D /\ IsFiniteSet(s) /\ s \ {x} \in SUBSET D /\ IsFiniteSet(s \ {x})
  BY <1>1, FS_RemoveElement
<1>6. SumOver(f, s) = f[x] + SumOver(f, s \ {x})
  BY <1>4, <1>5, SumRemove
<1>7. SumOver(h, s) = h[x] + SumOver(h, s \ {x})
  BY <1>4, <1>5, SumRemove
<1>8. SumOver(f, s \ {x}) <= SumOver(h, s \ {x})
  BY <1>2, <1>4, <1>5
<1>9. /\ SumOver(f, s \ {x}) \in Int /\ SumOver(h, s \ {x}) \in Int
      /\ f[x] \in Int /\ h[x] \in Int /\ f[x] <= h[x]
  BY <1>4, <1>5, SumType
<1>10. SumOver(f, s) <= SumOver(h, s)
  BY <1>6, <1>7, <1>8, <1>9
<1> QED
  BY <1>2, <1>10

\* A function that is 0 outside S
LEMMA SumSupport ==
  ASSUME NEW D, IsFiniteSet(D), NEW f \in [D -> Int], NEW S \in SUBSET D,
         \A x \in D \ S : f[x] = 0
  PROVE  SumOver(f, D) = SumOver(f, S)
<1> DEFINE Bad == {s \in SUBSET D : SumOver(f, s) # SumOver(f, s \cap S)}
<1>1. Bad = {}
  <2> SUFFICES ASSUME Bad # {} PROVE FALSE
    OBVIOUS
  <2>1. \A s \in Bad : IsFiniteSet(s)
    BY FS_Subset
  <2>2. PICK s \in Bad : \A t \in Bad : ~ (t \subseteq s /\ t # s)
    <3> HIDE DEF Bad
    <3> QED
      BY <2>1, SmallestSet
  <2>3. s # {}
    <3> SUFFICES ASSUME s = {} PROVE FALSE
      OBVIOUS
    <3>1. s \cap S = s
      OBVIOUS
    <3> QED
      BY <2>2, <3>1
  <2>4. PICK x \in s : TRUE
    BY <2>3
  <2>5. /\ s \in SUBSET D /\ IsFiniteSet(s) /\ s \ {x} \in SUBSET D /\ IsFiniteSet(s \cap S)
        /\ s \cap S \in SUBSET D
    BY <2>1, <2>2, FS_Subset
  <2>6. SumOver(f, s) = f[x] + SumOver(f, s \ {x})
    BY <2>4, <2>5, SumRemove
  <2>7. SumOver(f, s \ {x}) = SumOver(f, (s \ {x}) \cap S)
    BY <2>2, <2>4, <2>5
  <2>8. CASE x \in S
    <3>1. x \in s \cap S /\ (s \ {x}) \cap S = (s \cap S) \ {x}
      BY <2>4, <2>8
    <3>2. SumOver(f, s \cap S) = f[x] + SumOver(f, (s \cap S) \ {x})
      BY <2>5, <3>1, SumRemove
    <3>3. SumOver(f, s) = SumOver(f, s \cap S)
      BY <2>6, <2>7, <3>1, <3>2
    <3> QED
      BY <2>2, <3>3
  <2>9. CASE x \notin S
    <3>1. (s \ {x}) \cap S = s \cap S /\ f[x] = 0
      BY <2>4, <2>5, <2>9
    <3>2. SumOver(f, s \cap S) \in Int
      BY <2>5, SumType
    <3>3. SumOver(f, s) = SumOver(f, s \cap S)
      BY <2>6, <2>7, <3>1, <3>2
    <3> QED
      BY <2>2, <3>3
  <2> QED
    BY <2>8, <2>9
<1>2. D \cap S = S /\ D \in SUBSET D
  OBVIOUS
<1> QED
  BY <1>1, <1>2

\* A sum over two sets without a common element is the sum of the sums.
LEMMA SumUnion ==
  ASSUME NEW D, NEW f \in [D -> Int], NEW S \in SUBSET D, IsFiniteSet(S),
         NEW T \in SUBSET D, IsFiniteSet(T), S \cap T = {}
  PROVE  SumOver(f, S \cup T) = SumOver(f, S) + SumOver(f, T)
<1> DEFINE Bad == {s \in SUBSET T : SumOver(f, S \cup s) # SumOver(f, S) + SumOver(f, s)}
<1>1. Bad = {}
  <2> SUFFICES ASSUME Bad # {} PROVE FALSE
    OBVIOUS
  <2>1. \A s \in Bad : IsFiniteSet(s)
    BY FS_Subset
  <2>2. PICK s \in Bad : \A t \in Bad : ~ (t \subseteq s /\ t # s)
    <3> HIDE DEF Bad
    <3> QED
      BY <2>1, SmallestSet
  <2>3. IsFiniteSet(s) /\ s \in SUBSET T /\ s \in SUBSET D
    BY <2>1
  <2>4. SumOver(f, S) \in Int
    BY SumType
  <2>5. s # {}
    <3> SUFFICES ASSUME s = {} PROVE FALSE
      OBVIOUS
    <3>1. SumOver(f, S \cup {}) = SumOver(f, S)
      <4>1. S \cup {} = S
        OBVIOUS
      <4> QED
        BY <4>1, Zenon
    <3>2. SumOver(f, {}) = 0
      BY SumEmpty
    <3>3. SumOver(f, S \cup {}) # SumOver(f, S) + SumOver(f, {})
      BY <2>2
    <3> QED
      BY <2>4, <3>1, <3>2, <3>3
  <2>6. PICK x \in s : TRUE
    BY <2>5
  <2> DEFINE r == s \ {x}
  <2>7. /\ r \in SUBSET T /\ r \in SUBSET D /\ IsFiniteSet(r)
        /\ S \cup s \in SUBSET D /\ IsFiniteSet(S \cup s) /\ x \in S \cup s
        /\ (S \cup s) \ {x} = S \cup r
    <3>1. IsFiniteSet(S \cup s) /\ IsFiniteSet(r)
      BY <2>3, FS_Union, FS_RemoveElement
    <3>2. x \notin S
      BY <2>3, <2>6
    <3> QED
      BY <2>3, <2>6, <3>1, <3>2
  <2>8. SumOver(f, s) = f[x] + SumOver(f, r)
    BY <2>3, <2>6, SumRemove
  <2>9. SumOver(f, S \cup s) = f[x] + SumOver(f, S \cup r)
    <3>1. SumOver(f, S \cup s) = f[x] + SumOver(f, (S \cup s) \ {x})
      BY <2>7, SumRemove
    <3> QED
      BY <2>7, <3>1, Zenon
  <2>10. SumOver(f, S \cup r) = SumOver(f, S) + SumOver(f, r)
    BY <2>2, <2>6, <2>7
  <2>11. f[x] \in Int /\ SumOver(f, r) \in Int
    BY <2>3, <2>6, <2>7, SumType
  <2> HIDE DEF r
  <2>12. SumOver(f, S \cup s) = SumOver(f, S) + SumOver(f, s)
    BY <2>4, <2>8, <2>9, <2>10, <2>11
  <2> QED
    BY <2>2, <2>12
<1>2. T \notin Bad
  BY <1>1
<1> QED
  BY <1>2
=============================================================================
