--------------------------- MODULE InductionLemmas ---------------------------
(***************************************************************************)
(* Induction and recursion without operator parameters: the statements are *)
(* about sets of numbers and about functions, so that a proof can apply    *)
(* them to what a fold of the community modules computes.                  *)
(***************************************************************************)
EXTENDS FiniteSetsExt, FiniteSetTheorems, TLAPS

(***************************************************************************)
(* A set that holds 0 and is closed under successor holds every number.    *)
(* If m were missing, adding one would map the members below m to as many  *)
(* members without 0: one too few.                                         *)
(***************************************************************************)
LEMMA InductiveSet ==
    ASSUME NEW S, 0 \in S, \A n \in Nat : n \in S => n + 1 \in S
    PROVE  Nat \subseteq S
  <1> SUFFICES ASSUME NEW m \in Nat, m \notin S PROVE FALSE
    OBVIOUS
  <1> DEFINE below == {k \in 0 .. m : k \in S}
             next == [k \in below |-> k + 1]
  <1>1. IsFiniteSet(below)
    <2>1. IsFiniteSet(0 .. m) /\ below \in SUBSET (0 .. m)
      BY FS_Interval
    <2> HIDE DEF below
    <2>2. QED
      BY <2>1, FS_Subset
  <1>2. /\ IsFiniteSet(below \ {0})
        /\ Cardinality(below \ {0}) = Cardinality(below) - 1
        /\ Cardinality(below) \in Nat
    <2>1. 0 \in below
      OBVIOUS
    <2> HIDE DEF below
    <2>2. QED
      BY <1>1, <2>1, FS_RemoveElement, FS_CardinalityType
  <1>3. next \in [below -> below \ {0}]
    <2>1. ASSUME NEW k \in below PROVE k + 1 \in below \ {0}
      <3>1. k # m
        OBVIOUS
      <3>2. QED
        BY <3>1
    <2> HIDE DEF below
    <2>2. QED
      BY <2>1
  <1>4. \A x, y \in below : next[x] = next[y] => x = y
    OBVIOUS
  <1> HIDE DEF below, next
  <1>5. \E x, y \in below : x # y /\ next[x] = next[y]
    BY <1>1, <1>2, <1>3, FS_PigeonHole
  <1>6. QED
    BY <1>4, <1>5

(***************************************************************************)
(* The same on 0 .. n.                                                     *)
(***************************************************************************)
LEMMA InductiveInterval ==
    ASSUME NEW n \in Nat, NEW S, 0 \in S, \A i \in 0 .. n - 1 : i \in S => i + 1 \in S
    PROVE  0 .. n \subseteq S
  <1> DEFINE T == {i \in Nat : i <= n => i \in S}
  <1>1. 0 \in T
    OBVIOUS
  <1>2. ASSUME NEW i \in Nat, i \in T PROVE i + 1 \in T
    BY <1>2
  <1> HIDE DEF T
  <1>3. Nat \subseteq T
    BY <1>1, <1>2, InductiveSet
  <1>4. QED
    BY <1>3 DEF T

-----------------------------------------------------------------------------

Recursion(f, S, base, pick, step) ==
    \A T \in SUBSET S :
       f[T] = IF T = {} THEN base ELSE step[pick[T]][f[T \ {pick[T]}]]

(***************************************************************************)
(* Recursion over the subsets of a finite set, one element chosen at a     *)
(* time, as MapThenFoldSet does it: there is a function that satisfies the *)
(* equation.  Take any function and recompute it by the equation as often  *)
(* as the set has elements.                                                *)
(***************************************************************************)
LEMMA RecursionOverSubsets ==
    ASSUME NEW S, IsFiniteSet(S), NEW D, NEW base \in D,
           NEW pick, \A T \in SUBSET S : T # {} => pick[T] \in T,
           NEW step, \A x \in S : \A d \in D : step[x][d] \in D
    PROVE  \E f \in [SUBSET S -> D] : Recursion(f, S, base, pick, step)
  <1> DEFINE Again(f, T) == IF T = {} THEN base ELSE step[pick[T]][f[T \ {pick[T]}]]
             RightUpTo(n, f) == \A T \in SUBSET S : Cardinality(T) <= n => f[T] = Again(f, T)
             Good == {n \in Nat : \E f \in [SUBSET S -> D] : RightUpTo(n, f)}
  <1>s. ASSUME NEW T \in SUBSET S
        PROVE  /\ IsFiniteSet(T)
               /\ Cardinality(T) \in Nat
               /\ Cardinality(T) <= Cardinality(S)
               /\ Cardinality(T) = 0 <=> T = {}
    BY FS_Subset, FS_CardinalityType, FS_EmptySet
  <1>t. ASSUME NEW T \in SUBSET S, T # {}
        PROVE  /\ pick[T] \in S
               /\ T \ {pick[T]} \in SUBSET S
               /\ Cardinality(T \ {pick[T]}) = Cardinality(T) - 1
    <2>1. pick[T] \in T /\ IsFiniteSet(T)
      BY <1>t, <1>s
    <2>2. QED
      BY <2>1, FS_RemoveElement
  <1>1. 0 \in Good
    <2> DEFINE f == [T \in SUBSET S |-> base]
    <2>1. f \in [SUBSET S -> D]
      OBVIOUS
    <2>2. RightUpTo(0, f)
      <3>1. ASSUME NEW T \in SUBSET S, Cardinality(T) <= 0 PROVE T = {}
        BY <3>1, <1>s
      <3>2. QED
        BY <3>1
    <2>3. QED
      BY <2>1, <2>2
  <1>2. ASSUME NEW n \in Nat, n \in Good PROVE n + 1 \in Good
    <2>1. PICK f \in [SUBSET S -> D] : RightUpTo(n, f)
      BY <1>2
    <2> DEFINE g == [T \in SUBSET S |-> Again(f, T)]
    <2>2. g \in [SUBSET S -> D]
      <3>1. ASSUME NEW T \in SUBSET S PROVE Again(f, T) \in D
        BY <1>t
      <3> HIDE DEF Again
      <3>2. QED
        BY <3>1
    <2>3. ASSUME NEW T \in SUBSET S, Cardinality(T) <= n + 1 PROVE g[T] = Again(g, T)
      <3>1. CASE T = {}
        BY <3>1
      <3>2. CASE T # {}
        <4> DEFINE U == T \ {pick[T]}
        <4>1. U \in SUBSET S /\ Cardinality(U) <= n
          BY <2>3, <3>2, <1>t, <1>s
        <4>2. g[U] = f[U]
          <5>1. f[U] = Again(f, U)
            BY <2>1, <4>1
          <5> HIDE DEF U, Again
          <5>2. QED
            BY <5>1, <4>1
        <4>3. QED
          BY <3>2, <4>2
      <3>3. QED
        BY <3>1, <3>2
    <2> HIDE DEF g, Again
    <2>4. QED
      BY <2>2, <2>3
  <1>3. Cardinality(S) \in Good
    <2> HIDE DEF Good
    <2>1. Nat \subseteq Good
      BY <1>1, <1>2, InductiveSet
    <2>2. QED
      BY <2>1, FS_CardinalityType
  <1>4. PICK f \in [SUBSET S -> D] : RightUpTo(Cardinality(S), f)
    BY <1>3
  <1>5. QED
    BY <1>4, <1>s DEF Recursion

-----------------------------------------------------------------------------

(***************************************************************************)
(* A non-empty set of places of a sequence has a last one.                 *)
(***************************************************************************)
LEMMA LastPlace ==
    ASSUME NEW n \in Nat, NEW T \in SUBSET (1 .. n), T # {}
    PROVE  Max(T) \in T /\ \A i \in T : Max(T) >= i
  <1> DEFINE HasLast(U) == \E x \in U : \A y \in U : x >= y
             Good == {m \in Nat : \A U \in SUBSET (1 .. m) : U # {} => HasLast(U)}
  <1>1. 0 \in Good
    <2>1. \A U \in SUBSET (1 .. 0) : U = {}
      OBVIOUS
    <2>2. QED
      BY <2>1
  <1>2. ASSUME NEW m \in Nat, m \in Good PROVE m + 1 \in Good
    <2>1. ASSUME NEW U \in SUBSET (1 .. m + 1), U # {} PROVE HasLast(U)
      <3>1. CASE m + 1 \in U
        BY <3>1
      <3>2. CASE m + 1 \notin U
        <4>1. U \in SUBSET (1 .. m)
          BY <3>2
        <4>2. QED
          BY <1>2, <2>1, <4>1
      <3>3. QED
        BY <3>1, <3>2
    <2> HIDE DEF HasLast
    <2>2. QED
      BY <2>1
  <1>3. n \in Good
    <2> HIDE DEF Good
    <2>1. QED
      BY <1>1, <1>2, InductiveSet
  <1>4. HasLast(T)
    BY <1>3
  <1>5. QED
    BY <1>4 DEF Max

LEMMA LastOfPrefix ==
    ASSUME NEW i \in Nat, i # 0
    PROVE  /\ Max(1 .. i) = i
           /\ (1 .. i) \ {i} = 1 .. i - 1
           /\ 1 .. i # {}
  <1>1. 1 .. i \in SUBSET (1 .. i) /\ i \in 1 .. i
    OBVIOUS
  <1>2. Max(1 .. i) \in 1 .. i /\ Max(1 .. i) >= i
    BY <1>1, LastPlace
  <1>3. QED
    BY <1>2

Folding(f, n, base, step) ==
    \A T \in SUBSET (1 .. n) :
       f[T] = IF T = {} THEN base ELSE step[Max(T)][f[T \ {Max(T)}]]

(***************************************************************************)
(* Recursion over the places of a sequence, the last one first, as         *)
(* FoldLeft does it.                                                       *)
(***************************************************************************)
LEMMA RecursionOverPlaces ==
    ASSUME NEW n \in Nat, NEW D, NEW base \in D,
           NEW step, \A i \in 1 .. n : \A d \in D : step[i][d] \in D
    PROVE  \E f \in [SUBSET (1 .. n) -> D] : Folding(f, n, base, step)
  <1> DEFINE places == 1 .. n
             pick == [T \in SUBSET places |-> Max(T)]
  <1>1. IsFiniteSet(places)
    BY FS_Interval
  <1>2. \A T \in SUBSET places : pick[T] = Max(T) /\ (T # {} => pick[T] \in T)
    BY LastPlace
  <1>3. \A i \in places : \A d \in D : step[i][d] \in D
    OBVIOUS
  <1> HIDE DEF pick, places
  <1>4. PICK f \in [SUBSET places -> D] : Recursion(f, places, base, pick, step)
    BY <1>1, <1>2, <1>3, RecursionOverSubsets
  <1>5. \A T \in SUBSET places :
           f[T] = IF T = {} THEN base ELSE step[Max(T)][f[T \ {Max(T)}]]
    BY <1>2, <1>4 DEF Recursion
  <1>6. QED
    BY <1>5 DEF places, Folding

-----------------------------------------------------------------------------

Iteration(f, base, step) == f[0] = base /\ \A n \in Nat : f[n + 1] = step[f[n]]

(***************************************************************************)
(* Recursion over the numbers: the functions right up to n agree there.    *)
(***************************************************************************)
LEMMA RecursionOverNat ==
    ASSUME NEW D, NEW base \in D, NEW step, \A d \in D : step[d] \in D
    PROVE  \E f \in [Nat -> D] : Iteration(f, base, step)
  <1> DEFINE RightUpTo(n, g) == g[0] = base /\ \A i \in Nat : i < n => g[i + 1] = step[g[i]]
             Good == {n \in Nat : \E g \in [Nat -> D] : RightUpTo(n, g)}
  <1>1. 0 \in Good
    <2>1. [n \in Nat |-> base] \in [Nat -> D] /\ RightUpTo(0, [n \in Nat |-> base])
      OBVIOUS
    <2>2. QED
      BY <2>1
  <1>2. ASSUME NEW n \in Nat, n \in Good PROVE n + 1 \in Good
    <2>1. PICK g \in [Nat -> D] : RightUpTo(n, g)
      BY <1>2
    <2> DEFINE h == [g EXCEPT ![n + 1] = step[g[n]]]
    <2>2. h \in [Nat -> D] /\ RightUpTo(n + 1, h)
      BY <2>1
    <2> HIDE DEF h, RightUpTo
    <2>3. QED
      BY <2>2
  <1>3. \A n \in Nat : \E g \in [Nat -> D] : RightUpTo(n, g)
    <2> HIDE DEF Good
    <2>1. Nat \subseteq Good
      BY <1>1, <1>2, InductiveSet
    <2>2. QED
      BY <2>1 DEF Good
  <1>4. ASSUME NEW n \in Nat, NEW g, NEW h, RightUpTo(n, g), RightUpTo(n + 1, h)
        PROVE  g[n] = h[n]
    <2> DEFINE Same == {i \in 0 .. n : g[i] = h[i]}
    <2>1. 0 \in Same
      BY <1>4
    <2>2. \A i \in 0 .. n - 1 : i \in Same => i + 1 \in Same
      BY <1>4
    <2> HIDE DEF Same
    <2>3. 0 .. n \subseteq Same
      BY <2>1, <2>2, InductiveInterval
    <2>4. QED
      BY <2>3 DEF Same
  <1> DEFINE Up(n) == CHOOSE g : g \in [Nat -> D] /\ RightUpTo(n, g)
             f == [n \in Nat |-> Up(n)[n]]
  <1>5. ASSUME NEW n \in Nat PROVE Up(n) \in [Nat -> D] /\ RightUpTo(n, Up(n))
    <2> HIDE DEF RightUpTo
    <2>1. QED
      BY <1>3
  <1> HIDE DEF Up
  <1>6. f \in [Nat -> D]
    BY <1>5
  <1>7. f[0] = base
    BY <1>5
  <1>8. ASSUME NEW n \in Nat PROVE f[n + 1] = step[f[n]]
    <2>1. Up(n)[n] = Up(n + 1)[n]
      <3> HIDE DEF RightUpTo
      <3>1. QED
        BY <1>4, <1>5
    <2>2. Up(n + 1)[n + 1] = step[Up(n + 1)[n]]
      BY <1>5
    <2>3. QED
      BY <2>1, <2>2
  <1>9. QED
    BY <1>6, <1>7, <1>8 DEF Iteration

-----------------------------------------------------------------------------

StrictOrder(S, R) ==
    /\ \A i \in S : <<i, i>> \notin R
    /\ \A i, j \in S : i # j => <<i, j>> \in R \/ <<j, i>> \in R
    /\ \A i, j, k \in S : <<i, j>> \in R /\ <<j, k>> \in R => <<i, k>> \in R

Rank(S, R, i) == Cardinality({j \in S : <<j, i>> \in R})

(***************************************************************************)
(* In a strict total order R of a finite set, the elements are numbered by *)
(* how many come before them: in the order, and without a gap.             *)
(***************************************************************************)
LEMMA Ranking ==
    ASSUME NEW S, IsFiniteSet(S), NEW R, StrictOrder(S, R)
    PROVE  /\ Cardinality(S) \in Nat
           /\ \A i \in S : Rank(S, R, i) \in 0 .. Cardinality(S) - 1
           /\ \A i, j \in S : <<i, j>> \in R => Rank(S, R, i) < Rank(S, R, j)
           /\ \A i, j \in S : Rank(S, R, i) < Rank(S, R, j) => <<i, j>> \in R
           /\ \A p \in 1 .. Cardinality(S) : \E i \in S : Rank(S, R, i) = p - 1
  <1> DEFINE n == Cardinality(S)
             Before(i) == {j \in S : <<j, i>> \in R}
             rank == [i \in S |-> Cardinality(Before(i))]
  <1>0. n \in Nat
    BY FS_CardinalityType
  <1>1. ASSUME NEW i \in S
        PROVE  /\ IsFiniteSet(Before(i)) /\ rank[i] = Rank(S, R, i)
               /\ rank[i] \in 0 .. n - 1 /\ rank[i] \in Nat
    <2>1. Before(i) \in SUBSET (S \ {i})
      BY DEF StrictOrder
    <2>2. IsFiniteSet(S \ {i}) /\ Cardinality(S \ {i}) = n - 1
      BY FS_RemoveElement
    <2> HIDE DEF Before
    <2>3. /\ IsFiniteSet(Before(i)) /\ Cardinality(Before(i)) <= n - 1
          /\ Cardinality(Before(i)) \in Nat
      BY <2>1, <2>2, FS_Subset, FS_CardinalityType
    <2>4. QED
      BY <1>0, <2>3 DEF Rank, Before
  <1> HIDE DEF n
  <1>r. \A i \in S : rank[i] \in Nat
    <2> HIDE DEF rank, Before
    <2>1. QED
      BY <1>1
  <1>2. ASSUME NEW i \in S, NEW j \in S, <<i, j>> \in R
        PROVE  rank[i] < rank[j]
    <2>1. i \in Before(j) /\ Before(i) \in SUBSET (Before(j) \ {i})
      BY <1>2 DEF StrictOrder
    <2> HIDE DEF Before
    <2>2. /\ IsFiniteSet(Before(j) \ {i})
          /\ Cardinality(Before(j) \ {i}) = Cardinality(Before(j)) - 1
      BY <1>1, <2>1, FS_RemoveElement
    <2>3. Cardinality(Before(i)) <= Cardinality(Before(j) \ {i})
      BY <2>1, <2>2, FS_Subset
    <2>4. QED
      BY <1>1, <2>2, <2>3
  <1>3. ASSUME NEW i \in S, NEW j \in S, rank[i] < rank[j]
        PROVE  <<i, j>> \in R
    <2>1. ~ rank[j] < rank[i] /\ i # j
      <3> HIDE DEF rank
      <3>1. QED
        BY <1>r, <1>3
    <2>2. QED
      BY <1>2, <2>1 DEF StrictOrder
  <1>4. ASSUME NEW p \in 1 .. n PROVE \E i \in S : rank[i] = p - 1
    <2>1. SUFFICES ASSUME \A i \in S : rank[i] # p - 1 PROVE FALSE
      OBVIOUS
    <2> DEFINE numbers == 0 .. n - 1
               others == numbers \ {p - 1}
    <2>2. IsFiniteSet(others) /\ Cardinality(others) = n - 1
      <3>1. IsFiniteSet(numbers) /\ Cardinality(numbers) = n /\ p - 1 \in numbers
        <4>1. 0 \in Int /\ n - 1 \in Int /\ (n - 1) - 0 + 1 = n /\ (0 > n - 1 => n = 0)
          BY <1>0
        <4>2. QED
          BY <1>0, <4>1, FS_Interval
      <3> HIDE DEF numbers
      <3>2. QED
        BY <3>1, FS_RemoveElement
    <2>3. rank \in [S -> others]
      <3>1. \A i \in S : rank[i] \in others
        BY <1>1, <2>1
      <3> HIDE DEF others
      <3>2. rank = [i \in S |-> rank[i]]
        OBVIOUS
      <3> HIDE DEF rank
      <3>3. QED
        BY <3>1, <3>2
    <2> HIDE DEF others, rank
    <2>4. \E i, j \in S : i # j /\ rank[i] = rank[j]
      BY <1>0, <2>2, <2>3, FS_PigeonHole DEF n
    <2>5. PICK i \in S, j \in S : i # j /\ rank[i] = rank[j]
      BY <2>4
    <2>6. rank[i] < rank[j] \/ rank[j] < rank[i]
      BY <1>2, <2>5 DEF StrictOrder
    <2>7. QED
      BY <1>r, <2>5, <2>6
  <1> HIDE DEF rank
  <1>5. QED
    BY <1>0, <1>1, <1>2, <1>3, <1>4 DEF n

(***************************************************************************)
(* The elements in their order.                                            *)
(***************************************************************************)
Enumerated(S, R) ==
    [p \in 1 .. Cardinality(S) |-> CHOOSE i \in S : Rank(S, R, i) = p - 1]

Enumerates(order, n, S, R) ==
    /\ order \in [1 .. n -> S]
    /\ \A p, q \in 1 .. n : p < q => <<order[p], order[q]>> \in R
    /\ \A i \in S : \E p \in 1 .. n : order[p] = i

LEMMA Enumeration ==
    ASSUME NEW S, IsFiniteSet(S), NEW R, StrictOrder(S, R)
    PROVE  Enumerates(Enumerated(S, R), Cardinality(S), S, R)
  <1> DEFINE order == Enumerated(S, R)
  <1> DEFINE n == Cardinality(S)
             rank(i) == Rank(S, R, i)
  <1>1. /\ n \in Nat
        /\ \A i \in S : rank(i) \in 0 .. n - 1
        /\ \A i, j \in S : <<i, j>> \in R => rank(i) < rank(j)
        /\ \A i, j \in S : rank(i) < rank(j) => <<i, j>> \in R
        /\ \A p \in 1 .. n : \E i \in S : rank(i) = p - 1
    BY Ranking
  <1>o. \A i, j \in S : i # j => <<i, j>> \in R \/ <<j, i>> \in R
    BY DEF StrictOrder
  <1> HIDE DEF n
  <1>2. ASSUME NEW p \in 1 .. n
        PROVE  order[p] \in S /\ rank(order[p]) = p - 1 /\ p \in Nat
    <2>1. order[p] = CHOOSE i \in S : rank(i) = p - 1
      BY DEF n, Enumerated
    <2> HIDE DEF rank, order
    <2>2. QED
      BY <1>1, <2>1
  <1>c. order = [p \in 1 .. n |-> order[p]]
    BY DEF n, Enumerated
  <1> HIDE DEF rank, order
  <1>3. ASSUME NEW p \in 1 .. n, NEW q \in 1 .. n, p < q PROVE <<order[p], order[q]>> \in R
    <2>1. rank(order[p]) < rank(order[q])
      <3>1. p - 1 < q - 1
        BY <1>2, <1>3
      <3>2. QED
        BY <1>2, <3>1
    <2>2. QED
      BY <1>1, <1>2, <2>1
  <1>4. ASSUME NEW i \in S PROVE \E p \in 1 .. n : order[p] = i
    <2> DEFINE p == rank(i) + 1
    <2>1. p \in 1 .. n /\ p - 1 = rank(i) /\ rank(i) \in Nat
      BY <1>1
    <2> HIDE DEF p
    <2>2. order[p] \in S /\ rank(order[p]) = rank(i)
      BY <1>2, <2>1
    <2>3. ~ (rank(i) < rank(i))
      BY <2>1
    <2>4. order[p] = i
      BY <1>1, <1>o, <2>2, <2>3
    <2>5. QED
      BY <2>1, <2>4
  <1>5. order \in [1 .. n -> S]
    BY <1>2, <1>c
  <1>6. QED
    BY <1>3, <1>4, <1>5 DEF n, order, Enumerates

=============================================================================
