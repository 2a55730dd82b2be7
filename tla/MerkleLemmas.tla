---------------------------- MODULE MerkleLemmas ----------------------------
(***************************************************************************)
(* What the proofs about Merkle trees rely on, for trees of every size:    *)
(* climbing a tree row by row, and what the generator's recursive          *)
(* functions compute.                                                      *)
(***************************************************************************)
EXTENDS MerkleGenerator, TransparencyCalls, WellFoundedInduction, SequenceTheorems, TLAPS

-----------------------------------------------------------------------------
(* Rows *)

\* Hashes of nodes are equal only when their children are.
LEMMA NodeInjective ==
  ASSUME NEW a, NEW b, NEW c, NEW d, node(a, b) = node(c, d)
  PROVE  a = c /\ b = d
BY DEF node

\* The shape of the row above.
LEMMA RowAboveShape ==
  ASSUME NEW row, Len(row) \in Nat \ {0}
  PROVE  /\ Len(RowAbove(row)) = (Len(row) + 1) \div 2
         /\ Len(RowAbove(row)) \in Nat \ {0}
         /\ \A j \in 1..((Len(row) + 1) \div 2) :
              RowAbove(row)[j] = IF 2 * j =< Len(row) THEN node(row[2 * j - 1], row[2 * j])
                                 ELSE row[2 * j - 1]
<1> DEFINE w == (Len(row) + 1) \div 2
<1>1. w \in Nat /\ w >= 1
  OBVIOUS
<1>2. Len(RowAbove(row)) = w
  BY <1>1 DEF RowAbove
<1> QED BY <1>1, <1>2 DEF RowAbove

\* Every row of a tree is above the one before, the root above itself.
LEMMA RowAtNext ==
  ASSUME NEW rows, IsTree(rows), NEW k \in Nat \ {0}
  PROVE  /\ Len(RowAt(rows, k)) \in Nat \ {0}
         /\ Len(RowAt(rows, k + 1)) = (Len(RowAt(rows, k)) + 1) \div 2
         /\ \A j \in 1..((Len(RowAt(rows, k)) + 1) \div 2) :
              RowAt(rows, k + 1)[j] =
                IF 2 * j =< Len(RowAt(rows, k))
                THEN node(RowAt(rows, k)[2 * j - 1], RowAt(rows, k)[2 * j])
                ELSE RowAt(rows, k)[2 * j - 1]
<1> DEFINE top == Len(rows)
<1>1. top \in Nat \ {0} /\ Len(rows[top]) = 1
  BY DEF IsTree
<1>2. CASE k < top
  <2>1. rows[k + 1] = RowAbove(rows[k]) /\ Len(rows[k]) \in Nat \ {0, 1}
    BY <1>1, <1>2 DEF IsTree
  <2>2. RowAt(rows, k) = rows[k] /\ RowAt(rows, k + 1) = rows[k + 1]
    BY <1>1, <1>2 DEF RowAt
  <2> QED BY <2>1, <2>2, RowAboveShape
<1>3. CASE k >= top
  <2>1. RowAt(rows, k) = rows[top] /\ RowAt(rows, k + 1) = rows[top]
    BY <1>1, <1>3 DEF RowAt
  <2>2. Len(RowAt(rows, k)) = 1 /\ Len(RowAt(rows, k + 1)) = 1
    BY <1>1, <2>1
  <2>3. (1 + 1) \div 2 = 1 /\ 2 * 1 - 1 = 1
    OBVIOUS
  <2>4. ASSUME NEW j \in 1..1
        PROVE  RowAt(rows, k + 1)[j] =
                IF 2 * j =< Len(RowAt(rows, k))
                THEN node(RowAt(rows, k)[2 * j - 1], RowAt(rows, k)[2 * j])
                ELSE RowAt(rows, k)[2 * j - 1]
    <3>1. j = 1 /\ ~(2 * j =< Len(RowAt(rows, k))) /\ 2 * j - 1 = 1
      BY <2>2, <2>4
    <3> QED BY <2>1, <3>1
  <2>5. (Len(RowAt(rows, k)) + 1) \div 2 = 1
    BY <2>2, <2>3
  <2> HIDE DEF top
  <2> QED BY <2>2, <2>4, <2>5
<1> QED BY <1>1, <1>2, <1>3

\* The same by position, counted from 0 as the proof walks count.
LEMMA PositionClimbed ==
  ASSUME NEW rows, IsTree(rows), NEW k \in Nat \ {0},
         NEW last \in Nat, Len(RowAt(rows, k)) = last + 1
  PROVE  /\ Len(RowAt(rows, k + 1)) = (last \div 2) + 1
         /\ \A p \in 0..(last \div 2) :
              RowAt(rows, k + 1)[p + 1] =
                IF 2 * p + 1 =< last
                THEN node(RowAt(rows, k)[2 * p + 1], RowAt(rows, k)[2 * p + 2])
                ELSE RowAt(rows, k)[2 * p + 1]
<1> DEFINE low == RowAt(rows, k)
<1> DEFINE high == RowAt(rows, k + 1)
<1>1. /\ Len(high) = (Len(low) + 1) \div 2
      /\ \A j \in 1..((Len(low) + 1) \div 2) :
           high[j] = IF 2 * j =< Len(low) THEN node(low[2 * j - 1], low[2 * j])
                     ELSE low[2 * j - 1]
  BY RowAtNext
<1>2. Len(low) = last + 1 /\ (last + 1 + 1) \div 2 = (last \div 2) + 1
  OBVIOUS
<1> HIDE DEF low, high
<1>3. ASSUME NEW p \in 0..(last \div 2)
      PROVE  high[p + 1] = IF 2 * p + 1 =< last THEN node(low[2 * p + 1], low[2 * p + 2])
                           ELSE low[2 * p + 1]
  <2>1. /\ p + 1 \in 1..((last + 1 + 1) \div 2)
        /\ 2 * (p + 1) - 1 = 2 * p + 1 /\ 2 * (p + 1) = 2 * p + 2
        /\ (2 * p + 2 =< last + 1 <=> 2 * p + 1 =< last)
    BY <1>2
  <2>2. high[p + 1] = IF 2 * (p + 1) =< last + 1 THEN node(low[2 * (p + 1) - 1], low[2 * (p + 1)])
                      ELSE low[2 * (p + 1) - 1]
    BY <1>1, <1>2, <2>1
  <2> QED BY <2>1, <2>2
<1> QED BY <1>1, <1>2, <1>3 DEF low, high

\* A row of one hash holds the root.
LEMMA RowOfRoot ==
  ASSUME NEW rows, IsTree(rows), NEW k \in Nat \ {0}, Len(RowAt(rows, k)) = 1
  PROVE  RowAt(rows, k)[1] = Root(rows)
<1>1. CASE k < Len(rows)
  BY <1>1 DEF IsTree, RowAt
<1>2. CASE k >= Len(rows)
  BY <1>2 DEF IsTree, RowAt, Root
<1> QED BY <1>1, <1>2 DEF IsTree

-----------------------------------------------------------------------------
(* Induction *)

\* A set of natural numbers that has a member has a least one: induction, by
\* the least counterexample.
LEMMA Least ==
  ASSUME NEW T \in SUBSET Nat, T # {}
  PROVE  \E n \in T : \A m \in T : n =< m
<1> DEFINE R == OpToRel(<, Nat)
<1>1. IsWellFoundedOn(R, Nat)
  BY NatLessThanWellFounded
<1>2. \A x, y \in Nat : <<y, x>> \in R <=> y < x
  BY DEF OpToRel
<1> HIDE DEF R
<1>3. \E x \in T : \A y \in T : ~(<<y, x>> \in R)
  BY <1>1, WFMin, Zenon
<1>4. PICK x \in T : \A y \in T : ~(<<y, x>> \in R)
  BY <1>3
<1>5. \A m \in T : x =< m
  <2> TAKE m \in T
  <2>1. m \in Nat /\ x \in Nat
    OBVIOUS
  <2>2. ~(m < x)
    BY <1>2, <1>4, <2>1
  <2> QED BY <2>1, <2>2
<1> QED BY <1>5

\* What holds of 0, and of a number when of the one before it.
LEMMA Induct ==
  ASSUME NEW T \in SUBSET Nat, 0 \in T, \A n \in T : n + 1 \in T
  PROVE  T = Nat
<1>1. SUFFICES ASSUME Nat \ T # {} PROVE FALSE
  OBVIOUS
<1>2. PICK n \in Nat \ T : \A m \in Nat \ T : n =< m
  BY <1>1, Least
<1>3. n # 0 /\ n - 1 \in Nat /\ ~(n =< n - 1)
  BY <1>2
<1>4. n - 1 \in T
  BY <1>2, <1>3
<1>5. (n - 1) + 1 = n
  BY <1>2
<1> QED BY <1>2, <1>4, <1>5

-----------------------------------------------------------------------------
(* Where a slice is cut *)

Halvings(f, n) == f = [m \in 1..n |-> IF m =< 2 THEN 1 ELSE 2 * f[(m + 1) \div 2]]

\* Up to any number there are the halvings its cut is found by.
LEMMA HalvingsExist ==
  ASSUME NEW n \in Nat
  PROVE  \E f : Halvings(f, n)
<1> DEFINE T == {m \in Nat : \E f : Halvings(f, m)}
<1>1. 0 \in T
  <2>1. Halvings([m \in 1..0 |-> 1], 0)
    BY DEF Halvings
  <2> QED BY <2>1
<1>2. ASSUME NEW m \in T
      PROVE  m + 1 \in T
  <2>1. PICK f : Halvings(f, m)
    OBVIOUS
  <2> DEFINE Body(p) == IF p =< 2 THEN 1 ELSE 2 * f[(p + 1) \div 2]
             g == [p \in 1..(m + 1) |-> Body(p)]
  <2>2. m \in Nat
    OBVIOUS
  <2>3. ASSUME NEW p \in 1..m
        PROVE  g[p] = f[p]
    <3>1. f[p] = Body(p)
      BY <2>1 DEF Halvings
    <3>2. g[p] = Body(p)
      BY <2>2
    <3> QED BY <3>1, <3>2
  <2>4. ASSUME NEW p \in 1..(m + 1)
        PROVE  Body(p) = IF p =< 2 THEN 1 ELSE 2 * g[(p + 1) \div 2]
    <3>1. ~(p =< 2) => (p + 1) \div 2 \in 1..m
      BY <2>2
    <3> HIDE DEF g
    <3> QED BY <2>3, <3>1
  <2>5. Halvings(g, m + 1)
    BY <2>4 DEF Halvings
  <2> QED BY <2>2, <2>5
<1> HIDE DEF T
<1>3. T = Nat
  <2>1. T \in SUBSET Nat
    BY DEF T
  <2> QED BY <1>1, <1>2, <2>1, Induct
<1> QED BY <1>3 DEF T

\* A slice of two leaves or more is cut inside.
LEMMA CutInside ==
  ASSUME NEW n \in Nat, n >= 2
  PROVE  k_below(n) \in 1..(n - 1)
<1> DEFINE k == CHOOSE k : k = [m \in 1..n |-> IF m =< 2 THEN 1 ELSE 2 * k[(m + 1) \div 2]]
<1>1. k_below(n) = k[n]
  BY DEF k_below
<1>2. k = [m \in 1..n |-> IF m =< 2 THEN 1 ELSE 2 * k[(m + 1) \div 2]]
  BY HalvingsExist DEF Halvings
<1> HIDE DEF k
<1> DEFINE Odd(m) == m \in 2..n /\ k[m] \notin 1..(m - 1)
           T == {m \in Nat : Odd(m)}
<1>3. T = {}
  <2>1. SUFFICES ASSUME T # {} PROVE FALSE
    OBVIOUS
  <2>2. PICK m \in T : \A p \in T : m =< p
    BY <2>1, Least
  <2>3. m \in 2..n /\ k[m] \notin 1..(m - 1) /\ m \in Nat
    OBVIOUS
  <2>4. k[m] = IF m =< 2 THEN 1 ELSE 2 * k[(m + 1) \div 2]
    BY <1>2, <2>3
  <2>5. m # 2
    BY <2>3, <2>4
  <2> DEFINE h == (m + 1) \div 2
  <2>6. h \in 2..n /\ h < m /\ 2 * h =< m + 1 /\ h \in Nat
    BY <2>3, <2>5
  <2>7. k[h] \in 1..(h - 1)
    BY <2>2, <2>3, <2>6
  <2>8. k[m] = 2 * k[h]
    BY <2>3, <2>4, <2>5
  <2> HIDE DEF h, T
  <2> QED BY <2>3, <2>6, <2>7, <2>8
<1>4. n \in 2..n
  OBVIOUS
<1> QED BY <1>1, <1>3, <1>4

-----------------------------------------------------------------------------
(* The roots of slices *)

\* The two halves of a slice.
LEMMA Halves ==
  ASSUME NEW leaves, Len(leaves) \in Nat, NEW lo, NEW hi, <<lo, hi>> \in Slices(leaves)
  PROVE  /\ lo \in Nat /\ hi \in 1..Len(leaves) /\ lo < hi
         /\ hi - lo # 1 =>
              /\ Cut(lo, hi) \in (lo + 1)..(hi - 1)
              /\ <<lo, Cut(lo, hi)>> \in Slices(leaves) /\ <<Cut(lo, hi), hi>> \in Slices(leaves)
<1>1. lo \in 0..Len(leaves) /\ hi \in 0..Len(leaves) /\ lo < hi
  BY DEF Slices
<1>2. ASSUME hi - lo # 1
      PROVE  Cut(lo, hi) \in (lo + 1)..(hi - 1)
  <2>1. hi - lo \in Nat /\ hi - lo >= 2
    BY <1>1, <1>2
  <2>2. k_below(hi - lo) \in 1..((hi - lo) - 1)
    BY <2>1, CutInside
  <2> QED BY <1>1, <2>2 DEF Cut
<1>3. ASSUME hi - lo # 1
      PROVE  <<lo, Cut(lo, hi)>> \in Slices(leaves) /\ <<Cut(lo, hi), hi>> \in Slices(leaves)
  <2>1. PICK c : c = Cut(lo, hi)
    OBVIOUS
  <2>2. c \in 0..Len(leaves) /\ lo < c /\ c < hi
    BY <1>1, <1>2, <1>3, <2>1
  <2>3. <<lo, c>> \in Slices(leaves) /\ <<c, hi>> \in Slices(leaves)
    BY <1>1, <2>2 DEF Slices
  <2> QED BY <2>1, <2>3
<1> QED BY <1>1, <1>2, <1>3

\* The root of a slice, given the roots of the shorter ones.
RootOf(leaves, f, lo, hi) ==
  IF hi - lo = 1 THEN leaves[hi] ELSE node(f[<<lo, Cut(lo, hi)>>], f[<<Cut(lo, hi), hi>>])

\* The slices of at most so many leaves, and their roots.
Short(leaves, w) == {s \in Slices(leaves) : s[2] - s[1] =< w}
RootsTo(leaves, w, f) == f = [s \in Short(leaves, w) |-> RootOf(leaves, f, s[1], s[2])]

\* The slices of every width have roots.
LEMMA RootsExist ==
  ASSUME NEW leaves, Len(leaves) \in Nat
  PROVE  \A w \in Nat : \E f : RootsTo(leaves, w, f)
<1> DEFINE T == {w \in Nat : \E f : RootsTo(leaves, w, f)}
<1>1. 0 \in T
  <2>1. Short(leaves, 0) = {}
    BY DEF Short, Slices
  <2>2. RootsTo(leaves, 0, [s \in {} |-> 0])
    BY <2>1 DEF RootsTo
  <2> QED BY <2>2
<1>2. ASSUME NEW w \in T
      PROVE  w + 1 \in T
  <2>1. PICK f : RootsTo(leaves, w, f)
    OBVIOUS
  <2> DEFINE g == [s \in Short(leaves, w + 1) |-> RootOf(leaves, f, s[1], s[2])]
  <2>2. w \in Nat
    OBVIOUS
  <2>3. ASSUME NEW s \in Short(leaves, w)
        PROVE  g[s] = f[s]
    <3>1. f[s] = RootOf(leaves, f, s[1], s[2])
      BY <2>1 DEF RootsTo
    <3>2. s \in Short(leaves, w + 1)
      BY <2>2 DEF Short, Slices
    <3> QED BY <3>1, <3>2
  <2>4. ASSUME NEW s \in Short(leaves, w + 1)
        PROVE  RootOf(leaves, f, s[1], s[2]) = RootOf(leaves, g, s[1], s[2])
    <3>1. PICK lo, hi : s = <<lo, hi>> /\ s[1] = lo /\ s[2] = hi
      BY DEF Short, Slices
    <3>2. <<lo, hi>> \in Slices(leaves) /\ hi - lo =< w + 1
      BY <3>1 DEF Short
    <3>3. CASE hi - lo = 1
      BY <3>1, <3>3 DEF RootOf
    <3>4. CASE hi - lo # 1
      <4>1. PICK c : c = Cut(lo, hi)
        OBVIOUS
      <4>2. /\ c \in (lo + 1)..(hi - 1) /\ lo \in Nat /\ hi \in Nat
            /\ <<lo, c>> \in Slices(leaves) /\ <<c, hi>> \in Slices(leaves)
        BY <3>2, <3>4, <4>1, Halves
      <4>3. <<lo, c>> \in Short(leaves, w) /\ <<c, hi>> \in Short(leaves, w)
        BY <2>2, <3>2, <4>2 DEF Short
      <4>4. g[<<lo, c>>] = f[<<lo, c>>] /\ g[<<c, hi>>] = f[<<c, hi>>]
        BY <2>3, <4>3
      <4> HIDE DEF g
      <4> QED BY <3>1, <3>4, <4>1, <4>4 DEF RootOf
    <3> QED BY <3>3, <3>4
  <2>5. RootsTo(leaves, w + 1, g)
    BY <2>4 DEF RootsTo
  <2> QED BY <2>2, <2>5
<1> HIDE DEF T
<1>3. T = Nat
  <2>1. T \in SUBSET Nat
    BY DEF T
  <2> QED BY <1>1, <1>2, <2>1, Induct
<1> QED BY <1>3 DEF T

\* SliceRoot is what its recursive definition says.
LEMMA SliceRootEquation ==
  ASSUME NEW leaves, Len(leaves) \in Nat, NEW lo, NEW hi, <<lo, hi>> \in Slices(leaves)
  PROVE  SliceRoot(leaves)[<<lo, hi>>] = RootOf(leaves, SliceRoot(leaves), lo, hi)
<1> DEFINE Body(f) == [s \in Slices(leaves) |->
             IF s[2] - s[1] = 1 THEN leaves[s[2]]
             ELSE node(f[<<s[1], Cut(s[1], s[2])>>], f[<<Cut(s[1], s[2]), s[2]>>])]
           f == CHOOSE f : f = Body(f)
<1>1. SliceRoot(leaves) = f
  BY DEF SliceRoot
<1>2. \E g : g = Body(g)
  <2>1. PICK g : RootsTo(leaves, Len(leaves), g)
    BY RootsExist
  <2>2. Short(leaves, Len(leaves)) = Slices(leaves)
    BY DEF Short, Slices
  <2>3. g = Body(g)
    BY <2>1, <2>2 DEF RootsTo, RootOf
  <2> QED BY <2>3
<1>3. f = Body(f)
  <2> HIDE DEF Body
  <2> QED BY <1>2
<1> HIDE DEF f
<1>4. f[<<lo, hi>>] = RootOf(leaves, f, lo, hi)
  BY <1>3 DEF RootOf
<1> QED BY <1>1, <1>4

\* Slices of the same place and the same root hold the same leaves.
LEMMA SliceRootInjective ==
  ASSUME NEW a, NEW b, NEW n \in Nat, Len(a) = n, Len(b) = n,
         NEW lo, NEW hi, <<lo, hi>> \in Slices(a),
         SliceRoot(a)[<<lo, hi>>] = SliceRoot(b)[<<lo, hi>>]
  PROVE  \A j \in (lo + 1)..hi : a[j] = b[j]
<1> DEFINE Odd(p, q) == /\ <<p, q>> \in Slices(a) /\ SliceRoot(a)[<<p, q>>] = SliceRoot(b)[<<p, q>>]
                        /\ \E j \in (p + 1)..q : a[j] # b[j]
           T == {w \in Nat : \E p, q : Odd(p, q) /\ w = q - p}
<1>1. SUFFICES ASSUME Odd(lo, hi) PROVE FALSE
  OBVIOUS
<1>2. Slices(b) = Slices(a)
  BY DEF Slices
<1>3. \A p, q : <<p, q>> \in Slices(a) => p \in Nat /\ q \in Nat /\ p < q
  BY DEF Slices
<1>4. hi - lo \in T
  <2>1. hi - lo \in Nat
    BY <1>1, <1>3
  <2> HIDE DEF Odd
  <2> QED BY <1>1, <2>1
<1>5. PICK w \in T : \A v \in T : w =< v
  BY <1>4, Least
<1>6. PICK p, q : Odd(p, q) /\ w = q - p
  OBVIOUS
<1>7. p \in Nat /\ q \in Nat /\ p < q /\ <<p, q>> \in Slices(b)
  BY <1>2, <1>3, <1>6
<1>8. RootOf(a, SliceRoot(a), p, q) = RootOf(b, SliceRoot(b), p, q)
  BY <1>2, <1>6, SliceRootEquation
<1>9. CASE q - p = 1
  BY <1>6, <1>7, <1>8, <1>9 DEF RootOf
<1>10. CASE q - p # 1
  <2>1. PICK c : c = Cut(p, q)
    OBVIOUS
  <2>2. c \in (p + 1)..(q - 1) /\ <<p, c>> \in Slices(a) /\ <<c, q>> \in Slices(a)
    BY <1>6, <1>10, <2>1, Halves
  <2>3. /\ SliceRoot(a)[<<p, c>>] = SliceRoot(b)[<<p, c>>]
        /\ SliceRoot(a)[<<c, q>>] = SliceRoot(b)[<<c, q>>]
    BY <1>8, <1>10, <2>1 DEF RootOf, node
  <2>4. c - p \in Nat /\ q - c \in Nat /\ c - p < w /\ q - c < w
    BY <1>6, <1>7, <2>2
  <2>5. PICK j \in (p + 1)..q : a[j] # b[j]
    BY <1>6
  <2>6. j \in (p + 1)..c \/ j \in (c + 1)..q
    BY <1>7, <2>2
  <2>7. Odd(p, c) \/ Odd(c, q)
    BY <2>2, <2>3, <2>5, <2>6
  <2> HIDE DEF Odd
  <2>8. c - p \in T \/ q - c \in T
    BY <2>4, <2>7
  <2>9. w \in Nat
    OBVIOUS
  <2> HIDE DEF T
  <2> QED BY <1>5, <2>4, <2>8, <2>9
<1> QED BY <1>9, <1>10

\* merkle_root commits to the list: lists of one length and one root agree.
LEMMA RootInjective ==
  ASSUME NEW a, NEW b, NEW n \in Nat \ {0}, Len(a) = n, Len(b) = n, merkle_root(a) = merkle_root(b)
  PROVE  \A j \in 1..n : a[j] = b[j]
<1>1. a # <<>> /\ b # <<>>
  <2>1. Len(<<>>) = 0
    OBVIOUS
  <2> QED BY <2>1
<1>2. SliceRoot(a)[<<0, n>>] = SliceRoot(b)[<<0, n>>]
  BY <1>1 DEF merkle_root
<1>3. <<0, n>> \in Slices(a)
  BY DEF Slices
<1>4. \A j \in (0 + 1)..n : a[j] = b[j]
  BY <1>2, <1>3, SliceRootInjective
<1> QED BY <1>4

-----------------------------------------------------------------------------
(* The powers of two *)

Doublings(f, n) == f = [m \in 0..n |-> IF m = 0 THEN 1 ELSE 2 * f[m - 1]]

\* Up to any number there are powers of two.
LEMMA DoublingsExist ==
  ASSUME NEW n \in Nat
  PROVE  \E f : Doublings(f, n)
<1> DEFINE T == {m \in Nat : \E f : Doublings(f, m)}
<1>1. 0 \in T
  <2> DEFINE z == [m \in 0..0 |-> 1]
  <2>1. Doublings(z, 0)
    BY DEF Doublings
  <2> HIDE DEF z
  <2> QED BY <2>1
<1>2. ASSUME NEW m \in T
      PROVE  m + 1 \in T
  <2>1. PICK f : Doublings(f, m)
    OBVIOUS
  <2> DEFINE g == [p \in 0..(m + 1) |-> IF p = 0 THEN 1 ELSE 2 * f[p - 1]]
  <2>2. m \in Nat
    OBVIOUS
  <2>3. ASSUME NEW p \in 0..m
        PROVE  g[p] = f[p]
    BY <2>1, <2>2 DEF Doublings
  <2>4. ASSUME NEW p \in 0..(m + 1), p # 0
        PROVE  g[p - 1] = f[p - 1]
    <3>1. p - 1 \in 0..m
      BY <2>2, <2>4
    <3> HIDE DEF g
    <3> QED BY <2>3, <3>1
  <2>5. Doublings(g, m + 1)
    BY <2>2, <2>4 DEF Doublings
  <2> HIDE DEF g
  <2> QED BY <2>2, <2>5
<1> HIDE DEF T
<1>3. T = Nat
  <2>1. T \in SUBSET Nat
    BY DEF T
  <2> QED BY <1>1, <1>2, <2>1, Induct
<1> QED BY <1>3 DEF T

\* And they agree where two lists of them overlap.
LEMMA DoublingsAgree ==
  ASSUME NEW f, NEW g, NEW m \in Nat, NEW n \in Nat, Doublings(f, m), Doublings(g, n)
  PROVE  \A k \in Nat : k =< m /\ k =< n => f[k] = g[k]
<1> DEFINE T == {k \in Nat : k =< m /\ k =< n => f[k] = g[k]}
<1>1. 0 \in T
  BY DEF Doublings
<1>2. ASSUME NEW k \in T
      PROVE  k + 1 \in T
  <2>1. k \in Nat
    OBVIOUS
  <2>2. CASE k + 1 =< m /\ k + 1 =< n
    <3>1. f[k] = g[k] /\ k + 1 \in 0..m /\ k + 1 \in 0..n /\ k + 1 # 0 /\ (k + 1) - 1 = k
      BY <2>1, <2>2
    <3>2. f[k + 1] = 2 * f[(k + 1) - 1] /\ g[k + 1] = 2 * g[(k + 1) - 1]
      BY <3>1 DEF Doublings
    <3> QED BY <2>1, <3>1, <3>2
  <2> QED BY <2>1, <2>2
<1> HIDE DEF T
<1>3. T = Nat
  <2>1. T \in SUBSET Nat
    BY DEF T
  <2> QED BY <1>1, <1>2, <2>1, Induct
<1> QED BY <1>3 DEF T

\* power is what its recursive definition says.
LEMMA PowerEquation ==
  /\ power[0] = 1
  /\ \A n \in Nat : power[n + 1] = 2 * power[n]
<1> DEFINE Body(f) == [n \in Nat |-> IF n = 0 THEN 1 ELSE 2 * f[n - 1]]
           f == CHOOSE f : f = Body(f)
           upto(n) == CHOOSE g : Doublings(g, n)
           h == [n \in Nat |-> upto(n)[n]]
<1>1. power = f
  BY DEF power
<1>2. \A n \in Nat : Doublings(upto(n), n)
  BY DoublingsExist
<1> HIDE DEF upto
<1>3. h = Body(h)
  <2>1. ASSUME NEW n \in Nat
        PROVE  h[n] = IF n = 0 THEN 1 ELSE 2 * h[n - 1]
    <3>1. Doublings(upto(n), n)
      BY <1>2
    <3>2. upto(n)[n] = IF n = 0 THEN 1 ELSE 2 * upto(n)[n - 1]
      BY <3>1 DEF Doublings
    <3>3. CASE n = 0
      BY <3>2, <3>3
    <3>4. CASE n # 0
      <4>1. n - 1 \in Nat /\ n - 1 =< n /\ n - 1 =< n - 1
        BY <3>4
      <4>2. Doublings(upto(n - 1), n - 1)
        BY <1>2, <4>1
      <4>3. upto(n)[n - 1] = upto(n - 1)[n - 1]
        <5>1. PICK u, v : u = upto(n) /\ v = upto(n - 1)
          OBVIOUS
        <5>2. Doublings(u, n) /\ Doublings(v, n - 1)
          BY <3>1, <4>2, <5>1
        <5>3. u[n - 1] = v[n - 1]
          BY <4>1, <5>2, DoublingsAgree
        <5> QED BY <5>1, <5>3
      <4>4. h[n - 1] = upto(n - 1)[n - 1] /\ h[n] = upto(n)[n]
        BY <4>1
      <4> QED BY <3>2, <3>4, <4>3, <4>4
    <3> QED BY <3>3, <3>4
  <2>2. h = [n \in Nat |-> h[n]]
    OBVIOUS
  <2> HIDE DEF h
  <2> QED BY <2>1, <2>2
<1> HIDE DEF h
<1>4. f = Body(f)
  <2>1. \E g : g = Body(g)
    BY <1>3
  <2> HIDE DEF Body
  <2> QED BY <2>1
<1> HIDE DEF f
<1>5. f[0] = 1
  BY <1>4
<1>6. ASSUME NEW n \in Nat
      PROVE  f[n + 1] = 2 * f[n]
  <2>1. n + 1 \in Nat /\ n + 1 # 0 /\ (n + 1) - 1 = n
    OBVIOUS
  <2>2. f[n + 1] = IF n + 1 = 0 THEN 1 ELSE 2 * f[(n + 1) - 1]
    BY <1>4, <2>1
  <2> QED BY <2>1, <2>2
<1> QED BY <1>1, <1>5, <1>6

\* Powers of two are positive.
LEMMA PowerType ==
  ASSUME NEW n \in Nat
  PROVE  power[n] \in Nat \ {0}
<1> DEFINE T == {m \in Nat : power[m] \in Nat \ {0}}
<1>1. 0 \in T
  BY PowerEquation
<1>2. ASSUME NEW m \in T
      PROVE  m + 1 \in T
  <2>1. m \in Nat /\ power[m] \in Nat \ {0}
    OBVIOUS
  <2>2. power[m + 1] = 2 * power[m]
    BY <2>1, PowerEquation
  <2>3. power[m + 1] \in Nat \ {0}
    BY <2>1, <2>2
  <2> QED BY <2>1, <2>3
<1> HIDE DEF T
<1>3. T = Nat
  <2>1. T \in SUBSET Nat
    BY DEF T
  <2> QED BY <1>1, <1>2, <2>1, Induct
<1> QED BY <1>3 DEF T

\* Exponents add up.
LEMMA PowerSum ==
  ASSUME NEW a \in Nat, NEW b \in Nat
  PROVE  power[a + b] = power[a] * power[b]
<1> DEFINE T == {m \in Nat : power[a + m] = power[a] * power[m]}
<1>0. power[a] \in Nat
  BY PowerType
<1>1. 0 \in T
  <2>1. a + 0 = a /\ power[a] * 1 = power[a]
    BY <1>0
  <2> QED BY <2>1, PowerEquation
<1>2. ASSUME NEW m \in T
      PROVE  m + 1 \in T
  <2>1. m \in Nat /\ power[a + m] = power[a] * power[m]
    OBVIOUS
  <2>2. power[m + 1] = 2 * power[m] /\ power[m] \in Nat
    BY <2>1, PowerEquation, PowerType
  <2>3. a + (m + 1) = (a + m) + 1 /\ a + m \in Nat
    BY <2>1
  <2>4. power[a + (m + 1)] = 2 * power[a + m]
    BY <2>3, PowerEquation
  <2>5. PICK x, y : x = power[a] /\ y = power[m]
    OBVIOUS
  <2>6. 2 * (x * y) = x * (2 * y)
    BY <1>0, <2>2, <2>5
  <2>7. power[a + (m + 1)] = power[a] * power[m + 1]
    BY <2>1, <2>2, <2>4, <2>5, <2>6
  <2> QED BY <2>1, <2>7
<1> HIDE DEF T
<1>3. T = Nat
  <2>1. T \in SUBSET Nat
    BY DEF T
  <2> QED BY <1>1, <1>2, <2>1, Induct
<1> QED BY <1>3 DEF T

\* A power of two is above its exponent.
LEMMA PowerAbove ==
  ASSUME NEW n \in Nat
  PROVE  power[n] > n
<1> DEFINE T == {m \in Nat : power[m] > m}
<1>1. 0 \in T
  BY PowerEquation
<1>2. ASSUME NEW m \in T
      PROVE  m + 1 \in T
  <2>1. m \in Nat /\ power[m] > m /\ power[m] \in Nat \ {0}
    BY PowerType
  <2>2. power[m + 1] = 2 * power[m]
    BY <2>1, PowerEquation
  <2>3. power[m + 1] > m + 1
    BY <2>1, <2>2
  <2> QED BY <2>1, <2>3
<1> HIDE DEF T
<1>3. T = Nat
  <2>1. T \in SUBSET Nat
    BY DEF T
  <2> QED BY <1>1, <1>2, <2>1, Induct
<1> QED BY <1>3 DEF T

\* No odd number is an even one.
LEMMA OddNotEven ==
  ASSUME NEW m \in Int, NEW n \in Int
  PROVE  2 * m + 1 # 2 * n
OBVIOUS

\* A number has one odd part: half of the proof.
LEMMA OddPartBelow ==
  ASSUME NEW a \in Nat, NEW b \in Nat, NEW f \in Nat, NEW g \in Nat,
         (2 * f + 1) * power[a] = (2 * g + 1) * power[b]
  PROVE  ~(a < b)
<1>1. SUFFICES ASSUME a < b PROVE FALSE
  OBVIOUS
<1>2. PICK d \in Nat : b = a + (d + 1)
  <2>1. (b - a) - 1 \in Nat /\ b = a + (((b - a) - 1) + 1)
    BY <1>1
  <2> QED BY <2>1
<1>3. power[b] = power[a] * (2 * power[d])
  BY <1>2, PowerSum, PowerEquation
<1>4. PICK p, q : p = power[a] /\ q = power[d] /\ p \in Nat \ {0} /\ q \in Nat \ {0}
  BY PowerType
<1>5. (2 * f + 1) * p = (2 * g + 1) * (p * (2 * q))
  BY <1>3, <1>4
<1>6. (2 * g + 1) * (p * (2 * q)) = (2 * ((2 * g + 1) * q)) * p
  BY <1>4
<1>7. PICK x \in Nat : x = (2 * g + 1) * q
  BY <1>4
<1>8. (2 * f + 1) * p = (2 * x) * p
  BY <1>5, <1>6, <1>7
<1>9. 2 * f + 1 = 2 * x
  <2>1. PICK u \in Int, v \in Int : u = 2 * f + 1 /\ v = 2 * x
    BY <1>7
  <2>2. u * p = v * p
    BY <1>8, <2>1
  <2>3. (u - v) * p = 0
    BY <1>4, <2>2
  <2>4. u - v = 0
    BY <1>4, <2>3
  <2> QED BY <2>1, <2>4
<1> QED BY <1>7, <1>9, OddNotEven

\* A number has one odd part.
LEMMA OddPart ==
  ASSUME NEW a \in Nat, NEW b \in Nat, NEW f \in Nat, NEW g \in Nat,
         (2 * f + 1) * power[a] = (2 * g + 1) * power[b]
  PROVE  a = b /\ f = g
<1>1. a = b
  <2>1. ~(a < b)
    BY OddPartBelow
  <2>2. ~(b < a)
    BY OddPartBelow
  <2> QED BY <2>1, <2>2
<1>2. PICK p : p = power[a] /\ p \in Nat \ {0}
  BY PowerType
<1>3. (2 * f + 1) * p = (2 * g + 1) * p
  BY <1>1, <1>2
<1>4. f = g
  <2>1. PICK u \in Int, v \in Int : u = 2 * f + 1 /\ v = 2 * g + 1
    OBVIOUS
  <2>2. u * p = v * p
    BY <1>3, <2>1
  <2>3. (u - v) * p = 0
    BY <1>2, <2>2
  <2>4. u - v = 0
    BY <1>2, <2>3
  <2> QED BY <2>1, <2>4
<1> QED BY <1>1, <1>4

\* Quotient and remainder are the only ones.
LEMMA Quotient ==
  ASSUME NEW n \in Nat, NEW p \in Nat \ {0}, NEW q \in Nat, NEW r \in Nat, r < p, n = q * p + r
  PROVE  n \div p = q /\ n % p = r
OBVIOUS

\* A number is its quotient times the divisor and a rest below it.
LEMMA Division ==
  ASSUME NEW n \in Nat, NEW p \in Nat \ {0}
  PROVE  /\ n \div p \in Nat /\ n % p \in Nat /\ n % p < p
         /\ n = (n \div p) * p + (n % p)
OBVIOUS

\* Zeros counts the halvings up to the odd part.
LEMMA ZerosOf ==
  ASSUME NEW a \in Nat, NEW f \in Nat
  PROVE  Zeros((2 * f + 1) * power[a]) = a
<1> DEFINE n == (2 * f + 1) * power[a]
           Is(z) == n % power[z] = 0 /\ (n \div power[z]) % 2 = 1
<1>1. n \in Nat /\ a \in 0..n
  <2>1. PICK p : p = power[a] /\ p \in Nat /\ p > a
    BY PowerType, PowerAbove
  <2>2. (2 * f + 1) * p = (2 * f) * p + p
    BY <2>1
  <2>3. (2 * f) * p \in Nat
    BY <2>1
  <2> QED BY <2>1, <2>2, <2>3
<1>2. Is(a)
  <2>1. PICK p : p = power[a] /\ p \in Nat \ {0}
    BY PowerType
  <2>2. PICK u \in Nat : u = 2 * f + 1
    OBVIOUS
  <2>3. n = u * p + 0
    BY <2>1, <2>2
  <2>4. n \div p = u /\ n % p = 0
    BY <1>1, <2>1, <2>3, Quotient
  <2>5. u % 2 = 1
    BY <2>2
  <2> QED BY <2>1, <2>4, <2>5
<1>3. ASSUME NEW z \in 0..n, Is(z)
      PROVE  z = a
  <2>1. PICK p : p = power[z] /\ p \in Nat \ {0}
    BY <1>1, PowerType
  <2> DEFINE q == n \div p
  <2>2. q \in Nat /\ n = q * p + (n % p)
    BY <1>1, <2>1, Division
  <2>3. n % p = 0 /\ q % 2 = 1
    BY <1>3, <2>1
  <2> HIDE DEF q
  <2>4. PICK g \in Nat : q = 2 * g + 1
    <3>1. q \div 2 \in Nat /\ q = 2 * (q \div 2) + 1
      BY <2>2, <2>3
    <3> QED BY <3>1
  <2>5. n = (2 * g + 1) * p
    <3> HIDE DEF n
    <3>1. n = q * p
      BY <2>1, <2>2, <2>3
    <3> QED BY <2>4, <3>1
  <2>6. z \in Nat
    BY <1>1
  <2> QED BY <2>1, <2>5, <2>6, OddPart
<1> HIDE DEF Is
<1>4. (CHOOSE z \in 0..n : Is(z)) = a
  BY <1>1, <1>2, <1>3
<1> HIDE DEF n
<1>5. Zeros(n) = a
  BY <1>4 DEF Zeros, Is
<1> QED BY <1>5 DEF n

\* Every number but 0 has an odd part.
LEMMA OddPartExists ==
  ASSUME NEW n \in Nat \ {0}
  PROVE  \E a \in Nat, f \in Nat : n = (2 * f + 1) * power[a]
<1> DEFINE Has(m) == \E a \in Nat, f \in Nat : m = (2 * f + 1) * power[a]
           T == {m \in Nat \ {0} : ~Has(m)}
<1>1. SUFFICES ASSUME T # {} PROVE FALSE
  OBVIOUS
<1>2. PICK m \in T : \A k \in T : m =< k
  <2>1. T \in SUBSET Nat
    OBVIOUS
  <2> HIDE DEF T
  <2> QED BY <1>1, <2>1, Least
<1>3. m \in Nat \ {0} /\ ~Has(m)
  OBVIOUS
<1>4. CASE m % 2 = 1
  <2>1. m \div 2 \in Nat /\ m = (2 * (m \div 2) + 1) * 1
    BY <1>3, <1>4
  <2>2. 0 \in Nat
    OBVIOUS
  <2> QED BY <1>3, <2>1, <2>2, PowerEquation
<1>5. CASE m % 2 = 0
  <2>1. PICK h \in Nat \ {0} : m = 2 * h /\ ~(m =< h)
    <3>1. m \div 2 \in Nat \ {0} /\ m = 2 * (m \div 2) /\ ~(m =< m \div 2)
      BY <1>3, <1>5
    <3> QED BY <3>1
  <2>2. Has(h)
    <3> HIDE DEF Has
    <3> QED BY <1>2, <2>1
  <2>3. PICK a \in Nat, f \in Nat : h = (2 * f + 1) * power[a]
    BY <2>2
  <2>4. a + 1 \in Nat /\ power[a + 1] = 2 * power[a] /\ power[a] \in Nat
    BY PowerEquation, PowerType
  <2>5. PICK p, u : p = power[a] /\ u = 2 * f + 1 /\ p \in Nat /\ u \in Nat
    BY <2>4
  <2>6. 2 * (u * p) = u * (2 * p)
    BY <2>5
  <2>7. m = (2 * f + 1) * power[a + 1]
    BY <2>1, <2>3, <2>4, <2>5, <2>6
  <2> QED BY <1>3, <2>4, <2>7
<1> QED BY <1>3, <1>4, <1>5

\* A slice is cut at the largest power of two inside it.
LEMMA CutAtPower ==
  ASSUME NEW n \in Nat, n >= 2
  PROVE  \E j \in Nat : k_below(n) = power[j] /\ power[j] < n /\ n =< 2 * power[j]
<1> DEFINE k == CHOOSE k : k = [m \in 1..n |-> IF m =< 2 THEN 1 ELSE 2 * k[(m + 1) \div 2]]
<1>1. k_below(n) = k[n]
  BY DEF k_below
<1>2. k = [m \in 1..n |-> IF m =< 2 THEN 1 ELSE 2 * k[(m + 1) \div 2]]
  BY HalvingsExist DEF Halvings
<1> HIDE DEF k
<1> DEFINE Good(m) == \E j \in Nat : k[m] = power[j] /\ power[j] < m /\ m =< 2 * power[j]
           T == {m \in Nat : m \in 2..n /\ ~Good(m)}
<1>3. T = {}
  <2>1. SUFFICES ASSUME T # {} PROVE FALSE
    OBVIOUS
  <2>2. PICK m \in T : \A p \in T : m =< p
    <3>1. T \in SUBSET Nat
      OBVIOUS
    <3> HIDE DEF T
    <3> QED BY <2>1, <3>1, Least
  <2>3. m \in 2..n /\ ~Good(m) /\ m \in Nat
    OBVIOUS
  <2>4. k[m] = IF m =< 2 THEN 1 ELSE 2 * k[(m + 1) \div 2]
    BY <1>2, <2>3
  <2>5. CASE m = 2
    <3>1. k[m] = 1
      BY <2>4, <2>5
    <3>2. 0 \in Nat /\ power[0] = 1
      BY PowerEquation
    <3> QED BY <2>3, <2>5, <3>1, <3>2
  <2>6. CASE m # 2
    <3>1. PICK h \in Nat : h = (m + 1) \div 2 /\ h \in 2..n /\ ~(m =< h) /\ 2 * h - 1 =< m /\ m =< 2 * h
      BY <2>3, <2>6
    <3>2. Good(h)
      <4> HIDE DEF Good
      <4> QED BY <2>2, <3>1
    <3>3. PICK j \in Nat : k[h] = power[j] /\ power[j] < h /\ h =< 2 * power[j]
      BY <3>2
    <3>4. k[m] = 2 * k[h]
      BY <2>3, <2>4, <2>6, <3>1
    <3>5. j + 1 \in Nat /\ power[j + 1] = 2 * power[j] /\ power[j] \in Nat
      BY PowerEquation, PowerType
    <3>6. k[m] = power[j + 1] /\ power[j + 1] < m /\ m =< 2 * power[j + 1]
      BY <2>3, <3>1, <3>3, <3>4, <3>5
    <3> QED BY <2>3, <3>5, <3>6
  <2> QED BY <2>5, <2>6
<1>4. n \in 2..n
  OBVIOUS
<1>5. Good(n)
  <2> HIDE DEF Good
  <2> QED BY <1>3, <1>4
<1> QED BY <1>1, <1>5

-----------------------------------------------------------------------------
(* A walk along a path *)

\* The fold that consumes a path from a cursor, over the subsets of 1..n.
Consuming(c, s, f, n) ==
  f = [t \in SUBSET (1..n) |->
         IF t = {} THEN c ELSE Consume(f[t \ {Max(t)}], s[Max(t)])]

\* The greatest member of a bounded set of positions.
LEMMA Greatest ==
  ASSUME NEW n \in Nat, NEW t \in SUBSET (1..n), t # {}
  PROVE  Max(t) \in t /\ \A k \in t : k =< Max(t)
<1> DEFINE D == {n - k : k \in t}
<1>1. D \in SUBSET Nat /\ D # {}
  <2>1. \A k \in t : n - k \in Nat
    OBVIOUS
  <2> QED BY <2>1
<1>2. PICK d \in D : \A e \in D : d =< e
  <2> HIDE DEF D
  <2> QED BY <1>1, Least
<1>3. PICK k \in t : d = n - k
  BY <1>2
<1>4. \A m \in t : m =< k
  <2> TAKE m \in t
  <2>1. n - m \in D /\ n - k =< n - m
    BY <1>2, <1>3
  <2> QED BY <2>1
<1>5. \A m \in t : k >= m
  BY <1>4
<1>6. Max(t) \in t /\ \A m \in t : Max(t) >= m
  BY <1>3, <1>5 DEF Max
<1> QED BY <1>6

\* The greatest of the first positions is the last.
LEMMA GreatestOf ==
  ASSUME NEW n \in Nat
  PROVE  Max(1..(n + 1)) = n + 1 /\ (1..(n + 1)) \ {n + 1} = 1..n
<1>1. PICK t \in SUBSET (1..(n + 1)) : t = 1..(n + 1)
  OBVIOUS
<1>2. n + 1 \in t
  BY <1>1
<1>3. Max(t) \in t /\ \A k \in t : k =< Max(t)
  <2>1. n + 1 \in Nat /\ t # {}
    BY <1>2
  <2> QED BY <2>1, Greatest
<1>4. Max(t) = n + 1
  <2>1. PICK m : m = Max(t)
    OBVIOUS
  <2>2. m \in 1..(n + 1) /\ n + 1 =< m
    BY <1>1, <1>2, <1>3, <2>1
  <2>3. m = n + 1
    BY <2>2
  <2> QED BY <2>1, <2>3
<1> QED BY <1>1, <1>4

\* There is a fold over every number of positions.
LEMMA ConsumingExists ==
  ASSUME NEW c, NEW s, NEW n \in Nat
  PROVE  \E f : Consuming(c, s, f, n)
<1> DEFINE T == {m \in Nat : \E f : Consuming(c, s, f, m)}
<1>1. 0 \in T
  <2> DEFINE z == [t \in SUBSET (1..0) |-> c]
  <2>1. SUBSET (1..0) = {{}}
    OBVIOUS
  <2>2. z = [t \in SUBSET (1..0) |-> IF t = {} THEN c ELSE Consume(z[t \ {Max(t)}], s[Max(t)])]
    <3>1. ASSUME NEW t \in SUBSET (1..0)
          PROVE  c = IF t = {} THEN c ELSE Consume(z[t \ {Max(t)}], s[Max(t)])
      BY <2>1
    <3> QED BY <3>1
  <2>3. Consuming(c, s, z, 0)
    BY <2>2 DEF Consuming
  <2> HIDE DEF z
  <2> QED BY <2>3
<1>2. ASSUME NEW m \in T
      PROVE  m + 1 \in T
  <2>1. PICK f : Consuming(c, s, f, m)
    OBVIOUS
  <2> DEFINE Body(t) == IF t = {} THEN c ELSE Consume(f[t \ {Max(t)}], s[Max(t)])
             g == [t \in SUBSET (1..(m + 1)) |-> Body(t)]
  <2>2. m \in Nat
    OBVIOUS
  <2>3. ASSUME NEW t \in SUBSET (1..m)
        PROVE  g[t] = f[t]
    <3>1. t \in SUBSET (1..(m + 1))
      BY <2>2
    <3>2. f[t] = Body(t)
      BY <2>1 DEF Consuming
    <3> QED BY <3>1, <3>2
  <2>4. ASSUME NEW t \in SUBSET (1..(m + 1)), t # {}
        PROVE  g[t \ {Max(t)}] = f[t \ {Max(t)}]
    <3>1. PICK x : x = Max(t)
      OBVIOUS
    <3>2. m + 1 \in Nat
      BY <2>2
    <3>3. x \in t /\ \A k \in t : k =< x
      BY <2>4, <3>1, <3>2, Greatest
    <3>4. t \ {x} \in SUBSET (1..m)
      <4> SUFFICES ASSUME NEW k \in t, k # x PROVE k \in 1..m
        OBVIOUS
      <4>1. k \in 1..(m + 1) /\ x \in 1..(m + 1) /\ k =< x
        BY <3>3
      <4> QED BY <2>2, <4>1
    <3> HIDE DEF g
    <3> QED BY <2>3, <3>1, <3>4
  <2>5. g = [t \in SUBSET (1..(m + 1)) |->
               IF t = {} THEN c ELSE Consume(g[t \ {Max(t)}], s[Max(t)])]
    <3>1. ASSUME NEW t \in SUBSET (1..(m + 1))
          PROVE  Body(t) = IF t = {} THEN c ELSE Consume(g[t \ {Max(t)}], s[Max(t)])
      <4>1. CASE t = {}
        BY <4>1
      <4>2. CASE t # {}
        <5>1. g[t \ {Max(t)}] = f[t \ {Max(t)}]
          BY <2>4, <4>2
        <5> HIDE DEF g
        <5> QED BY <4>2, <5>1
      <4> QED BY <4>1, <4>2
    <3> HIDE DEF Body
    <3> QED BY <3>1
  <2>6. Consuming(c, s, g, m + 1)
    BY <2>5 DEF Consuming
  <2> HIDE DEF g
  <2> QED BY <2>2, <2>6
<1> HIDE DEF T
<1>3. T = Nat
  <2>1. T \in SUBSET Nat
    BY DEF T
  <2> QED BY <1>1, <1>2, <2>1, Induct
<1> QED BY <1>3 DEF T

\* Along the initial parts of the path, one element after another.
LEMMA ConsumingNext ==
  ASSUME NEW c, NEW s, NEW f, NEW n \in Nat, Consuming(c, s, f, n)
  PROVE  /\ f[{}] = c
         /\ \A m \in Nat : m < n => f[1..(m + 1)] = Consume(f[1..m], s[m + 1])
<1>1. f[{}] = c
  BY DEF Consuming
<1>2. ASSUME NEW m \in Nat, m < n
      PROVE  f[1..(m + 1)] = Consume(f[1..m], s[m + 1])
  <2>1. PICK t : t = 1..(m + 1)
    OBVIOUS
  <2>2. t \in SUBSET (1..n) /\ m + 1 \in t
    BY <1>2, <2>1
  <2>3. t # {}
    BY <2>2
  <2>4. f[t] = Consume(f[t \ {Max(t)}], s[Max(t)])
    BY <2>2, <2>3 DEF Consuming
  <2>5. Max(t) = m + 1 /\ t \ {m + 1} = 1..m
    BY <2>1, GreatestOf
  <2> QED BY <2>1, <2>4, <2>5
<1> QED BY <1>1, <1>2

\* The fold is the last of the cursors along the path.
LEMMA FoldConsuming ==
  ASSUME NEW c, NEW s, NEW n \in Nat, DOMAIN s = 1..n
  PROVE  \E f : Consuming(c, s, f, n) /\ FoldLeft(Consume, c, s) = f[1..n]
<1> DEFINE f == CHOOSE f : f = [t \in SUBSET (DOMAIN s) |->
                  IF t = {} THEN c ELSE Consume(f[t \ {Max(t)}], s[Max(t)])]
<1>1. FoldLeft(Consume, c, s) = f[DOMAIN s]
  BY DEF FoldLeft, MapThenFoldSet
<1>2. f = [t \in SUBSET (DOMAIN s) |->
                  IF t = {} THEN c ELSE Consume(f[t \ {Max(t)}], s[Max(t)])]
  <2>1. \E g : g = [t \in SUBSET (DOMAIN s) |->
                  IF t = {} THEN c ELSE Consume(g[t \ {Max(t)}], s[Max(t)])]
    <3>1. PICK g : Consuming(c, s, g, n)
      BY ConsumingExists
    <3>2. g = [t \in SUBSET (DOMAIN s) |->
                  IF t = {} THEN c ELSE Consume(g[t \ {Max(t)}], s[Max(t)])]
      BY <3>1 DEF Consuming
    <3> QED BY <3>2
  <2> QED BY <2>1
<1> HIDE DEF f
<1>3. Consuming(c, s, f, n)
  BY <1>2 DEF Consuming
<1> QED BY <1>1, <1>3

\* No path, no step.
LEMMA FoldEmpty ==
  ASSUME NEW c
  PROVE  FoldLeft(Consume, c, <<>>) = c
<1>1. DOMAIN <<>> = 1..0 /\ 1..0 = {}
  OBVIOUS
<1>2. PICK f : Consuming(c, <<>>, f, 0) /\ FoldLeft(Consume, c, <<>>) = f[1..0]
  BY <1>1, FoldConsuming
<1> QED BY <1>1, <1>2, ConsumingNext

\* A longer path is walked by one more step.
LEMMA FoldAppend ==
  ASSUME NEW c, NEW S, NEW s \in Seq(S), NEW e \in S
  PROVE  FoldLeft(Consume, c, Append(s, e)) = Consume(FoldLeft(Consume, c, s), e)
<1>1. PICK n \in Nat : n = Len(s) /\ DOMAIN s = 1..n
  BY LenProperties
<1>2. PICK t : t = Append(s, e)
  OBVIOUS
<1>3. /\ DOMAIN t = 1..(n + 1)
      /\ \A k \in 1..n : t[k] = s[k]
      /\ t[n + 1] = e
  BY <1>1, <1>2, AppendProperties, LenProperties
<1>4. PICK f : Consuming(c, s, f, n) /\ FoldLeft(Consume, c, s) = f[1..n]
  BY <1>1, FoldConsuming
<1>5. PICK g : Consuming(c, t, g, n + 1) /\ FoldLeft(Consume, c, t) = g[1..(n + 1)]
  BY <1>3, FoldConsuming
<1> DEFINE T == {m \in Nat : m =< n => f[1..m] = g[1..m]}
<1>6. /\ f[{}] = c
      /\ \A m \in Nat : m < n => f[1..(m + 1)] = Consume(f[1..m], s[m + 1])
  BY <1>4, ConsumingNext
<1>7. /\ g[{}] = c
      /\ \A m \in Nat : m < n + 1 => g[1..(m + 1)] = Consume(g[1..m], t[m + 1])
  <2>1. n + 1 \in Nat
    OBVIOUS
  <2> QED BY <1>5, <2>1, ConsumingNext
<1>8. 0 \in T
  <2>1. 1..0 = {}
    OBVIOUS
  <2> QED BY <1>6, <1>7, <2>1
<1>9. ASSUME NEW m \in T
      PROVE  m + 1 \in T
  <2>1. m \in Nat
    OBVIOUS
  <2>2. CASE m + 1 =< n
    <3>1. f[1..m] = g[1..m] /\ m < n /\ m < n + 1 /\ t[m + 1] = s[m + 1]
      BY <1>3, <2>1, <2>2
    <3>2. f[1..(m + 1)] = g[1..(m + 1)]
      BY <1>6, <1>7, <2>1, <3>1
    <3> QED BY <2>1, <3>2
  <2> QED BY <2>1, <2>2
<1> HIDE DEF T
<1>10. n \in T
  <2>1. T \in SUBSET Nat
    BY DEF T
  <2>2. T = Nat
    BY <1>8, <1>9, <2>1, Induct
  <2> QED BY <2>2
<1>11. f[1..n] = g[1..n]
  BY <1>10 DEF T
<1>12. g[1..(n + 1)] = Consume(g[1..n], t[n + 1])
  BY <1>7
<1> QED BY <1>2, <1>3, <1>4, <1>5, <1>11, <1>12

-----------------------------------------------------------------------------
(* The paths of the generator *)

\* What holds of a slice when of all shorter ones holds of every slice.
LEMMA SliceInduct ==
  ASSUME NEW leaves, Len(leaves) \in Nat, NEW G,
         \A lo, hi : /\ <<lo, hi>> \in Slices(leaves)
                     /\ \A p, q : <<p, q>> \in Slices(leaves) /\ q - p < hi - lo => <<p, q>> \in G
                     => <<lo, hi>> \in G
  PROVE  \A lo, hi : <<lo, hi>> \in Slices(leaves) => <<lo, hi>> \in G
<1> DEFINE T == {w \in Nat : \E p, q : <<p, q>> \in Slices(leaves) /\ <<p, q>> \notin G /\ w = q - p}
<1>1. \A p, q : <<p, q>> \in Slices(leaves) => p \in Nat /\ q \in Nat /\ p < q
  BY DEF Slices
<1>2. SUFFICES ASSUME NEW lo, NEW hi, <<lo, hi>> \in Slices(leaves), <<lo, hi>> \notin G PROVE FALSE
  OBVIOUS
<1>3. hi - lo \in T
  BY <1>1, <1>2
<1>4. PICK w \in T : \A v \in T : w =< v
  <2>1. T \in SUBSET Nat
    OBVIOUS
  <2> HIDE DEF T
  <2> QED BY <1>3, <2>1, Least
<1>5. PICK p, q : <<p, q>> \in Slices(leaves) /\ <<p, q>> \notin G /\ w = q - p
  OBVIOUS
<1>6. ASSUME NEW a, NEW b, <<a, b>> \in Slices(leaves), b - a < q - p
      PROVE  <<a, b>> \in G
  <2>1. a \in Nat /\ b \in Nat /\ a < b /\ w \in Nat
    BY <1>1, <1>6
  <2>2. SUFFICES ASSUME <<a, b>> \notin G PROVE FALSE
    OBVIOUS
  <2>3. b - a \in Nat
    BY <2>1
  <2>4. b - a \in T
    BY <1>6, <2>2, <2>3
  <2> HIDE DEF T
  <2>5. w =< b - a
    BY <1>4, <2>4
  <2> QED BY <1>5, <1>6, <2>1, <2>5
<1> QED BY <1>5, <1>6

\* What one call of the generator adds to the path of a half, for an inclusion
\* path to the leaf x, or a consistency path from the first x leaves.
PathStep(leaves, kind, x, f, lo, hi) ==
  LET root == SliceRoot(leaves)
      k    == Cut(lo, hi)
  IN  IF kind = "inclusion"
      THEN IF hi - lo = 1 THEN <<>>
           ELSE IF x < k THEN Append(f[<<lo, k>>], root[<<k, hi>>])
           ELSE Append(f[<<k, hi>>], root[<<lo, k>>])
      ELSE IF x = hi THEN IF lo = 0 THEN <<>> ELSE <<root[<<lo, hi>>]>>
           ELSE IF x =< k THEN Append(f[<<lo, k>>], root[<<k, hi>>])
           ELSE Append(f[<<k, hi>>], root[<<lo, k>>])

\* The slices the paths go through.
Through(leaves, kind, x) == IF kind = "inclusion" THEN Slices(leaves) ELSE Around(leaves, x)
ShortThrough(leaves, kind, x, w) == {s \in Through(leaves, kind, x) : s[2] - s[1] =< w}

PathsTo(leaves, kind, x, w, f) ==
  f = [s \in ShortThrough(leaves, kind, x, w) |-> PathStep(leaves, kind, x, f, s[1], s[2])]

\* The half a path goes through is one it is defined on.
LEMMA HalfThrough ==
  ASSUME NEW leaves, Len(leaves) \in Nat, NEW kind, NEW x \in Nat, NEW lo, NEW hi,
         <<lo, hi>> \in Through(leaves, kind, x), IF kind = "inclusion" THEN hi - lo # 1 ELSE x # hi
  PROVE  /\ lo \in Nat /\ hi \in Nat /\ <<lo, hi>> \in Slices(leaves)
         /\ Cut(lo, hi) \in (lo + 1)..(hi - 1)
         /\ (IF kind = "inclusion" THEN x < Cut(lo, hi) ELSE x =< Cut(lo, hi))
              => <<lo, Cut(lo, hi)>> \in Through(leaves, kind, x)
         /\ ~(IF kind = "inclusion" THEN x < Cut(lo, hi) ELSE x =< Cut(lo, hi))
              => <<Cut(lo, hi), hi>> \in Through(leaves, kind, x)
<1>1. <<lo, hi>> \in Slices(leaves) /\ (kind # "inclusion" => lo < x /\ x =< hi)
  BY DEF Through, Around
<1>2. lo \in Nat /\ hi \in Nat /\ lo < hi
  BY <1>1 DEF Slices
<1>3. hi - lo # 1
  BY <1>1, <1>2
<1>4. PICK c : c = Cut(lo, hi)
  OBVIOUS
<1>5. c \in (lo + 1)..(hi - 1) /\ <<lo, c>> \in Slices(leaves) /\ <<c, hi>> \in Slices(leaves)
  BY <1>1, <1>3, <1>4, Halves
<1>6. CASE kind = "inclusion"
  BY <1>1, <1>2, <1>4, <1>5, <1>6 DEF Through
<1>7. CASE kind # "inclusion"
  <2>1. x =< c => <<lo, c>> \in Around(leaves, x)
    BY <1>1, <1>5, <1>7 DEF Around
  <2>2. ~(x =< c) => <<c, hi>> \in Around(leaves, x)
    BY <1>1, <1>2, <1>5, <1>7 DEF Around
  <2> QED BY <1>1, <1>2, <1>4, <1>5, <1>7, <2>1, <2>2 DEF Through
<1> QED BY <1>6, <1>7

\* A step reads the path of the half it goes through, and no other.
LEMMA PathStepReads ==
  ASSUME NEW leaves, Len(leaves) \in Nat, NEW kind, NEW x \in Nat, NEW f, NEW g, NEW w \in Nat,
         \A s \in ShortThrough(leaves, kind, x, w) : f[s] = g[s],
         NEW lo, NEW hi, <<lo, hi>> \in Through(leaves, kind, x), hi - lo =< w + 1
  PROVE  PathStep(leaves, kind, x, f, lo, hi) = PathStep(leaves, kind, x, g, lo, hi)
<1>1. CASE IF kind = "inclusion" THEN hi - lo # 1 ELSE x # hi
  <2>1. PICK c : c = Cut(lo, hi)
    OBVIOUS
  <2>2. /\ lo \in Nat /\ hi \in Nat /\ c \in (lo + 1)..(hi - 1)
        /\ (IF kind = "inclusion" THEN x < c ELSE x =< c) => <<lo, c>> \in Through(leaves, kind, x)
        /\ ~(IF kind = "inclusion" THEN x < c ELSE x =< c) => <<c, hi>> \in Through(leaves, kind, x)
    BY <1>1, <2>1, HalfThrough
  <2>3. c - lo =< w /\ hi - c =< w
    BY <2>2
  <2>4. CASE IF kind = "inclusion" THEN x < c ELSE x =< c
    <3>1. <<lo, c>> \in ShortThrough(leaves, kind, x, w)
      BY <2>2, <2>3, <2>4 DEF ShortThrough
    <3>2. f[<<lo, c>>] = g[<<lo, c>>]
      BY <3>1
    <3> QED BY <1>1, <2>1, <2>4, <3>2 DEF PathStep
  <2>5. CASE ~(IF kind = "inclusion" THEN x < c ELSE x =< c)
    <3>1. <<c, hi>> \in ShortThrough(leaves, kind, x, w)
      BY <2>2, <2>3, <2>5 DEF ShortThrough
    <3>2. f[<<c, hi>>] = g[<<c, hi>>]
      BY <3>1
    <3> QED BY <1>1, <2>1, <2>5, <3>2 DEF PathStep
  <2> QED BY <2>4, <2>5
<1>2. CASE ~(IF kind = "inclusion" THEN hi - lo # 1 ELSE x # hi)
  BY <1>2 DEF PathStep
<1> QED BY <1>1, <1>2

\* The slices of every width have paths.
LEMMA PathsExist ==
  ASSUME NEW leaves, Len(leaves) \in Nat, NEW kind, NEW x \in Nat
  PROVE  \A w \in Nat : \E f : PathsTo(leaves, kind, x, w, f)
<1> DEFINE T == {w \in Nat : \E f : PathsTo(leaves, kind, x, w, f)}
<1>1. 0 \in T
  <2>1. ShortThrough(leaves, kind, x, 0) = {}
    BY DEF ShortThrough, Through, Around, Slices
  <2>2. PathsTo(leaves, kind, x, 0, [s \in {} |-> 0])
    BY <2>1 DEF PathsTo
  <2> QED BY <2>2
<1>2. ASSUME NEW w \in T
      PROVE  w + 1 \in T
  <2>1. PICK f : PathsTo(leaves, kind, x, w, f)
    OBVIOUS
  <2> DEFINE g == [s \in ShortThrough(leaves, kind, x, w + 1) |-> PathStep(leaves, kind, x, f, s[1], s[2])]
  <2>2. w \in Nat
    OBVIOUS
  <2>3. ASSUME NEW s \in ShortThrough(leaves, kind, x, w)
        PROVE  g[s] = f[s]
    <3>1. f[s] = PathStep(leaves, kind, x, f, s[1], s[2])
      BY <2>1 DEF PathsTo
    <3>2. s \in ShortThrough(leaves, kind, x, w + 1)
      BY <2>2 DEF ShortThrough, Through, Around, Slices
    <3> QED BY <3>1, <3>2
  <2>4. ASSUME NEW s \in ShortThrough(leaves, kind, x, w + 1)
        PROVE  PathStep(leaves, kind, x, f, s[1], s[2]) = PathStep(leaves, kind, x, g, s[1], s[2])
    <3>1. s \in Through(leaves, kind, x)
      BY DEF ShortThrough
    <3>2. PICK lo, hi : s = <<lo, hi>> /\ s[1] = lo /\ s[2] = hi
      BY <3>1 DEF Through, Around, Slices
    <3>3. <<lo, hi>> \in Through(leaves, kind, x) /\ hi - lo =< w + 1
      BY <3>2 DEF ShortThrough
    <3> HIDE DEF g
    <3>4. PICK h : h = g
      OBVIOUS
    <3>5. \A t \in ShortThrough(leaves, kind, x, w) : f[t] = h[t]
      BY <2>3, <3>4
    <3>6. PathStep(leaves, kind, x, f, lo, hi) = PathStep(leaves, kind, x, h, lo, hi)
      BY <2>2, <3>3, <3>5, PathStepReads
    <3> QED BY <3>2, <3>4, <3>6
  <2>5. PathsTo(leaves, kind, x, w + 1, g)
    BY <2>4 DEF PathsTo
  <2> QED BY <2>2, <2>5
<1> HIDE DEF T
<1>3. T = Nat
  <2>1. T \in SUBSET Nat
    BY DEF T
  <2> QED BY <1>1, <1>2, <2>1, Induct
<1> QED BY <1>3 DEF T

\* The generator's recursive function of the slices.
Paths(leaves, kind, x) ==
  CHOOSE f : f = [s \in Through(leaves, kind, x) |-> PathStep(leaves, kind, x, f, s[1], s[2])]

\* The path of a slice is that of the half it goes through and one node.
LEMMA PathsEquation ==
  ASSUME NEW leaves, Len(leaves) \in Nat, NEW kind, NEW x \in Nat,
         NEW lo, NEW hi, <<lo, hi>> \in Through(leaves, kind, x)
  PROVE  Paths(leaves, kind, x)[<<lo, hi>>] = PathStep(leaves, kind, x, Paths(leaves, kind, x), lo, hi)
<1>1. PICK g : PathsTo(leaves, kind, x, Len(leaves), g)
  BY PathsExist
<1>2. ShortThrough(leaves, kind, x, Len(leaves)) = Through(leaves, kind, x)
  BY DEF ShortThrough, Through, Around, Slices
<1>3. g = [s \in Through(leaves, kind, x) |-> PathStep(leaves, kind, x, g, s[1], s[2])]
  BY <1>1, <1>2 DEF PathsTo
<1>4. PICK f : f = Paths(leaves, kind, x)
  OBVIOUS
<1>5. f = [s \in Through(leaves, kind, x) |-> PathStep(leaves, kind, x, f, s[1], s[2])]
  BY <1>3, <1>4 DEF Paths
<1>6. f[<<lo, hi>>] = PathStep(leaves, kind, x, f, lo, hi)
  BY <1>5
<1> QED BY <1>4, <1>6

\* inclusion_path and consistency_path are the paths of the whole list.
LEMMA InclusionPath ==
  ASSUME NEW leaves, NEW x
  PROVE  inclusion_path(leaves, x) = Paths(leaves, "inclusion", x)[<<0, Len(leaves)>>]
BY DEF inclusion_path, Paths, Through, PathStep

\* The same, between two sizes.
LEMMA ConsistencyPath ==
  ASSUME NEW leaves, NEW x
  PROVE  consistency_path(leaves, x) = Paths(leaves, "consistency", x)[<<0, Len(leaves)>>]
BY DEF consistency_path, Paths, Through, PathStep

-----------------------------------------------------------------------------
(* Where a walk is when it has consumed the path of a slice *)

\* Larger exponents, larger powers.
LEMMA PowerMonotone ==
  ASSUME NEW a \in Nat, NEW b \in Nat, a =< b
  PROVE  power[a] =< power[b]
<1>1. PICK d \in Nat : b = a + d
  <2>1. b - a \in Nat /\ b = a + (b - a)
    OBVIOUS
  <2> QED BY <2>1
<1>2. power[b] = power[a] * power[d]
  BY <1>1, PowerSum
<1>3. PICK p, q : p = power[a] /\ q = power[d] /\ p \in Nat \ {0} /\ q \in Nat \ {0}
  BY PowerType
<1>4. p =< p * q
  <2>1. PICK r \in Nat : q = r + 1
    <3>1. q - 1 \in Nat /\ q = (q - 1) + 1
      BY <1>3
    <3> QED BY <3>1
  <2>2. p * q = p * r + p /\ p * r \in Nat
    BY <1>3, <2>1
  <2> QED BY <1>3, <2>2
<1> QED BY <1>2, <1>3, <1>4

\* Only one power of two is the largest below a number.
LEMMA PowerBelow ==
  ASSUME NEW n \in Nat, NEW a \in Nat, NEW b \in Nat,
         power[a] < n, n =< 2 * power[a], power[b] < n, n =< 2 * power[b]
  PROVE  a = b
<1>1. ASSUME NEW c \in Nat, NEW d \in Nat, power[d] < n, n =< 2 * power[c], c < d
      PROVE  FALSE
  <2>1. c + 1 \in Nat /\ c + 1 =< d
    BY <1>1
  <2>2. power[c + 1] =< power[d] /\ power[c + 1] = 2 * power[c]
    BY <2>1, PowerMonotone, PowerEquation
  <2>3. power[c] \in Nat /\ power[d] \in Nat
    BY PowerType
  <2> QED BY <1>1, <2>2, <2>3
<1>2. ~(a < b) /\ ~(b < a)
  BY <1>1
<1> QED BY <1>2

\* The slices the recursion of the RFC meets in a tree of n leaves: they start
\* at a multiple of a power of two and are that long, or end with the tree.
OnGrid(n, lo, hi) ==
  \E h \in Nat, m \in Nat :
    lo = m * power[h] /\ hi =< lo + power[h] /\ (hi < n => hi = lo + power[h])

\* The halves of such a slice.
Halved(n, lo, k, hi, j, m) ==
  /\ k = lo + power[j] /\ lo = m * (2 * power[j])
  /\ k < hi /\ hi =< lo + 2 * power[j]
  /\ hi < n => hi = lo + 2 * power[j]

\* A slice of two leaves or more is cut at a power of two.
LEMMA GridHalves ==
  ASSUME NEW n \in Nat, NEW lo \in Nat, NEW hi \in Nat, hi =< n, hi - lo >= 2, OnGrid(n, lo, hi)
  PROVE  \E j \in Nat, m \in Nat : Halved(n, lo, Cut(lo, hi), hi, j, m)
<1>1. PICK h \in Nat, m \in Nat :
        lo = m * power[h] /\ hi =< lo + power[h] /\ (hi < n => hi = lo + power[h])
  BY DEF OnGrid
<1>2. hi - lo \in Nat
  OBVIOUS
<1>3. PICK j \in Nat : k_below(hi - lo) = power[j] /\ power[j] < hi - lo /\ hi - lo =< 2 * power[j]
  BY <1>2, CutAtPower
<1>4. power[j] \in Nat \ {0} /\ power[h] \in Nat \ {0}
  BY PowerType
<1>5. j < h
  <2>1. ~(h =< j)
    BY <1>1, <1>3, <1>4, PowerMonotone
  <2> QED BY <2>1
<1>6. PICK d \in Nat : h = (j + 1) + d
  <2>1. h - (j + 1) \in Nat /\ h = (j + 1) + (h - (j + 1))
    BY <1>5
  <2> QED BY <2>1
<1>7. power[h] = (2 * power[j]) * power[d]
  <2>1. j + 1 \in Nat
    OBVIOUS
  <2>2. power[h] = power[j + 1] * power[d]
    BY <1>6, <2>1, PowerSum
  <2> QED BY <2>2, PowerEquation
<1>8. 2 * power[j] =< power[h]
  <2>1. j + 1 \in Nat /\ j + 1 =< h
    BY <1>5
  <2>2. power[j + 1] =< power[h]
    BY <2>1, PowerMonotone
  <2> QED BY <2>2, PowerEquation
<1>9. PICK p, q : p = power[j] /\ q = power[d] /\ p \in Nat /\ q \in Nat
  BY PowerType
<1>10. m * q \in Nat /\ lo = (m * q) * (2 * power[j])
  <2>1. m * ((2 * p) * q) = (m * q) * (2 * p)
    BY <1>9
  <2> QED BY <1>1, <1>7, <1>9, <2>1
<1>11. Cut(lo, hi) = lo + power[j] /\ lo + power[j] < hi /\ hi =< lo + 2 * power[j]
  BY <1>3, <1>4 DEF Cut
<1>12. hi < n => hi = lo + 2 * power[j]
  <2>1. PICK u, v : u = power[j] /\ v = power[h] /\ u \in Nat /\ v \in Nat
    BY PowerType
  <2>2. hi < n => hi = lo + v
    BY <1>1, <2>1
  <2>3. hi - lo =< 2 * u /\ 2 * u =< v
    BY <1>3, <1>8, <2>1
  <2>4. hi < n => hi = lo + 2 * u
    BY <2>1, <2>2, <2>3
  <2> QED BY <2>1, <2>4
<1> QED BY <1>10, <1>11, <1>12 DEF Halved

\* Its halves are slices of the recursion too.
LEMMA HalvesOnGrid ==
  ASSUME NEW n \in Nat, NEW lo \in Nat, NEW hi \in Nat, NEW k, NEW j \in Nat, NEW m \in Nat,
         hi =< n, Halved(n, lo, k, hi, j, m)
  PROVE  k \in Nat /\ OnGrid(n, lo, k) /\ OnGrid(n, k, hi)
<1>1. PICK p : p = power[j] /\ p \in Nat \ {0}
  BY PowerType
<1>2. k = lo + p /\ lo = m * (2 * p) /\ hi =< lo + 2 * p /\ (hi < n => hi = lo + 2 * p)
  BY <1>1 DEF Halved
<1>3. lo = (2 * m) * p /\ k = (2 * m + 1) * p
  BY <1>1, <1>2
<1>4. hi =< k + p /\ (hi < n => hi = k + p) /\ k \in Nat
  BY <1>1, <1>2
<1>5. 2 * m \in Nat /\ 2 * m + 1 \in Nat /\ k =< lo + p
  BY <1>1, <1>2
<1>6. OnGrid(n, lo, k)
  BY <1>1, <1>2, <1>3, <1>5 DEF OnGrid
<1>7. OnGrid(n, k, hi)
  BY <1>1, <1>3, <1>4, <1>5 DEF OnGrid
<1> QED BY <1>4, <1>6, <1>7

\* A cursor over the slice lo..hi - 1 of n leaves, holding two hashes of it.
Standing(c, fn, sn, fr, sr) ==
  /\ DOMAIN c = {"fn", "sn", "fr", "sr", "longer"}
  /\ c.fn = fn /\ c.sn = sn /\ c.fr = fr /\ c.sr = sr /\ ~c.longer

\* What the shifts and the two branches make of a cursor.
LEMMA StandingClimbed ==
  ASSUME NEW c, NEW fn, NEW sn, NEW fr, NEW sr, Standing(c, fn, sn, fr, sr), NEW k, NEW p, p = power[k]
  PROVE  Standing(Climbed(c, k), fn \div p, sn \div p, fr, sr)
<1>1. PICK d : d = Climbed(c, k)
  OBVIOUS
<1>2. /\ DOMAIN d = {"fn", "sn", "fr", "sr", "longer"} /\ d.fn = c.fn \div p /\ d.sn = c.sn \div p
      /\ d.fr = c.fr /\ d.sr = c.sr /\ d.longer = c.longer
  BY <1>1 DEF Climbed, Standing
<1>3. Standing(d, fn \div p, sn \div p, fr, sr)
  BY <1>2 DEF Standing
<1> QED BY <1>1, <1>3

\* A node to the right is hashed into one of the hashes only.
LEMMA StandingRight ==
  ASSUME NEW c, NEW fn, NEW sn, NEW fr, NEW sr, Standing(c, fn, sn, fr, sr), NEW e
  PROVE  Standing([c EXCEPT !.sr = node(@, e)], fn, sn, fr, node(sr, e))
<1>1. PICK d : d = [c EXCEPT !.sr = node(@, e)]
  OBVIOUS
<1>2. Standing(d, fn, sn, fr, node(sr, e))
  BY <1>1 DEF Standing
<1> QED BY <1>1, <1>2

\* A node to the left is hashed into both.
LEMMA StandingLeft ==
  ASSUME NEW c, NEW fn, NEW sn, NEW fr, NEW sr, Standing(c, fn, sn, fr, sr), NEW e
  PROVE  Standing([c EXCEPT !.fr = node(e, @), !.sr = node(e, @)], fn, sn, node(e, fr), node(e, sr))
<1>1. PICK d : d = [c EXCEPT !.fr = node(e, @), !.sr = node(e, @)]
  OBVIOUS
<1>2. Standing(d, fn, sn, node(e, fr), node(e, sr))
  BY <1>1 DEF Standing
<1> QED BY <1>1, <1>2

Covers(fn, sn, z, n, lo, hi) ==
  /\ fn * power[z] = lo
  /\ sn * power[z] =< n - 1 /\ n - 1 < (sn + 1) * power[z]
  /\ hi =< lo + power[z] /\ (hi < n => hi = lo + power[z])

Over(c, n, lo, hi, fr, sr) ==
  \E fn \in Nat, sn \in Nat, z \in Nat :
    Standing(c, fn, sn, fr, sr) /\ Covers(fn, sn, z, n, lo, hi)

\* A sum times a number.
LEMMA Distributes ==
  ASSUME NEW a \in Int, NEW b \in Int, NEW p \in Int
  PROVE  (a + b) * p = a * p + b * p /\ p * (a + b) = p * a + p * b /\ a * p \in Int
OBVIOUS

\* The order of factors does not matter.
LEMMA Associates ==
  ASSUME NEW a \in Int, NEW b \in Int, NEW p \in Int
  PROVE  a * (b * p) = (a * b) * p /\ a * b = b * a /\ 1 * p = p
OBVIOUS

\* A node to the right completes a left half.
LEMMA OverLeft ==
  ASSUME NEW n \in Nat, NEW lo \in Nat, NEW hi \in Nat, NEW k, NEW j \in Nat, NEW m \in Nat,
         hi =< n, Halved(n, lo, k, hi, j, m),
         NEW c, NEW fr, NEW sr, NEW e, Over(c, n, lo, k, fr, sr)
  PROVE  Over(Consume(c, e), n, lo, hi, fr, node(sr, e))
<1>1. PICK fn \in Nat, sn \in Nat, z \in Nat :
        Standing(c, fn, sn, fr, sr) /\ Covers(fn, sn, z, n, lo, k)
  BY DEF Over
<1>2. PICK p, q : p = power[z] /\ q = power[j] /\ p \in Nat \ {0} /\ q \in Nat \ {0}
  BY PowerType
<1>3. /\ fn * p = lo /\ sn * p =< n - 1 /\ n - 1 < (sn + 1) * p
      /\ k < n => k = lo + p
  BY <1>1, <1>2 DEF Covers
<1>4. /\ k = lo + q /\ lo = m * (2 * q) /\ k < hi /\ hi =< lo + 2 * q
      /\ hi < n => hi = lo + 2 * q
  BY <1>2 DEF Halved
<1>5. k < n /\ p = q
  BY <1>2, <1>3, <1>4
<1>6. fn = 2 * m
  <2>1. fn * p = (2 * m) * p
    BY <1>2, <1>3, <1>4, <1>5
  <2>2. (fn - 2 * m) * p = 0
    BY <1>2, <2>1
  <2> QED BY <1>2, <2>2
<1>7. sn # 0 /\ sn # fn
  <2>1. k = (fn + 1) * p
    BY <1>2, <1>3, <1>4, <1>5, SMTT(30)
  <2>2. (fn + 1) * p < (sn + 1) * p
    BY <1>2, <1>3, <1>4, <1>5, <2>1
  <2>3. ~(sn =< fn)
    <3>1. SUFFICES ASSUME sn =< fn PROVE FALSE
      OBVIOUS
    <3>2. PICK d \in Nat : fn = sn + d
      <4>1. fn - sn \in Nat /\ fn = sn + (fn - sn)
        BY <3>1
      <4> QED BY <4>1
    <3>3. (fn + 1) * p = (sn + 1) * p + d * p /\ d * p \in Nat
      BY <1>2, <3>2
    <3>4. (fn + 1) * p \in Nat /\ (sn + 1) * p \in Nat
      BY <1>2
    <3> QED BY <2>2, <3>3, <3>4
  <2> QED BY <2>3
<1>8. fn % 2 # 1 /\ fn \div 2 = m
  BY <1>6
<1>9. Standing(Consume(c, e), m, sn \div 2, fr, node(sr, e))
  <2>1. power[1] = 2
    <3>1. power[0 + 1] = 2 * power[0] /\ 0 + 1 = 1
      BY PowerEquation
    <3> QED BY <3>1, PowerEquation
  <2>2. c.fn = fn /\ c.sn = sn /\ ~c.longer
    BY <1>1 DEF Standing
  <2>3. Consume(c, e) = Climbed([c EXCEPT !.sr = node(@, e)], 1)
    BY <1>7, <1>8, <2>2 DEF Consume, WithRight
  <2>4. Standing([c EXCEPT !.sr = node(@, e)], fn, sn, fr, node(sr, e))
    BY <1>1, StandingRight
  <2>5. Standing(Consume(c, e), fn \div 2, sn \div 2, fr, node(sr, e))
    BY <2>1, <2>3, <2>4, StandingClimbed
  <2> QED BY <1>8, <2>5
<1>10. PICK s, r : s = sn \div 2 /\ r = sn % 2 /\ s \in Nat /\ r \in {0, 1} /\ sn = 2 * s + r
  OBVIOUS
<1>11. z + 1 \in Nat /\ power[z + 1] = 2 * p
  BY <1>2, PowerEquation
<1>12. s * (2 * p) =< n - 1 /\ n - 1 < (s + 1) * (2 * p)
  <2>0. p \in Int /\ s \in Int /\ r \in Int /\ 2 * p \in Int /\ 2 * s \in Int
    BY <1>2, <1>10
  <2>1. sn * p = s * (2 * p) + r * p /\ (sn + 1) * p = s * (2 * p) + r * p + p
    <3>1. (2 * s + r) * p = (2 * s) * p + r * p
      BY <2>0, Distributes
    <3>2. (sn + 1) * p = sn * p + 1 * p /\ 1 * p = p
      BY <2>0, Distributes, Associates
    <3>3. (2 * s) * p = s * (2 * p)
      BY <2>0
    <3> QED BY <1>10, <3>1, <3>2, <3>3
  <2>2. (s + 1) * (2 * p) = s * (2 * p) + 2 * p
    BY <2>0, Distributes, Associates
  <2>3. PICK x \in Nat : x = s * (2 * p)
    BY <1>2, <1>10
  <2>4. r * p \in {0, p}
    BY <1>2, <1>10
  <2> QED BY <1>2, <1>3, <2>1, <2>2, <2>3, <2>4
<1>13. Covers(m, s, z + 1, n, lo, hi)
  BY <1>4, <1>5, <1>11, <1>12 DEF Covers
<1> QED BY <1>8, <1>9, <1>10, <1>11, <1>13 DEF Over

\* A node to the left completes a right half, promotions included.
LEMMA OverRight ==
  ASSUME NEW n \in Nat, NEW lo \in Nat, NEW hi \in Nat, NEW k \in Nat, NEW j \in Nat, NEW m \in Nat,
         hi =< n, Halved(n, lo, k, hi, j, m),
         NEW c, NEW fr, NEW sr, NEW e, Over(c, n, k, hi, fr, sr)
  PROVE  Over(Consume(c, e), n, lo, hi, node(e, fr), node(e, sr))
<1>1. PICK fn \in Nat, sn \in Nat, z \in Nat :
        Standing(c, fn, sn, fr, sr) /\ Covers(fn, sn, z, n, k, hi)
  BY DEF Over
<1>2. PICK p, q : p = power[z] /\ q = power[j] /\ p \in Nat \ {0} /\ q \in Nat \ {0}
  BY PowerType
<1>3. /\ fn * p = k /\ sn * p =< n - 1 /\ n - 1 < (sn + 1) * p
      /\ hi =< k + p /\ (hi < n => hi = k + p)
  BY <1>1, <1>2 DEF Covers
<1>4. /\ k = lo + q /\ lo = m * (2 * q) /\ k < hi /\ hi =< lo + 2 * q
      /\ hi < n => hi = lo + 2 * q
  BY <1>2 DEF Halved
<1>5. k = (2 * m + 1) * q
  BY <1>2, <1>4
<1>6. fn # 0
  BY <1>2, <1>3, <1>4
<1>7. PICK a \in Nat, f \in Nat : fn = (2 * f + 1) * power[a]
  BY <1>6, OddPartExists
<1>8. PICK b : b = power[a] /\ b \in Nat \ {0}
  BY PowerType
<1>9. a + z = j /\ f = m /\ q = b * p
  <2>1. a + z \in Nat /\ power[a + z] = b * p
    BY <1>2, <1>8, PowerSum
  <2>2. ((2 * f + 1) * b) * p = (2 * f + 1) * (b * p)
    BY <1>2, <1>8
  <2>3. (2 * f + 1) * power[a + z] = (2 * m + 1) * power[j]
    BY <1>2, <1>3, <1>5, <1>7, <1>8, <2>1, <2>2
  <2>4. a + z = j /\ f = m
    BY <2>1, <2>3, OddPart
  <2> QED BY <1>2, <2>1, <2>4
<1>10. fn = (2 * m + 1) * b
  BY <1>7, <1>8, <1>9
<1>11. ~(sn < fn)
  <2>1. SUFFICES ASSUME sn < fn PROVE FALSE
    OBVIOUS
  <2>2. PICK d \in Nat : fn = (sn + 1) + d
    <3>1. fn - (sn + 1) \in Nat /\ fn = (sn + 1) + (fn - (sn + 1))
      BY <2>1
    <3> QED BY <3>1
  <2>3. fn * p = (sn + 1) * p + d * p /\ d * p \in Nat /\ (sn + 1) * p \in Nat
    BY <1>2, <2>2
  <2> QED BY <1>3, <1>4, <2>3
<1>12. fn % 2 = 1 \/ fn = sn
  <2>1. CASE a = 0
    <3>1. b = 1
      BY <1>8, <2>1, PowerEquation
    <3> QED BY <1>10, <3>1
  <2>2. CASE a # 0
    <3>1. hi = n
      <4>1. SUFFICES ASSUME hi < n PROVE FALSE
        OBVIOUS
      <4>2. p = q
        <5>1. hi = k + p /\ k = lo + q /\ hi = lo + 2 * q
          BY <1>3, <1>4, <4>1
        <5> HIDE <1>3, <1>4
        <5> QED BY <1>2, <5>1
      <4>3. b > 1
        BY <1>8, <2>2, PowerAbove
      <4>4. PICK d \in Nat : b = d + 2
        <5>1. b - 2 \in Nat /\ b = (b - 2) + 2
          BY <1>8, <4>3
        <5> QED BY <5>1
      <4>5. p \in Int /\ d \in Int /\ p > 0
        BY <1>2
      <4>6. b * p = d * p + 2 * p
        BY <4>4, <4>5, Distributes
      <4>7. d * p >= 0
        BY <1>2, <4>4
      <4>8. p = d * p + 2 * p
        BY <1>9, <4>2, <4>6
      <4> QED BY <4>5, <4>7, <4>8
    <3>2. sn * p < (fn + 1) * p
      <4>1. (fn + 1) * p = k + p
        <5>1. p \in Int /\ fn \in Int /\ 1 \in Int
          BY <1>2
        <5>2. (fn + 1) * p = fn * p + 1 * p /\ 1 * p = p
          BY <5>1, Distributes, Associates
        <5> QED BY <1>3, <5>2
      <4>2. sn * p \in Nat
        BY <1>2
      <4> QED BY <1>2, <1>3, <3>1, <4>1, <4>2
    <3>3. ~(fn < sn)
      <4>1. SUFFICES ASSUME fn < sn PROVE FALSE
        OBVIOUS
      <4>2. PICK d \in Nat : sn = (fn + 1) + d
        <5>1. sn - (fn + 1) \in Nat /\ sn = (fn + 1) + (sn - (fn + 1))
          BY <4>1
        <5> QED BY <5>1
      <4>3. sn * p = (fn + 1) * p + d * p /\ d * p \in Nat /\ (fn + 1) * p \in Nat
        BY <1>2, <4>2
      <4> QED BY <3>2, <4>3
    <3> QED BY <1>11, <3>3
  <2> QED BY <2>1, <2>2
<1>13. Zeros(fn) = a
  BY <1>9, <1>7, ZerosOf
<1>14. a + 1 \in Nat /\ power[a + 1] = 2 * b
  BY <1>8, PowerEquation
<1>15. fn \div (2 * b) = m
  <2>1. fn = m * (2 * b) + b
    BY <1>8, <1>10
  <2>2. 2 * b \in Nat \ {0} /\ b < 2 * b
    BY <1>8
  <2> QED BY <1>8, <2>1, <2>2, Quotient
<1>16. PICK s, r : s = sn \div (2 * b) /\ s \in Nat /\ r \in Nat /\ r < 2 * b /\ sn = s * (2 * b) + r
  <2>1. PICK w \in Nat \ {0} : w = 2 * b
    BY <1>8
  <2>2. sn \div w \in Nat /\ sn % w \in Nat /\ sn % w < w /\ sn = (sn \div w) * w + (sn % w)
    BY <2>1, Division
  <2> QED BY <2>1, <2>2
<1>17. Standing(Consume(c, e), m, s, node(e, fr), node(e, sr))
  <2>1. c.fn = fn /\ c.sn = sn /\ ~c.longer
    BY <1>1 DEF Standing
  <2>2. sn # 0
    BY <1>6, <1>11
  <2>3. Consume(c, e) = Climbed([c EXCEPT !.fr = node(e, @), !.sr = node(e, @)], a + 1)
    BY <1>12, <1>13, <2>1, <2>2 DEF Consume, WithLeft
  <2>4. Standing([c EXCEPT !.fr = node(e, @), !.sr = node(e, @)], fn, sn, node(e, fr), node(e, sr))
    BY <1>1, StandingLeft
  <2>5. PICK w : w = 2 * b /\ w = power[a + 1]
    BY <1>14
  <2>6. Standing(Consume(c, e), fn \div w, sn \div w, node(e, fr), node(e, sr))
    BY <2>3, <2>4, <2>5, StandingClimbed
  <2> QED BY <1>15, <1>16, <2>5, <2>6
<1>18. j + 1 \in Nat /\ power[j + 1] = 2 * q
  BY <1>2, PowerEquation
<1>19. s * (2 * q) =< n - 1 /\ n - 1 < (s + 1) * (2 * q)
  <2>0. /\ p \in Int /\ s \in Int /\ r \in Int /\ sn \in Int /\ b \in Int /\ q \in Int
        /\ 2 * b \in Int /\ 2 * q \in Int /\ s * (2 * b) \in Int /\ 1 \in Int
    BY <1>2, <1>8, <1>16
  <2>1. sn * p = s * (2 * q) + r * p
    <3>1. (s * (2 * b) + r) * p = (s * (2 * b)) * p + r * p
      BY <2>0, Distributes
    <3>2. (s * (2 * b)) * p = s * ((2 * b) * p)
      BY <2>0, Associates
    <3>3. (2 * b) * p = 2 * (b * p)
      BY <2>0, Associates
    <3> QED BY <1>9, <1>16, <3>1, <3>2, <3>3
  <2>2. (sn + 1) * p = sn * p + p
    BY <2>0, Distributes, Associates
  <2>3. PICK d \in Nat : 2 * b = (r + 1) + d
    <3>1. 2 * b - (r + 1) \in Nat /\ 2 * b = (r + 1) + (2 * b - (r + 1))
      BY <1>8, <1>16
    <3> QED BY <3>1
  <2>4. 2 * q = (2 * b) * p /\ (2 * b) * p = r * p + p + d * p
    <3>1. (2 * b) * p = 2 * (b * p)
      BY <2>0, Associates
    <3>2. d \in Int /\ r + 1 \in Int
      BY <2>0
    <3>3. ((r + 1) + d) * p = (r + 1) * p + d * p
      BY <2>0, <3>2, Distributes
    <3>4. (r + 1) * p = r * p + p
      BY <2>0, Distributes, Associates
    <3> QED BY <1>9, <2>3, <3>1, <3>3, <3>4
  <2>5. (s + 1) * (2 * q) = s * (2 * q) + 2 * q
    BY <2>0, Distributes, Associates
  <2>6. PICK x \in Nat, y \in Nat, w \in Nat : x = s * (2 * q) /\ y = r * p /\ w = d * p
    BY <1>2, <1>16
  <2> QED BY <1>2, <1>3, <2>1, <2>2, <2>4, <2>5, <2>6
<1>20. Covers(m, s, j + 1, n, lo, hi)
  BY <1>2, <1>4, <1>18, <1>19 DEF Covers
<1> QED BY <1>16, <1>17, <1>18, <1>20 DEF Over

-----------------------------------------------------------------------------
(* The genuine inclusion proof is accepted *)

\* The hashes of the tree.
TreeHashes(leaves) == {SliceRoot(leaves)[s] : s \in Slices(leaves)}

\* A cursor that starts at a leaf covers it.
LEMMA OverLeaf ==
  ASSUME NEW n \in Nat \ {0}, NEW x \in 0..(n - 1), NEW h
  PROVE  Over(Cursor(x, n - 1, h), n, x, x + 1, h, h)
<1>1. PICK c : c = Cursor(x, n - 1, h)
  OBVIOUS
<1>2. Standing(c, x, n - 1, h, h)
  BY <1>1 DEF Cursor, Standing
<1>3. Covers(x, n - 1, 0, n, x, x + 1)
  <2>1. power[0] = 1 /\ x * 1 = x /\ (n - 1) * 1 = n - 1 /\ ((n - 1) + 1) * 1 = n
    BY PowerEquation
  <2> QED BY <2>1 DEF Covers
<1>4. x \in Nat /\ n - 1 \in Nat /\ 0 \in Nat
  OBVIOUS
<1> QED BY <1>1, <1>2, <1>3, <1>4 DEF Over

\* Consuming the path of a slice arrives over the slice with its root.
InclusionWalked(leaves, n, x, lo, hi) ==
  \E path, fr :
    /\ path \in Seq(TreeHashes(leaves))
    /\ path = Paths(leaves, "inclusion", x)[<<lo, hi>>]
    /\ Over(FoldLeft(Consume, Cursor(x, n - 1, leaves[x + 1]), path), n, lo, hi, fr,
            SliceRoot(leaves)[<<lo, hi>>])

\* One step of the induction: from a half to the whole.
LEMMA InclusionWalkedStep ==
  ASSUME NEW leaves, NEW n \in Nat \ {0}, Len(leaves) = n, NEW x \in 0..(n - 1),
         NEW lo, NEW hi, <<lo, hi>> \in Slices(leaves), OnGrid(n, lo, hi), lo =< x, x < hi,
         \A p, q : /\ <<p, q>> \in Slices(leaves) /\ q - p < hi - lo /\ OnGrid(n, p, q) /\ p =< x /\ x < q
                   => InclusionWalked(leaves, n, x, p, q)
  PROVE  InclusionWalked(leaves, n, x, lo, hi)
<1>1. lo \in Nat /\ hi \in 1..n /\ lo < hi /\ hi \in Nat /\ n \in Nat /\ hi =< n
  BY DEF Slices
<1>2. PICK c : c = Cut(lo, hi)
  OBVIOUS
<1>3. hi - lo # 1 => c \in (lo + 1)..(hi - 1) /\ <<lo, c>> \in Slices(leaves) /\ <<c, hi>> \in Slices(leaves)
  BY <1>2, Halves
<1>4. PICK root : root = SliceRoot(leaves)
  OBVIOUS
<1>5. root[<<lo, hi>>] = IF hi - lo = 1 THEN leaves[hi] ELSE node(root[<<lo, c>>], root[<<c, hi>>])
  BY <1>2, <1>4, SliceRootEquation DEF RootOf
<1>6. PICK path : path = Paths(leaves, "inclusion", x)
  OBVIOUS
<1>7. path[<<lo, hi>>] =
        IF hi - lo = 1 THEN <<>>
        ELSE IF x < c THEN Append(path[<<lo, c>>], root[<<c, hi>>])
        ELSE Append(path[<<c, hi>>], root[<<lo, c>>])
  <2>1. x \in Nat /\ <<lo, hi>> \in Through(leaves, "inclusion", x)
    BY DEF Through
  <2>2. path[<<lo, hi>>] = PathStep(leaves, "inclusion", x, path, lo, hi)
    BY <1>6, <2>1, PathsEquation
  <2> QED BY <1>2, <1>4, <2>2 DEF PathStep
<1> DEFINE start == Cursor(x, n - 1, leaves[x + 1])
<1>8. CASE hi - lo = 1
  <2>1. hi = x + 1 /\ lo = x
    BY <1>1, <1>8
  <2>2. Over(start, n, lo, hi, leaves[x + 1], root[<<lo, hi>>])
    BY <1>5, <1>8, <2>1, OverLeaf
  <2>3. path[<<lo, hi>>] = <<>> /\ <<>> \in Seq(TreeHashes(leaves))
    BY <1>7, <1>8
  <2>4. FoldLeft(Consume, start, <<>>) = start
    BY FoldEmpty
  <2> HIDE DEF start
  <2>5. Over(FoldLeft(Consume, start, path[<<lo, hi>>]), n, lo, hi, leaves[x + 1], root[<<lo, hi>>])
    BY <2>2, <2>3, <2>4
  <2> QED BY <1>4, <1>6, <2>3, <2>5 DEF InclusionWalked, start
<1>9. CASE hi - lo # 1 /\ x < c
  <2>1. PICK j \in Nat, m \in Nat : Halved(n, lo, c, hi, j, m)
    <3>1. hi - lo >= 2
      BY <1>1, <1>9
    <3> QED BY <1>1, <1>2, <3>1, GridHalves
  <2>2. OnGrid(n, lo, c)
    BY <1>1, <2>1, HalvesOnGrid
  <2>3. c - lo < hi - lo
    BY <1>1, <1>3, <1>9
  <2>4. InclusionWalked(leaves, n, x, lo, c)
    BY <1>3, <1>9, <2>2, <2>3
  <2>5. PICK p, fr :
          p \in Seq(TreeHashes(leaves)) /\ p = path[<<lo, c>>] /\ Over(FoldLeft(Consume, start, p), n, lo, c, fr, root[<<lo, c>>])
    BY <1>4, <1>6, <2>4 DEF InclusionWalked
  <2>6. PICK e : e = root[<<c, hi>>] /\ e \in TreeHashes(leaves)
    BY <1>3, <1>4, <1>9 DEF TreeHashes
  <2> HIDE DEF start
  <2>7. FoldLeft(Consume, start, Append(p, e)) = Consume(FoldLeft(Consume, start, p), e)
    BY <2>5, <2>6, FoldAppend, ZenonT(60)
  <2>8. Over(Consume(FoldLeft(Consume, start, p), e), n, lo, hi, fr, node(root[<<lo, c>>], e))
    BY <1>1, <2>1, <2>5, OverLeft
  <2>9. Append(p, e) \in Seq(TreeHashes(leaves))
    BY <2>5, <2>6, AppendProperties
  <2>10. path[<<lo, hi>>] = Append(p, e) /\ root[<<lo, hi>>] = node(root[<<lo, c>>], e)
    BY <1>5, <1>7, <1>9, <2>5, <2>6
  <2> QED BY <1>4, <1>6, <2>7, <2>8, <2>9, <2>10 DEF InclusionWalked, start
<1>10. CASE hi - lo # 1 /\ ~(x < c)
  <2>1. PICK j \in Nat, m \in Nat : Halved(n, lo, c, hi, j, m)
    <3>1. hi - lo >= 2
      BY <1>1, <1>10
    <3> QED BY <1>1, <1>2, <3>1, GridHalves
  <2>2. OnGrid(n, c, hi) /\ c \in Nat
    BY <1>1, <2>1, HalvesOnGrid
  <2>3. hi - c < hi - lo /\ c =< x
    BY <1>1, <1>3, <1>10
  <2>4. InclusionWalked(leaves, n, x, c, hi)
    BY <1>3, <1>10, <2>2, <2>3
  <2>5. PICK p, fr :
          p \in Seq(TreeHashes(leaves)) /\ p = path[<<c, hi>>] /\ Over(FoldLeft(Consume, start, p), n, c, hi, fr, root[<<c, hi>>])
    BY <1>4, <1>6, <2>4 DEF InclusionWalked
  <2>6. PICK e : e = root[<<lo, c>>] /\ e \in TreeHashes(leaves)
    BY <1>3, <1>4, <1>10 DEF TreeHashes
  <2> HIDE DEF start
  <2>7. FoldLeft(Consume, start, Append(p, e)) = Consume(FoldLeft(Consume, start, p), e)
    BY <2>5, <2>6, FoldAppend, ZenonT(60)
  <2>8. Over(Consume(FoldLeft(Consume, start, p), e), n, lo, hi, node(e, fr), node(e, root[<<c, hi>>]))
    BY <1>1, <2>1, <2>2, <2>5, OverRight
  <2>9. Append(p, e) \in Seq(TreeHashes(leaves))
    BY <2>5, <2>6, AppendProperties
  <2>10. path[<<lo, hi>>] = Append(p, e) /\ root[<<lo, hi>>] = node(e, root[<<c, hi>>])
    BY <1>5, <1>7, <1>10, <2>5, <2>6
  <2> QED BY <1>4, <1>6, <2>7, <2>8, <2>9, <2>10 DEF InclusionWalked, start
<1> QED BY <1>8, <1>9, <1>10

\* So the path of every slice that has the leaf arrives over it.
LEMMA InclusionsWalked ==
  ASSUME NEW leaves, NEW n \in Nat \ {0}, Len(leaves) = n, NEW x \in 0..(n - 1)
  PROVE  \A lo, hi : <<lo, hi>> \in Slices(leaves) /\ OnGrid(n, lo, hi) /\ lo =< x /\ x < hi
                       => InclusionWalked(leaves, n, x, lo, hi)
<1> DEFINE Goal(lo, hi) == OnGrid(n, lo, hi) /\ lo =< x /\ x < hi => InclusionWalked(leaves, n, x, lo, hi)
           G == {s \in Slices(leaves) : Goal(s[1], s[2])}
<1>1. \A p, q : <<p, q>> \in Slices(leaves) => (<<p, q>> \in G <=> Goal(p, q))
  OBVIOUS
<1>2. ASSUME NEW lo, NEW hi, <<lo, hi>> \in Slices(leaves),
             \A p, q : <<p, q>> \in Slices(leaves) /\ q - p < hi - lo => <<p, q>> \in G
      PROVE  <<lo, hi>> \in G
  <2> HIDE DEF G
  <2>1. \A p, q : /\ <<p, q>> \in Slices(leaves) /\ q - p < hi - lo /\ OnGrid(n, p, q) /\ p =< x /\ x < q
                  => InclusionWalked(leaves, n, x, p, q)
    BY <1>1, <1>2
  <2>2. Goal(lo, hi)
    <3>1. SUFFICES ASSUME OnGrid(n, lo, hi), lo =< x, x < hi PROVE InclusionWalked(leaves, n, x, lo, hi)
      OBVIOUS
    <3> QED BY <1>2, <2>1, <3>1, InclusionWalkedStep
  <2> QED BY <1>1, <1>2, <2>2
<1>3. \A lo, hi : <<lo, hi>> \in Slices(leaves) => <<lo, hi>> \in G
  <2> HIDE DEF G
  <2> QED BY <1>2, SliceInduct
<1> HIDE DEF G
<1> QED BY <1>1, <1>3

\* The whole tree is a slice the recursion meets, and a cursor over it is at
\* its root.
LEMMA WholeOnGrid ==
  ASSUME NEW n \in Nat
  PROVE  OnGrid(n, 0, n)
<1>1. n \in Nat /\ 0 \in Nat /\ power[n] > n /\ power[n] \in Nat /\ 0 = 0 * power[n]
  BY PowerAbove, PowerType
<1> QED BY <1>1 DEF OnGrid

\* A cursor over the whole tree is at its root.
LEMMA OverWhole ==
  ASSUME NEW n \in Nat \ {0}, NEW c, NEW fr, NEW sr, Over(c, n, 0, n, fr, sr)
  PROVE  ~c.longer /\ c.sn = 0 /\ c.fr = fr /\ c.sr = sr
<1>1. PICK fn \in Nat, sn \in Nat, z \in Nat : Standing(c, fn, sn, fr, sr) /\ Covers(fn, sn, z, n, 0, n)
  BY DEF Over
<1>2. PICK p : p = power[z] /\ p \in Nat \ {0}
  BY PowerType
<1>3. sn * p =< n - 1 /\ n =< p
  BY <1>1, <1>2 DEF Covers
<1>4. sn = 0
  <2>1. SUFFICES ASSUME sn # 0 PROVE FALSE
    OBVIOUS
  <2>2. PICK d \in Nat : sn = 1 + d
    <3>1. sn - 1 \in Nat /\ sn = 1 + (sn - 1)
      BY <2>1
    <3> QED BY <3>1
  <2>3. p \in Int /\ d \in Int /\ 1 \in Int /\ d * p >= 0
    BY <1>2
  <2>4. sn * p = 1 * p + d * p /\ 1 * p = p
    BY <2>2, <2>3, Distributes, Associates
  <2> QED BY <1>2, <1>3, <2>3, <2>4
<1> QED BY <1>1, <1>4 DEF Standing

\* The walk along the generator's proof of a leaf arrives at the root.
InclusionArrives(leaves, n, x) ==
  /\ \E S : inclusion_path(leaves, x) \in Seq(S)
  /\ LET end == FoldLeft(Consume, Cursor(x, n - 1, leaves[x + 1]), inclusion_path(leaves, x))
     IN  ~end.longer /\ end.sn = 0 /\ end.sr = merkle_root(leaves)

LEMMA InclusionGenuine ==
  ASSUME NEW leaves, NEW n \in Nat \ {0}, Len(leaves) = n, NEW x \in 0..(n - 1)
  PROVE  InclusionArrives(leaves, n, x)
<1>1. <<0, n>> \in Slices(leaves) /\ OnGrid(n, 0, n)
  BY WholeOnGrid DEF Slices
<1>2. InclusionWalked(leaves, n, x, 0, n)
  BY <1>1, InclusionsWalked
<1>3. PICK path, fr :
        /\ path \in Seq(TreeHashes(leaves)) /\ path = Paths(leaves, "inclusion", x)[<<0, n>>]
        /\ Over(FoldLeft(Consume, Cursor(x, n - 1, leaves[x + 1]), path), n, 0, n, fr, SliceRoot(leaves)[<<0, n>>])
  BY <1>2 DEF InclusionWalked
<1>4. inclusion_path(leaves, x) = path
  BY <1>3, InclusionPath
<1>5. PICK end : end = FoldLeft(Consume, Cursor(x, n - 1, leaves[x + 1]), path)
  OBVIOUS
<1>6. ~end.longer /\ end.sn = 0 /\ end.sr = SliceRoot(leaves)[<<0, n>>]
  BY <1>3, <1>5, OverWhole
<1>7. leaves # <<>>
  <2>1. Len(<<>>) = 0
    OBVIOUS
  <2> QED BY <2>1
<1>8. merkle_root(leaves) = SliceRoot(leaves)[<<0, n>>]
  BY <1>7 DEF merkle_root
<1> QED BY <1>3, <1>4, <1>5, <1>6, <1>8 DEF InclusionArrives

\* The verifier accepts the generator's proof of every leaf of every log.
LEMMA InclusionAccepted ==
  ASSUME NEW leaves, NEW n \in 1..MaxSafeSize, Len(leaves) = n, NEW x \in 0..(n - 1),
         NEW p, p.tree_size = n, p.leaf_index = x, p.hashes,
         p.leaf_hash = leaves[x + 1], p.root_hash = merkle_root(leaves),
         p.audit_path = inclusion_path(leaves, x)
  PROVE  InclusionAnswer(p) = "valid"
<1>1. n \in Nat \ {0} /\ x \in Nat
  BY SizeAssumption
<1>2. InclusionArrives(leaves, n, x)
  BY <1>1, InclusionGenuine
<1>3. IsSize(n) /\ ~(n < 1) /\ IsSize(x) /\ ~(x >= n)
  BY <1>1, SizeAssumption DEF IsSize
<1> QED BY <1>2, <1>3 DEF InclusionAnswer, InclusionArrives

-----------------------------------------------------------------------------
(* The genuine consistency proof is accepted *)

\* old is the list leaves when it was shorter.
Prefix(old, leaves) ==
  /\ Len(old) \in Nat \ {0} /\ Len(leaves) \in Nat /\ Len(old) =< Len(leaves)
  /\ \A i \in 1..Len(old) : old[i] = leaves[i]

\* The root of a slice is of the leaves of that slice only.
LEMMA SliceRootLocal ==
  ASSUME NEW old, NEW leaves, Prefix(old, leaves)
  PROVE  \A lo, hi : <<lo, hi>> \in Slices(old) =>
           <<lo, hi>> \in Slices(leaves) /\ SliceRoot(old)[<<lo, hi>>] = SliceRoot(leaves)[<<lo, hi>>]
<1>1. PICK r, t : r = SliceRoot(old) /\ t = SliceRoot(leaves)
  OBVIOUS
<1>2. Len(old) \in Nat /\ Len(leaves) \in Nat /\ Len(old) =< Len(leaves)
  BY DEF Prefix
<1>3. \A lo, hi : <<lo, hi>> \in Slices(old) => <<lo, hi>> \in Slices(leaves)
  BY <1>2 DEF Slices
<1> DEFINE G == {s \in Slices(old) : r[s] = t[s]}
<1>4. \A lo, hi : <<lo, hi>> \in Slices(old) => (<<lo, hi>> \in G <=> r[<<lo, hi>>] = t[<<lo, hi>>])
  OBVIOUS
<1>5. ASSUME NEW lo, NEW hi, <<lo, hi>> \in Slices(old),
             \A p, q : <<p, q>> \in Slices(old) /\ q - p < hi - lo => <<p, q>> \in G
      PROVE  <<lo, hi>> \in G
  <2> HIDE DEF G
  <2>1. lo \in Nat /\ hi \in 1..Len(old) /\ lo < hi
    BY <1>2, <1>5 DEF Slices
  <2>2. PICK c : c = Cut(lo, hi)
    OBVIOUS
  <2>3. r[<<lo, hi>>] = IF hi - lo = 1 THEN old[hi] ELSE node(r[<<lo, c>>], r[<<c, hi>>])
    BY <1>1, <1>2, <1>5, <2>2, SliceRootEquation DEF RootOf
  <2>4. t[<<lo, hi>>] = IF hi - lo = 1 THEN leaves[hi] ELSE node(t[<<lo, c>>], t[<<c, hi>>])
    BY <1>1, <1>2, <1>3, <1>5, <2>2, SliceRootEquation DEF RootOf
  <2>5. CASE hi - lo = 1
    <3>1. old[hi] = leaves[hi]
      BY <2>1 DEF Prefix
    <3> QED BY <1>4, <1>5, <2>3, <2>4, <2>5, <3>1
  <2>6. CASE hi - lo # 1
    <3>1. c \in (lo + 1)..(hi - 1) /\ <<lo, c>> \in Slices(old) /\ <<c, hi>> \in Slices(old)
      BY <1>2, <1>5, <2>2, <2>6, Halves
    <3>2. c - lo < hi - lo /\ hi - c < hi - lo
      BY <2>1, <3>1
    <3>3. <<lo, c>> \in G /\ <<c, hi>> \in G
      BY <1>5, <3>1, <3>2
    <3>4. r[<<lo, c>>] = t[<<lo, c>>] /\ r[<<c, hi>>] = t[<<c, hi>>]
      BY <1>4, <3>1, <3>3
    <3> QED BY <1>4, <1>5, <2>3, <2>4, <2>6, <3>4
  <2> QED BY <2>5, <2>6
<1>6. \A lo, hi : <<lo, hi>> \in Slices(old) => <<lo, hi>> \in G
  <2> HIDE DEF G
  <2> QED BY <1>2, <1>5, SliceInduct
<1> HIDE DEF G
<1> QED BY <1>1, <1>3, <1>4, <1>6

\* The node a proof starts from when the old tree does not hold it, and what
\* follows it.
Seeded(lower, seed, rest) == IF lower = 0 THEN rest ELSE <<seed>> \o rest

SeededThen(lower, seed, rest, e) ==
  Append(Seeded(lower, seed, rest), e) = Seeded(lower, seed, Append(rest, e))

\* What is appended to a path follows its seed.
LEMMA SeededAppend ==
  ASSUME NEW S, NEW lower, NEW seed \in S, NEW rest \in Seq(S), NEW e \in S
  PROVE  SeededThen(lower, seed, rest, e)
<1>1. <<seed>> \in Seq(S) /\ <<e>> \in Seq(S) /\ <<seed>> \o rest \in Seq(S)
  BY ConcatProperties
<1>2. Append(<<seed>> \o rest, e) = (<<seed>> \o rest) \o <<e>>
  BY <1>1, AppendIsConcat
<1>3. (<<seed>> \o rest) \o <<e>> = <<seed>> \o (rest \o <<e>>)
  BY <1>1, ConcatAssociative
<1>4. rest \o <<e>> = Append(rest, e)
  BY AppendIsConcat
<1> QED BY <1>2, <1>3, <1>4 DEF Seeded, SeededThen

\* A rest below the divisor stays below the next multiple.
LEMMA Between ==
  ASSUME NEW x \in Int, NEW r \in Nat, NEW b \in Int, r < b
  PROVE  x =< x + r /\ x + r < x + b
OBVIOUS

\* Where the walk starts: over the subtree that ends with the old leaves.
LEMMA OverSeed ==
  ASSUME NEW n \in Nat \ {0}, NEW a \in Nat, NEW f \in Nat,
         NEW old, old = (2 * f + 1) * power[a], old =< n, NEW h
  PROVE  Over(Climbed(Cursor(old - 1, n - 1, h), Ones(old - 1)), n, (2 * f) * power[a], old, h, h)
<1>1. PICK b : b = power[a] /\ b \in Nat \ {0}
  BY PowerType
<1>2. old = (2 * f) * b + b /\ old \in Nat \ {0} /\ old - 1 = (2 * f) * b + (b - 1)
  BY <1>1
<1>3. Ones(old - 1) = a
  <2>1. (old - 1) + 1 = old
    BY <1>2
  <2> QED BY <2>1, ZerosOf DEF Ones
<1>4. (old - 1) \div b = 2 * f
  <2>1. old - 1 \in Nat /\ 2 * f \in Nat /\ b - 1 \in Nat /\ b - 1 < b
    BY <1>1, <1>2
  <2> QED BY <1>1, <1>2, <2>1, Quotient
<1>5. PICK s : s = (n - 1) \div b /\ s \in Nat /\ s * b =< n - 1 /\ n - 1 < (s + 1) * b
  <2>1. n - 1 \in Nat
    OBVIOUS
  <2>2. PICK q, r : q = (n - 1) \div b /\ r = (n - 1) % b /\ q \in Nat /\ r \in Nat /\ r < b /\ n - 1 = q * b + r
    BY <1>1, <2>1, Division
  <2>3. q \in Int /\ b \in Int /\ 1 \in Int
    BY <1>1, <2>2
  <2>4. (q + 1) * b = q * b + b /\ q * b \in Int
    BY <2>3, Distributes, Associates
  <2>5. PICK x \in Int : x = q * b
    BY <2>4
  <2>6. n - 1 = x + r /\ (q + 1) * b = x + b
    BY <2>2, <2>4, <2>5
  <2>7. x =< n - 1 /\ n - 1 < x + b
    <3>1. b \in Int /\ r \in Nat /\ r < b
      BY <1>1, <2>2
    <3>2. x =< x + r /\ x + r < x + b
      BY <3>1, Between
    <3> QED BY <2>6, <3>2
  <2> QED BY <2>2, <2>5, <2>6, <2>7
<1>6. PICK c : c = Cursor(old - 1, n - 1, h)
  OBVIOUS
<1>7. Standing(c, old - 1, n - 1, h, h)
  BY <1>6 DEF Cursor, Standing
<1>8. Standing(Climbed(c, a), 2 * f, s, h, h)
  <2>1. Standing(Climbed(c, a), (old - 1) \div b, (n - 1) \div b, h, h)
    BY <1>1, <1>7, StandingClimbed
  <2> QED BY <1>4, <1>5, <2>1
<1>9. Covers(2 * f, s, a, n, (2 * f) * power[a], old)
  <2>1. old =< (2 * f) * b + b /\ old = (2 * f) * b + b
    BY <1>1, <1>2
  <2> QED BY <1>1, <1>5, <2>1 DEF Covers
<1>10. 2 * f \in Nat
  OBVIOUS
<1> QED BY <1>3, <1>5, <1>6, <1>8, <1>9, <1>10 DEF Over

\* Consuming the path of a slice arrives over the slice, with the root of its
\* old leaves and its own.
ConsistencyWalked(old, leaves, start, lower, seed, lo, hi) ==
  \E rest \in Seq(TreeHashes(leaves)) :
    /\ Paths(leaves, "consistency", Len(old))[<<lo, hi>>] = Seeded(lower, seed, rest)
    /\ Over(FoldLeft(Consume, start, rest), Len(leaves), lo, hi,
            SliceRoot(old)[<<lo, Len(old)>>], SliceRoot(leaves)[<<lo, hi>>])

\* The old leaves of a slice that is cut before the last of them are cut there
\* too.
LEMMA OldCut ==
  ASSUME NEW lo \in Nat, NEW hi \in Nat, NEW size \in Nat, NEW c \in Nat, c = Cut(lo, hi),
         lo < c, c < size, size =< hi
  PROVE  Cut(lo, size) = c
<1>1. hi - lo \in Nat /\ hi - lo >= 2 /\ size - lo \in Nat /\ size - lo >= 2
  OBVIOUS
<1>2. PICK j \in Nat : k_below(hi - lo) = power[j] /\ power[j] < hi - lo /\ hi - lo =< 2 * power[j]
  BY <1>1, CutAtPower
<1>3. PICK i \in Nat : k_below(size - lo) = power[i] /\ power[i] < size - lo /\ size - lo =< 2 * power[i]
  BY <1>1, CutAtPower
<1>4. c = lo + power[j] /\ power[j] \in Nat
  BY <1>2, PowerType DEF Cut
<1>5. power[j] < size - lo /\ size - lo =< 2 * power[j]
  BY <1>2, <1>4
<1>6. i = j
  BY <1>1, <1>3, <1>5, PowerBelow
<1> QED BY <1>3, <1>4, <1>6 DEF Cut

\* A slice that ends inside the list begins there.
LEMMA EndsInside ==
  ASSUME NEW n \in Nat, NEW size \in Nat, NEW lower \in Nat, NEW b \in Nat \ {0},
         size = lower + b, size =< n
  PROVE  lower \in 0..n /\ size \in 0..n /\ lower < size
OBVIOUS

\* What every slice around the last old leaf is known to satisfy.
AroundOld(n, size, lower, lo, hi) == OnGrid(n, lo, hi) /\ (size = hi => lo = lower)

\* One step of the induction: from a half to the whole.
LEMMA ConsistencyWalkedStep ==
  ASSUME NEW old, NEW leaves, Prefix(old, leaves), NEW n, n = Len(leaves), NEW size, size = Len(old),
         NEW a \in Nat, NEW f \in Nat, size = (2 * f + 1) * power[a],
         NEW lower, lower = (2 * f) * power[a],
         NEW seed, seed = SliceRoot(leaves)[<<lower, size>>],
         NEW start, Over(start, n, lower, size, seed, seed),
         NEW lo, NEW hi, <<lo, hi>> \in Around(leaves, size), AroundOld(n, size, lower, lo, hi),
         \A p, q : /\ <<p, q>> \in Around(leaves, size) /\ q - p < hi - lo /\ AroundOld(n, size, lower, p, q)
                   => ConsistencyWalked(old, leaves, start, lower, seed, p, q)
  PROVE  ConsistencyWalked(old, leaves, start, lower, seed, lo, hi)
<1>1. /\ n \in Nat \ {0} /\ size \in Nat \ {0} /\ size =< n /\ lo \in Nat /\ hi \in Nat /\ hi =< n
      /\ lo < size /\ size =< hi /\ <<lo, hi>> \in Slices(leaves) /\ <<lo, size>> \in Slices(old)
      /\ Len(leaves) \in Nat /\ Len(old) \in Nat
  BY DEF Prefix, Around, Slices
<1>2. PICK c : c = Cut(lo, hi)
  OBVIOUS
<1>3. PICK root, past : root = SliceRoot(leaves) /\ past = SliceRoot(old)
  OBVIOUS
<1>4. \A p, q : <<p, q>> \in Slices(old) => <<p, q>> \in Slices(leaves) /\ past[<<p, q>>] = root[<<p, q>>]
  BY <1>3, SliceRootLocal
<1>5. PICK path : path = Paths(leaves, "consistency", size)
  OBVIOUS
<1>6. path[<<lo, hi>>] =
        IF size = hi THEN IF lo = 0 THEN <<>> ELSE <<root[<<lo, hi>>]>>
        ELSE IF size =< c THEN Append(path[<<lo, c>>], root[<<c, hi>>])
        ELSE Append(path[<<c, hi>>], root[<<lo, c>>])
  <2>1. <<lo, hi>> \in Through(leaves, "consistency", size)
    BY DEF Through
  <2>2. path[<<lo, hi>>] = PathStep(leaves, "consistency", size, path, lo, hi)
    BY <1>1, <1>5, <2>1, PathsEquation
  <2> QED BY <1>2, <1>3, <2>2 DEF PathStep
<1>7. seed \in TreeHashes(leaves)
  <2>1. PICK b : b = power[a] /\ b \in Nat \ {0}
    BY PowerType
  <2>2. size = lower + b /\ lower \in Nat
    BY <2>1, SMTT(30)
  <2>3. lower \in 0..n /\ size \in 0..n /\ lower < size
    BY <1>1, <2>1, <2>2, EndsInside
  <2>4. <<lower, size>> \in Slices(leaves)
    BY <2>3 DEF Slices
  <2> QED BY <2>4 DEF TreeHashes
<1>8. CASE size = hi
  <2>1. lo = lower
    BY <1>8 DEF AroundOld
  <2>2. path[<<lo, hi>>] = Seeded(lower, seed, <<>>)
    <3>1. <<seed>> \o <<>> = <<seed>>
      <4>1. <<seed>> \in Seq(TreeHashes(leaves))
        BY <1>7
      <4> QED BY <4>1, ConcatEmptySeq
    <3> QED BY <1>3, <1>6, <1>8, <2>1, <3>1 DEF Seeded
  <2>3. FoldLeft(Consume, start, <<>>) = start
    BY FoldEmpty
  <2>4. past[<<lo, size>>] = seed /\ root[<<lo, hi>>] = seed
    BY <1>1, <1>3, <1>4, <1>8, <2>1
  <2>5. Over(FoldLeft(Consume, start, <<>>), n, lo, hi, past[<<lo, size>>], root[<<lo, hi>>])
    BY <1>8, <2>1, <2>3, <2>4
  <2>6. <<>> \in Seq(TreeHashes(leaves))
    OBVIOUS
  <2> QED BY <1>3, <1>5, <2>2, <2>5, <2>6 DEF ConsistencyWalked
<1>9. CASE size # hi
  <2>1. hi - lo >= 2 /\ hi - lo # 1
    BY <1>1, <1>9
  <2>2. PICK j \in Nat, m \in Nat : Halved(n, lo, c, hi, j, m)
    BY <1>1, <1>2, <2>1, GridHalves DEF AroundOld
  <2>3. OnGrid(n, lo, c) /\ OnGrid(n, c, hi) /\ c \in Nat
    BY <1>1, <2>2, HalvesOnGrid
  <2>4. lo < c /\ c < hi /\ <<lo, c>> \in Slices(leaves) /\ <<c, hi>> \in Slices(leaves)
    BY <1>1, <1>2, <2>1, Halves
  <2>5. root[<<lo, hi>>] = node(root[<<lo, c>>], root[<<c, hi>>])
    BY <1>1, <1>2, <1>3, <2>1, SliceRootEquation DEF RootOf
  <2>6. PICK left, right : /\ left = root[<<lo, c>>] /\ left \in TreeHashes(leaves)
                           /\ right = root[<<c, hi>>] /\ right \in TreeHashes(leaves)
    BY <1>3, <2>4 DEF TreeHashes
  <2>7. CASE size =< c
    <3>1. <<lo, c>> \in Around(leaves, size) /\ c - lo < hi - lo
      BY <1>1, <2>3, <2>4, <2>7 DEF Around
    <3>2. size = c => lo = lower
      <4>1. SUFFICES ASSUME size = c PROVE lo = lower
        OBVIOUS
      <4>2. PICK q : q = power[j] /\ q \in Nat \ {0}
        BY PowerType
      <4>3. c = lo + q /\ lo = m * (2 * q)
        BY <4>2, <2>2 DEF Halved
      <4>4. c = (2 * m + 1) * q /\ lo = (2 * m) * q
        <5>1. m * (2 * q) = (2 * m) * q /\ (2 * m + 1) * q = (2 * m) * q + q
          <6>1. m \in Int /\ q \in Int /\ 2 \in Int /\ 1 \in Int /\ 2 * m \in Int
            BY <4>2
          <6> QED BY <6>1, Distributes, Associates
        <5> QED BY <4>3, <5>1
      <4>5. (2 * f + 1) * power[a] = (2 * m + 1) * power[j]
        BY <4>1, <4>2, <4>4
      <4>6. a = j /\ f = m
        BY <4>5, OddPart
      <4> QED BY <4>2, <4>4, <4>6
    <3>3. ConsistencyWalked(old, leaves, start, lower, seed, lo, c)
      BY <2>3, <3>1, <3>2 DEF AroundOld
    <3>4. PICK rest \in Seq(TreeHashes(leaves)) :
            /\ path[<<lo, c>>] = Seeded(lower, seed, rest)
            /\ Over(FoldLeft(Consume, start, rest), n, lo, c, past[<<lo, size>>], root[<<lo, c>>])
      BY <1>3, <1>5, <3>3 DEF ConsistencyWalked
    <3>5. FoldLeft(Consume, start, Append(rest, right)) = Consume(FoldLeft(Consume, start, rest), right)
      BY <2>6, FoldAppend, ZenonT(60)
    <3>6. Over(Consume(FoldLeft(Consume, start, rest), right), n, lo, hi, past[<<lo, size>>], node(root[<<lo, c>>], right))
      BY <1>1, <2>2, <3>4, OverLeft
    <3>7. path[<<lo, hi>>] = Append(Seeded(lower, seed, rest), right)
      BY <1>6, <1>9, <2>6, <2>7, <3>4
    <3>8. path[<<lo, hi>>] = Seeded(lower, seed, Append(rest, right))
      <4>1. PICK from, s : from = lower /\ s = seed /\ s \in TreeHashes(leaves)
        BY <1>7
      <4>2. SeededThen(from, s, rest, right)
        BY <2>6, <3>4, <4>1, SeededAppend
      <4>3. Append(Seeded(from, s, rest), right) = Seeded(from, s, Append(rest, right))
        BY <4>2 DEF SeededThen
      <4> QED BY <3>7, <4>1, <4>3
    <3>9. Append(rest, right) \in Seq(TreeHashes(leaves))
      BY <2>6, <3>4, AppendProperties
    <3>10. Over(FoldLeft(Consume, start, Append(rest, right)), n, lo, hi, past[<<lo, size>>], root[<<lo, hi>>])
      BY <2>5, <2>6, <3>5, <3>6
    <3> QED BY <1>3, <1>5, <3>8, <3>9, <3>10 DEF ConsistencyWalked
  <2>8. CASE ~(size =< c)
    <3>1. <<c, hi>> \in Around(leaves, size) /\ hi - c < hi - lo /\ c < size
      BY <1>1, <2>3, <2>4, <2>8 DEF Around
    <3>2. ConsistencyWalked(old, leaves, start, lower, seed, c, hi)
      BY <1>9, <2>3, <3>1 DEF AroundOld
    <3>3. PICK rest \in Seq(TreeHashes(leaves)) :
            /\ path[<<c, hi>>] = Seeded(lower, seed, rest)
            /\ Over(FoldLeft(Consume, start, rest), n, c, hi, past[<<c, size>>], root[<<c, hi>>])
      BY <1>3, <1>5, <3>2 DEF ConsistencyWalked
    <3>4. FoldLeft(Consume, start, Append(rest, left)) = Consume(FoldLeft(Consume, start, rest), left)
      BY <2>6, FoldAppend
    <3>5. Over(Consume(FoldLeft(Consume, start, rest), left), n, lo, hi, node(left, past[<<c, size>>]),
               node(left, root[<<c, hi>>]))
      BY <1>1, <2>2, <2>3, <3>3, OverRight
    <3>6. past[<<lo, size>>] = node(left, past[<<c, size>>])
      <4>1. Cut(lo, size) = c
        BY <1>1, <1>2, <2>3, <2>4, <3>1, OldCut
      <4>2. past[<<lo, size>>] = node(past[<<lo, c>>], past[<<c, size>>])
        <5>1. size - lo # 1
          BY <1>1, <2>3, <2>4, <3>1
        <5> QED BY <1>1, <1>3, <4>1, <5>1, SliceRootEquation, SMTT(30) DEF RootOf
      <4>3. <<lo, c>> \in Slices(old)
        BY <1>1, <2>3, <2>4, <3>1 DEF Slices
      <4> QED BY <1>4, <2>6, <4>2, <4>3
    <3>7. path[<<lo, hi>>] = Append(Seeded(lower, seed, rest), left)
      BY <1>6, <1>9, <2>6, <2>8, <3>3
    <3>8. path[<<lo, hi>>] = Seeded(lower, seed, Append(rest, left))
      <4>1. PICK from, s : from = lower /\ s = seed /\ s \in TreeHashes(leaves)
        BY <1>7
      <4>2. SeededThen(from, s, rest, left)
        BY <2>6, <3>3, <4>1, SeededAppend
      <4>3. Append(Seeded(from, s, rest), left) = Seeded(from, s, Append(rest, left))
        BY <4>2 DEF SeededThen
      <4> QED BY <3>7, <4>1, <4>3
    <3>9. Append(rest, left) \in Seq(TreeHashes(leaves))
      BY <2>6, <3>3, AppendProperties
    <3>10. Over(FoldLeft(Consume, start, Append(rest, left)), n, lo, hi, past[<<lo, size>>], root[<<lo, hi>>])
      BY <2>5, <2>6, <3>4, <3>5, <3>6
    <3> QED BY <1>3, <1>5, <3>8, <3>9, <3>10 DEF ConsistencyWalked
  <2> QED BY <2>7, <2>8
<1> QED BY <1>8, <1>9

\* So the path of every slice around the last old leaf arrives over it.
LEMMA ConsistenciesWalked ==
  ASSUME NEW old, NEW leaves, Prefix(old, leaves), NEW n, n = Len(leaves), NEW size, size = Len(old),
         NEW a \in Nat, NEW f \in Nat, size = (2 * f + 1) * power[a],
         NEW lower, lower = (2 * f) * power[a],
         NEW seed, seed = SliceRoot(leaves)[<<lower, size>>],
         NEW start, Over(start, n, lower, size, seed, seed)
  PROVE  \A lo, hi : <<lo, hi>> \in Around(leaves, size) /\ AroundOld(n, size, lower, lo, hi)
                       => ConsistencyWalked(old, leaves, start, lower, seed, lo, hi)
<1> DEFINE Goal(lo, hi) == <<lo, hi>> \in Around(leaves, size) /\ AroundOld(n, size, lower, lo, hi)
                             => ConsistencyWalked(old, leaves, start, lower, seed, lo, hi)
           G == {s \in Slices(leaves) : Goal(s[1], s[2])}
<1>0. Len(leaves) \in Nat
  BY DEF Prefix
<1>1. \A p, q : <<p, q>> \in Slices(leaves) => (<<p, q>> \in G <=> Goal(p, q))
  OBVIOUS
<1>2. ASSUME NEW lo, NEW hi, <<lo, hi>> \in Slices(leaves),
             \A p, q : <<p, q>> \in Slices(leaves) /\ q - p < hi - lo => <<p, q>> \in G
      PROVE  <<lo, hi>> \in G
  <2> HIDE DEF G
  <2>1. \A p, q : /\ <<p, q>> \in Around(leaves, size) /\ q - p < hi - lo /\ AroundOld(n, size, lower, p, q)
                  => ConsistencyWalked(old, leaves, start, lower, seed, p, q)
    BY <1>1, <1>2 DEF Around
  <2>2. Goal(lo, hi)
    <3>1. SUFFICES ASSUME <<lo, hi>> \in Around(leaves, size), AroundOld(n, size, lower, lo, hi)
                   PROVE  ConsistencyWalked(old, leaves, start, lower, seed, lo, hi)
      OBVIOUS
    <3> HIDE DEF Goal
    <3> QED BY <2>1, <3>1, ConsistencyWalkedStep
  <2> QED BY <1>1, <1>2, <2>2
<1>3. \A lo, hi : <<lo, hi>> \in Slices(leaves) => <<lo, hi>> \in G
  <2> HIDE DEF G
  <2> QED BY <1>0, <1>2, SliceInduct
<1>4. \A lo, hi : <<lo, hi>> \in Around(leaves, size) => <<lo, hi>> \in Slices(leaves)
  BY DEF Around
<1> HIDE DEF G
<1> QED BY <1>1, <1>3, <1>4

\* An odd multiple is the even one before it and one more.
LEMMA OddMultiple ==
  ASSUME NEW f \in Nat, NEW b \in Nat \ {0}
  PROVE  /\ (2 * f) * b \in Nat /\ (2 * f + 1) * b = (2 * f) * b + b
         /\ (2 * f) * b = 0 <=> f = 0
<1>1. (2 * f) * b \in Nat /\ (2 * f + 1) * b = (2 * f) * b + b
  OBVIOUS
<1>2. f = 0 => (2 * f) * b = 0
  OBVIOUS
<1>3. f # 0 => (2 * f) * b # 0
  OBVIOUS
<1> QED BY <1>1, <1>2, <1>3

\* The verifier knows from the size whether the old leaves are a subtree.
LEMMA PowerOfTwoOnly ==
  ASSUME NEW n, NEW a \in Nat, NEW f \in Nat, n = (2 * f + 1) * power[a]
  PROVE  PowerOfTwo(n) <=> f = 0
<1>1. ASSUME f = 0 PROVE PowerOfTwo(n)
  <2>1. PICK b : b = power[a] /\ b \in Nat /\ b > a
    BY PowerType, PowerAbove
  <2>2. n = b /\ a \in 0..n
    BY <1>1, <2>1
  <2> QED BY <2>1, <2>2 DEF PowerOfTwo
<1>2. ASSUME PowerOfTwo(n) PROVE f = 0
  <2>1. PICK e \in 0..n : power[e] = n
    BY <1>2 DEF PowerOfTwo
  <2>2. e \in Nat /\ power[e] \in Nat
    BY <2>1, PowerType
  <2>3. (2 * 0 + 1) * power[e] = power[e]
    BY <2>2
  <2>4. (2 * 0 + 1) * power[e] = (2 * f + 1) * power[a]
    BY <2>1, <2>3
  <2> QED BY <2>2, <2>4, OddPart
<1> QED BY <1>1, <1>2

\* What a walk finds when the seed comes first.
LEMMA SeedFirst ==
  ASSUME NEW S, NEW seed \in S, NEW rest \in Seq(S)
  PROVE  LET nodes == <<seed>> \o rest IN nodes # <<>> /\ nodes[1] = seed /\ Tail(nodes) = rest
<1>1. PICK one : one = <<seed>> /\ one \in Seq(S) /\ Len(one) = 1 /\ one[1] = seed
  <2>1. <<seed>> \in Seq(S)
    OBVIOUS
  <2>2. Len(<<seed>>) = 1 /\ <<seed>>[1] = seed
    OBVIOUS
  <2> QED BY <2>1, <2>2
<1>2. PICK nodes : nodes = one \o rest
  OBVIOUS
<1>3. /\ nodes \in Seq(S) /\ Len(nodes) = 1 + Len(rest)
      /\ \A i \in 1..(1 + Len(rest)) : nodes[i] = IF i <= 1 THEN one[i] ELSE rest[i - 1]
  BY <1>1, <1>2, ConcatProperties
<1>4. Len(rest) \in Nat
  BY LenProperties
<1>5. nodes # <<>> /\ nodes[1] = seed
  BY <1>1, <1>3, <1>4
<1>6. /\ Tail(nodes) \in Seq(S) /\ Len(Tail(nodes)) = Len(rest)
      /\ \A i \in 1..Len(rest) : Tail(nodes)[i] = nodes[i + 1]
  <2>1. /\ Tail(nodes) \in Seq(S) /\ Len(Tail(nodes)) = Len(nodes) - 1
        /\ \A i \in 1..Len(Tail(nodes)) : Tail(nodes)[i] = nodes[i + 1]
    BY <1>3, <1>5, HeadTailProperties
  <2> QED BY <1>3, <1>4, <2>1
<1>7. \A i \in 1..Len(rest) : Tail(nodes)[i] = rest[i]
  <2> TAKE i \in 1..Len(rest)
  <2>1. i + 1 \in 1..(1 + Len(rest)) /\ ~(i + 1 <= 1) /\ (i + 1) - 1 = i
    BY <1>4
  <2>2. nodes[i + 1] = rest[i]
    BY <1>3, <2>1
  <2> QED BY <1>6, <2>2
<1>8. Tail(nodes) = rest
  <2>1. PICK t : t = Tail(nodes)
    OBVIOUS
  <2>2. t \in Seq(S) /\ Len(t) = Len(rest) /\ \A i \in 1..Len(rest) : t[i] = rest[i]
    BY <1>6, <1>7, <2>1
  <2>3. t = rest
    BY <2>2, SeqEqual
  <2> QED BY <2>1, <2>3
<1> QED BY <1>1, <1>2, <1>5, <1>8

\* The walk along the generator's proof between two sizes arrives at both roots.
Nodes(size, root, path) == IF PowerOfTwo(size) THEN <<root>> \o path ELSE path
SeedCursor(size, n, nodes) == Climbed(Cursor(size - 1, n - 1, nodes[1]), Ones(size - 1))

ConsistencyArrives(old, leaves, size, n) ==
  LET path  == consistency_path(leaves, size)
      nodes == Nodes(size, merkle_root(old), path)
      end   == FoldLeft(Consume, SeedCursor(size, n, nodes), Tail(nodes))
  IN  /\ \E S : path \in Seq(S) /\ nodes \in Seq(S) /\ Tail(nodes) \in Seq(S)
      /\ nodes # <<>>
      /\ ~end.longer /\ end.sn = 0 /\ end.fr = merkle_root(old) /\ end.sr = merkle_root(leaves)

LEMMA ConsistencyGenuine ==
  ASSUME NEW old, NEW leaves, Prefix(old, leaves), NEW size, size = Len(old), NEW n, n = Len(leaves)
  PROVE  /\ size = n => consistency_path(leaves, size) = <<>> /\ merkle_root(old) = merkle_root(leaves)
         /\ size # n => ConsistencyArrives(old, leaves, size, n)
<1>1. n \in Nat \ {0} /\ size \in Nat \ {0} /\ size =< n
  BY DEF Prefix
<1>2. PICK root, past : root = SliceRoot(leaves) /\ past = SliceRoot(old)
  OBVIOUS
<1>3. merkle_root(leaves) = root[<<0, n>>] /\ merkle_root(old) = past[<<0, size>>]
  <2>1. Len(<<>>) = 0
    OBVIOUS
  <2>2. leaves # <<>> /\ old # <<>>
    BY <1>1, <2>1
  <2> QED BY <1>2, <2>2 DEF merkle_root
<1>4. <<0, n>> \in Slices(leaves) /\ <<0, size>> \in Slices(old)
  BY <1>1 DEF Slices
<1>5. PICK path : path = Paths(leaves, "consistency", size)
  OBVIOUS
<1>6. consistency_path(leaves, size) = path[<<0, n>>]
  BY <1>5, ConsistencyPath
<1>7. ASSUME size = n
      PROVE  consistency_path(leaves, size) = <<>> /\ merkle_root(old) = merkle_root(leaves)
  <2>1. path[<<0, n>>] = <<>>
    <3>1. <<0, n>> \in Through(leaves, "consistency", size)
      BY <1>1, <1>4, <1>7 DEF Through, Around
    <3>2. path[<<0, n>>] = PathStep(leaves, "consistency", size, path, 0, n)
      BY <1>1, <1>5, <3>1, PathsEquation
    <3> QED BY <1>7, <3>2 DEF PathStep
  <2>2. root[<<0, n>>] = past[<<0, n>>]
    BY <1>2, <1>4, <1>7, SliceRootLocal
  <2> QED BY <1>3, <1>6, <1>7, <2>1, <2>2
<1>8. ASSUME size # n
      PROVE  ConsistencyArrives(old, leaves, size, n)
  <2>1. PICK a \in Nat, f \in Nat : size = (2 * f + 1) * power[a]
    BY <1>1, OddPartExists
  <2>2. PICK lower : lower = (2 * f) * power[a]
    OBVIOUS
  <2>3. PICK seed : seed = root[<<lower, size>>]
    OBVIOUS
  <2>4. PICK start : start = Climbed(Cursor(size - 1, n - 1, seed), Ones(size - 1))
    OBVIOUS
  <2>5. Over(start, n, lower, size, seed, seed)
    BY <1>1, <2>1, <2>2, <2>4, OverSeed
  <2>6. <<0, n>> \in Around(leaves, size) /\ AroundOld(n, size, lower, 0, n)
    BY <1>1, <1>4, <1>8, WholeOnGrid DEF Around, AroundOld
  <2>7. ConsistencyWalked(old, leaves, start, lower, seed, 0, n)
    BY <1>2, <2>1, <2>2, <2>3, <2>5, <2>6, ConsistenciesWalked
  <2>8. PICK rest \in Seq(TreeHashes(leaves)) :
          /\ path[<<0, n>>] = Seeded(lower, seed, rest)
          /\ Over(FoldLeft(Consume, start, rest), n, 0, n, past[<<0, size>>], root[<<0, n>>])
    BY <1>2, <1>5, <2>7 DEF ConsistencyWalked
  <2>9. PICK b : b = power[a] /\ b \in Nat \ {0}
    BY PowerType
  <2>10. lower \in Nat /\ size = lower + b /\ (lower = 0 <=> f = 0)
    BY <2>1, <2>2, <2>9, OddMultiple
  <2>11. seed \in TreeHashes(leaves)
    <3>1. lower \in 0..n /\ size \in 0..n /\ lower < size
      BY <1>1, <2>9, <2>10, EndsInside
    <3>2. <<lower, size>> \in Slices(leaves)
      BY <3>1 DEF Slices
    <3> QED BY <1>2, <2>3, <3>2 DEF TreeHashes
  <2>12. PowerOfTwo(size) <=> lower = 0
    BY <2>1, <2>10, PowerOfTwoOnly
  <2>13. lower = 0 => past[<<0, size>>] = seed
    BY <1>2, <1>4, <2>3, SliceRootLocal
  <2>14. PICK nodes : nodes = Nodes(size, merkle_root(old), path[<<0, n>>])
    OBVIOUS
  <2>15. nodes = <<seed>> \o rest
    <3>1. CASE lower = 0
      BY <1>3, <2>8, <2>12, <2>13, <2>14, <3>1 DEF Seeded, Nodes
    <3>2. CASE lower # 0
      BY <2>8, <2>12, <2>14, <3>2 DEF Seeded, Nodes
    <3> QED BY <3>1, <3>2
  <2>16. nodes # <<>> /\ nodes[1] = seed /\ Tail(nodes) = rest
    BY <2>11, <2>15, SeedFirst
  <2>17. PICK end : end = FoldLeft(Consume, start, rest)
    OBVIOUS
  <2>18. ~end.longer /\ end.sn = 0 /\ end.fr = past[<<0, size>>] /\ end.sr = root[<<0, n>>]
    BY <1>1, <2>8, <2>17, OverWhole
  <2>19. end = FoldLeft(Consume, SeedCursor(size, n, nodes), Tail(nodes))
    BY <2>4, <2>16, <2>17 DEF SeedCursor
  <2>20. nodes \in Seq(TreeHashes(leaves)) /\ path[<<0, n>>] \in Seq(TreeHashes(leaves))
         /\ Tail(nodes) \in Seq(TreeHashes(leaves))
    <3>1. <<seed>> \in Seq(TreeHashes(leaves))
      BY <2>11
    <3>2. <<seed>> \o rest \in Seq(TreeHashes(leaves))
      BY <3>1, ConcatProperties
    <3> QED BY <2>8, <2>15, <2>16, <3>2 DEF Seeded
  <2> QED BY <1>3, <1>6, <2>14, <2>16, <2>18, <2>19, <2>20 DEF ConsistencyArrives
<1> QED BY <1>7, <1>8

\* The verifier accepts the generator's proof between every two sizes of every
\* log.
LEMMA ConsistencyAccepted ==
  ASSUME NEW old, NEW leaves, Prefix(old, leaves), Len(leaves) =< MaxSafeSize,
         NEW p, p.old_size = Len(old), p.new_size = Len(leaves), p.hashes,
         p.old_root = merkle_root(old), p.new_root = merkle_root(leaves),
         p.consistency_path = consistency_path(leaves, Len(old))
  PROVE  ConsistencyAnswer(p) = "valid"
<1>1. PICK n, size : n = Len(leaves) /\ size = Len(old)
  OBVIOUS
<1>2. n \in Nat \ {0} /\ size \in Nat \ {0} /\ size =< n /\ n =< MaxSafeSize
  BY <1>1 DEF Prefix
<1>3. IsSize(size) /\ ~(size < 1) /\ IsSize(n) /\ ~(n < size)
  BY <1>2, SizeAssumption DEF IsSize
<1>4. CASE size = n
  BY <1>1, <1>3, <1>4, ConsistencyGenuine DEF ConsistencyAnswer
<1>5. CASE size # n
  <2>1. ConsistencyArrives(old, leaves, size, n)
    BY <1>1, <1>5, ConsistencyGenuine
  <2>2. PICK nodes : nodes = Nodes(size, merkle_root(old), consistency_path(leaves, size))
    OBVIOUS
  <2>3. PICK end : end = FoldLeft(Consume, SeedCursor(size, n, nodes), Tail(nodes))
    OBVIOUS
  <2>4. nodes # <<>> /\ ~end.longer /\ end.sn = 0 /\ end.fr = merkle_root(old) /\ end.sr = merkle_root(leaves)
    BY <2>1, <2>2, <2>3 DEF ConsistencyArrives
  <2>5. nodes = IF PowerOfTwo(p.old_size) THEN <<p.old_root>> \o p.consistency_path ELSE p.consistency_path
    BY <1>1, <2>2 DEF Nodes
  <2>6. end = FoldLeft(Consume, Climbed(Cursor(p.old_size - 1, p.new_size - 1, nodes[1]), Ones(p.old_size - 1)),
                       Tail(nodes))
    BY <1>1, <2>3 DEF SeedCursor
  <2> QED BY <1>1, <1>3, <1>5, <2>4, <2>5, <2>6 DEF ConsistencyAnswer
<1> QED BY <1>4, <1>5

-----------------------------------------------------------------------------
(* The tree by rows and the tree by slices *)

\* The lesser of two bounds.
Upto(a, n) == IF a =< n THEN a ELSE n

\* row is the row of the tree whose hashes are over width leaves each, the last
\* one over those that are left.
RowOfSlices(leaves, n, row, width) ==
  \E last \in Nat :
    /\ Len(row) = last + 1
    /\ last * width =< n - 1 /\ n - 1 < (last + 1) * width
    /\ \A p \in 0..last : row[p + 1] = SliceRoot(leaves)[<<p * width, Upto(p * width + width, n)>>]

\* Two hashes of a row are the halves of the slice above them, and a last one
\* without a partner is over a slice of its own.
SliceSplits(leaves, n, w, lo) ==
  SliceRoot(leaves)[<<lo, Upto(lo + 2 * w, n)>>] =
    IF lo + w < n
    THEN node(SliceRoot(leaves)[<<lo, lo + w>>], SliceRoot(leaves)[<<lo + w, Upto((lo + w) + w, n)>>])
    ELSE SliceRoot(leaves)[<<lo, Upto(lo + w, n)>>]

\* That is so of every slice as wide.
LEMMA SliceAbove ==
  ASSUME NEW leaves, NEW n \in Nat \ {0}, Len(leaves) = n, NEW k \in Nat, NEW w, w = power[k],
         NEW lo \in Nat, lo < n
  PROVE  SliceSplits(leaves, n, w, lo)
<1>1. w \in Nat \ {0}
  BY PowerType
<1>2. PICK root : root = SliceRoot(leaves)
  OBVIOUS
<1>3. PICK hi : hi = Upto(lo + 2 * w, n)
  OBVIOUS
<1>4. CASE lo + w < n
  <2>1. hi \in Nat /\ lo < hi /\ hi =< n /\ hi - lo \in Nat /\ hi - lo >= 2 /\ w < hi - lo /\ hi - lo =< 2 * w
        /\ Upto((lo + w) + w, n) = hi
    BY <1>1, <1>3, <1>4, SMTT(30) DEF Upto
  <2>2. PICK j \in Nat : k_below(hi - lo) = power[j] /\ power[j] < hi - lo /\ hi - lo =< 2 * power[j]
    BY <2>1, CutAtPower
  <2>3. j = k
    BY <2>1, <2>2, PowerBelow
  <2>4. Cut(lo, hi) = lo + w
    BY <2>2, <2>3 DEF Cut
  <2>5. <<lo, hi>> \in Slices(leaves)
    BY <1>1, <2>1 DEF Slices
  <2>6. root[<<lo, hi>>] = node(root[<<lo, lo + w>>], root[<<lo + w, hi>>])
    <3>1. hi - lo # 1
      BY <2>1
    <3> QED BY <1>2, <2>4, <2>5, <3>1, SliceRootEquation DEF RootOf
  <2> QED BY <1>2, <1>3, <1>4, <2>1, <2>6 DEF SliceSplits
<1>5. CASE ~(lo + w < n)
  <2>1. hi = n /\ Upto(lo + w, n) = n
    BY <1>1, <1>3, <1>5, SMTT(30) DEF Upto
  <2> QED BY <1>2, <1>3, <1>5, <2>1 DEF SliceSplits
<1> QED BY <1>4, <1>5

\* What halving does to the last position of a row.
LEMMA LastHalved ==
  ASSUME NEW n \in Nat \ {0}, NEW w \in Nat \ {0}, NEW last \in Nat,
         last * w =< n - 1, n - 1 < (last + 1) * w
  PROVE  (last \div 2) * (2 * w) =< n - 1 /\ n - 1 < ((last \div 2) + 1) * (2 * w)
<1>1. PICK s, r : s = last \div 2 /\ r = last % 2 /\ s \in Nat /\ r \in {0, 1} /\ last = 2 * s + r
  OBVIOUS
<1>2. w \in Int /\ s \in Int /\ r \in Int /\ 2 * w \in Int /\ 2 * s \in Int /\ last \in Int /\ 1 \in Int
  BY <1>1
<1>3. last * w = s * (2 * w) + r * w /\ (last + 1) * w = s * (2 * w) + r * w + w
  <2>1. (2 * s + r) * w = (2 * s) * w + r * w
    BY <1>2, Distributes
  <2>2. (last + 1) * w = last * w + 1 * w /\ 1 * w = w
    BY <1>2, Distributes, Associates
  <2>3. (2 * s) * w = s * (2 * w)
    BY <1>2
  <2> QED BY <1>1, <2>1, <2>2, <2>3
<1>4. (s + 1) * (2 * w) = s * (2 * w) + 2 * w
  BY <1>2, Distributes, Associates
<1>5. PICK x \in Nat : x = s * (2 * w)
  BY <1>1
<1>6. r * w \in {0, w}
  BY <1>1
<1> QED BY <1>1, <1>3, <1>4, <1>5, <1>6

\* Larger numbers, larger multiples.
LEMMA TimesMonotone ==
  ASSUME NEW a \in Nat, NEW b \in Nat, a =< b, NEW w \in Nat
  PROVE  a * w =< b * w
<1>1. PICK d \in Nat : b = a + d
  <2>1. b - a \in Nat /\ b = a + (b - a)
    OBVIOUS
  <2> QED BY <2>1
<1>2. b * w = a * w + d * w /\ d * w \in Nat /\ a * w \in Nat
  BY <1>1
<1> QED BY <1>2

\* So the row above is over slices twice as wide.
LEMMA RowOfSlicesAbove ==
  ASSUME NEW rows, IsTree(rows), NEW leaves, leaves = LeavesOf(rows), NEW n \in Nat \ {0}, Len(leaves) = n,
         NEW k \in Nat, RowOfSlices(leaves, n, RowAt(rows, k + 1), power[k])
  PROVE  RowOfSlices(leaves, n, RowAt(rows, (k + 1) + 1), power[k + 1])
<1>1. PICK w : w = power[k] /\ w \in Nat \ {0} /\ power[k + 1] = 2 * w
  BY PowerType, PowerEquation
<1>2. PICK row, above : row = RowAt(rows, k + 1) /\ above = RowAt(rows, (k + 1) + 1)
  OBVIOUS
<1>3. PICK root : root = SliceRoot(leaves)
  OBVIOUS
<1>4. PICK last \in Nat :
        /\ Len(row) = last + 1 /\ last * w =< n - 1 /\ n - 1 < (last + 1) * w
        /\ \A p \in 0..last : row[p + 1] = root[<<p * w, Upto(p * w + w, n)>>]
  BY <1>1, <1>2, <1>3 DEF RowOfSlices
<1>5. /\ Len(above) = (last \div 2) + 1
      /\ \A p \in 0..(last \div 2) :
           above[p + 1] = IF 2 * p + 1 =< last THEN node(row[2 * p + 1], row[2 * p + 2]) ELSE row[2 * p + 1]
  <2>1. PICK h : h = k + 1 /\ h \in Nat \ {0}
    OBVIOUS
  <2>2. row = RowAt(rows, h) /\ above = RowAt(rows, h + 1) /\ Len(RowAt(rows, h)) = last + 1
    BY <1>2, <1>4, <2>1
  <2>3. /\ Len(RowAt(rows, h + 1)) = (last \div 2) + 1
        /\ \A p \in 0..(last \div 2) :
             RowAt(rows, h + 1)[p + 1] =
               IF 2 * p + 1 =< last THEN node(RowAt(rows, h)[2 * p + 1], RowAt(rows, h)[2 * p + 2])
               ELSE RowAt(rows, h)[2 * p + 1]
    BY <2>1, <2>2, PositionClimbed, ZenonT(60)
  <2> QED BY <2>2, <2>3
<1>6. (last \div 2) * (2 * w) =< n - 1 /\ n - 1 < ((last \div 2) + 1) * (2 * w)
  BY <1>1, <1>4, LastHalved
<1>7. ASSUME NEW p \in 0..(last \div 2)
      PROVE  above[p + 1] = root[<<p * (2 * w), Upto(p * (2 * w) + 2 * w, n)>>]
  <2>1. p \in Nat /\ 2 * p \in 0..last /\ 2 * p \in Nat
    BY <1>4
  <2>2. PICK lo : lo = p * (2 * w) /\ lo \in Nat /\ (2 * p) * w = lo /\ (2 * p + 1) * w = lo + w
    BY <1>1, <2>1, SMTT(30)
  <2>3. lo =< last * w
    <3>1. 2 * p \in Nat /\ 2 * p =< last /\ w \in Nat
      BY <1>1, <2>1
    <3>2. (2 * p) * w =< last * w
      BY <3>1, TimesMonotone
    <3> QED BY <2>2, <3>2
  <2>4. lo < n
    <3>1. last * w \in Nat
      BY <1>1, <1>4
    <3> QED BY <1>4, <2>2, <2>3, <3>1
  <2>5. row[2 * p + 1] = root[<<lo, Upto(lo + w, n)>>]
    BY <1>4, <2>1, <2>2
  <2>6. root[<<lo, Upto(lo + 2 * w, n)>>] =
          IF lo + w < n THEN node(root[<<lo, lo + w>>], root[<<lo + w, Upto((lo + w) + w, n)>>])
          ELSE root[<<lo, Upto(lo + w, n)>>]
    <3>1. SliceSplits(leaves, n, w, lo)
      BY <1>1, <2>2, <2>4, SliceAbove
    <3> QED BY <1>3, <3>1 DEF SliceSplits
  <2>7. CASE 2 * p + 1 =< last
    <3>1. 2 * p + 1 \in 0..last /\ (2 * p + 1) + 1 = 2 * p + 2
      BY <2>1, <2>7
    <3>2. row[2 * p + 2] = root[<<lo + w, Upto((lo + w) + w, n)>>]
      BY <1>4, <2>2, <3>1
    <3>3. lo + w =< last * w
      <4>1. 2 * p + 1 \in Nat /\ 2 * p + 1 =< last /\ w \in Nat
        BY <1>1, <3>1
      <4>2. (2 * p + 1) * w =< last * w
        BY <4>1, TimesMonotone
      <4> QED BY <2>2, <4>2
    <3>4. lo + w < n /\ Upto(lo + w, n) = lo + w
      <4>1. PICK x \in Nat : x = last * w
        BY <1>1, <1>4
      <4>2. lo + w =< x /\ x =< n - 1 /\ lo \in Nat /\ w \in Nat
        BY <1>1, <1>4, <2>2, <3>3, <4>1
      <4>3. lo + w < n
        BY <4>2
      <4>4. lo + w =< n
        BY <1>1, <2>2, <4>3, SMTT(30)
      <4> QED BY <4>3, <4>4 DEF Upto
    <3> QED BY <1>5, <2>2, <2>5, <2>6, <2>7, <3>2, <3>4
  <2>8. CASE ~(2 * p + 1 =< last)
    <3>1. last = 2 * p
      BY <1>4, <2>1, <2>8
    <3>2. n - 1 < lo + w
      BY <1>4, <2>2, <3>1
    <3>3. ~(lo + w < n)
      BY <1>1, <2>2, <3>2, SMTT(30)
    <3> QED BY <1>5, <2>2, <2>5, <2>6, <2>8, <3>3
  <2> QED BY <2>7, <2>8
<1>8. PICK top : top = last \div 2 /\ top \in Nat
  BY <1>4
<1>9. RowOfSlices(leaves, n, above, 2 * w)
  BY <1>3, <1>5, <1>6, <1>7, <1>8 DEF RowOfSlices
<1> QED BY <1>1, <1>2, <1>9

\* So every row is over slices as wide as a power of two.
LEMMA RowsOfSlices ==
  ASSUME NEW rows, IsTree(rows), NEW leaves, leaves = LeavesOf(rows), NEW n \in Nat \ {0}, Len(leaves) = n
  PROVE  \A k \in Nat : RowOfSlices(leaves, n, RowAt(rows, k + 1), power[k])
<1> DEFINE T == {k \in Nat : RowOfSlices(leaves, n, RowAt(rows, k + 1), power[k])}
<1>1. RowOfSlices(leaves, n, RowAt(rows, 0 + 1), power[0])
  <2>1. RowAt(rows, 0 + 1) = leaves
    BY DEF RowAt, IsTree, LeavesOf
  <2>2. power[0] = 1
    BY PowerEquation
  <2>3. ASSUME NEW p \in 0..(n - 1)
        PROVE  leaves[p + 1] = SliceRoot(leaves)[<<p * 1, Upto(p * 1 + 1, n)>>]
    <3>1. p * 1 = p /\ Upto(p * 1 + 1, n) = p + 1 /\ p \in Nat /\ (p + 1) - p = 1
      BY DEF Upto
    <3>2. <<p, p + 1>> \in Slices(leaves)
      BY DEF Slices
    <3>3. SliceRoot(leaves)[<<p, p + 1>>] = leaves[p + 1]
      BY <3>1, <3>2, SliceRootEquation, ZenonT(60) DEF RootOf
    <3> QED BY <3>1, <3>3
  <2>4. n - 1 \in Nat /\ Len(leaves) = (n - 1) + 1 /\ (n - 1) * 1 =< n - 1 /\ n - 1 < ((n - 1) + 1) * 1
    OBVIOUS
  <2> QED BY <2>1, <2>2, <2>3, <2>4 DEF RowOfSlices
<1>2. \A k \in T : k + 1 \in T
  BY RowOfSlicesAbove
<1>3. T \in SUBSET Nat /\ 0 \in T
  BY <1>1
<1> HIDE DEF T
<1>4. T = Nat
  BY <1>2, <1>3, Induct
<1> QED BY <1>4 DEF T

\* Both definitions of the RFC give a tree one root.
LEMMA RootOfRows ==
  ASSUME NEW rows, IsTree(rows)
  PROVE  merkle_root(LeavesOf(rows)) = Root(rows)
<1>1. PICK leaves, n : leaves = LeavesOf(rows) /\ n = Len(leaves)
  OBVIOUS
<1>2. n \in Nat \ {0} /\ Len(rows) \in Nat \ {0} /\ Len(rows[Len(rows)]) = 1
  BY <1>1 DEF IsTree, LeavesOf
<1>3. PICK k \in Nat : Len(rows) = k + 1
  <2>1. Len(rows) - 1 \in Nat /\ Len(rows) = (Len(rows) - 1) + 1
    BY <1>2
  <2> QED BY <2>1
<1>4. PICK row : row = RowAt(rows, k + 1) /\ Len(row) = 1 /\ row[1] = Root(rows)
  BY <1>2, <1>3 DEF RowAt, Root
<1>5. PICK w : w = power[k] /\ w \in Nat \ {0}
  BY PowerType
<1>6. RowOfSlices(leaves, n, row, w)
  BY <1>1, <1>2, <1>4, <1>5, RowsOfSlices
<1>7. PICK last \in Nat :
        /\ Len(row) = last + 1 /\ n - 1 < (last + 1) * w
        /\ \A p \in 0..last : row[p + 1] = SliceRoot(leaves)[<<p * w, Upto(p * w + w, n)>>]
  BY <1>6 DEF RowOfSlices
<1>8. last = 0
  <2>1. 1 = last + 1
    BY <1>4, <1>7
  <2> QED BY <2>1
<1>9. n =< w /\ 0 * w = 0
  BY <1>2, <1>5, <1>7, <1>8
<1>10. row[0 + 1] = SliceRoot(leaves)[<<0 * w, Upto(0 * w + w, n)>>]
  BY <1>7, <1>8
<1>11. Upto(0 * w + w, n) = n
  BY <1>2, <1>5, <1>9 DEF Upto
<1>12. leaves # <<>>
  <2>1. Len(<<>>) = 0
    OBVIOUS
  <2> QED BY <1>1, <1>2, <2>1
<1> QED BY <1>1, <1>4, <1>9, <1>10, <1>11, <1>12 DEF merkle_root

-----------------------------------------------------------------------------
(* What a walk does with a node, and that no two paths arrive at one root *)

\* The sibling is on the left, and how many rows the cursor climbs.
Turns(fn, sn) == fn % 2 = 1 \/ fn = sn
Rise(fn, sn) == power[IF Turns(fn, sn) THEN Zeros(fn) + 1 ELSE 1]

\* Consuming a node below the top.
LEMMA Consumed ==
  ASSUME NEW c, NEW fn, NEW sn, NEW fr, NEW sr, Standing(c, fn, sn, fr, sr), sn # 0, NEW e
  PROVE  Standing(Consume(c, e), fn \div Rise(fn, sn), sn \div Rise(fn, sn),
                  IF Turns(fn, sn) THEN node(e, fr) ELSE fr,
                  IF Turns(fn, sn) THEN node(e, sr) ELSE node(sr, e))
<1>1. c.fn = fn /\ c.sn = sn /\ ~c.longer
  BY DEF Standing
<1>2. PICK p : p = Rise(fn, sn)
  OBVIOUS
<1>3. CASE Turns(fn, sn)
  <2>1. PICK k : k = Zeros(fn) + 1
    OBVIOUS
  <2>2. Consume(c, e) = Climbed([c EXCEPT !.fr = node(e, @), !.sr = node(e, @)], k)
    BY <1>1, <1>3, <2>1 DEF Consume, WithLeft, Turns
  <2>3. Standing([c EXCEPT !.fr = node(e, @), !.sr = node(e, @)], fn, sn, node(e, fr), node(e, sr))
    BY StandingLeft
  <2>4. p = power[k]
    BY <1>2, <1>3, <2>1 DEF Rise
  <2>5. Standing(Consume(c, e), fn \div p, sn \div p, node(e, fr), node(e, sr))
    BY <2>2, <2>3, <2>4, StandingClimbed
  <2> QED BY <1>2, <1>3, <2>5
<1>4. CASE ~Turns(fn, sn)
  <2>1. PICK k : k = 1
    OBVIOUS
  <2>2. Consume(c, e) = Climbed([c EXCEPT !.sr = node(@, e)], k)
    BY <1>1, <1>4, <2>1 DEF Consume, WithRight, Turns
  <2>3. Standing([c EXCEPT !.sr = node(@, e)], fn, sn, fr, node(sr, e))
    BY StandingRight
  <2>4. p = power[k]
    BY <1>2, <1>4, <2>1 DEF Rise
  <2>5. Standing(Consume(c, e), fn \div p, sn \div p, fr, node(sr, e))
    BY <2>2, <2>3, <2>4, StandingClimbed
  <2> QED BY <1>2, <1>4, <2>5
<1> QED BY <1>3, <1>4

\* A cursor, below the top of the tree, at it or past it.
IsCursor(c) == DOMAIN c = {"fn", "sn", "fr", "sr", "longer"}

\* Consuming a node at the top, or past it.
LEMMA ConsumedPast ==
  ASSUME NEW c, IsCursor(c), c.longer \/ c.sn = 0, NEW e
  PROVE  IsCursor(Consume(c, e)) /\ Consume(c, e).longer
<1>1. PICK d : d = Consume(c, e)
  OBVIOUS
<1>2. d = [c EXCEPT !.longer = TRUE]
  BY <1>1 DEF Consume
<1>3. DOMAIN d = {"fn", "sn", "fr", "sr", "longer"} /\ d.longer = TRUE
  BY <1>2 DEF IsCursor
<1> QED BY <1>1, <1>3 DEF IsCursor

\* A walk that has not gone past the top stands somewhere.
LEMMA CursorStands ==
  ASSUME NEW c
  PROVE  /\ IsCursor(c) /\ ~c.longer => Standing(c, c.fn, c.sn, c.fr, c.sr)
         /\ \A fn, sn, fr, sr : Standing(c, fn, sn, fr, sr) => IsCursor(c)
BY DEF IsCursor, Standing

\* Consuming a node leaves a cursor.
LEMMA ConsumedIsCursor ==
  ASSUME NEW c, IsCursor(c), NEW e
  PROVE  IsCursor(Consume(c, e))
<1>1. CASE c.longer \/ c.sn = 0
  BY <1>1, ConsumedPast
<1>2. CASE ~(c.longer \/ c.sn = 0)
  <2>1. Standing(c, c.fn, c.sn, c.fr, c.sr)
    BY <1>2, CursorStands
  <2>2. PICK fn, sn, fr, sr : Standing(Consume(c, e), fn, sn, fr, sr)
    BY <1>2, <2>1, Consumed
  <2> QED BY <2>2, CursorStands
<1> QED BY <1>1, <1>2

\* The cursors a walk goes through.
Walk(w, c, s, n) == w[0] = c /\ \A j \in Nat : j < n => w[j + 1] = Consume(w[j], s[j + 1])

\* A fold is such a walk.
LEMMA FoldWalks ==
  ASSUME NEW c, NEW s, NEW n \in Nat, DOMAIN s = 1..n
  PROVE  \E w : Walk(w, c, s, n) /\ FoldLeft(Consume, c, s) = w[n]
<1>1. PICK f : Consuming(c, s, f, n) /\ FoldLeft(Consume, c, s) = f[1..n]
  BY FoldConsuming
<1>2. /\ f[{}] = c
      /\ \A m \in Nat : m < n => f[1..(m + 1)] = Consume(f[1..m], s[m + 1])
  BY <1>1, ConsumingNext
<1> DEFINE w == [j \in Nat |-> f[1..j]]
<1>3. w[0] = c
  <2>1. 1..0 = {}
    OBVIOUS
  <2> QED BY <1>2, <2>1
<1>4. \A j \in Nat : j < n => w[j + 1] = Consume(w[j], s[j + 1])
  BY <1>2
<1>5. w[n] = f[1..n]
  OBVIOUS
<1> HIDE DEF w
<1> QED BY <1>1, <1>3, <1>4, <1>5 DEF Walk

\* A walk that goes past the top ends there.
LEMMA WalkPast ==
  ASSUME NEW w, NEW c, IsCursor(c), NEW s, NEW n \in Nat, Walk(w, c, s, n)
  PROVE  /\ \A j \in 0..n : IsCursor(w[j])
         /\ \A j \in 0..n : w[j].longer => w[n].longer
         /\ \A j \in 0..n : j < n /\ w[j].sn = 0 => w[n].longer
<1>1. \A j \in 0..n : IsCursor(w[j])
  <2> DEFINE T == {j \in Nat : j =< n => IsCursor(w[j])}
  <2>1. 0 \in T
    BY DEF Walk
  <2>2. ASSUME NEW j \in T PROVE j + 1 \in T
    <3>1. SUFFICES ASSUME j + 1 =< n PROVE IsCursor(w[j + 1])
      OBVIOUS
    <3>2. j \in Nat /\ j < n /\ IsCursor(w[j])
      BY <3>1
    <3> QED BY <3>2, ConsumedIsCursor DEF Walk
  <2>3. T \in SUBSET Nat
    OBVIOUS
  <2> HIDE DEF T
  <2>4. T = Nat
    BY <2>1, <2>2, <2>3, Induct
  <2> QED BY <2>4 DEF T
<1>2. \A d \in Nat : d =< n => (w[n - d].longer => w[n].longer)
  <2> DEFINE T == {d \in Nat : d =< n => (w[n - d].longer => w[n].longer)}
  <2>1. 0 \in T
    OBVIOUS
  <2>2. ASSUME NEW d \in T PROVE d + 1 \in T
    <3>1. SUFFICES ASSUME d + 1 =< n, w[n - (d + 1)].longer PROVE w[n].longer
      OBVIOUS
    <3>2. PICK j : j = n - (d + 1) /\ j \in 0..n /\ j < n /\ j + 1 = n - d /\ j \in Nat
      BY <3>1
    <3>3. IsCursor(w[j]) /\ w[j].longer /\ w[j + 1] = Consume(w[j], s[j + 1])
      BY <1>1, <3>1, <3>2 DEF Walk
    <3>4. w[j + 1].longer
      BY <3>3, ConsumedPast
    <3>5. d =< n
      BY <3>1
    <3> QED BY <3>2, <3>4, <3>5
  <2>3. T \in SUBSET Nat
    OBVIOUS
  <2> HIDE DEF T
  <2>4. T = Nat
    BY <2>1, <2>2, <2>3, Induct
  <2> QED BY <2>4 DEF T
<1>3. \A j \in 0..n : w[j].longer => w[n].longer
  <2> TAKE j \in 0..n
  <2>1. n - j \in Nat /\ n - j =< n /\ n - (n - j) = j
    OBVIOUS
  <2> QED BY <1>2, <2>1
<1>4. ASSUME NEW j \in 0..n, j < n, w[j].sn = 0
      PROVE  w[n].longer
  <2>1. j + 1 \in 0..n /\ j \in Nat
    BY <1>4
  <2>2. w[j + 1].longer
    BY <1>1, <1>4, <2>1, ConsumedPast DEF Walk
  <2> QED BY <1>3, <2>1, <2>2
<1> QED BY <1>1, <1>3, <1>4

\* Two walks from one position are at one position after as many nodes.
LEMMA WalksInStep ==
  ASSUME NEW v, NEW c, IsCursor(c), NEW s, NEW n \in Nat, Walk(v, c, s, n), ~v[n].longer,
         NEW w, NEW d, IsCursor(d), NEW t, NEW m \in Nat, Walk(w, d, t, m), ~w[m].longer,
         c.fn = d.fn, c.sn = d.sn
  PROVE  \A j \in Nat : j =< n /\ j =< m => v[j].fn = w[j].fn /\ v[j].sn = w[j].sn
<1> DEFINE T == {j \in Nat : j =< n /\ j =< m => v[j].fn = w[j].fn /\ v[j].sn = w[j].sn}
<1>1. 0 \in T
  BY DEF Walk
<1>2. ASSUME NEW j \in T PROVE j + 1 \in T
  <2>1. SUFFICES ASSUME j + 1 =< n, j + 1 =< m
                 PROVE  v[j + 1].fn = w[j + 1].fn /\ v[j + 1].sn = w[j + 1].sn
    OBVIOUS
  <2>2. j \in 0..n /\ j \in 0..m /\ j < n /\ j < m /\ j \in Nat /\ j =< n /\ j =< m
    BY <2>1
  <2>3. IsCursor(v[j]) /\ ~v[j].longer /\ v[j].sn # 0
    BY <2>2, WalkPast
  <2>4. IsCursor(w[j]) /\ ~w[j].longer /\ w[j].sn # 0
    BY <2>2, WalkPast
  <2>5. PICK fn, sn : fn = v[j].fn /\ sn = v[j].sn /\ fn = w[j].fn /\ sn = w[j].sn
    BY <2>2
  <2>6. v[j + 1] = Consume(v[j], s[j + 1]) /\ w[j + 1] = Consume(w[j], t[j + 1])
    BY <2>2 DEF Walk
  <2>7. PICK a, b : Standing(v[j + 1], fn \div Rise(fn, sn), sn \div Rise(fn, sn), a, b)
    <3>1. Standing(v[j], fn, sn, v[j].fr, v[j].sr)
      BY <2>3, <2>5, CursorStands
    <3> QED BY <2>3, <2>5, <2>6, <3>1, Consumed
  <2>8. PICK x, y : Standing(w[j + 1], fn \div Rise(fn, sn), sn \div Rise(fn, sn), x, y)
    <3>1. Standing(w[j], fn, sn, w[j].fr, w[j].sr)
      BY <2>4, <2>5, CursorStands
    <3> QED BY <2>4, <2>5, <2>6, <3>1, Consumed
  <2> QED BY <2>7, <2>8 DEF Standing
<1>3. T \in SUBSET Nat
  OBVIOUS
<1> HIDE DEF T
<1>4. T = Nat
  BY <1>1, <1>2, <1>3, Induct
<1> QED BY <1>4 DEF T

\* Two walks from one position that end at the top end together.
LEMMA WalksEndTogether ==
  ASSUME NEW v, NEW c, IsCursor(c), NEW s, NEW n \in Nat, Walk(v, c, s, n), ~v[n].longer, v[n].sn = 0,
         NEW w, NEW d, IsCursor(d), NEW t, NEW m \in Nat, Walk(w, d, t, m), ~w[m].longer, w[m].sn = 0,
         c.fn = d.fn, c.sn = d.sn
  PROVE  n = m
<1>1. \A j \in Nat : j =< n /\ j =< m => v[j].sn = w[j].sn
  BY WalksInStep
<1>2. ~(n < m)
  <2>1. SUFFICES ASSUME n < m PROVE FALSE
    OBVIOUS
  <2>2. w[n].sn = 0 /\ n \in 0..m
    BY <1>1, <2>1
  <2> QED BY <2>1, <2>2, WalkPast
<1>3. ~(m < n)
  <2>1. SUFFICES ASSUME m < n PROVE FALSE
    OBVIOUS
  <2>2. v[m].sn = 0 /\ m \in 0..n
    BY <1>1, <2>1
  <2> QED BY <2>1, <2>2, WalkPast
<1> QED BY <1>2, <1>3

\* And when they arrive at one root they were one walk: a root determines the
\* path that leads to it from a position, and the hash it starts from.
LEMMA PathUnique ==
  ASSUME NEW s, NEW n \in Nat, DOMAIN s = 1..n, NEW t, NEW m \in Nat, DOMAIN t = 1..m,
         NEW c, IsCursor(c), NEW d, IsCursor(d), c.fn = d.fn, c.sn = d.sn,
         NEW a, a = FoldLeft(Consume, c, s), ~a.longer, a.sn = 0,
         NEW b, b = FoldLeft(Consume, d, t), ~b.longer, b.sn = 0,
         a.sr = b.sr
  PROVE  n = m /\ c.sr = d.sr /\ \A i \in 1..n : s[i] = t[i]
<1>1. PICK v : Walk(v, c, s, n) /\ a = v[n]
  BY FoldWalks
<1>2. PICK w : Walk(w, d, t, m) /\ b = w[m]
  BY FoldWalks
<1>3. n = m
  BY <1>1, <1>2, WalksEndTogether
<1>4. \A j \in Nat : j =< n => v[j].fn = w[j].fn /\ v[j].sn = w[j].sn
  BY <1>1, <1>2, <1>3, WalksInStep
<1>5. ASSUME NEW j \in Nat, j < n, v[j + 1].sr = w[j + 1].sr
      PROVE  v[j].sr = w[j].sr /\ s[j + 1] = t[j + 1]
  <2>1. j \in 0..n /\ j =< n
    BY <1>5
  <2>2. IsCursor(v[j]) /\ ~v[j].longer /\ v[j].sn # 0
    BY <1>1, <1>5, <2>1, WalkPast
  <2>3. IsCursor(w[j]) /\ ~w[j].longer /\ w[j].sn # 0
    BY <1>2, <1>3, <1>5, <2>1, WalkPast
  <2>4. PICK fn, sn : fn = v[j].fn /\ sn = v[j].sn /\ fn = w[j].fn /\ sn = w[j].sn
    BY <1>4, <2>1
  <2>5. v[j + 1].sr = IF Turns(fn, sn) THEN node(s[j + 1], v[j].sr) ELSE node(v[j].sr, s[j + 1])
    <3>1. Standing(v[j], fn, sn, v[j].fr, v[j].sr)
      BY <2>2, <2>4, CursorStands
    <3>2. v[j + 1] = Consume(v[j], s[j + 1])
      BY <1>1, <1>5 DEF Walk
    <3>3. PICK e, r : e = s[j + 1] /\ r = v[j].sr
      OBVIOUS
    <3>4. Standing(v[j + 1], fn \div Rise(fn, sn), sn \div Rise(fn, sn),
                   IF Turns(fn, sn) THEN node(e, v[j].fr) ELSE v[j].fr,
                   IF Turns(fn, sn) THEN node(e, r) ELSE node(r, e))
      BY <2>2, <2>4, <3>1, <3>2, <3>3, Consumed
    <3> QED BY <3>3, <3>4 DEF Standing
  <2>6. w[j + 1].sr = IF Turns(fn, sn) THEN node(t[j + 1], w[j].sr) ELSE node(w[j].sr, t[j + 1])
    <3>1. Standing(w[j], fn, sn, w[j].fr, w[j].sr)
      BY <2>3, <2>4, CursorStands
    <3>2. w[j + 1] = Consume(w[j], t[j + 1])
      BY <1>2, <1>3, <1>5 DEF Walk
    <3>3. PICK e, r : e = t[j + 1] /\ r = w[j].sr
      OBVIOUS
    <3>4. Standing(w[j + 1], fn \div Rise(fn, sn), sn \div Rise(fn, sn),
                   IF Turns(fn, sn) THEN node(e, w[j].fr) ELSE w[j].fr,
                   IF Turns(fn, sn) THEN node(e, r) ELSE node(r, e))
      BY <2>3, <2>4, <3>1, <3>2, <3>3, Consumed
    <3> QED BY <3>3, <3>4 DEF Standing
  <2>7. CASE Turns(fn, sn)
    <3>1. node(s[j + 1], v[j].sr) = node(t[j + 1], w[j].sr)
      BY <1>5, <2>5, <2>6, <2>7
    <3> QED BY <3>1, NodeInjective
  <2>8. CASE ~Turns(fn, sn)
    <3>1. node(v[j].sr, s[j + 1]) = node(w[j].sr, t[j + 1])
      BY <1>5, <2>5, <2>6, <2>8
    <3> QED BY <3>1, NodeInjective
  <2> QED BY <2>7, <2>8
<1>6. \A e \in Nat : e =< n => v[n - e].sr = w[n - e].sr
  <2> DEFINE T == {e \in Nat : e =< n => v[n - e].sr = w[n - e].sr}
  <2>1. 0 \in T
    BY <1>1, <1>2, <1>3
  <2>2. ASSUME NEW e \in T PROVE e + 1 \in T
    <3>1. SUFFICES ASSUME e + 1 =< n PROVE v[n - (e + 1)].sr = w[n - (e + 1)].sr
      OBVIOUS
    <3>2. PICK j : j = n - (e + 1) /\ j \in Nat /\ j < n /\ j + 1 = n - e /\ e =< n
      BY <3>1
    <3> QED BY <1>5, <3>2
  <2>3. T \in SUBSET Nat
    OBVIOUS
  <2> HIDE DEF T
  <2>4. T = Nat
    BY <2>1, <2>2, <2>3, Induct
  <2> QED BY <2>4 DEF T
<1>7. \A j \in 0..n : v[j].sr = w[j].sr
  <2> TAKE j \in 0..n
  <2>1. n - j \in Nat /\ n - j =< n /\ n - (n - j) = j
    OBVIOUS
  <2> QED BY <1>6, <2>1
<1>8. c.sr = d.sr
  BY <1>1, <1>2, <1>7 DEF Walk
<1>9. ASSUME NEW i \in 1..n PROVE s[i] = t[i]
  <2>1. PICK j : j = i - 1 /\ j \in Nat /\ j < n /\ j + 1 = i /\ i \in 0..n
    OBVIOUS
  <2> QED BY <1>5, <1>7, <2>1
<1> QED BY <1>3, <1>8, <1>9

-----------------------------------------------------------------------------
(* What the verifier accepts *)

\* Sequences with the same elements.
LEMMA SameSequence ==
  ASSUME NEW S, NEW s \in Seq(S), NEW T, NEW t \in Seq(T), Len(s) = Len(t),
         \A i \in 1..Len(s) : s[i] = t[i]
  PROVE  s = t
<1>1. PICK n \in Nat : n = Len(s) /\ DOMAIN s = 1..n /\ DOMAIN t = 1..n
  BY LenProperties
<1>2. s \in [1..n -> S] /\ t \in [1..n -> T]
  BY <1>1, LenProperties
<1> QED BY <1>1, <1>2

\* Towards the root of a list the verifier accepts the generator's proof of an
\* entry of it and nothing else.
LEMMA InclusionExactly ==
  ASSUME NEW leaves, NEW n \in Nat \ {0}, Len(leaves) = n, NEW p, p.tree_size = n,
         p.root_hash = merkle_root(leaves), NEW S, p.audit_path \in Seq(S)
  PROVE  InclusionAnswer(p) = "valid" <=>
           /\ IsSize(n) /\ p.hashes /\ p.leaf_index \in 0..(n - 1)
           /\ p.leaf_hash = leaves[p.leaf_index + 1]
           /\ p.audit_path = inclusion_path(leaves, p.leaf_index)
<1>1. ASSUME InclusionAnswer(p) = "valid"
      PROVE  /\ IsSize(n) /\ p.hashes /\ p.leaf_index \in 0..(n - 1)
             /\ p.leaf_hash = leaves[p.leaf_index + 1]
             /\ p.audit_path = inclusion_path(leaves, p.leaf_index)
  <2>1. PICK x : x = p.leaf_index
    OBVIOUS
  <2>2. PICK a : a = FoldLeft(Consume, Cursor(x, n - 1, p.leaf_hash), p.audit_path)
    OBVIOUS
  <2>3. /\ IsSize(n) /\ p.hashes /\ IsSize(x) /\ ~(x >= n)
        /\ ~a.longer /\ a.sn = 0 /\ a.sr = p.root_hash
    BY <1>1, <2>1, <2>2 DEF InclusionAnswer
  <2>4. x \in 0..(n - 1)
    BY <2>3, SizeAssumption DEF IsSize
  <2>5. InclusionArrives(leaves, n, x)
    BY <2>4, InclusionGenuine
  <2>6. PICK path : path = inclusion_path(leaves, x)
    OBVIOUS
  <2>7. PICK T : path \in Seq(T)
    BY <2>5, <2>6 DEF InclusionArrives
  <2>8. PICK b : b = FoldLeft(Consume, Cursor(x, n - 1, leaves[x + 1]), path)
    OBVIOUS
  <2>9. ~b.longer /\ b.sn = 0 /\ b.sr = merkle_root(leaves)
    BY <2>5, <2>6, <2>8 DEF InclusionArrives
  <2>10. PICK c, d : c = Cursor(x, n - 1, p.leaf_hash) /\ d = Cursor(x, n - 1, leaves[x + 1])
    OBVIOUS
  <2>11. IsCursor(c) /\ IsCursor(d) /\ c.fn = d.fn /\ c.sn = d.sn /\ c.sr = p.leaf_hash /\ d.sr = leaves[x + 1]
    BY <2>10 DEF Cursor, IsCursor
  <2>12. PICK own : own = p.audit_path /\ own \in Seq(S)
    OBVIOUS
  <2>13. PICK i \in Nat : i = Len(own) /\ DOMAIN own = 1..i
    BY <2>12, LenProperties
  <2>14. PICK j \in Nat : j = Len(path) /\ DOMAIN path = 1..j
    BY <2>7, LenProperties
  <2>15. a = FoldLeft(Consume, c, own) /\ b = FoldLeft(Consume, d, path) /\ a.sr = b.sr
    BY <2>2, <2>3, <2>8, <2>9, <2>10, <2>12
  <2>16. i = j /\ c.sr = d.sr /\ \A k \in 1..i : own[k] = path[k]
    BY <2>3, <2>9, <2>11, <2>13, <2>14, <2>15, PathUnique, SMTT(30)
  <2>17. own = path
    BY <2>7, <2>12, <2>13, <2>14, <2>16, SameSequence
  <2> QED BY <2>1, <2>3, <2>4, <2>6, <2>11, <2>12, <2>16, <2>17
<1>2. ASSUME IsSize(n), p.hashes, p.leaf_index \in 0..(n - 1), p.leaf_hash = leaves[p.leaf_index + 1],
             p.audit_path = inclusion_path(leaves, p.leaf_index)
      PROVE  InclusionAnswer(p) = "valid"
  <2>1. n \in 1..MaxSafeSize
    BY <1>2, SizeAssumption DEF IsSize
  <2> QED BY <1>2, <2>1, InclusionAccepted
<1> QED BY <1>1, <1>2

\* Between two states of one list the verifier accepts the generator's proof of
\* the earlier root and nothing else.
LEMMA ConsistencyExactly ==
  ASSUME NEW old, NEW leaves, Prefix(old, leaves), NEW p, p.old_size = Len(old), p.new_size = Len(leaves),
         p.new_root = merkle_root(leaves), NEW S, p.consistency_path \in Seq(S)
  PROVE  ConsistencyAnswer(p) = "valid" <=>
           /\ IsSize(Len(leaves)) /\ p.hashes
           /\ p.old_root = merkle_root(old)
           /\ p.consistency_path = consistency_path(leaves, Len(old))
<1>0. PICK n, size : n = Len(leaves) /\ size = Len(old) /\ n \in Nat \ {0} /\ size \in Nat \ {0} /\ size =< n
  BY DEF Prefix
<1>1. ASSUME ConsistencyAnswer(p) = "valid"
      PROVE  /\ IsSize(n) /\ p.hashes /\ p.old_root = merkle_root(old)
             /\ p.consistency_path = consistency_path(leaves, size)
  <2>1. IsSize(n) /\ p.hashes
    BY <1>0, <1>1 DEF ConsistencyAnswer
  <2>2. CASE size = n
    <3>1. p.consistency_path = <<>> /\ p.old_root = p.new_root
      BY <1>0, <1>1, <2>2 DEF ConsistencyAnswer
    <3>2. consistency_path(leaves, size) = <<>> /\ merkle_root(old) = merkle_root(leaves)
      BY <1>0, <2>2, ConsistencyGenuine
    <3> QED BY <2>1, <3>1, <3>2
  <2>3. CASE size # n
    <3>1. PICK own : own = p.consistency_path /\ own \in Seq(S)
      OBVIOUS
    <3>2. PICK first : first = Nodes(size, p.old_root, own)
      OBVIOUS
    <3>3. PICK a : a = FoldLeft(Consume, SeedCursor(size, n, first), Tail(first))
      OBVIOUS
    <3>4. first # <<>> /\ ~a.longer /\ a.sn = 0 /\ a.fr = p.old_root /\ a.sr = p.new_root
      <4>1. first = IF PowerOfTwo(p.old_size) THEN <<p.old_root>> \o p.consistency_path ELSE p.consistency_path
        BY <1>0, <3>1, <3>2 DEF Nodes
      <4>2. a = FoldLeft(Consume, Climbed(Cursor(p.old_size - 1, p.new_size - 1, first[1]), Ones(p.old_size - 1)),
                         Tail(first))
        BY <1>0, <3>3 DEF SeedCursor
      <4> QED BY <1>0, <1>1, <2>3, <4>1, <4>2 DEF ConsistencyAnswer
    <3>5. ConsistencyArrives(old, leaves, size, n)
      BY <1>0, <2>3, ConsistencyGenuine
    <3>6. PICK path : path = consistency_path(leaves, size)
      OBVIOUS
    <3>7. PICK second : second = Nodes(size, merkle_root(old), path)
      OBVIOUS
    <3>8. PICK T : path \in Seq(T) /\ second \in Seq(T) /\ Tail(second) \in Seq(T)
      BY <3>5, <3>6, <3>7 DEF ConsistencyArrives
    <3>9. PICK b : b = FoldLeft(Consume, SeedCursor(size, n, second), Tail(second))
      OBVIOUS
    <3>10. second # <<>> /\ ~b.longer /\ b.sn = 0 /\ b.fr = merkle_root(old) /\ b.sr = merkle_root(leaves)
      BY <3>5, <3>6, <3>7, <3>9 DEF ConsistencyArrives
    <3>11. PICK W : first \in Seq(W)
      <4>1. CASE PowerOfTwo(size)
        <5>1. <<p.old_root>> \in Seq(S \cup {p.old_root}) /\ own \in Seq(S \cup {p.old_root})
          BY <3>1, SeqMonotonic
        <5>2. <<p.old_root>> \o own \in Seq(S \cup {p.old_root})
          BY <5>1, ConcatProperties
        <5> QED BY <3>2, <4>1, <5>2 DEF Nodes
      <4>2. CASE ~PowerOfTwo(size)
        BY <3>1, <3>2, <4>2 DEF Nodes
      <4> QED BY <4>1, <4>2
    <3>12. PICK s, t : s = Tail(first) /\ t = Tail(second)
      OBVIOUS
    <3>13. /\ s \in Seq(W) /\ Len(s) = Len(first) - 1 /\ \A i \in 1..Len(s) : s[i] = first[i + 1]
           /\ t \in Seq(T) /\ Len(t) = Len(second) - 1 /\ \A i \in 1..Len(t) : t[i] = second[i + 1]
      BY <3>4, <3>8, <3>10, <3>11, <3>12, HeadTailProperties
    <3>14. PICK i \in Nat : i = Len(s) /\ DOMAIN s = 1..i
      BY <3>13, LenProperties
    <3>15. PICK j \in Nat : j = Len(t) /\ DOMAIN t = 1..j
      BY <3>13, LenProperties
    <3>16. PICK c, d : c = SeedCursor(size, n, first) /\ d = SeedCursor(size, n, second)
      OBVIOUS
    <3>17. /\ IsCursor(c) /\ IsCursor(d) /\ c.fn = d.fn /\ c.sn = d.sn
           /\ c.sr = first[1] /\ d.sr = second[1]
      BY <3>16 DEF SeedCursor, Climbed, Cursor, IsCursor
    <3>18. a = FoldLeft(Consume, c, s) /\ b = FoldLeft(Consume, d, t) /\ a.sr = b.sr
      BY <3>3, <3>4, <3>9, <3>10, <3>12, <3>16
    <3>19. i = j /\ c.sr = d.sr /\ \A k \in 1..i : s[k] = t[k]
      <4>1. /\ ~a.longer /\ a.sn = 0 /\ ~b.longer /\ b.sn = 0
            /\ DOMAIN s = 1..i /\ DOMAIN t = 1..j
            /\ IsCursor(c) /\ IsCursor(d) /\ c.fn = d.fn /\ c.sn = d.sn
        BY <3>4, <3>10, <3>14, <3>15, <3>17
      <4> QED BY <3>18, <4>1, PathUnique, SMTT(30)
    <3>20. s = t
      BY <3>13, <3>14, <3>15, <3>19, SameSequence
    <3>21. own = path /\ p.old_root = merkle_root(old)
      <4>1. CASE PowerOfTwo(size)
        <5>1. first = <<p.old_root>> \o own /\ second = <<merkle_root(old)>> \o path
          BY <3>2, <3>7, <4>1 DEF Nodes
        <5>2. first[1] = p.old_root /\ Tail(first) = own
          <6>1. own \in Seq(S \cup {p.old_root}) /\ p.old_root \in S \cup {p.old_root}
            BY <3>1, SeqMonotonic
          <6> QED BY <5>1, <6>1, SeedFirst
        <5>3. second[1] = merkle_root(old) /\ Tail(second) = path
          <6>1. path \in Seq(T \cup {merkle_root(old)}) /\ merkle_root(old) \in T \cup {merkle_root(old)}
            BY <3>8, SeqMonotonic
          <6> QED BY <5>1, <6>1, SeedFirst
        <5> QED BY <3>12, <3>17, <3>19, <3>20, <5>2, <5>3
      <4>2. CASE ~PowerOfTwo(size)
        <5>1. first = own /\ second = path
          BY <3>2, <3>7, <4>2 DEF Nodes
        <5>2. Len(first) = Len(second)
          <6>1. Len(first) \in Nat /\ Len(second) \in Nat
            BY <3>8, <3>11, LenProperties
          <6> QED BY <3>13, <3>14, <3>15, <3>19, <6>1
        <5>3. \A k \in 1..Len(first) : first[k] = second[k]
          <6> TAKE k \in 1..Len(first)
          <6>1. CASE k = 1
            BY <3>17, <3>19, <6>1
          <6>2. CASE k # 1
            <7>1. PICK h : h = k - 1
              OBVIOUS
            <7>2. Len(first) \in Nat
              BY <3>11, LenProperties
            <7>3. h \in 1..i /\ h \in 1..j /\ k = h + 1
              BY <3>13, <3>14, <3>19, <6>2, <7>1, <7>2
            <7>4. s[h] = first[k] /\ t[h] = second[k]
              BY <3>13, <3>14, <3>15, <7>3
            <7> QED BY <3>19, <7>3, <7>4
          <6> QED BY <6>1, <6>2
        <5>4. first = second
          BY <3>8, <3>11, <5>2, <5>3, SameSequence
        <5>5. a = b
          BY <3>3, <3>9, <5>4
        <5> QED BY <3>4, <3>10, <5>1, <5>4, <5>5
      <4> QED BY <4>1, <4>2
    <3> QED BY <2>1, <3>1, <3>6, <3>21
  <2> QED BY <2>2, <2>3
<1>2. ASSUME IsSize(n), p.hashes, p.old_root = merkle_root(old),
             p.consistency_path = consistency_path(leaves, size)
      PROVE  ConsistencyAnswer(p) = "valid"
  <2>1. Len(leaves) =< MaxSafeSize
    BY <1>0, <1>2, SizeAssumption DEF IsSize
  <2> QED BY <1>0, <1>2, <2>1, ConsistencyAccepted
<1> QED BY <1>0, <1>1, <1>2

-----------------------------------------------------------------------------
(* Loops that halve, and the shifts that replace them *)

\* Halving twice is dividing once.
LEMMA HalvedThenDivided ==
  ASSUME NEW x \in Nat, NEW p \in Nat \ {0}
  PROVE  (x \div 2) \div p = x \div (2 * p)
<1>1. PICK h, e : h = x \div 2 /\ h \in Nat /\ e \in {0, 1} /\ x = 2 * h + e
  <2>1. x \div 2 \in Nat /\ x % 2 \in {0, 1} /\ x = 2 * (x \div 2) + (x % 2)
    OBVIOUS
  <2> QED BY <2>1
<1>2. PICK q, r : q = h \div p /\ q \in Nat /\ r \in Nat /\ r < p /\ h = q * p + r
  <2>1. h \in Nat
    BY <1>1
  <2>2. h \div p \in Nat /\ h % p \in Nat /\ h % p < p /\ h = (h \div p) * p + (h % p)
    BY <2>1, Division
  <2> QED BY <2>2, Zenon
<1>3. x = q * (2 * p) + (2 * r + e)
  <2>1. PICK y \in Nat : y = q * p
    BY <1>2
  <2>2. q * (2 * p) = 2 * y
    BY <1>2, <2>1
  <2> QED BY <1>1, <1>2, <2>1, <2>2
<1>4. 2 * r + e \in Nat /\ 2 * r + e < 2 * p /\ 2 * p \in Nat \ {0}
  BY <1>1, <1>2
<1>5. x \div (2 * p) = q
  <2>1. PICK b, r2 : b = 2 * p /\ r2 = 2 * r + e
    OBVIOUS
  <2>2. b \in Nat \ {0} /\ r2 \in Nat /\ r2 < b /\ x = q * b + r2 /\ q \in Nat
    BY <1>2, <1>3, <1>4, <2>1
  <2>3. x \div b = q
    BY <2>2, Quotient
  <2> QED BY <2>1, <2>3
<1>6. h \div p = q
  BY <1>2
<1> QED BY <1>1, <1>5, <1>6

\* An even number is halved once more than its half.
LEMMA ZerosHalved ==
  ASSUME NEW n \in Nat \ {0}, n % 2 = 0
  PROVE  Zeros(n \div 2) \in Nat /\ Zeros(n) = Zeros(n \div 2) + 1
<1>1. PICK a \in Nat, f \in Nat : n = (2 * f + 1) * power[a]
  BY OddPartExists
<1>2. a # 0
  <2>1. SUFFICES ASSUME a = 0 PROVE FALSE
    OBVIOUS
  <2>2. n = 2 * f + 1
    BY <1>1, <2>1, PowerEquation
  <2> QED BY <2>2
<1>3. PICK b \in Nat : a = b + 1
  <2>1. a - 1 \in Nat /\ a = (a - 1) + 1
    BY <1>2
  <2> QED BY <2>1
<1>4. PICK p : p = power[b] /\ p \in Nat /\ power[a] = 2 * p
  BY <1>3, PowerType, PowerEquation
<1>5. n \div 2 = (2 * f + 1) * p
  <2>1. PICK y \in Nat : y = (2 * f + 1) * p
    BY <1>4
  <2>2. n = 2 * y
    BY <1>1, <1>4, <2>1
  <2>3. n \div 2 = y
    BY <2>2
  <2> QED BY <2>1, <2>3
<1>6. Zeros(n) = a
  BY <1>1, ZerosOf
<1>7. Zeros(n \div 2) = b
  BY <1>4, <1>5, ZerosOf
<1> QED BY <1>3, <1>6, <1>7

LEMMA ZerosOdd ==
  ASSUME NEW n \in Nat, n % 2 = 1
  PROVE  Zeros(n) = 0 /\ power[Zeros(n) + 1] = 2
<1>1. PICK f \in Nat : n = 2 * f + 1
  <2>1. n \div 2 \in Nat /\ n = 2 * (n \div 2) + 1
    OBVIOUS
  <2> QED BY <2>1
<1>2. n = (2 * f + 1) * power[0]
  BY <1>1, PowerEquation
<1>3. Zeros(n) = 0
  BY <1>2, ZerosOf
<1>4. power[0 + 1] = 2 * power[0] /\ power[0] = 1
  BY PowerEquation
<1> QED BY <1>3, <1>4

\* while fn is even, one turn.
LEMMA RowSkipped ==
  ASSUME NEW n \in Nat \ {0}, n % 2 = 0, NEW x \in Nat
  PROVE  (x \div 2) \div power[Zeros(n \div 2) + 1] = x \div power[Zeros(n) + 1]
<1>1. PICK z \in Nat : z = Zeros(n \div 2) /\ Zeros(n) = z + 1
  BY ZerosHalved
<1>2. PICK p : p = power[z + 1] /\ p \in Nat \ {0} /\ power[(z + 1) + 1] = 2 * p
  <2>1. z + 1 \in Nat
    OBVIOUS
  <2> QED BY <2>1, PowerType, PowerEquation
<1>3. (x \div 2) \div p = x \div (2 * p)
  BY <1>2, HalvedThenDivided
<1>4. power[Zeros(n \div 2) + 1] = p /\ power[Zeros(n) + 1] = 2 * p
  BY <1>1, <1>2
<1> QED BY <1>3, <1>4

\* while fn is odd, one turn, and none.
LEMMA RowAligned ==
  ASSUME NEW n \in Nat
  PROVE  /\ n % 2 = 1 => \A x \in Nat : (x \div 2) \div power[Ones(n \div 2)] = x \div power[Ones(n)]
         /\ n % 2 # 1 => \A x \in Nat : x \div power[Ones(n)] = x
<1>1. ASSUME n % 2 = 1, NEW x \in Nat
      PROVE  (x \div 2) \div power[Ones(n \div 2)] = x \div power[Ones(n)]
  <2>1. n + 1 \in Nat \ {0} /\ (n + 1) % 2 = 0 /\ (n + 1) \div 2 = (n \div 2) + 1
    BY <1>1
  <2>2. PICK z \in Nat : z = Zeros((n \div 2) + 1) /\ Zeros(n + 1) = z + 1
    BY <2>1, ZerosHalved
  <2>3. PICK p : p = power[z] /\ p \in Nat \ {0} /\ power[z + 1] = 2 * p
    BY PowerType, PowerEquation
  <2> QED BY <2>2, <2>3, HalvedThenDivided, ZenonT(60) DEF Ones
<1>2. ASSUME n % 2 # 1, NEW x \in Nat
      PROVE  x \div power[Ones(n)] = x
  <2>1. n + 1 \in Nat /\ (n + 1) % 2 = 1
    BY <1>2
  <2>2. Ones(n) = 0
    BY <2>1, ZerosOdd DEF Ones
  <2>3. power[Ones(n)] = 1
    BY <2>2, PowerEquation
  <2> QED BY <2>3
<1> QED BY <1>1, <1>2

\* One node on, a walk below the top has turned as its two branches do.
LEMMA WalkStands ==
  ASSUME NEW w, NEW c, NEW s, NEW n \in Nat, Walk(w, c, s, n), NEW j \in Nat, j < n,
         NEW fn, NEW sn, NEW fr, NEW sr, Standing(w[j], fn, sn, fr, sr), sn # 0
  PROVE  /\ Turns(fn, sn) =>
              Standing(w[j + 1], fn \div power[Zeros(fn) + 1], sn \div power[Zeros(fn) + 1],
                       node(s[j + 1], fr), node(s[j + 1], sr))
         /\ ~Turns(fn, sn) => Standing(w[j + 1], fn \div 2, sn \div 2, fr, node(sr, s[j + 1]))
<1>1. w[j + 1] = Consume(w[j], s[j + 1])
  BY DEF Walk
<1>2. PICK d, e : d = w[j + 1] /\ e = s[j + 1]
  OBVIOUS
<1>3. Standing(d, fn \div Rise(fn, sn), sn \div Rise(fn, sn),
               IF Turns(fn, sn) THEN node(e, fr) ELSE fr,
               IF Turns(fn, sn) THEN node(e, sr) ELSE node(sr, e))
  BY <1>1, <1>2, Consumed
<1>4. CASE Turns(fn, sn)
  <2>1. Rise(fn, sn) = power[Zeros(fn) + 1]
    BY <1>4 DEF Rise
  <2> QED BY <1>2, <1>3, <1>4, <2>1
<1>5. CASE ~Turns(fn, sn)
  <2>1. power[0 + 1] = 2 * power[0] /\ power[0] = 1
    BY PowerEquation
  <2>2. Rise(fn, sn) = 2
    BY <1>5, <2>1 DEF Rise
  <2> QED BY <1>2, <1>3, <1>5, <2>2
<1> QED BY <1>4, <1>5
=============================================================================
