-------------------------- MODULE DataLemmas ----------------------------
(***************************************************************************)
(* Facts about data that the proofs keep needing: induction and recursion  *)
(* without operator parameters (an induction over numbers is a least       *)
(* counterexample of a set, and a recursive definition over a ranked set   *)
(* exists and is unique), and what concatenations of sequences hold.       *)
(***************************************************************************)
EXTENDS Selection, WellFoundedInduction, SequenceTheorems, FiniteSetTheorems, TLAPS

(* A set of numbers that is not empty has a least member.                  *)
LEMMA LeastNat ==
  ASSUME NEW T, T \subseteq Nat, T # {}
  PROVE  \E m \in T : \A k \in T : m =< k
<1> DEFINE R == {p \in Nat \X Nat : p[1] < p[2]}
<1>1. R = OpToRel(<, Nat)
  BY DEF OpToRel
<1>2. IsWellFoundedOn(R, Nat)
  BY <1>1, NatLessThanWellFounded
<1> HIDE DEF R
<1>3. PICK x \in T : \A y \in T : ~ (<<y, x>> \in R)
  BY <1>2, WFMin
<1>4. ASSUME NEW y \in T PROVE x =< y
  <2>1. x \in Nat /\ y \in Nat /\ <<y, x>> \notin R
    BY <1>3
  <2>2. ~ (y < x)
    BY <2>1 DEF R
  <2> QED BY <2>1, <2>2
<1> QED BY <1>4

(* A property of numbers, given as the set that has it, holds for all of   *)
(* them when it holds for a number as soon as it holds for those before.   *)
LEMMA Induction ==
  ASSUME NEW P, \A n \in Nat : (\A k \in 0..n - 1 : k \in P) => n \in P
  PROVE  Nat \subseteq P
<1> SUFFICES ASSUME Nat \ P # {} PROVE FALSE
  OBVIOUS
<1>1. PICK m \in Nat \ P : \A k \in Nat \ P : m =< k
  BY LeastNat
<1>2. \A k \in 0..m - 1 : k \in P
  BY <1>1
<1> QED BY <1>1, <1>2

(* What induction needs of the number before.                              *)
LEMMA Predecessor ==
  \A n \in Nat : n # 0 => n - 1 \in 0..n - 1 /\ n - 1 \in Nat
OBVIOUS

(* G computes the value at v from the values at what has a smaller rank,   *)
(* and f is everywhere what G makes of it.                                 *)
Descends(G, D, T, rank, N) ==
  /\ T # {} /\ N \in Nat /\ rank \in [D -> 0..N] /\ G \in [D \X [D -> T] -> T]
  /\ \A v \in D : \A g, h \in [D -> T] :
       (\A u \in D : rank[u] < rank[v] => g[u] = h[u]) => G[<<v, g>>] = G[<<v, h>>]

Solves(f, G, D) == \A v \in D : f[v] = G[<<v, f>>]

(* Then there is such a function.                                          *)
LEMMA RecursionExists ==
  ASSUME NEW G, NEW D, NEW T, NEW rank, NEW N, Descends(G, D, T, rank, N)
  PROVE  \E f \in [D -> T] : Solves(f, G, D)
<1> DEFINE Below(f, n) == \A v \in D : rank[v] < n => f[v] = G[<<v, f>>]
           P == {n \in Nat : \E f \in [D -> T] : Below(f, n)}
<1> HIDE DEF P
<1>1. ASSUME NEW n \in Nat, \A k \in 0..n - 1 : k \in P
      PROVE  n \in P
  <2>0. T # {} /\ N \in Nat /\ rank \in [D -> 0..N] /\ G \in [D \X [D -> T] -> T]
    BY DEF Descends
  <2>1. CASE n = 0
    <3>1. PICK t \in T : TRUE
      BY <2>0
    <3>2. [v \in D |-> t] \in [D -> T]
      OBVIOUS
    <3>3. Below([v \in D |-> t], n)
      BY <2>0, <2>1
    <3> QED BY <3>2, <3>3 DEF P
  <2>2. CASE n # 0
    <3>0. n - 1 \in 0..n - 1 /\ n - 1 \in Nat
      BY <2>2, Predecessor
    <3>1. n - 1 \in P
      BY <1>1, <3>0
    <3>2. PICK f \in [D -> T] : Below(f, n - 1)
      BY <3>1 DEF P
    <3> DEFINE g == [v \in D |-> IF rank[v] < n - 1 THEN f[v] ELSE G[<<v, f>>]]
    <3>3. g \in [D -> T]
      <4>1. \A p \in D \X [D -> T] : G[p] \in T
        BY <2>0
      <4>2. \A v \in D : <<v, f>> \in D \X [D -> T]
        OBVIOUS
      <4>3. \A v \in D : G[<<v, f>>] \in T /\ f[v] \in T
        BY <4>1, <4>2
      <4> QED BY <4>3
    <3>4. ASSUME NEW v \in D, rank[v] < n PROVE g[v] = G[<<v, g>>]
      <4>1. \A u \in D : rank[u] < rank[v] => g[u] = f[u]
        BY <2>0, <3>0, <3>4
      <4>2. G[<<v, g>>] = G[<<v, f>>]
        BY <3>3, <4>1 DEF Descends
      <4>3. g[v] = G[<<v, f>>]
        BY <3>2
      <4> QED BY <4>2, <4>3
    <3> QED BY <3>3, <3>4 DEF P
  <2> QED BY <2>1, <2>2
<1>2. N + 1 \in P
  BY <1>1, Induction DEF Descends
<1>3. PICK f \in [D -> T] : Below(f, N + 1)
  BY <1>2 DEF P
<1> QED BY <1>3 DEF Descends, Solves

(* A property of a ranked set, given as what has it, holds for all of it   *)
(* when it holds where it does for all that has a smaller rank.            *)
LEMMA RankInduction ==
  ASSUME NEW D, NEW rank, NEW N, rank \in [D -> 0..N], NEW P,
         \A v \in D : (\A u \in D : rank[u] < rank[v] => u \in P) => v \in P
  PROVE  \A v \in D : v \in P
<1> DEFINE Q == {n \in Nat : \A v \in D : rank[v] = n => v \in P}
<1>1. ASSUME NEW n \in Nat, \A k \in 0..n - 1 : k \in Q
      PROVE  n \in Q
  <2>1. ASSUME NEW v \in D, rank[v] = n PROVE v \in P
    <3>1. \A u \in D : rank[u] < rank[v] => rank[u] \in 0..n - 1
      BY <2>1
    <3>2. \A u \in D : rank[u] < rank[v] => u \in P
      BY <1>1, <3>1
    <3> QED BY <3>2
  <2> QED BY <2>1
<1> HIDE DEF Q
<1>2. Nat \subseteq Q
  BY <1>1, Induction
<1>3. \A v \in D : rank[v] \in Nat
  OBVIOUS
<1> QED BY <1>2, <1>3 DEF Q

(* And only one.                                                           *)
LEMMA RecursionUnique ==
  ASSUME NEW G, NEW D, NEW T, NEW rank, NEW N, Descends(G, D, T, rank, N),
         NEW f \in [D -> T], NEW g \in [D -> T], Solves(f, G, D), Solves(g, G, D)
  PROVE  f = g
<1> DEFINE P == {n \in Nat : \A v \in D : rank[v] = n => f[v] = g[v]}
<1>1. ASSUME NEW n \in Nat, \A k \in 0..n - 1 : k \in P
      PROVE  n \in P
  <2>1. ASSUME NEW v \in D, rank[v] = n PROVE f[v] = g[v]
    <3>1. \A u \in D : rank[u] < rank[v] => f[u] = g[u]
      BY <1>1, <2>1 DEF Descends
    <3> QED BY <3>1 DEF Descends, Solves
  <2> QED BY <2>1
<1> HIDE DEF P
<1>2. Nat \subseteq P
  BY <1>1, Induction
<1>3. \A v \in D : f[v] = g[v]
  BY <1>2 DEF P, Descends
<1> QED BY <1>3

-----------------------------------------------------------------------------
(* Two sequences in a row, and three.                                      *)
LEMMA Concat2 ==
  ASSUME NEW S, NEW a \in Seq(S), NEW b \in Seq(S)
  PROVE  /\ a \o b \in Seq(S) /\ Len(a \o b) = Len(a) + Len(b)
         /\ \A n \in 1..Len(a) : (a \o b)[n] = a[n]
         /\ \A n \in 1..Len(b) : (a \o b)[Len(a) + n] = b[n]
OBVIOUS

InARow(t, a, b, c) ==
  /\ Len(t) = Len(a) + Len(b) + Len(c)
  /\ \A n \in 1..Len(a) : t[n] = a[n]
  /\ \A n \in 1..Len(b) : t[Len(a) + n] = b[n]
  /\ \A n \in 1..Len(c) : t[Len(a) + Len(b) + n] = c[n]

LEMMA Concat3 ==
  ASSUME NEW S, NEW a \in Seq(S), NEW b \in Seq(S), NEW c \in Seq(S)
  PROVE  (a \o b) \o c \in Seq(S) /\ InARow((a \o b) \o c, a, b, c)
<1> DEFINE d == a \o b
<1>1. /\ d \in Seq(S) /\ Len(d) = Len(a) + Len(b) /\ Len(a) \in Nat /\ Len(b) \in Nat
      /\ \A n \in 1..Len(a) : d[n] = a[n]
      /\ \A n \in 1..Len(b) : d[Len(a) + n] = b[n]
  OBVIOUS
<1>c. Len(c) \in Nat /\ d \in Seq(S)
  BY <1>1
<1> HIDE DEF d
<1>2. /\ d \o c \in Seq(S) /\ Len(d \o c) = Len(d) + Len(c)
      /\ \A n \in 1..Len(d) : (d \o c)[n] = d[n]
      /\ \A n \in 1..Len(c) : (d \o c)[Len(d) + n] = c[n]
  BY <1>c, Concat2
<1> DEFINE t == d \o c
<1>2a. /\ t \in Seq(S) /\ Len(t) = Len(d) + Len(c)
       /\ \A n \in 1..Len(d) : t[n] = d[n]
       /\ \A n \in 1..Len(c) : t[Len(d) + n] = c[n]
  BY <1>2
<1> HIDE DEF t
<1>3. /\ \A n \in 1..Len(a) : n \in 1..Len(d)
      /\ \A n \in 1..Len(b) : Len(a) + n \in 1..Len(d)
  BY <1>1
<1>4. \A n \in 1..Len(a) : t[n] = a[n]
  BY <1>1, <1>c, <1>2a, <1>3
<1>5. \A n \in 1..Len(b) : t[Len(a) + n] = b[n]
  BY <1>1, <1>c, <1>2a, <1>3
<1>6. \A n \in 1..Len(c) : t[Len(a) + Len(b) + n] = c[n]
  BY <1>1, <1>c, <1>2a
<1>7. t \in Seq(S) /\ Len(t) = Len(a) + Len(b) + Len(c)
  BY <1>1, <1>c, <1>2a
<1>8. t \in Seq(S) /\ InARow(t, a, b, c)
  BY <1>4, <1>5, <1>6, <1>7 DEF InARow
<1> QED BY <1>8 DEF d, t

(* What is before and after a position.                                    *)
LEMMA CutAround ==
  ASSUME NEW S, NEW a \in Seq(S), NEW p \in 1..Len(a)
  PROVE  /\ SubSeq(a, 1, p - 1) \in Seq(S) /\ Len(SubSeq(a, 1, p - 1)) = p - 1
         /\ \A n \in 1..p - 1 : SubSeq(a, 1, p - 1)[n] = a[n]
         /\ SubSeq(a, p + 1, Len(a)) \in Seq(S) /\ Len(SubSeq(a, p + 1, Len(a))) = Len(a) - p
         /\ \A n \in 1..Len(a) - p : SubSeq(a, p + 1, Len(a))[n] = a[p + n]
<1>1. /\ SubSeq(a, 1, p - 1) \in Seq(S) /\ Len(SubSeq(a, 1, p - 1)) = p - 1
      /\ \A n \in 1..p - 1 : SubSeq(a, 1, p - 1)[n] = a[n]
  OBVIOUS
<1>2. /\ SubSeq(a, p + 1, Len(a)) \in Seq(S) /\ Len(SubSeq(a, p + 1, Len(a))) = Len(a) - p
      /\ \A n \in 1..Len(a) - p : SubSeq(a, p + 1, Len(a))[n] = a[p + n]
  OBVIOUS
<1> QED BY <1>1, <1>2

(* A sequence put where one member of another was.                         *)
Splice(a, p, b) == SubSeq(a, 1, p - 1) \o b \o SubSeq(a, p + 1, Len(a))

IsSplice(t, a, p, b) ==
  /\ Len(t) = Len(a) + Len(b) - 1
  /\ \A n \in 1..p - 1 : t[n] = a[n]
  /\ \A n \in 1..Len(b) : t[p - 1 + n] = b[n]
  /\ \A n \in p + 1..Len(a) : t[n + Len(b) - 1] = a[n]

LEMMA Spliced ==
  ASSUME NEW S, NEW a \in Seq(S), NEW b \in Seq(S), NEW p \in 1..Len(a)
  PROVE  Splice(a, p, b) \in Seq(S) /\ IsSplice(Splice(a, p, b), a, p, b)
<1> DEFINE l == SubSeq(a, 1, p - 1)
           r == SubSeq(a, p + 1, Len(a))
           t == Splice(a, p, b)
<1>1. /\ l \in Seq(S) /\ Len(l) = p - 1 /\ \A n \in 1..p - 1 : l[n] = a[n]
      /\ r \in Seq(S) /\ Len(r) = Len(a) - p /\ \A n \in 1..Len(a) - p : r[n] = a[p + n]
  BY CutAround
<1>2. t = (l \o b) \o r
  BY DEF Splice
<1>3. Len(a) \in Nat /\ Len(b) \in Nat
  OBVIOUS
<1> HIDE DEF l, r, t
<1>4. l \in Seq(S) /\ r \in Seq(S)
  BY <1>1
<1>5. t \in Seq(S) /\ InARow(t, l, b, r)
  BY <1>2, <1>4, Concat3
<1>6. Len(t) = Len(l) + Len(b) + Len(r) /\ \A n \in 1..Len(b) : t[Len(l) + n] = b[n]
  BY <1>5 DEF InARow
<1>7. /\ \A n \in 1..Len(l) : t[n] = l[n]
      /\ \A n \in 1..Len(r) : t[Len(l) + Len(b) + n] = r[n]
  BY <1>5 DEF InARow
<1>8. Len(l) = p - 1 /\ Len(r) = Len(a) - p
  BY <1>1
<1>9. (\A n \in 1..p - 1 : l[n] = a[n]) /\ (\A n \in 1..Len(a) - p : r[n] = a[p + n])
  BY <1>1
<1>10. \A n \in 1..p - 1 : t[n] = a[n]
  BY <1>7, <1>8, <1>9
<1>11. \A n \in 1..Len(b) : t[p - 1 + n] = b[n]
  BY <1>6, <1>8
<1>12. ASSUME NEW n \in p + 1..Len(a) PROVE t[n + Len(b) - 1] = a[n]
  <2>1. n - p \in 1..Len(r) /\ n - p \in 1..Len(a) - p
        /\ p + (n - p) = n /\ Len(l) + Len(b) + (n - p) = n + Len(b) - 1
    BY <1>3, <1>8
  <2>2. t[Len(l) + Len(b) + (n - p)] = r[n - p]
    BY <1>7, <2>1
  <2>3. r[n - p] = a[p + (n - p)]
    BY <1>9, <2>1
  <2> QED BY <2>1, <2>2, <2>3
<1>13. Len(t) = Len(l) + Len(b) + Len(r)
  BY <1>6, Zenon
<1>14. Len(t) = Len(a) + Len(b) - 1
  BY <1>3, <1>8, <1>13
<1>15. t \in Seq(S)
  BY <1>5
<1> QED BY <1>15, <1>10, <1>11, <1>12, <1>14 DEF t, IsSplice

(* Every place of the result comes from one of the two.                    *)
LEMMA SplicedPlaces ==
  ASSUME NEW p \in Nat, NEW N \in Nat, NEW M \in Nat, p \in 1..N, NEW k \in 1..N + M - 1
  PROVE  \/ k \in 1..p - 1
         \/ \E n \in 1..M : k = p - 1 + n
         \/ \E n \in p + 1..N : k = n + M - 1
<1>1. CASE k < p
  BY <1>1
<1>2. CASE p =< k /\ k =< p - 1 + M
  <2>1. k - (p - 1) \in 1..M /\ k = p - 1 + (k - (p - 1))
    BY <1>2
  <2> QED BY <2>1
<1>3. CASE k > p - 1 + M
  <2>1. k - M + 1 \in p + 1..N /\ k = (k - M + 1) + M - 1
    BY <1>3
  <2> QED BY <2>1
<1> QED BY <1>1, <1>2, <1>3

-----------------------------------------------------------------------------
(* Outside a finite set of numbers there is a k-th number, for every k.    *)
LEMMA KthOutside ==
  ASSUME NEW U, IsFiniteSet(U), NEW k \in Nat \ {0}
  PROVE  \E v \in Nat \ {0} : v \notin U /\ Cardinality((1..v) \ U) = k
<1> DEFINE C(v) == Cardinality((1..v) \ U)
           T == {v \in Nat : C(v) >= k}
<1>1. \A v \in Nat : IsFiniteSet((1..v) \ U) /\ C(v) \in Nat
  <2> TAKE v \in Nat
  <2>1. IsFiniteSet(1..v)
    BY FS_Interval
  <2>2. IsFiniteSet((1..v) \ U)
    BY <2>1, FS_Difference
  <2> QED BY <2>2, FS_CardinalityType
<1>2. C(0) = 0
  <2>1. (1..0) \ U = {}
    OBVIOUS
  <2> QED BY <2>1, FS_EmptySet
<1>3. \A v \in Nat \ {0} : C(v) = IF v \in U THEN C(v - 1) ELSE C(v - 1) + 1
  <2> TAKE v \in Nat \ {0}
  <2>0. v - 1 \in Nat /\ v \notin 1..v - 1
    OBVIOUS
  <2>1. CASE v \in U
    <3>1. (1..v) \ U = (1..v - 1) \ U
      BY <2>1
    <3> QED BY <2>1, <3>1
  <2>2. CASE v \notin U
    <3>1. (1..v) \ U = ((1..v - 1) \ U) \cup {v}
      BY <2>2
    <3>2. IsFiniteSet((1..v - 1) \ U) /\ v \notin (1..v - 1) \ U
      BY <1>1, <2>0
    <3>3. Cardinality(((1..v - 1) \ U) \cup {v}) = Cardinality((1..v - 1) \ U) + 1
      BY <3>2, FS_AddElement
    <3> QED BY <2>2, <3>1, <3>3
  <2> QED BY <2>1, <2>2
<1>4. T # {}
  <2> DEFINE n == k + Cardinality(U)
  <2>1. Cardinality(U) \in Nat /\ n \in Nat
    BY FS_CardinalityType
  <2>2. IsFiniteSet(1..n) /\ Cardinality(1..n) = n
    BY <2>1, FS_Interval
  <2>3. C(n) = n - Cardinality((1..n) \cap U)
    BY <2>2, FS_Difference
  <2>4. Cardinality((1..n) \cap U) =< Cardinality(U) /\ Cardinality((1..n) \cap U) \in Nat
    <3>1. (1..n) \cap U \in SUBSET U
      OBVIOUS
    <3>2. IsFiniteSet((1..n) \cap U) /\ Cardinality((1..n) \cap U) =< Cardinality(U)
      BY <3>1, FS_Subset
    <3> QED BY <3>2, FS_CardinalityType
  <2> HIDE DEF C
  <2>5. C(n) >= k
    BY <2>1, <2>3, <2>4
  <2> QED BY <2>1, <2>5
<1> HIDE DEF C
<1>5. PICK v \in T : \A u \in T : v =< u
  BY <1>4, LeastNat
<1>6. v \in Nat \ {0} /\ v - 1 \in Nat /\ v - 1 \notin T
  <2>1. v \in Nat /\ v # 0
    BY <1>2
  <2>2. v - 1 \in Nat /\ ~(v =< v - 1)
    BY <2>1
  <2> HIDE DEF T
  <2> QED BY <1>5, <2>1, <2>2
<1>7. C(v) >= k /\ C(v - 1) < k /\ C(v) \in Nat /\ C(v - 1) \in Nat
  <2>1. C(v) >= k /\ ~(C(v - 1) >= k)
    BY <1>6
  <2>2. C(v) \in Nat /\ C(v - 1) \in Nat
    BY <1>1, <1>6
  <2> QED BY <2>1, <2>2
<1>8. v \notin U /\ C(v) = k
  BY <1>3, <1>6, <1>7
<1> QED BY <1>6, <1>8 DEF C

-----------------------------------------------------------------------------
(* Selections, and members of a sequence that come before others.          *)
Before(s, a, b) == \E m, n \in DOMAIN s : m < n /\ s[m] = a /\ s[n] = b

(* t lists the members of s at those of the first n positions that are in  *)
(* P, in their order: p gives the positions.                               *)
Lists(t, s, n, P) ==
  \E p \in [1..Len(t) -> 1..n] :
    /\ \A k \in 1..Len(t) : t[k] = s[p[k]] /\ p[k] \in P
    /\ \A k, m \in 1..Len(t) : k < m => p[k] < p[m]
    /\ \A k \in 1..n : k \in P => \E m \in 1..Len(t) : p[m] = k

(* A selection lists the selected members of a sequence in their order:    *)
(* the conjuncts that stay live after the fold.                            *)
LEMMA SelectedShape ==
  ASSUME NEW S, NEW s \in Seq(S), NEW P
  PROVE  Selected(s, P) \in Seq(S) /\ Lists(Selected(s, P), s, Len(s), P)
<1> DEFINE D == 0..Len(s)
           T == Seq(S)
           G == [v \in D \X [D -> T] |->
                   IF v[1] = 0 THEN <<>>
                   ELSE IF v[1] \in P THEN Append(v[2][v[1] - 1], s[v[1]]) ELSE v[2][v[1] - 1]]
           rank == [n \in D |-> n]
           Step(f, n) == IF n = 0 THEN <<>>
                         ELSE IF n \in P THEN Append(f[n - 1], s[n]) ELSE f[n - 1]
<1>0. Len(s) \in Nat /\ T # {}
  OBVIOUS
<1>1. ASSUME NEW n \in D, n # 0 PROVE n - 1 \in D /\ n \in 1..Len(s)
  BY <1>0, <1>1
<1>2. \A n \in D, f \in [D -> T] : G[<<n, f>>] = Step(f, n) /\ Step(f, n) \in T
  <2> SUFFICES ASSUME NEW n \in D, NEW f \in [D -> T]
               PROVE  G[<<n, f>>] = Step(f, n) /\ Step(f, n) \in T
    OBVIOUS
  <2>1. G[<<n, f>>] = Step(f, n)
    OBVIOUS
  <2>2. CASE n = 0
    BY <2>1, <2>2
  <2>3. CASE n # 0
    <3>1. f[n - 1] \in T /\ s[n] \in S
      BY <1>1, <2>3
    <3>2. Append(f[n - 1], s[n]) \in T
      BY <3>1
    <3> QED BY <3>1, <3>2, <2>1, <2>3
  <2> QED BY <2>2, <2>3
<1>3. G \in [D \X [D -> T] -> T]
  BY <1>2
<1> HIDE DEF G
<1>4. rank \in [D -> 0..Len(s)]
  OBVIOUS
<1>5. Descends(G, D, T, rank, Len(s))
  <2>1. ASSUME NEW n \in D, NEW g \in [D -> T], NEW h \in [D -> T],
               \A m \in D : rank[m] < rank[n] => g[m] = h[m]
        PROVE  G[<<n, g>>] = G[<<n, h>>]
    <3>1. \A m \in D : m < n => g[m] = h[m]
      BY <2>1
    <3>2. Step(g, n) = Step(h, n)
      BY <1>1, <3>1
    <3> QED BY <1>2, <3>2
  <2> HIDE DEF D, T, rank
  <2> QED BY <1>0, <1>3, <1>4, <2>1 DEF Descends
<1> HIDE DEF D, T, rank
<1>6. PICK f \in [D -> T] : Solves(f, G, D)
  BY <1>5, RecursionExists
<1> DEFINE IsKept(g) == g = [n \in D |-> Step(g, n)]
           kept == CHOOSE g : IsKept(g)
<1>7. IsKept(f)
  BY <1>2, <1>6 DEF Solves
<1>8. Selected(s, P) = kept[Len(s)]
  BY DEF Selected, D
<1> HIDE DEF IsKept
<1>9. IsKept(kept)
  BY <1>7
<1> HIDE DEF kept
<1>10. \A n \in D : kept[n] = Step(kept, n)
  BY <1>9 DEF IsKept
<1> DEFINE Chosen(t, n) == t \in Seq(S) /\ Lists(t, s, n, P)
           Q == {n \in Nat : n \in D => Chosen(kept[n], n)}
<1>11. ASSUME NEW n \in Nat, \A k \in 0..n - 1 : k \in Q
       PROVE  n \in Q
  <2> SUFFICES ASSUME n \in D PROVE Chosen(kept[n], n)
    OBVIOUS
  <2>1. CASE n = 0
    <3> DEFINE none == [k \in 1..0 |-> k]
    <3>1. kept[n] = <<>>
      BY <1>10, <2>1
    <3>2. /\ <<>> \in Seq(S) /\ Len(<<>>) = 0 /\ none \in [1..0 -> 1..0]
          /\ \A k \in 1..0 : FALSE
      OBVIOUS
    <3>3. Chosen(<<>>, 0)
      BY <3>2 DEF Lists
    <3> QED BY <2>1, <3>1, <3>3
  <2>2. CASE n # 0
    <3>0. n - 1 \in D /\ n \in 1..Len(s) /\ n - 1 \in Q /\ s[n] \in S /\ n - 1 \in Nat
      <4>1. n - 1 \in 0..n - 1 /\ n - 1 \in Nat
        BY <2>2, Predecessor
      <4>2. n - 1 \in D /\ n \in 1..Len(s)
        BY <1>1, <2>2
      <4>3. n - 1 \in Q
        BY <1>11, <4>1
      <4> QED BY <4>1, <4>2, <4>3
    <3> DEFINE t == kept[n - 1]
    <3>1. Chosen(t, n - 1)
      BY <3>0
    <3>2. PICK p \in [1..Len(t) -> 1..n - 1] :
            /\ \A k \in 1..Len(t) : t[k] = s[p[k]] /\ p[k] \in P
            /\ \A k, m \in 1..Len(t) : k < m => p[k] < p[m]
            /\ \A k \in 1..n - 1 : k \in P => \E m \in 1..Len(t) : p[m] = k
      BY <3>1 DEF Lists
    <3>3. t \in Seq(S) /\ Len(t) \in Nat /\ kept[n] = Step(kept, n)
      BY <1>10, <3>1
    <3> HIDE DEF t, Q
    <3>4. CASE n \in P
      <4> DEFINE u == Append(t, s[n])
                 q == [k \in 1..Len(t) + 1 |-> IF k = Len(t) + 1 THEN n ELSE p[k]]
      <4>1. /\ u \in Seq(S) /\ Len(u) = Len(t) + 1 /\ u[Len(t) + 1] = s[n]
            /\ \A k \in 1..Len(t) : u[k] = t[k]
        BY <3>0, <3>3, AppendProperties
      <4>2. \A k \in 1..Len(t) + 1 : k = Len(t) + 1 \/ k \in 1..Len(t)
        BY <3>3
      <4>3. q \in [1..Len(u) -> 1..n]
        <5>1. \A k \in 1..Len(t) : p[k] \in 1..n
          BY <3>0
        <5> QED BY <4>1, <4>2, <5>1, <2>2
      <4>4. \A k \in 1..Len(u) : u[k] = s[q[k]] /\ q[k] \in P
        BY <3>2, <3>4, <4>1, <4>2
      <4>5. \A k, m \in 1..Len(u) : k < m => q[k] < q[m]
        <5> SUFFICES ASSUME NEW k \in 1..Len(u), NEW m \in 1..Len(u), k < m
                     PROVE  q[k] < q[m]
          OBVIOUS
        <5>0. k \in 1..Len(t)
          BY <3>3, <4>1
        <5>1. k \in 1..Len(t) /\ q[k] = p[k] /\ p[k] \in 1..n - 1
          BY <3>3, <5>0, SMTT(30)
        <5>2. CASE m = Len(t) + 1
          <6>1. q[m] = n
            BY <3>3, <5>2
          <6> QED BY <5>1, <6>1, <3>0
        <5>3. CASE m # Len(t) + 1
          BY <3>2, <4>1, <4>2, <5>1, <5>3
        <5> QED BY <5>2, <5>3
      <4>6. \A k \in 1..n : k \in P => \E m \in 1..Len(u) : q[m] = k
        <5> SUFFICES ASSUME NEW k \in 1..n, k \in P PROVE \E m \in 1..Len(u) : q[m] = k
          OBVIOUS
        <5>1. CASE k = n
          <6>1. Len(t) + 1 \in 1..Len(u) /\ q[Len(t) + 1] = n
            BY <3>3, <4>1
          <6> QED BY <5>1, <6>1
        <5>2. CASE k # n
          <6>1. k \in 1..n - 1
            BY <3>0, <5>2
          <6>2. PICK m \in 1..Len(t) : p[m] = k
            BY <3>2, <6>1
          <6>3. m \in 1..Len(u) /\ q[m] = p[m]
            BY <3>3, <4>1
          <6> QED BY <6>2, <6>3
        <5> QED BY <5>1, <5>2
      <4>7. kept[n] = u
        BY <2>2, <3>3, <3>4 DEF t
      <4> HIDE DEF u, q
      <4> QED BY <4>1, <4>3, <4>4, <4>5, <4>6, <4>7, ZenonT(40) DEF Lists
    <3>5. CASE n \notin P
      <4>1. kept[n] = t
        BY <2>2, <3>3, <3>5 DEF t
      <4>2. p \in [1..Len(t) -> 1..n]
        <5>1. \A k \in 1..Len(t) : p[k] \in 1..n
          BY <3>0
        <5> QED BY <5>1
      <4>3. \A k \in 1..n : k \in P => \E m \in 1..Len(t) : p[m] = k
        <5>1. \A k \in 1..n : k # n => k \in 1..n - 1
          BY <3>0
        <5> QED BY <3>2, <3>5, <5>1
      <4> QED BY <3>2, <3>3, <4>1, <4>2, <4>3, ZenonT(40) DEF Lists
    <3> QED BY <3>4, <3>5
  <2> QED BY <2>1, <2>2
<1>12. Chosen(kept[Len(s)], Len(s))
  <2>1. Len(s) \in Nat /\ Len(s) \in D
    BY <1>0 DEF D
  <2> HIDE DEF Q
  <2>2. Len(s) \in Q
    BY <1>11, <2>1, Induction
  <2> QED BY <2>1, <2>2 DEF Q
<1>13. Chosen(Selected(s, P), Len(s))
  BY <1>8, <1>12
<1> QED BY <1>13

(* A sequence is one over every set that holds its members.                *)
LEMMA SeqOfSet ==
  ASSUME NEW S, NEW s \in Seq(S), NEW T, ToSet(s) \subseteq T
  PROVE  s \in Seq(T)
<1>1. \A k \in 1..Len(s) : s[k] \in T
  BY DEF ToSet
<1> QED BY <1>1

(* Selecting from a sequence without duplicates keeps the order.           *)
KeepsOrder(t, s, P) ==
  /\ IsInjective(t) /\ ToSet(t) = {s[n] : n \in DOMAIN s \cap P}
  /\ \A m, n \in DOMAIN s \cap P : m < n => Before(t, s[m], s[n])

(* A selection of a sequence without repetition keeps its order and        *)
(* repeats nothing.                                                        *)
LEMMA SelectedOrder ==
  ASSUME NEW S, NEW s \in Seq(S), IsInjective(s), NEW P
  PROVE  Selected(s, P) \in Seq(S) /\ KeepsOrder(Selected(s, P), s, P)
<1> DEFINE t == Selected(s, P)
<1>0. DOMAIN s = 1..Len(s)
  OBVIOUS
<1>1. t \in Seq(S) /\ Lists(t, s, Len(s), P)
  BY SelectedShape
<1>2. Len(t) \in Nat /\ DOMAIN t = 1..Len(t)
  BY <1>1
<1> HIDE DEF t
<1>3. PICK p \in [1..Len(t) -> 1..Len(s)] :
        /\ \A k \in 1..Len(t) : t[k] = s[p[k]] /\ p[k] \in P
        /\ \A k, m \in 1..Len(t) : k < m => p[k] < p[m]
        /\ \A k \in 1..Len(s) : k \in P => \E m \in 1..Len(t) : p[m] = k
  BY <1>1 DEF Lists
<1>4. ASSUME NEW a \in 1..Len(t), NEW b \in 1..Len(t), t[a] = t[b]
      PROVE  a = b
  <2>1. p[a] = p[b]
    BY <1>0, <1>3, <1>4, SMTT(30) DEF IsInjective
  <2>2. ~(a < b) /\ ~(b < a)
    BY <1>3, <2>1
  <2> QED BY <1>2, <2>2
<1>5. IsInjective(t)
  BY <1>2, <1>4 DEF IsInjective
<1>6. ASSUME NEW n \in DOMAIN s \cap P
      PROVE  \E m \in 1..Len(t) : p[m] = n /\ t[m] = s[n]
  BY <1>0, <1>3
<1>7. ToSet(t) = {s[n] : n \in DOMAIN s \cap P}
  <2>1. \A k \in 1..Len(t) : t[k] \in {s[n] : n \in DOMAIN s \cap P}
    BY <1>0, <1>3
  <2>2. \A n \in DOMAIN s \cap P : s[n] \in ToSet(t)
    BY <1>2, <1>6 DEF ToSet
  <2> QED BY <1>2, <2>1, <2>2 DEF ToSet
<1>8. ASSUME NEW m \in DOMAIN s \cap P, NEW n \in DOMAIN s \cap P, m < n
      PROVE  Before(t, s[m], s[n])
  <2>1. PICK k \in 1..Len(t) : p[k] = m /\ t[k] = s[m]
    BY <1>6
  <2>2. PICK l \in 1..Len(t) : p[l] = n /\ t[l] = s[n]
    BY <1>6
  <2>3. ~(l < k) /\ l # k
    <3>1. l < k => p[l] < p[k]
      BY <1>3
    <3> QED BY <1>0, <1>8, <2>1, <2>2, <3>1
  <2>4. k < l
    BY <1>2, <2>3
  <2> QED BY <1>2, <2>1, <2>2, <2>4 DEF Before
<1>9. KeepsOrder(t, s, P)
  BY <1>5, <1>7, <1>8 DEF KeepsOrder
<1> QED BY <1>1, <1>9 DEF t

-----------------------------------------------------------------------------
(* Sequences whose members have no common type.                            *)
IsRow(s) == \E S : s \in Seq(S)

Relast(t, s, x) ==
  /\ IsRow(t) /\ Len(t) = Len(s) /\ t[Len(s)] = x
  /\ \A k \in 1..Len(s) - 1 : t[k] = s[k]

(* The length, the domain and the last member of a sequence.               *)
LEMMA RowLen ==
  ASSUME NEW s, IsRow(s)
  PROVE  /\ Len(s) \in Nat /\ DOMAIN s = 1..Len(s)
         /\ s # <<>> <=> Len(s) > 0
         /\ s # <<>> => Last(s) = s[Len(s)] /\ Len(s) \in 1..Len(s)
<1>1. PICK S : s \in Seq(S)
  BY DEF IsRow
<1> QED BY <1>1 DEF Last

(* A sequence with one more member.                                        *)
LEMMA RowAppend ==
  ASSUME NEW s, IsRow(s), NEW x
  PROVE  /\ IsRow(Append(s, x)) /\ Len(Append(s, x)) = Len(s) + 1
         /\ Append(s, x)[Len(s) + 1] = x
         /\ \A k \in 1..Len(s) : Append(s, x)[k] = s[k]
<1>1. PICK S : s \in Seq(S)
  BY DEF IsRow
<1>2. s \in Seq(S \cup {x}) /\ x \in S \cup {x}
  BY <1>1
<1>3. Append(s, x) \in Seq(S \cup {x})
  BY <1>2
<1> QED BY <1>2, <1>3, AppendProperties DEF IsRow

(* Two sequences in a row.                                                 *)
LEMMA RowConcat ==
  ASSUME NEW s, IsRow(s), NEW t, IsRow(t)
  PROVE  /\ IsRow(s \o t) /\ Len(s \o t) = Len(s) + Len(t)
         /\ \A k \in 1..Len(s) : (s \o t)[k] = s[k]
         /\ \A k \in 1..Len(t) : (s \o t)[Len(s) + k] = t[k]
<1>1. PICK S : s \in Seq(S)
  BY DEF IsRow
<1>2. PICK T : t \in Seq(T)
  BY DEF IsRow
<1>3. s \in Seq(S \cup T) /\ t \in Seq(S \cup T)
  BY <1>1, <1>2
<1> QED BY <1>3, Concat2 DEF IsRow

(* A sequence without its last member.                                     *)
LEMMA RowFront ==
  ASSUME NEW s, IsRow(s), s # <<>>
  PROVE  /\ IsRow(Front(s)) /\ Len(Front(s)) = Len(s) - 1
         /\ \A k \in 1..Len(s) - 1 : Front(s)[k] = s[k]
<1>1. PICK S : s \in Seq(S)
  BY DEF IsRow
<1>2. Len(s) \in Nat /\ Len(s) \in 1..Len(s)
  BY RowLen
<1>3. Front(s) = SubSeq(s, 1, Len(s) - 1)
  BY DEF Front
<1>4. /\ SubSeq(s, 1, Len(s) - 1) \in Seq(S) /\ Len(SubSeq(s, 1, Len(s) - 1)) = Len(s) - 1
      /\ \A n \in 1..Len(s) - 1 : SubSeq(s, 1, Len(s) - 1)[n] = s[n]
  BY <1>1, <1>2, CutAround, ZenonT(40)
<1> QED BY <1>3, <1>4 DEF IsRow

(* A sequence with another last member.                                    *)
LEMMA RowRelast ==
  ASSUME NEW s, IsRow(s), s # <<>>, NEW x
  PROVE  Relast(Append(Front(s), x), s, x)
<1>1. /\ IsRow(Front(s)) /\ Len(Front(s)) = Len(s) - 1 /\ Len(s) \in Nat
      /\ \A k \in 1..Len(s) - 1 : Front(s)[k] = s[k]
  BY RowFront, RowLen
<1>2. Len(s) - 1 + 1 = Len(s)
  BY <1>1
<1> QED BY <1>1, <1>2, RowAppend DEF Relast

(* A sequence with another last member, and one more.                      *)
LEMMA RowPush ==
  ASSUME NEW s, IsRow(s), s # <<>>, NEW x, NEW y
  PROVE  \E t : Relast(t, s, x) /\ Front(s) \o <<x, y>> = Append(t, y)
<1> DEFINE t == Append(Front(s), x)
<1>1. /\ IsRow(Front(s)) /\ Len(Front(s)) = Len(s) - 1 /\ Len(s) \in Nat
  BY RowFront, RowLen
<1>2. PICK S : Front(s) \in Seq(S)
  BY <1>1 DEF IsRow
<1>3. Front(s) \in Seq(S \cup {x, y}) /\ x \in S \cup {x, y} /\ y \in S \cup {x, y}
  BY <1>2
<1>4. Front(s) \o <<x, y>> = Append(t, y)
  BY <1>3
<1> QED BY <1>4, RowRelast

(* A sequence with another member at n.                                    *)
LEMMA RowExcept ==
  ASSUME NEW s, IsRow(s), NEW n \in 1..Len(s), NEW x
  PROVE  /\ IsRow([s EXCEPT ![n] = x]) /\ Len([s EXCEPT ![n] = x]) = Len(s)
         /\ [s EXCEPT ![n] = x][n] = x
         /\ \A k \in 1..Len(s) : k # n => [s EXCEPT ![n] = x][k] = s[k]
<1>1. PICK S : s \in Seq(S)
  BY DEF IsRow
<1>2. s \in Seq(S \cup {x}) /\ x \in S \cup {x}
  BY <1>1
<1> QED BY <1>2, ExceptSeq DEF IsRow

-----------------------------------------------------------------------------
(* Flattening a sequence of sequences.                                     *)

Flattens(f, s) == \A n \in 1..Len(s) : f[n] = IF n = 1 THEN s[n] ELSE f[n - 1] \o s[n]

(* The partial results of flattening.                                      *)
LEMMA FlattenSteps ==
  ASSUME NEW S, NEW s \in Seq(Seq(S)), s # <<>>
  PROVE  \E f \in [1..Len(s) -> Seq(S)] : Flattens(f, s) /\ FlattenSeq(s) = f[Len(s)]
<1> DEFINE D == 1..Len(s)
           T == Seq(S)
           Step(f, n) == IF n = 1 THEN s[n] ELSE f[n - 1] \o s[n]
           G == [v \in D \X [D -> T] |-> Step(v[2], v[1])]
           rank == [n \in D |-> n]
<1>0. Len(s) \in Nat /\ Len(s) > 0 /\ <<>> \in T
  OBVIOUS
<1>1. \A n \in D : n # 1 => n - 1 \in D
  BY <1>0
<1>2. \A n \in D, f \in [D -> T] : G[<<n, f>>] = Step(f, n) /\ Step(f, n) \in T
  <2> SUFFICES ASSUME NEW n \in D, NEW f \in [D -> T]
               PROVE  G[<<n, f>>] = Step(f, n) /\ Step(f, n) \in T
    OBVIOUS
  <2>1. G[<<n, f>>] = Step(f, n)
    OBVIOUS
  <2>2. CASE n = 1
    BY <2>1, <2>2, SMTT(30)
  <2>3. CASE n # 1
    <3>1. f[n - 1] \in T /\ s[n] \in T
      <4>1. n - 1 \in D
        BY <1>1, <2>3
      <4> QED BY <4>1
    <3>2. f[n - 1] \o s[n] \in T
      BY <3>1
    <3> QED BY <3>1, <3>2, <2>1, <2>3, Zenon
  <2> QED BY <2>2, <2>3
<1>3. G \in [D \X [D -> T] -> T]
  BY <1>2
<1> HIDE DEF G
<1>4. rank \in [D -> 0..Len(s)]
  BY <1>0
<1>5. Descends(G, D, T, rank, Len(s))
  <2>1. ASSUME NEW n \in D, NEW g \in [D -> T], NEW h \in [D -> T],
               \A m \in D : rank[m] < rank[n] => g[m] = h[m]
        PROVE  G[<<n, g>>] = G[<<n, h>>]
    <3>1. \A m \in D : m < n => g[m] = h[m]
      BY <2>1
    <3>2. CASE n = 1
      <4>1. Step(g, n) = Step(h, n)
        BY <3>2
      <4> QED BY <1>2, <4>1
    <3>3. CASE n # 1
      <4>1. n - 1 \in D /\ n - 1 < n
        BY <1>0, <1>1, <3>3
      <4>2. g[n - 1] = h[n - 1]
        BY <3>1, <4>1
      <4>3. Step(g, n) = Step(h, n)
        BY <4>2
      <4> QED BY <1>2, <4>3
    <3> QED BY <3>2, <3>3
  <2> HIDE DEF D, T, rank
  <2> QED BY <1>0, <1>3, <1>4, <2>1 DEF Descends
<1> HIDE DEF T, rank
<1>6. PICK f \in [D -> T] : Solves(f, G, D)
  BY <1>5, RecursionExists
<1> DEFINE IsFlat(g) == g = [n \in D |-> Step(g, n)]
           flat == CHOOSE g : IsFlat(g)
<1>7. IsFlat(f)
  BY <1>2, <1>6, ZenonT(40) DEF Solves
<1>8. FlattenSeq(s) = flat[Len(s)]
  BY <1>0 DEF FlattenSeq
<1> HIDE DEF IsFlat
<1>9. IsFlat(flat)
  BY <1>7
<1> HIDE DEF flat
<1>10. \A n \in D : flat[n] = Step(flat, n) /\ DOMAIN flat = D
  BY <1>9 DEF IsFlat
<1> DEFINE Q == {n \in Nat : n \in D => flat[n] = f[n]}
<1>11. ASSUME NEW n \in Nat, \A k \in 0..n - 1 : k \in Q
       PROVE  n \in Q
  <2> SUFFICES ASSUME n \in D PROVE flat[n] = f[n]
    OBVIOUS
  <2>1. f[n] = Step(f, n)
    BY <1>2, <1>6 DEF Solves
  <2>2. n # 1 => flat[n - 1] = f[n - 1]
    <3> SUFFICES ASSUME n # 1 PROVE flat[n - 1] = f[n - 1]
      OBVIOUS
    <3>1. n - 1 \in D /\ n - 1 \in 0..n - 1
      BY <1>1
    <3> QED BY <1>11, <3>1
  <2> QED BY <1>10, <2>1, <2>2
<1> HIDE DEF Q
<1>12. Nat \subseteq Q
  BY <1>11, Induction
<1>13. flat[Len(s)] = f[Len(s)]
  <2>1. Len(s) \in D /\ Len(s) \in Q
    BY <1>0, <1>12
  <2> QED BY <2>1 DEF Q
<1>14. Flattens(f, s)
  BY <1>2, <1>6 DEF Solves, Flattens
<1> QED BY <1>8, <1>13, <1>14 DEF T

(* What flattening makes is a sequence, and grows with the last member.    *)
LEMMA FlattenIs ==
  ASSUME NEW S
  PROVE  /\ FlattenSeq(<<>>) = <<>>
         /\ \A s \in Seq(Seq(S)) : FlattenSeq(s) \in Seq(S)
         /\ \A s \in Seq(Seq(S)), x \in Seq(S) : FlattenSeq(Append(s, x)) = FlattenSeq(s) \o x
<1>1. FlattenSeq(<<>>) = <<>>
  BY DEF FlattenSeq
<1>2. ASSUME NEW s \in Seq(Seq(S)) PROVE FlattenSeq(s) \in Seq(S)
  <2>1. CASE s = <<>>
    <3>1. <<>> \in Seq(S)
      OBVIOUS
    <3> QED BY <1>1, <2>1, <3>1
  <2>2. CASE s # <<>>
    <3>1. Len(s) \in 1..Len(s)
      BY <2>2
    <3>2. PICK f \in [1..Len(s) -> Seq(S)] : FlattenSeq(s) = f[Len(s)]
      BY <2>2, FlattenSteps
    <3> QED BY <3>1, <3>2
  <2> QED BY <2>1, <2>2
<1>3. ASSUME NEW s \in Seq(Seq(S)), NEW x \in Seq(S)
      PROVE  FlattenSeq(Append(s, x)) = FlattenSeq(s) \o x
  <2> DEFINE t == Append(s, x)
  <2>1. /\ t \in Seq(Seq(S)) /\ t # <<>> /\ Len(s) \in Nat /\ Len(t) = Len(s) + 1
        /\ t[Len(s) + 1] = x /\ \A n \in 1..Len(s) : t[n] = s[n]
    BY AppendProperties
  <2> HIDE DEF t
  <2>2. PICK f \in [1..Len(t) -> Seq(S)] : Flattens(f, t) /\ FlattenSeq(t) = f[Len(t)]
    BY <2>1, FlattenSteps
  <2>3. CASE s = <<>>
    <3>1. Len(t) = 1 /\ 1 \in 1..Len(t)
      BY <2>1, <2>3
    <3>2. FlattenSeq(t) = x
      BY <2>1, <2>2, <2>3, <3>1 DEF Flattens
    <3>3. <<>> \o x = x
      OBVIOUS
    <3> QED BY <1>1, <2>3, <3>2, <3>3 DEF t
  <2>4. CASE s # <<>>
    <3>1. PICK g \in [1..Len(s) -> Seq(S)] : Flattens(g, s) /\ FlattenSeq(s) = g[Len(s)]
      BY <2>4, FlattenSteps
    <3>2. Len(s) > 0
      BY <2>4
    <3> DEFINE Q == {n \in Nat : n \in 1..Len(s) => f[n] = g[n]}
    <3>3. ASSUME NEW n \in Nat, \A k \in 0..n - 1 : k \in Q
          PROVE  n \in Q
      <4> SUFFICES ASSUME n \in 1..Len(s) PROVE f[n] = g[n]
        OBVIOUS
      <4>1. n \in 1..Len(t) /\ t[n] = s[n]
        BY <2>1
      <4>2. n # 1 => f[n - 1] = g[n - 1]
        <5> SUFFICES ASSUME n # 1 PROVE f[n - 1] = g[n - 1]
          OBVIOUS
        <5>1. n - 1 \in 1..Len(s) /\ n - 1 \in 0..n - 1
          BY <2>1
        <5>2. n - 1 \in Q
          BY <3>3, <5>1
        <5> QED BY <5>1, <5>2
      <4>3. f[n] = IF n = 1 THEN s[n] ELSE f[n - 1] \o s[n]
        <5>1. f[n] = IF n = 1 THEN t[n] ELSE f[n - 1] \o t[n]
          BY <2>2, <4>1 DEF Flattens
        <5> QED BY <4>1, <5>1
      <4>4. g[n] = IF n = 1 THEN s[n] ELSE g[n - 1] \o s[n]
        BY <3>1 DEF Flattens
      <4> HIDE DEF t, Q
      <4> QED BY <4>2, <4>3, <4>4
    <3> HIDE DEF Q
    <3>4. Nat \subseteq Q
      BY <3>3, Induction
    <3>5. f[Len(s)] = g[Len(s)]
      <4>1. Len(s) \in 1..Len(s) /\ Len(s) \in Q
        BY <2>1, <3>2, <3>4
      <4> QED BY <4>1 DEF Q
    <3>6. Len(t) \in 1..Len(t) /\ Len(t) # 1 /\ Len(t) - 1 = Len(s)
      BY <2>1, <3>2
    <3>7. f[Len(t)] = f[Len(s)] \o x
      BY <2>1, <2>2, <3>6 DEF Flattens
    <3> QED BY <2>2, <3>1, <3>5, <3>7 DEF t
  <2> QED BY <2>3, <2>4
<1> QED BY <1>1, <1>2, <1>3

=============================================================================
