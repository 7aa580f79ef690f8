------------------------- MODULE CanonicalizerProofs -------------------------
(***************************************************************************)
(* Theorems about the canonicalizer pass (module Canonicalizer).           *)
(*                                                                         *)
(* CanonicalizerWellFormedIR: whatever rewrites fire, in whatever order,   *)
(* every operation is listed once and defined before it is used.           *)
(* CanonicalizerVerdictKept: the function accepts and rejects what the one *)
(* the pass was given did.                                                 *)
(* CanonicalizerNormalForm: when the driver converges nothing is left to   *)
(* fuse, to drop or to erase.                                              *)
(*                                                                         *)
(* They hold of the pass with any supply of new values (Value = Nat \ {0}) *)
(* and reuse the theorems of ConjunctFoldProofs for the fold that runs     *)
(* inside the pass.                                                        *)
(***************************************************************************)
EXTENDS Canonicalizer, LatticeProofs, DataLemmas, FiniteSetTheorems

-----------------------------------------------------------------------------
(* Blocks.                                                                 *)

(* What a block keeps when only the operations outside erased stay.        *)
LEMMA WithoutShape ==
  ASSUME NEW S, order \in Seq(S), IsInjective(order), NEW erased
  PROVE  /\ Without(erased) \in Seq(S) /\ IsInjective(Without(erased))
         /\ ToSet(Without(erased)) = ToSet(order) \ erased
         /\ \A a, b \in ToSet(order) \ erased :
              Before(order, a, b) => Before(Without(erased), a, b)
<1> DEFINE P == {n \in DOMAIN order : order[n] \notin erased}
           t == Selected(order, P)
<1>1. Without(erased) = t
  BY DEF Without
<1>2. t \in Seq(S) /\ KeepsOrder(t, order, P)
  BY SelectedOrder
<1> HIDE DEF t
<1>3. ToSet(t) = ToSet(order) \ erased
  BY <1>2 DEF KeepsOrder, ToSet
<1>4. ASSUME NEW a \in ToSet(order) \ erased, NEW b \in ToSet(order) \ erased,
             Before(order, a, b)
      PROVE  Before(t, a, b)
  <2>1. PICK m \in DOMAIN order, n \in DOMAIN order : m < n /\ order[m] = a /\ order[n] = b
    BY <1>4 DEF Before
  <2> QED BY <1>2, <2>1 DEF KeepsOrder
<1> QED BY <1>1, <1>2, <1>3, <1>4 DEF KeepsOrder

(* What a block is when operations take the place of one.                  *)
Displaces(t, v, new) ==
  /\ IsInjective(t) /\ ToSet(t) = (ToSet(order) \ {v}) \cup ToSet(new)
  /\ \A a, b \in ToSet(order) \ {v} : Before(order, a, b) => Before(t, a, b)
  /\ \A a \in ToSet(order) \ {v}, b \in ToSet(new) :
       /\ Before(order, a, v) => Before(t, a, b)
       /\ Before(order, v, a) => Before(t, b, a)
  /\ \A a, b \in ToSet(new) : Before(new, a, b) => Before(t, a, b)

(* Putting new operations where v was displaces v and leaves the order of  *)
(* the rest: the rewriter inserts before the root and erases it.           *)
LEMMA InPlaceOfShape ==
  ASSUME NEW S, order \in Seq(S), IsInjective(order), NEW v \in ToSet(order),
         NEW new \in Seq(S), IsInjective(new), ToSet(new) \cap ToSet(order) = {}
  PROVE  InPlaceOf(v, new) \in Seq(S) /\ Displaces(InPlaceOf(v, new), v, new)
<1> DEFINE t == InPlaceOf(v, new)
           p == Position(v)
           N == Len(order)
           M == Len(new)
<1>0. DOMAIN order = 1..N /\ DOMAIN new = 1..M /\ N \in Nat /\ M \in Nat
  OBVIOUS
<1>1. p \in 1..N /\ order[p] = v
  <2>1. \E n \in DOMAIN order : order[n] = v
    BY DEF ToSet
  <2> QED BY <2>1, <1>0 DEF Position
<1>2. t = Splice(order, p, new)
  BY DEF InPlaceOf, Splice
<1> HIDE DEF t, p
<1>3. /\ t \in Seq(S) /\ Len(t) = N + M - 1
      /\ \A n \in 1..p - 1 : t[n] = order[n]
      /\ \A n \in 1..M : t[p - 1 + n] = new[n]
      /\ \A n \in p + 1..N : t[n + M - 1] = order[n]
  <2>1. t \in Seq(S) /\ IsSplice(t, order, p, new)
    BY <1>1, <1>2, Spliced
  <2> QED BY <2>1 DEF IsSplice
<1> DEFINE at(n) == IF n < p THEN n ELSE n + M - 1
           in(n) == p - 1 + n
<1>4. DOMAIN t = 1..N + M - 1
  BY <1>3
<1> HIDE DEF N, M
<1>5. \A n \in 1..N : n # p => at(n) \in DOMAIN t /\ t[at(n)] = order[n]
  <2> SUFFICES ASSUME NEW n \in 1..N, n # p PROVE at(n) \in DOMAIN t /\ t[at(n)] = order[n]
    OBVIOUS
  <2>1. CASE n < p
    <3>1. n \in 1..p - 1 /\ n \in 1..N + M - 1
      BY <1>0, <1>1, <2>1
    <3> QED BY <1>3, <1>4, <2>1, <3>1
  <2>2. CASE n > p
    <3>1. n \in p + 1..N /\ n + M - 1 \in 1..N + M - 1 /\ ~(n < p)
      BY <1>0, <1>1, <2>2
    <3> QED BY <1>3, <1>4, <3>1
  <2> QED BY <1>1, <2>1, <2>2
<1>6. \A n \in 1..M : in(n) \in DOMAIN t /\ t[in(n)] = new[n]
  <2>1. \A n \in 1..M : p - 1 + n \in 1..N + M - 1
    BY <1>0, <1>1
  <2> QED BY <1>3, <1>4, <2>1
<1>7. \A k \in DOMAIN t : \/ \E n \in 1..N : n # p /\ k = at(n)
                         \/ \E n \in 1..M : k = in(n)
  <2> SUFFICES ASSUME NEW k \in 1..N + M - 1
               PROVE  \/ \E n \in 1..N : n # p /\ k = at(n)
                      \/ \E n \in 1..M : k = in(n)
    BY <1>4
  <2>1. \/ k \in 1..p - 1
        \/ \E n \in 1..M : k = p - 1 + n
        \/ \E n \in p + 1..N : k = n + M - 1
    BY <1>0, <1>1, SplicedPlaces
  <2>2. CASE k \in 1..p - 1
    <3>1. k \in 1..N /\ k # p /\ k = at(k)
      BY <1>0, <1>1, <2>2
    <3> QED BY <3>1
  <2>3. CASE \E n \in 1..M : k = p - 1 + n
    BY <2>3
  <2>4. CASE \E n \in p + 1..N : k = n + M - 1
    <3>1. PICK n \in p + 1..N : k = n + M - 1
      BY <2>4
    <3>2. n \in 1..N /\ n # p /\ k = at(n)
      BY <1>0, <1>1, <3>1
    <3> QED BY <3>2
  <2> QED BY <2>1, <2>2, <2>3, <2>4
<1>8. \A m, n \in 1..N : m # p /\ n # p /\ m < n => at(m) < at(n)
  BY <1>0, <1>1
<1>9. \A m, n \in 1..M : m < n => in(m) < in(n)
  BY <1>0, <1>1
<1>10. \A n \in 1..M, m \in 1..N : m < p => at(m) < in(n)
  BY <1>0, <1>1
<1>11. \A n \in 1..M, m \in 1..N : p < m => in(n) < at(m)
  BY <1>0, <1>1
<1> HIDE DEF at, in
<1>12. \A n \in 1..N : order[n] = v => n = p
  BY <1>0, <1>1 DEF IsInjective
<1>13. \A n \in 1..N, m \in 1..M : order[n] # new[m]
  BY <1>0 DEF ToSet
<1>14. ToSet(t) = (ToSet(order) \ {v}) \cup ToSet(new)
  <2>1. \A k \in DOMAIN t : t[k] \in (ToSet(order) \ {v}) \cup ToSet(new)
    BY <1>0, <1>5, <1>6, <1>7, <1>12 DEF ToSet
  <2>2. \A n \in 1..N : order[n] # v => order[n] \in ToSet(t)
    BY <1>1, <1>5 DEF ToSet
  <2>3. \A n \in 1..M : new[n] \in ToSet(t)
    BY <1>6 DEF ToSet
  <2> QED BY <1>0, <2>1, <2>2, <2>3 DEF ToSet
<1>15. IsInjective(t)
  <2> SUFFICES ASSUME NEW k \in DOMAIN t, NEW l \in DOMAIN t, t[k] = t[l] PROVE k = l
    BY DEF IsInjective
  <2>1. CASE \E n \in 1..N : n # p /\ k = at(n)
    <3>1. PICK n \in 1..N : n # p /\ k = at(n)
      BY <2>1
    <3>2. PICK m \in 1..N : m # p /\ l = at(m)
      BY <1>5, <1>6, <1>7, <1>13, <3>1
    <3>3. n = m
      BY <1>0, <1>5, <3>1, <3>2 DEF IsInjective
    <3> QED BY <3>1, <3>2, <3>3
  <2>2. CASE \E n \in 1..M : k = in(n)
    <3>1. PICK n \in 1..M : k = in(n)
      BY <2>2
    <3>2. PICK m \in 1..M : l = in(m)
      BY <1>5, <1>6, <1>7, <1>13, <3>1
    <3>3. new[n] = new[m]
      BY <1>6, <3>1, <3>2
    <3>4. n = m
      BY <1>0, <3>3 DEF IsInjective
    <3> QED BY <3>1, <3>2, <3>4
  <2> QED BY <1>7, <2>1, <2>2
<1>16. ASSUME NEW a \in ToSet(order) \ {v}, NEW b \in ToSet(order) \ {v}, Before(order, a, b)
       PROVE  Before(t, a, b)
  <2>1. PICK m \in 1..N, n \in 1..N : m < n /\ order[m] = a /\ order[n] = b
    BY <1>0, <1>16 DEF Before
  <2> QED BY <1>1, <1>5, <1>8, <2>1 DEF Before
<1>17. ASSUME NEW a \in ToSet(order) \ {v}, NEW b \in ToSet(new)
       PROVE  /\ Before(order, a, v) => Before(t, a, b)
              /\ Before(order, v, a) => Before(t, b, a)
  <2>1. PICK n \in 1..M : new[n] = b
    BY <1>0 DEF ToSet
  <2>2. ASSUME Before(order, a, v) PROVE Before(t, a, b)
    <3>1. PICK m \in 1..N : m < p /\ order[m] = a
      BY <1>0, <1>12, <2>2 DEF Before
    <3>0. m # p
      BY <1>1, <3>1
    <3>2. at(m) \in DOMAIN t /\ t[at(m)] = a
      BY <1>5, <3>0, <3>1
    <3>4. in(n) \in DOMAIN t /\ t[in(n)] = b
      BY <1>6, <2>1
    <3>3. at(m) < in(n)
      BY <1>10, <3>1
    <3> QED BY <3>2, <3>3, <3>4 DEF Before
  <2>3. ASSUME Before(order, v, a) PROVE Before(t, b, a)
    <3>1. PICK m \in 1..N : p < m /\ order[m] = a
      BY <1>0, <1>12, <2>3 DEF Before
    <3>0. m # p
      BY <1>1, <3>1
    <3>2. at(m) \in DOMAIN t /\ t[at(m)] = a
      BY <1>5, <3>0, <3>1
    <3>4. in(n) \in DOMAIN t /\ t[in(n)] = b
      BY <1>6, <2>1
    <3>3. in(n) < at(m)
      BY <1>11, <3>1
    <3> QED BY <3>2, <3>3, <3>4 DEF Before
  <2> QED BY <2>2, <2>3
<1>18. ASSUME NEW a \in ToSet(new), NEW b \in ToSet(new), Before(new, a, b)
       PROVE  Before(t, a, b)
  <2>1. PICK m \in 1..M, n \in 1..M : m < n /\ new[m] = a /\ new[n] = b
    BY <1>0, <1>18 DEF Before
  <2> QED BY <1>6, <1>9, <2>1 DEF Before
<1>19. Displaces(t, v, new)
  BY <1>14, <1>15, <1>16, <1>17, <1>18 DEF Displaces
<1> QED BY <1>3, <1>19 DEF t
-----------------------------------------------------------------------------
(* Operations and functions.                                               *)

(* What the kinds of operation have in common, and what sets them apart.   *)
OpShape(p) ==
  /\ p.op \in {"arg", "true", "validate", "and", "struct"}
  /\ p.input \in Opt(Input) /\ p.lat \in Opt(Lattice) /\ p.args \in Seq(Value)
  /\ p.op = "validate" <=> p.lat # {}
  /\ p.op \in {"arg", "true", "and"} => p.input = {}
  /\ p.op \in {"validate", "struct"} => p.input # {}
  /\ p.op = "and" => Len(p.args) = 2
  /\ p.op \in {"arg", "true", "validate"} => p.args = <<>>

(* The two operands of an andi are a sequence.                             *)
LEMMA Pairs == ASSUME NEW S PROVE [1..2 -> S] = {s \in Seq(S) : Len(s) = 2}
<1>1. ASSUME NEW s \in [1..2 -> S] PROVE s \in Seq(S) /\ Len(s) = 2
  <2>1. s \in UNION {[1..n -> S] : n \in Nat}
    OBVIOUS
  <2>2. s \in Seq(S)
    BY <2>1, SeqDef
  <2>3. DOMAIN s = 1..2
    OBVIOUS
  <2> QED BY <2>2, <2>3, LenProperties
<1>2. ASSUME NEW s \in Seq(S), Len(s) = 2 PROVE s \in [1..2 -> S]
  BY <1>2, LenProperties
<1> QED BY <1>1, <1>2

(* Every operation has the shape of its kind.                              *)
LEMMA OpCases == \A p \in Op : OpShape(p)
<1> SUFFICES ASSUME NEW p \in Op PROVE OpShape(p)
  OBVIOUS
<1>0. {} \in Opt(Input) /\ {} \in Opt(Lattice) /\ <<>> \in Seq(Value)
  BY DEF Opt
<1>1. CASE p \in [op : {"arg", "true"}, input : {{}}, lat : {{}}, args : {<<>>}]
  BY <1>0, <1>1 DEF OpShape
<1>2. CASE p \in [op : {"validate"}, input : Opt(Input) \ {{}}, lat : Opt(Lattice) \ {{}}, args : {<<>>}]
  BY <1>0, <1>2 DEF OpShape
<1>3. CASE p \in [op : {"and"}, input : {{}}, lat : {{}}, args : [1..2 -> Value]]
  <2>0. p.args \in [1..2 -> Value]
    BY <1>3
  <2>1. p.args \in Seq(Value) /\ Len(p.args) = 2
    BY <2>0, Pairs
  <2> QED BY <1>0, <1>3, <2>1 DEF OpShape
<1>4. CASE p \in [op : {"struct"}, input : Opt(Input) \ {{}}, lat : {{}}, args : Seq(Value)]
  BY <1>0, <1>4 DEF OpShape
<1> QED BY <1>1, <1>2, <1>3, <1>4 DEF Op

(* An operation may be given other operands, as many as it had.            *)
LEMMA OpWithArgs ==
  ASSUME NEW p \in Op, NEW a \in Seq(Value), Len(a) = Len(p.args)
  PROVE  [p EXCEPT !.args = a] \in Op
<1> DEFINE q == [p EXCEPT !.args = a]
<1>0. a = <<>> <=> Len(a) = 0
  OBVIOUS
<1>1. CASE p \in [op : {"arg", "true"}, input : {{}}, lat : {{}}, args : {<<>>}]
  <2>1. a = <<>>
    BY <1>0, <1>1
  <2> QED BY <1>1, <2>1 DEF Op
<1>2. CASE p \in [op : {"validate"}, input : Opt(Input) \ {{}}, lat : Opt(Lattice) \ {{}}, args : {<<>>}]
  <2>1. a = <<>>
    BY <1>0, <1>2
  <2> QED BY <1>2, <2>1 DEF Op
<1>3. CASE p \in [op : {"and"}, input : {{}}, lat : {{}}, args : [1..2 -> Value]]
  <2>0. p.args \in [1..2 -> Value]
    BY <1>3
  <2>1. a \in [1..2 -> Value]
    BY <2>0, Pairs
  <2>2. q \in [op : {"and"}, input : {{}}, lat : {{}}, args : [1..2 -> Value]]
    BY <1>3, <2>1
  <2> QED BY <2>2 DEF Op
<1>4. CASE p \in [op : {"struct"}, input : Opt(Input) \ {{}}, lat : {{}}, args : Seq(Value)]
  BY <1>4 DEF Op
<1> QED BY <1>1, <1>2, <1>3, <1>4 DEF Op

(* A function, said with the order of its block.                           *)
IsBlock(o, ord) ==
  /\ DOMAIN o \subseteq Value /\ o \in [DOMAIN o -> Op]
  /\ ord \in Seq(DOMAIN o) /\ IsInjective(ord) /\ ToSet(ord) = DOMAIN o

DefinedFirst(o, ord) ==
  \A v \in DOMAIN o : \A a \in ToSet(o[v].args) : Before(ord, a, v)

(* The verifier's notion of a function is a block whose operands are       *)
(* defined before their users and whose returned values are defined.       *)
LEMMA FunctionIs ==
  ASSUME NEW o, NEW ord, NEW r
  PROVE  IsFunction(o, ord, r) <=>
           IsBlock(o, ord) /\ DefinedFirst(o, ord) /\ r \in Seq(DOMAIN o)
<1> SUFFICES ASSUME IsBlock(o, ord)
             PROVE  (\A n \in DOMAIN ord : ToSet(o[ord[n]].args) \subseteq {ord[m] : m \in 1..n - 1})
                    <=> DefinedFirst(o, ord)
  BY DEF IsFunction, IsBlock
<1>1. DOMAIN ord = 1..Len(ord) /\ Len(ord) \in Nat
  BY DEF IsBlock
<1>2. ASSUME \A n \in DOMAIN ord : ToSet(o[ord[n]].args) \subseteq {ord[m] : m \in 1..n - 1},
             NEW v \in DOMAIN o, NEW a \in ToSet(o[v].args)
      PROVE  Before(ord, a, v)
  <2>1. PICK n \in DOMAIN ord : ord[n] = v
    BY DEF IsBlock, ToSet
  <2>2. PICK m \in 1..n - 1 : ord[m] = a
    BY <1>2, <2>1
  <2>3. m \in DOMAIN ord /\ m < n
    BY <1>1
  <2> QED BY <2>1, <2>2, <2>3 DEF Before
<1>3. ASSUME DefinedFirst(o, ord), NEW n \in DOMAIN ord, NEW a \in ToSet(o[ord[n]].args)
      PROVE  a \in {ord[m] : m \in 1..n - 1}
  <2>1. ord[n] \in DOMAIN o
    BY DEF IsBlock, ToSet
  <2>2. PICK m \in DOMAIN ord, l \in DOMAIN ord : m < l /\ ord[m] = a /\ ord[l] = ord[n]
    BY <1>3, <2>1 DEF DefinedFirst, Before
  <2>3. l = n
    BY <2>2 DEF IsBlock, IsInjective
  <2>4. m \in 1..n - 1
    BY <1>1, <2>2, <2>3
  <2> QED BY <2>2, <2>4
<1> QED BY <1>2, <1>3 DEF DefinedFirst

(* Operands are operations of the function, and Before is an order on it.  *)
LEMMA OperandsDefined ==
  ASSUME NEW o, NEW ord, IsBlock(o, ord), DefinedFirst(o, ord)
  PROVE  \A v \in DOMAIN o : /\ ToSet(o[v].args) \subseteq DOMAIN o \ {v}
                            /\ o[v].args \in Seq(DOMAIN o) /\ OpShape(o[v])
<1> SUFFICES ASSUME NEW v \in DOMAIN o
             PROVE  /\ ToSet(o[v].args) \subseteq DOMAIN o \ {v}
                    /\ o[v].args \in Seq(DOMAIN o) /\ OpShape(o[v])
  OBVIOUS
<1>1. ASSUME NEW a \in ToSet(o[v].args) PROVE a \in DOMAIN o \ {v}
  <2>1. PICK m \in DOMAIN ord, n \in DOMAIN ord : m < n /\ ord[m] = a /\ ord[n] = v
    BY DEF DefinedFirst, Before
  <2>2. a \in DOMAIN o
    BY <2>1 DEF IsBlock, ToSet
  <2>3. m # n
    BY <2>1 DEF IsBlock
  <2> QED BY <2>1, <2>2, <2>3 DEF IsBlock, IsInjective
<1>2. o[v] \in Op /\ OpShape(o[v])
  BY OpCases DEF IsBlock
<1>3. o[v].args \in Seq(DOMAIN o)
  BY <1>1, <1>2, SeqOfSet DEF OpShape
<1> QED BY <1>1, <1>2, <1>3

(* Precedence in a block is transitive.                                    *)
LEMMA BeforeTransitive ==
  ASSUME NEW o, NEW ord, IsBlock(o, ord), NEW a, NEW b, NEW c,
         Before(ord, a, b), Before(ord, b, c)
  PROVE  Before(ord, a, c)
<1>1. PICK m \in DOMAIN ord, n \in DOMAIN ord : m < n /\ ord[m] = a /\ ord[n] = b
  BY DEF Before
<1>2. PICK k \in DOMAIN ord, l \in DOMAIN ord : k < l /\ ord[k] = b /\ ord[l] = c
  BY DEF Before
<1>3. n = k
  BY <1>1, <1>2 DEF IsBlock, IsInjective
<1>4. DOMAIN ord = 1..Len(ord) /\ Len(ord) \in Nat
  BY DEF IsBlock
<1>5. m < l
  BY <1>1, <1>2, <1>3, <1>4
<1> QED BY <1>1, <1>2, <1>5 DEF Before

-----------------------------------------------------------------------------
(* Rewrites of a function.                                                 *)

IsReplaced(t, s, x, w) ==
  Len(t) = Len(s) /\ \A n \in 1..Len(s) : t[n] = IF s[n] = x THEN w ELSE s[n]

(* Replacing x by w leaves a sequence as long as it is.                    *)
LEMMA ReplaceAllShape ==
  ASSUME NEW S, NEW s \in Seq(S), NEW x, NEW w \in S
  PROVE  ReplaceAll(s, x, w) \in Seq(S) /\ IsReplaced(ReplaceAll(s, x, w), s, x, w)
<1> DEFINE t == [n \in 1..Len(s) |-> IF s[n] = x THEN w ELSE s[n]]
<1>1. Len(s) \in Nat /\ \A n \in 1..Len(s) : s[n] \in S
  OBVIOUS
<1>2. t \in [1..Len(s) -> S]
  BY <1>1
<1>3. t \in Seq(S) /\ Len(t) = Len(s)
  <2>1. t \in UNION {[1..n -> S] : n \in Nat}
    BY <1>1, <1>2
  <2>2. t \in Seq(S)
    BY <2>1, SeqDef
  <2>3. DOMAIN t = 1..Len(s)
    OBVIOUS
  <2> HIDE DEF t
  <2> QED BY <1>1, <2>2, <2>3, LenProperties
<1>4. ReplaceAll(s, x, w) = t
  BY DEF ReplaceAll
<1> QED BY <1>3, <1>4 DEF IsReplaced

(* ... and of its members drops x and adds w, when x was there.            *)
LEMMA ReplacedMembers ==
  ASSUME NEW S, NEW s \in Seq(S), NEW x, NEW w, NEW t \in Seq(S), IsReplaced(t, s, x, w),
         NEW a \in ToSet(t)
  PROVE  \/ a \in ToSet(s) /\ a # x
         \/ a = w /\ x \in ToSet(s)
<1>0. DOMAIN t = 1..Len(t) /\ DOMAIN s = 1..Len(s)
  OBVIOUS
<1>1. PICK n \in DOMAIN t : t[n] = a
  BY DEF ToSet
<1>2. n \in DOMAIN s /\ a = IF s[n] = x THEN w ELSE s[n]
  BY <1>0, <1>1 DEF IsReplaced
<1> QED BY <1>2 DEF ToSet

(* Erasing operations and giving others to the rest keeps the block, when  *)
(* what a remaining operation uses remains and comes before it.            *)
Kept(o, erased) == [v \in DOMAIN o \ erased |-> o[v]]

(* Erasing operations nothing left uses keeps a block well formed, when    *)
(* the operands of the others still come first.                            *)
LEMMA KeptFunction ==
  ASSUME IsBlock(ops, order), NEW erased, NEW o \in [DOMAIN ops -> Op],
         \A v \in DOMAIN ops \ erased : \A a \in ToSet(o[v].args) :
           a \notin erased /\ Before(order, a, v)
  PROVE  IsBlock(Kept(o, erased), Without(erased)) /\ DefinedFirst(Kept(o, erased), Without(erased))
<1> DEFINE D == DOMAIN ops \ erased
           k == Kept(o, erased)
           t == Without(erased)
<1>1. DOMAIN k = D /\ k \in [D -> Op] /\ \A v \in D : k[v] = o[v]
  BY DEF Kept
<1>2. D \subseteq Value
  BY DEF IsBlock
<1>3. /\ t \in Seq(DOMAIN ops) /\ IsInjective(t) /\ ToSet(t) = D
      /\ \A a, b \in D : Before(order, a, b) => Before(t, a, b)
  BY WithoutShape DEF IsBlock
<1> HIDE DEF k, t
<1>4. t \in Seq(D)
  BY <1>3, SeqOfSet
<1>5. IsBlock(k, t)
  BY <1>1, <1>2, <1>3, <1>4 DEF IsBlock
<1>6. ASSUME NEW v \in D, NEW a \in ToSet(o[v].args) PROVE Before(t, a, v)
  <2>1. a \notin erased /\ Before(order, a, v)
    OBVIOUS
  <2>2. a \in D
    BY <2>1 DEF Before, IsBlock, ToSet
  <2> QED BY <1>3, <2>1, <2>2
<1>7. DefinedFirst(k, t)
  BY <1>1, <1>6 DEF DefinedFirst
<1> QED BY <1>5, <1>7 DEF k, t

(* Using w wherever x was used keeps the block when w is defined before x. *)
Instead(o, x, w) == [u \in DOMAIN o |-> [o[u] EXCEPT !.args = ReplaceAll(@, x, w)]]

Closed(o) ==
  /\ DOMAIN o \subseteq Value /\ o \in [DOMAIN o -> Op]
  /\ \A u \in DOMAIN o : o[u].args \in Seq(DOMAIN o)

(* In a block whose operands are defined first, every operand is the       *)
(* result of an operation.                                                 *)
LEMMA BlockClosed ==
  ASSUME NEW o, NEW ord, IsBlock(o, ord), DefinedFirst(o, ord)
  PROVE  Closed(o)
BY OperandsDefined DEF IsBlock, Closed

(* Replacing the uses of x by w changes no operation but in its operands,  *)
(* position by position.                                                   *)
LEMMA InsteadShape ==
  ASSUME NEW o, Closed(o), NEW x, NEW w \in DOMAIN o
  PROVE  /\ Instead(o, x, w) \in [DOMAIN o -> Op]
         /\ \A u \in DOMAIN o :
              /\ Instead(o, x, w)[u].op = o[u].op /\ Instead(o, x, w)[u].input = o[u].input
              /\ Instead(o, x, w)[u].lat = o[u].lat
              /\ Instead(o, x, w)[u].args \in Seq(DOMAIN o)
              /\ IsReplaced(Instead(o, x, w)[u].args, o[u].args, x, w)
<1> SUFFICES ASSUME NEW u \in DOMAIN o
             PROVE  LET q == Instead(o, x, w)[u]
                    IN /\ q \in Op /\ q.op = o[u].op /\ q.input = o[u].input
                       /\ q.lat = o[u].lat /\ q.args \in Seq(DOMAIN o)
                       /\ IsReplaced(q.args, o[u].args, x, w)
  BY DEF Instead
<1> DEFINE a == ReplaceAll(o[u].args, x, w)
<1>1. o[u] \in Op /\ o[u].args \in Seq(DOMAIN o) /\ DOMAIN o \subseteq Value
  BY DEF Closed
<1>2. a \in Seq(DOMAIN o) /\ IsReplaced(a, o[u].args, x, w)
  BY <1>1, ReplaceAllShape
<1>3. Instead(o, x, w)[u] = [o[u] EXCEPT !.args = a]
  BY DEF Instead
<1> HIDE DEF a
<1>4. a \in Seq(Value) /\ Len(a) = Len(o[u].args)
  BY <1>1, <1>2 DEF IsReplaced
<1>5. [o[u] EXCEPT !.args = a] \in Op
  BY <1>1, <1>4, OpWithArgs
<1>6. LET q == [o[u] EXCEPT !.args = a]
      IN q.op = o[u].op /\ q.input = o[u].input /\ q.lat = o[u].lat /\ q.args = a
  BY <1>1 DEF Op
<1> QED BY <1>2, <1>3, <1>5, <1>6

(* Replacing x by a value defined before it, and erasing x, keeps a block  *)
(* well formed.                                                            *)
LEMMA ReplacedFunction ==
  ASSUME IsBlock(ops, order), DefinedFirst(ops, order), NEW x, NEW w, Before(order, w, x)
  PROVE  /\ IsBlock(ReplaceIn(ops, x, w), Without({x}))
         /\ DefinedFirst(ReplaceIn(ops, x, w), Without({x}))
<1> DEFINE o == Instead(ops, x, w)
<1>0. DOMAIN o = DOMAIN ops
  BY DEF Instead
<1>1. w \in DOMAIN ops /\ w # x
  BY DEF Before, IsBlock, ToSet, IsInjective
<1>2. ReplaceIn(ops, x, w) = Kept(o, {x})
  BY DEF ReplaceIn, Kept, Instead
<1>3. /\ o \in [DOMAIN ops -> Op]
      /\ \A u \in DOMAIN ops : o[u].args \in Seq(DOMAIN ops) /\ IsReplaced(o[u].args, ops[u].args, x, w)
  BY <1>1, BlockClosed, InsteadShape
<1> HIDE DEF o
<1>4. ASSUME NEW v \in DOMAIN ops \ {x}, NEW a \in ToSet(o[v].args)
      PROVE  a \notin {x} /\ Before(order, a, v)
  <2>1. ops[v].args \in Seq(DOMAIN ops)
    BY OperandsDefined
  <2>2. \/ a \in ToSet(ops[v].args) /\ a # x
        \/ a = w /\ x \in ToSet(ops[v].args)
    BY <1>3, <2>1, ReplacedMembers
  <2>3. CASE a \in ToSet(ops[v].args) /\ a # x
    BY <2>3 DEF DefinedFirst
  <2>4. CASE a = w /\ x \in ToSet(ops[v].args)
    <3>1. Before(order, x, v)
      BY <2>4 DEF DefinedFirst
    <3>2. Before(order, w, v)
      BY <3>1, BeforeTransitive
    <3> QED BY <1>1, <2>4, <3>2
  <2> QED BY <2>2, <2>3, <2>4
<1>5. IsBlock(Kept(o, {x}), Without({x})) /\ DefinedFirst(Kept(o, {x}), Without({x}))
  BY <1>3, <1>4, KeptFunction
<1> QED BY <1>2, <1>5

(* Operations put in the place of x: with extends the function by those in *)
(* new, which use what is defined before x or earlier among them, and w    *)
(* takes over the uses of x.                                               *)
Supplies(new, with, x, w) ==
  /\ new \in Seq(Value) /\ IsInjective(new) /\ ToSet(new) \cap DOMAIN ops = {}
  /\ with \in [DOMAIN ops \cup ToSet(new) -> Op] /\ \A v \in DOMAIN ops : with[v] = ops[v]
  /\ \A v \in ToSet(new) : \A a \in ToSet(with[v].args) :
       Before(order, a, x) \/ (a \in ToSet(new) /\ Before(new, a, v))
  /\ Before(order, w, x) \/ w \in ToSet(new)

(* Operations added for a rewrite only use operations that are there, the  *)
(* added ones included.                                                    *)
LEMMA SuppliedClosed ==
  ASSUME IsBlock(ops, order), DefinedFirst(ops, order), NEW x,
         NEW new, NEW with, NEW w, Supplies(new, with, x, w)
  PROVE  Closed(with) /\ w \in DOMAIN with
<1> DEFINE D == DOMAIN ops \cup ToSet(new)
<1>1. DOMAIN with = D /\ with \in [D -> Op]
  BY DEF Supplies
<1>2. ToSet(new) \subseteq Value /\ DOMAIN ops \subseteq Value
  BY DEF Supplies, ToSet, IsBlock
<1>3. \A a, b : Before(order, a, b) => a \in DOMAIN ops
  BY DEF Before, IsBlock, ToSet
<1>4. ASSUME NEW v \in D PROVE with[v].args \in Seq(D)
  <2>1. ToSet(with[v].args) \subseteq D
    <3>1. CASE v \in DOMAIN ops
      <4>1. with[v] = ops[v]
        BY <3>1 DEF Supplies
      <4>2. ToSet(ops[v].args) \subseteq DOMAIN ops
        BY <3>1, OperandsDefined
      <4> QED BY <4>1, <4>2
    <3>2. CASE v \in ToSet(new)
      BY <1>3, <3>2 DEF Supplies
    <3> QED BY <3>1, <3>2
  <2>2. with[v].args \in Seq(Value)
    BY <1>1, OpCases DEF OpShape
  <2> QED BY <2>1, <2>2, SeqOfSet
<1>5. w \in D
  BY <1>3 DEF Supplies
<1> QED BY <1>1, <1>2, <1>4, <1>5 DEF Closed

(* Inserting operations where x was, giving its uses to a value they       *)
(* supply and erasing x keeps a block well formed.                         *)
LEMMA SuppliedFunction ==
  ASSUME IsBlock(ops, order), DefinedFirst(ops, order), NEW x \in DOMAIN ops,
         NEW new, NEW with, NEW w, Supplies(new, with, x, w)
  PROVE  /\ IsBlock(ReplaceIn(with, x, w), InPlaceOf(x, new))
         /\ DefinedFirst(ReplaceIn(with, x, w), InPlaceOf(x, new))
<1> DEFINE o == Instead(with, x, w)
           r == ReplaceIn(with, x, w)
           t == InPlaceOf(x, new)
           E == ToSet(new)
           D == (DOMAIN ops \ {x}) \cup E
<1>1. Closed(with) /\ w \in DOMAIN with /\ DOMAIN with = DOMAIN ops \cup E
  BY SuppliedClosed DEF Supplies
<1>2. /\ o \in [DOMAIN ops \cup E -> Op]
      /\ \A u \in DOMAIN ops \cup E : /\ o[u].args \in Seq(DOMAIN with)
                                      /\ IsReplaced(o[u].args, with[u].args, x, w)
  BY <1>1, InsteadShape
<1>3. /\ E \cap DOMAIN ops = {} /\ E \subseteq Value /\ ToSet(order) = DOMAIN ops
      /\ order \in Seq(DOMAIN ops) /\ order \in Seq(Value) /\ IsInjective(order)
      /\ new \in Seq(Value) /\ IsInjective(new)
  <2>1. order \in Seq(Value)
    BY SeqOfSet DEF IsBlock
  <2> QED BY <2>1 DEF Supplies, IsBlock, ToSet
<1>4. r = [u \in D |-> o[u]]
  <2>1. DOMAIN with \ {x} = D
    BY <1>1, <1>3
  <2> QED BY <2>1, <1>1 DEF ReplaceIn, Instead
<1> HIDE DEF o, r
<1>5. DOMAIN r = D /\ r \in [D -> Op] /\ \A u \in D : r[u] = o[u]
  BY <1>2, <1>4
<1>6. t \in Seq(Value) /\ Displaces(t, x, new)
  BY <1>3, InPlaceOfShape
<1> HIDE DEF t
<1>7. IsBlock(r, t)
  <2>1. ToSet(t) = D /\ IsInjective(t)
    BY <1>3, <1>6 DEF Displaces
  <2>2. t \in Seq(D)
    BY <1>6, <2>1, SeqOfSet
  <2>3. D \subseteq Value
    BY <1>3 DEF IsBlock
  <2> QED BY <1>5, <2>1, <2>2, <2>3 DEF IsBlock
<1>8. \A a, b : Before(order, a, b) => a \in DOMAIN ops /\ b \in DOMAIN ops /\ a # b
  BY DEF Before, IsBlock, ToSet, IsInjective
<1>9. ASSUME NEW v \in D, NEW a \in ToSet(with[v].args), a # x PROVE Before(t, a, v)
  <2>1. CASE v \in DOMAIN ops \ {x}
    <3>1. with[v] = ops[v]
      BY <2>1 DEF Supplies
    <3>2. Before(order, a, v)
      BY <1>9, <2>1, <3>1 DEF DefinedFirst
    <3> QED BY <1>3, <1>6, <1>8, <1>9, <2>1, <3>2 DEF Displaces
  <2>2. CASE v \in E
    <3>1. Before(order, a, x) \/ (a \in E /\ Before(new, a, v))
      BY <2>2 DEF Supplies
    <3>2. CASE Before(order, a, x)
      <4>1. a \in ToSet(order) \ {x}
        BY <1>3, <1>8, <3>2
      <4> QED BY <1>6, <2>2, <3>2, <4>1 DEF Displaces
    <3>3. CASE a \in E /\ Before(new, a, v)
      BY <1>6, <2>2, <3>3 DEF Displaces
    <3> QED BY <3>1, <3>2, <3>3
  <2> QED BY <2>1, <2>2
<1>10. ASSUME NEW v \in D, x \in ToSet(with[v].args) PROVE Before(t, w, v)
  <2>1. CASE v \in DOMAIN ops \ {x}
    <3>1. Before(order, x, v)
      BY <1>10, <2>1 DEF Supplies, DefinedFirst
    <3>2. v \in ToSet(order) \ {x}
      BY <1>3, <2>1
    <3>3. CASE Before(order, w, x)
      <4>1. Before(order, w, v)
        BY <3>1, <3>3, BeforeTransitive
      <4>2. w \in ToSet(order) \ {x}
        BY <1>3, <1>8, <3>3
      <4> QED BY <1>6, <3>2, <4>1, <4>2 DEF Displaces
    <3>4. CASE w \in E
      BY <1>6, <3>1, <3>2, <3>4 DEF Displaces
    <3> QED BY <3>3, <3>4 DEF Supplies
  <2>2. CASE v \in E
    BY <1>3, <1>8, <1>10, <2>2 DEF Supplies
  <2> QED BY <2>1, <2>2
<1>11. ASSUME NEW v \in D, NEW a \in ToSet(r[v].args) PROVE Before(t, a, v)
  <2>1. v \in DOMAIN with /\ with[v].args \in Seq(DOMAIN with)
    BY <1>1 DEF Closed
  <2>2. \/ a \in ToSet(with[v].args) /\ a # x
        \/ a = w /\ x \in ToSet(with[v].args)
    <3>1. r[v].args \in Seq(DOMAIN with) /\ IsReplaced(r[v].args, with[v].args, x, w)
      BY <1>2, <1>5
    <3> QED BY <2>1, <3>1, ReplacedMembers
  <2> QED BY <1>9, <1>10, <2>2
<1>12. DefinedFirst(r, t)
  BY <1>5, <1>11 DEF DefinedFirst
<1> QED BY <1>7, <1>12 DEF r, t

-----------------------------------------------------------------------------
(* Recursion and induction along the operands of a block.                  *)

(* Induction along operands: a set that holds an operation whenever it     *)
(* holds its operands holds the whole block.                               *)
LEMMA BlockInduction ==
  ASSUME NEW o, NEW ord, IsBlock(o, ord), DefinedFirst(o, ord), NEW Q,
         \A v \in DOMAIN o : ToSet(o[v].args) \subseteq Q => v \in Q
  PROVE  DOMAIN o \subseteq Q
<1> DEFINE P == {n \in Nat : n \in DOMAIN ord => ord[n] \in Q}
<1>0. DOMAIN ord = 1..Len(ord) /\ Len(ord) \in Nat
  BY DEF IsBlock
<1>1. ASSUME NEW n \in Nat, \A k \in 0..n - 1 : k \in P PROVE n \in P
  <2> SUFFICES ASSUME n \in DOMAIN ord PROVE ord[n] \in Q
    OBVIOUS
  <2>1. ord[n] \in DOMAIN o
    BY DEF IsBlock
  <2>2. ASSUME NEW a \in ToSet(o[ord[n]].args) PROVE a \in Q
    <3>1. PICK m \in DOMAIN ord, l \in DOMAIN ord : m < l /\ ord[m] = a /\ ord[l] = ord[n]
      BY <2>1 DEF DefinedFirst, Before
    <3>2. l = n
      BY <3>1 DEF IsBlock, IsInjective
    <3>3. m \in 0..n - 1
      BY <1>0, <3>1, <3>2
    <3>4. m \in P
      BY <1>1, <3>3
    <3> QED BY <3>1, <3>4
  <2> QED BY <2>1, <2>2
<1> HIDE DEF P
<1>2. Nat \subseteq P
  BY <1>1, Induction
<1>3. \A n \in DOMAIN ord : ord[n] \in Q
  BY <1>0, <1>2 DEF P
<1> QED BY <1>3 DEF IsBlock, ToSet

(* G computes the value at v from the values at the operands of v.         *)
FromOperands(G, D, o, T) ==
  /\ T # {} /\ G \in [D \X [D -> T] -> T]
  /\ \A v \in D : \A g, h \in [D -> T] :
       (\A a \in ToSet(o[v].args) : g[a] = h[a]) => G[<<v, g>>] = G[<<v, h>>]

(* Recursion along operands: a definition that reads only the operands of  *)
(* an operation has a solution.                                            *)
LEMMA BlockRecursion ==
  ASSUME NEW o, NEW ord, IsBlock(o, ord), DefinedFirst(o, ord), 
         NEW G, NEW D, NEW T, D = DOMAIN o, FromOperands(G, D, o, T)
  PROVE  \E f \in [D -> T] : Solves(f, G, D)
<1> DEFINE at == [v \in D |-> CHOOSE n \in DOMAIN ord : ord[n] = v]
<1>0. DOMAIN ord = 1..Len(ord) /\ Len(ord) \in Nat
  BY DEF IsBlock
<1>1. \A v \in D : at[v] \in DOMAIN ord /\ ord[at[v]] = v
  <2> SUFFICES ASSUME NEW v \in D PROVE at[v] \in DOMAIN ord /\ ord[at[v]] = v
    OBVIOUS
  <2>1. \E n \in DOMAIN ord : ord[n] = v
    BY DEF IsBlock, ToSet
  <2> QED BY <2>1
<1>2. at \in [D -> 0..Len(ord)]
  <2>1. \A v \in D : at[v] \in 0..Len(ord)
    BY <1>0, <1>1
  <2> QED BY <2>1
<1> HIDE DEF at
<1>3. ASSUME NEW v \in D, NEW g \in [D -> T], NEW h \in [D -> T],
             \A u \in D : at[u] < at[v] => g[u] = h[u]
      PROVE  G[<<v, g>>] = G[<<v, h>>]
  <2>1. ASSUME NEW a \in ToSet(o[v].args) PROVE g[a] = h[a]
    <3>1. PICK m \in DOMAIN ord, l \in DOMAIN ord : m < l /\ ord[m] = a /\ ord[l] = v
      BY DEF DefinedFirst, Before
    <3>2. a \in D
      BY <3>1 DEF IsBlock
    <3>3. l = at[v] /\ m = at[a]
      BY <1>1, <3>1, <3>2 DEF IsBlock, IsInjective
    <3> QED BY <1>3, <3>1, <3>2, <3>3
  <2> QED BY <2>1 DEF FromOperands
<1>4. Descends(G, D, T, at, Len(ord))
  <2>1. T # {} /\ G \in [D \X [D -> T] -> T]
    BY DEF FromOperands
  <2> QED BY <1>0, <1>2, <1>3, <2>1 DEF Descends
<1> QED BY <1>4, RecursionExists

-----------------------------------------------------------------------------
(* Verdicts.                                                               *)

(* h says of every operation whether it holds under e.                     *)
HoldsIn(o, h, e) ==
  /\ h \in [DOMAIN o -> BOOLEAN]
  /\ \A v \in DOMAIN o :
       h[v] <=> Own(o[v], v, e) /\ \A a \in ToSet(o[v].args) : h[a]

(* Every environment decides every value of a block: evaluating the        *)
(* operations in order gives a valuation.                                  *)
LEMMA HoldsExists ==
  ASSUME NEW o, NEW ord, IsBlock(o, ord), DefinedFirst(o, ord), NEW e
  PROVE  \E h : HoldsIn(o, h, e)
<1> DEFINE D == DOMAIN o
           Holds(v, h) == Own(o[v], v, e) /\ \A a \in ToSet(o[v].args) : h[a]
           G == [p \in D \X [D -> BOOLEAN] |-> Holds(p[1], p[2])]
<1>1. \A v \in D, h \in [D -> BOOLEAN] : G[<<v, h>>] = Holds(v, h) /\ Holds(v, h) \in BOOLEAN
  <2> SUFFICES ASSUME NEW v \in D, NEW h \in [D -> BOOLEAN]
               PROVE  G[<<v, h>>] = Holds(v, h) /\ Holds(v, h) \in BOOLEAN
    OBVIOUS
  <2>1. <<v, h>> \in D \X [D -> BOOLEAN] /\ <<v, h>>[1] = v /\ <<v, h>>[2] = h
    OBVIOUS
  <2>2. G[<<v, h>>] = Holds(v, h)
    BY <2>1
  <2> QED BY <2>2
<1>2. G \in [D \X [D -> BOOLEAN] -> BOOLEAN]
  OBVIOUS
<1> HIDE DEF G
<1>3. FromOperands(G, D, o, BOOLEAN)
  <2>1. ASSUME NEW v \in D, NEW g \in [D -> BOOLEAN], NEW h \in [D -> BOOLEAN],
               \A a \in ToSet(o[v].args) : g[a] = h[a]
        PROVE  G[<<v, g>>] = G[<<v, h>>]
    <3>1. Holds(v, g) = Holds(v, h)
      BY <2>1
    <3> HIDE DEF Holds
    <3> QED BY <1>1, <3>1
  <2> HIDE DEF D
  <2> QED BY <1>2, <2>1 DEF FromOperands
<1>4. PICK h \in [D -> BOOLEAN] : Solves(h, G, D)
  BY <1>3, BlockRecursion
<1>5. HoldsIn(o, h, e)
  BY <1>1, <1>4 DEF HoldsIn, Solves
<1> QED BY <1>5

(* The verdict is what h says of the values returned.                      *)
LEMMA VerdictIs ==
  ASSUME NEW o, NEW ord, IsBlock(o, ord), DefinedFirst(o, ord), NEW r \in Seq(DOMAIN o),
         NEW e, NEW h, HoldsIn(o, h, e)
  PROVE  Verdict(o, r, e) = [k \in DOMAIN r |-> h[r[k]]]
<1> DEFINE D == DOMAIN o
           Is(g) == g = [v \in D |-> /\ Own(o[v], v, e)
                                     /\ \A k \in DOMAIN o[v].args : g[o[v].args[k]]]
           holds == CHOOSE g : Is(g)
<1>1. Is(h)
  <2>1. \A v \in D : (\A a \in ToSet(o[v].args) : h[a])
                     <=> (\A k \in DOMAIN o[v].args : h[o[v].args[k]])
    BY DEF ToSet
  <2>2. \A v \in D : h[v] = (/\ Own(o[v], v, e)
                             /\ \A k \in DOMAIN o[v].args : h[o[v].args[k]])
    BY <2>1 DEF HoldsIn
  <2>3. h = [v \in D |-> h[v]]
    BY DEF HoldsIn
  <2> QED BY <2>2, <2>3
<1>2. Verdict(o, r, e) = [k \in DOMAIN r |-> holds[r[k]]]
  BY DEF Verdict
<1> HIDE DEF Is
<1>3. Is(holds)
  BY <1>1
<1> HIDE DEF holds
<1>4. \A v \in D : holds[v] = (/\ Own(o[v], v, e)
                              /\ \A k \in DOMAIN o[v].args : holds[o[v].args[k]])
  BY <1>3 DEF Is
<1>5. \A v \in D : holds[v] = (Own(o[v], v, e) /\ \A a \in ToSet(o[v].args) : holds[a])
  BY <1>4 DEF ToSet
<1> DEFINE Q == {v \in D : holds[v] = h[v]}
<1>6. ASSUME NEW v \in D, ToSet(o[v].args) \subseteq Q PROVE v \in Q
  <2>1. \A a \in ToSet(o[v].args) : holds[a] = h[a]
    BY <1>6
  <2> QED BY <1>5, <2>1 DEF HoldsIn
<1> HIDE DEF Q
<1>7. D \subseteq Q
  BY <1>6, BlockInduction
<1>8. \A k \in DOMAIN r : holds[r[k]] = h[r[k]]
  BY <1>7 DEF Q
<1> QED BY <1>2, <1>8

-----------------------------------------------------------------------------
(* The block stays a function.                                             *)

Block == IsBlock(ops, order) /\ DefinedFirst(ops, order) /\ ret \in Seq(DOMAIN ops)

(* Values that are not erased can still be returned.                       *)
LEMMA ReturnsKept ==
  ASSUME NEW S, NEW r \in Seq(S), NEW erased, ToSet(r) \cap erased = {}
  PROVE  r \in Seq(S \ erased)
<1>1. ToSet(r) \subseteq S \ erased
  BY DEF ToSet
<1> QED BY <1>1, SeqOfSet

(* Erasing an operation that nothing uses keeps the block well formed.     *)
LEMMA EraseDeadBlock ==
  ASSUME Block, NEW o \in DOMAIN ops, EraseDead(o)
  PROVE  Block'
<1>1. /\ ops' = Kept(ops, {o}) /\ order' = Without({o}) /\ ret' = ret
      /\ Users(ops, o) = {} /\ o \notin ToSet(ret)
  BY DEF EraseDead, Keep, Kept, Dead, Unused
<1>2. IsBlock(ops, order) /\ DefinedFirst(ops, order) /\ ret \in Seq(DOMAIN ops) /\ ops \in [DOMAIN ops -> Op]
  BY DEF Block, IsBlock
<1>3. \A v \in DOMAIN ops \ {o} : \A a \in ToSet(ops[v].args) : a \notin {o} /\ Before(order, a, v)
  BY <1>1, <1>2 DEF Users, DefinedFirst
<1>4. IsBlock(ops', order') /\ DefinedFirst(ops', order')
  BY <1>1, <1>2, <1>3, KeptFunction
<1>5. ret \in Seq(DOMAIN ops \ {o})
  <2>1. ToSet(ret) \cap {o} = {}
    BY <1>1
  <2> QED BY <1>2, <2>1, ReturnsKept
<1>6. DOMAIN ops' = DOMAIN ops \ {o}
  BY <1>1 DEF Kept
<1> QED BY <1>1, <1>4, <1>5, <1>6 DEF Block

(* An andi folds to one of its operands.                                   *)
LEMMA FoldsToBefore ==
  ASSUME Block, NEW o \in DOMAIN ops, NEW w \in FoldsTo(o)
  PROVE  ops[o].op = "and" /\ w \in ToSet(ops[o].args) /\ Before(order, w, o)
<1>1. ops[o].op = "and" /\ (w = ops[o].args[1] \/ w = ops[o].args[2])
  BY DEF FoldsTo
<1>2. ops[o].args \in Seq(DOMAIN ops) /\ Len(ops[o].args) = 2
  BY <1>1, OperandsDefined DEF Block, OpShape
<1>3. w \in ToSet(ops[o].args)
  <2>1. 1 \in DOMAIN ops[o].args /\ 2 \in DOMAIN ops[o].args
    BY <1>2
  <2> QED BY <1>1, <2>1 DEF ToSet
<1> QED BY <1>1, <1>3 DEF Block, DefinedFirst

(* Folding an andi to one of its operands keeps the block well formed: the *)
(* operand comes before the andi.                                          *)
LEMMA FoldAndBlock ==
  ASSUME Block, NEW o \in DOMAIN ops, FoldAnd(o)
  PROVE  Block'
<1>1. PICK w \in FoldsTo(o) : ops' = ReplaceIn(ops, o, w) /\ ret' = ReplaceAll(ret, o, w)
  BY DEF FoldAnd
<1>2. order' = Without({o})
  BY DEF FoldAnd
<1>3. Before(order, w, o) /\ IsBlock(ops, order) /\ DefinedFirst(ops, order) /\ ret \in Seq(DOMAIN ops)
  BY FoldsToBefore DEF Block
<1>4. IsBlock(ops', order') /\ DefinedFirst(ops', order')
  BY <1>1, <1>2, <1>3, ReplacedFunction
<1>5. w \in DOMAIN ops /\ w # o
  BY <1>3 DEF Before, IsBlock, ToSet, IsInjective
<1>6. ret' \in Seq(DOMAIN ops) /\ IsReplaced(ret', ret, o, w)
  BY <1>1, <1>3, <1>5, ReplaceAllShape
<1>7. ToSet(ret') \cap {o} = {}
  BY <1>3, <1>5, <1>6, ReplacedMembers
<1>8. ret' \in Seq(DOMAIN ops \ {o})
  BY <1>6, <1>7, ReturnsKept
<1>9. DOMAIN ops' = DOMAIN ops \ {o}
  BY <1>1 DEF ReplaceIn
<1> QED BY <1>4, <1>8, <1>9 DEF Block

(* An update of the operands s: of Q it keeps apart what is implied, that  *)
(* is, when Q holds with a validation all it is stronger than, then what t *)
(* has in Q, s had in Q.                                                   *)
Implied(Q, S) == \A v, w \in S : v \in Q /\ StrongerValue(v, w) => w \in Q

IsUpdate(t, s, Q) ==
  /\ Len(t) = Len(s) /\ ToSet(t) \subseteq ToSet(s)
  /\ \A m \in 1..Len(s) : t[m] \in Q => s[m] \in Q

GiveWay(u, k) ==
  LET stronger == {l \in DOMAIN u \ {k} : StrongerValue(u[l], u[k])}
  IN IF stronger = {} THEN u ELSE [u EXCEPT ![k] = u[Min(stronger)]]

(* An operand gives way only to a strictly stronger one.                   *)
LEMMA GiveWayMoves ==
  ASSUME NEW S, NEW u \in Seq(S), NEW k \in 1..Len(u)
  PROVE  /\ GiveWay(u, k) \in Seq(S) /\ Len(GiveWay(u, k)) = Len(u)
         /\ \/ /\ GiveWay(u, k) = u
               /\ \A l \in 1..Len(u) : l # k => ~StrongerValue(u[l], u[k])
            \/ \E l \in 1..Len(u) :
                 /\ StrongerValue(u[l], u[k])
                 /\ \A n \in 1..Len(u) : GiveWay(u, k)[n] = IF n = k THEN u[l] ELSE u[n]
<1> DEFINE stronger == {l \in DOMAIN u \ {k} : StrongerValue(u[l], u[k])}
<1>1. CASE stronger = {}
  <2>1. GiveWay(u, k) = u
    BY <1>1 DEF GiveWay
  <2>2. \A l \in 1..Len(u) : l # k => ~StrongerValue(u[l], u[k])
    BY <1>1
  <2> QED BY <2>1, <2>2
<1>2. CASE stronger # {}
  <2> DEFINE l == Min(stronger)
             t == [u EXCEPT ![k] = u[l]]
  <2>1. GiveWay(u, k) = t
    BY <1>2 DEF GiveWay
  <2>2. l \in stronger
    <3>1. stronger \subseteq Nat
      OBVIOUS
    <3> HIDE DEF stronger
    <3>2. PICK m \in stronger : \A n \in stronger : m =< n
      BY <1>2, <3>1, LeastNat
    <3> QED BY <3>2 DEF Min
  <2>3. l \in 1..Len(u) /\ u[l] \in S /\ StrongerValue(u[l], u[k])
    BY <2>2
  <2> HIDE DEF l, stronger
  <2>4. /\ t \in Seq(S) /\ Len(t) = Len(u)
        /\ \A n \in 1..Len(u) : t[n] = IF n = k THEN u[l] ELSE u[n]
    BY <2>3, ExceptSeq
  <2> HIDE DEF t
  <2> QED BY <2>1, <2>3, <2>4
<1> QED BY <1>1, <1>2

(* An operand that gives way to a stronger one is replaced by an operand   *)
(* of the same struct check that implies it.                               *)
LEMMA GiveWayShape ==
  ASSUME NEW S, NEW u \in Seq(S), NEW k \in 1..Len(u), NEW Q, Implied(Q, S)
  PROVE  GiveWay(u, k) \in Seq(S) /\ IsUpdate(GiveWay(u, k), u, Q)
<1> DEFINE t == GiveWay(u, k)
<1>1. t \in Seq(S) /\ Len(t) = Len(u)
  BY GiveWayMoves
<1>2. CASE t = u
  BY <1>1, <1>2 DEF IsUpdate
<1>3. ASSUME NEW l \in 1..Len(u), StrongerValue(u[l], u[k]),
             \A n \in 1..Len(u) : t[n] = IF n = k THEN u[l] ELSE u[n]
      PROVE  IsUpdate(t, u, Q)
  <2> HIDE DEF t
  <2>1. DOMAIN t = 1..Len(u) /\ DOMAIN u = 1..Len(u) /\ u[l] \in S /\ u[k] \in S
    BY <1>1
  <2>2. ToSet(t) \subseteq ToSet(u)
    BY <1>3, <2>1 DEF ToSet
  <2>3. ASSUME NEW m \in 1..Len(u), t[m] \in Q PROVE u[m] \in Q
    <3>1. CASE m = k
      BY <1>3, <2>1, <2>3, <3>1 DEF Implied
    <3>2. CASE m # k
      BY <1>3, <2>3, <3>2
    <3> QED BY <3>1, <3>2
  <2> QED BY <1>1, <2>2, <2>3 DEF IsUpdate
<1> QED BY <1>1, <1>2, <1>3, GiveWayMoves

(* The operands of a struct check have their turns one after the other.    *)
Turns(after, args, S) ==
  /\ after[0] = args /\ Updated(args) = after[Len(args)]
  /\ \A k \in 0..Len(args) : after[k] \in Seq(S) /\ Len(after[k]) = Len(args)
  /\ \A k \in 1..Len(args) : after[k] = GiveWay(after[k - 1], k)

LEMMA UpdatedTurns ==
  ASSUME NEW S, NEW args \in Seq(S)
  PROVE  \E after : Turns(after, args, S)
<1> DEFINE N == Len(args)
           D == 0..N
           T == {t \in Seq(S) : Len(t) = N}
           Step(f, k) == IF k = 0 THEN args ELSE GiveWay(f[k - 1], k)
           G == [v \in D \X [D -> T] |-> IF v[1] = 0 THEN args ELSE GiveWay(v[2][v[1] - 1], v[1])]
           rank == [n \in D |-> n]
<1>0. N \in Nat /\ args \in T
  OBVIOUS
<1>1. ASSUME NEW n \in D, n # 0 PROVE n - 1 \in D /\ n \in 1..N
  BY <1>0, <1>1
<1>2. ASSUME NEW u \in T, NEW k \in 1..N PROVE GiveWay(u, k) \in T
  <2>1. u \in Seq(S) /\ k \in 1..Len(u) /\ Len(u) = N
    OBVIOUS
  <2> QED BY <2>1, GiveWayMoves
<1> HIDE DEF T
<1>3. \A n \in D, f \in [D -> T] : G[<<n, f>>] = Step(f, n) /\ Step(f, n) \in T
  <2> SUFFICES ASSUME NEW n \in D, NEW f \in [D -> T]
               PROVE  G[<<n, f>>] = Step(f, n) /\ Step(f, n) \in T
    OBVIOUS
  <2>1. G[<<n, f>>] = Step(f, n)
    OBVIOUS
  <2>2. CASE n = 0
    BY <1>0, <2>1, <2>2
  <2>3. CASE n # 0
    <3>1. f[n - 1] \in T /\ n \in 1..N
      BY <1>1, <2>3
    <3> QED BY <1>2, <2>1, <2>3, <3>1
  <2> QED BY <2>2, <2>3
<1>4. G \in [D \X [D -> T] -> T]
  BY <1>3
<1> HIDE DEF G
<1>5. rank \in [D -> 0..N] /\ T # {}
  BY <1>0
<1>6. Descends(G, D, T, rank, N)
  <2>1. ASSUME NEW n \in D, NEW g \in [D -> T], NEW h \in [D -> T],
               \A m \in D : rank[m] < rank[n] => g[m] = h[m]
        PROVE  G[<<n, g>>] = G[<<n, h>>]
    <3>1. \A m \in D : m < n => g[m] = h[m]
      BY <2>1
    <3>2. Step(g, n) = Step(h, n)
      BY <1>1, <3>1
    <3> QED BY <1>3, <3>2
  <2> HIDE DEF D, rank
  <2> QED BY <1>0, <1>4, <1>5, <2>1 DEF Descends
<1> HIDE DEF D, rank
<1>7. PICK f \in [D -> T] : Solves(f, G, D)
  BY <1>6, RecursionExists
<1> DEFINE IsAfter(g) == g = [n \in D |-> Step(g, n)]
           after == CHOOSE g : IsAfter(g)
<1>8. IsAfter(f)
  BY <1>3, <1>7 DEF Solves
<1>9. Updated(args) = after[N]
  BY DEF Updated, D, GiveWay
<1> HIDE DEF IsAfter
<1>10. IsAfter(after)
  BY <1>8
<1> HIDE DEF after
<1>11. \A n \in D : after[n] = Step(after, n)
  BY <1>10 DEF IsAfter
<1> DEFINE P == {n \in Nat : n \in D => after[n] \in T}
<1>12. ASSUME NEW n \in Nat, \A k \in 0..n - 1 : k \in P PROVE n \in P
  <2> SUFFICES ASSUME n \in D PROVE after[n] \in T
    OBVIOUS
  <2>1. CASE n = 0
    BY <1>0, <1>11, <2>1
  <2>2. CASE n # 0
    <3>1. n - 1 \in 0..n - 1 /\ n - 1 \in D /\ n \in 1..N
      BY <1>1, <2>2, Predecessor
    <3>2. n - 1 \in P
      BY <1>12, <3>1
    <3>3. after[n - 1] \in T
      BY <3>1, <3>2
    <3> HIDE DEF P
    <3> QED BY <1>2, <1>11, <2>2, <3>1, <3>3
  <2> QED BY <2>1, <2>2
<1>13. \A n \in D : after[n] \in T
  <2>1. \A n \in D : n \in Nat
    BY <1>0 DEF D
  <2> HIDE DEF P
  <2>2. Nat \subseteq P
    BY <1>12, Induction
  <2> QED BY <2>1, <2>2 DEF P
<1>14. Turns(after, args, S)
  <2>1. \A k \in 1..N : k \in D /\ k # 0 /\ 0 \in D
    BY <1>0 DEF D
  <2>2. 0 \in D
    BY <1>0 DEF D
  <2>3. \A k \in D : after[k] \in Seq(S) /\ Len(after[k]) = N
    BY <1>13 DEF T
  <2>4. \A k \in 1..N : after[k] = GiveWay(after[k - 1], k)
    BY <1>11, <2>1
  <2>5. after[0] = args
    BY <1>11, <2>2
  <2> QED BY <1>9, <2>3, <2>4, <2>5 DEF Turns, D
<1> QED BY <1>14

(* After all operands of a struct check had their turn, each is itself or  *)
(* an operand that implies it.                                             *)
LEMMA UpdatedShape ==
  ASSUME NEW S, NEW args \in Seq(S), NEW Q, Implied(Q, S)
  PROVE  Updated(args) \in Seq(S) /\ IsUpdate(Updated(args), args, Q)
<1> DEFINE N == Len(args)
<1>1. PICK after : Turns(after, args, S)
  BY UpdatedTurns
<1> DEFINE P == {n \in Nat : n \in 0..N => IsUpdate(after[n], args, Q)}
<1>2. ASSUME NEW n \in Nat, \A k \in 0..n - 1 : k \in P PROVE n \in P
  <2> SUFFICES ASSUME n \in 0..N PROVE IsUpdate(after[n], args, Q)
    OBVIOUS
  <2>1. CASE n = 0
    BY <1>1, <2>1 DEF Turns, IsUpdate
  <2>2. CASE n # 0
    <3>1. n - 1 \in 0..n - 1 /\ n - 1 \in 0..N /\ n \in 1..N /\ n - 1 \in Nat
      BY <2>2
    <3>2. IsUpdate(after[n - 1], args, Q)
      BY <1>2, <3>1
    <3>3. after[n - 1] \in Seq(S) /\ n \in 1..Len(after[n - 1]) /\ after[n] = GiveWay(after[n - 1], n)
      BY <1>1, <3>1 DEF Turns
    <3>4. IsUpdate(after[n], after[n - 1], Q)
      BY <3>3, GiveWayShape
    <3> QED BY <3>2, <3>4 DEF IsUpdate
  <2> QED BY <2>1, <2>2
<1>3. N \in P
  <2> HIDE DEF P
  <2>1. Nat \subseteq P
    BY <1>2, Induction
  <2> QED BY <2>1
<1> QED BY <1>1, <1>3 DEF Turns

(* If the turns end where they began, no operand had to give way.          *)
LEMMA UpdatedSame ==
  ASSUME NEW S, NEW args \in Seq(S), Updated(args) = args
  PROVE  \A k, l \in 1..Len(args) : l # k => ~StrongerValue(args[l], args[k])
<1> DEFINE N == Len(args)
<1>0. N \in Nat
  OBVIOUS
<1>1. PICK after : Turns(after, args, S)
  BY UpdatedTurns
<1>2. \A n \in 1..N : after[n] = GiveWay(after[n - 1], n) /\ n \in 1..Len(after[n - 1]) /\ after[n - 1] \in Seq(S)
  BY <1>1 DEF Turns
<1>3. ASSUME NEW k \in 1..N, NEW n \in 1..N, n # k PROVE after[n][k] = after[n - 1][k]
  <2> DEFINE u == after[n - 1]
  <2>1. u \in Seq(S) /\ n \in 1..Len(u) /\ k \in 1..Len(u) /\ after[n] = GiveWay(u, n)
    BY <1>0, <1>1, <1>2 DEF Turns
  <2> HIDE DEF u
  <2>2. GiveWay(u, n)[k] = u[k]
    BY <1>3, <2>1, GiveWayMoves
  <2> QED BY <2>1, <2>2 DEF u
<1>4. ASSUME NEW k \in 1..N PROVE after[k][k] = args[k]
  <2> DEFINE P == {n \in Nat : k + n =< N => after[k + n][k] = after[k][k]}
  <2>1. ASSUME NEW n \in Nat, \A m \in 0..n - 1 : m \in P PROVE n \in P
    <3> SUFFICES ASSUME k + n =< N PROVE after[k + n][k] = after[k][k]
      OBVIOUS
    <3>1. CASE n = 0
      BY <3>1
    <3>2. CASE n # 0
      <4>1. n - 1 \in 0..n - 1 /\ n - 1 \in Nat /\ k + n \in 1..N /\ k + n # k /\ (k + n) - 1 = k + (n - 1)
            /\ k + (n - 1) =< N
        BY <3>2
      <4>2. after[k + (n - 1)][k] = after[k][k]
        BY <2>1, <4>1
      <4>3. after[k + n][k] = after[(k + n) - 1][k]
        BY <1>3, <4>1
      <4> QED BY <4>1, <4>2, <4>3
    <3> QED BY <3>1, <3>2
  <2>2. N - k \in P /\ N - k \in Nat
    <3>1. N - k \in Nat
      BY <1>0
    <3> HIDE DEF P
    <3>2. Nat \subseteq P
      BY <2>1, Induction
    <3> QED BY <3>1, <3>2
  <2>3. k + (N - k) = N
    BY <1>0
  <2>4. after[N][k] = after[k][k]
    BY <2>2, <2>3
  <2> QED BY <1>1, <2>4 DEF Turns
<1>5. ASSUME NEW n \in 1..N, after[n - 1] = args
      PROVE  after[n] = args /\ \A l \in 1..N : l # n => ~StrongerValue(args[l], args[n])
  <2>1. ASSUME NEW l \in 1..N, StrongerValue(args[l], args[n]),
               \A m \in 1..N : GiveWay(args, n)[m] = IF m = n THEN args[l] ELSE args[m]
        PROVE  FALSE
    <3>1. after[n] = GiveWay(args, n)
      BY <1>2, <1>5
    <3>2. after[n][n] = args[l]
      BY <2>1, <3>1
    <3>3. args[l] # args[n]
      BY <2>1 DEF StrongerValue
    <3> QED BY <1>4, <3>2, <3>3
  <2> QED BY <1>2, <1>5, <2>1, GiveWayMoves
<1> DEFINE P == {n \in Nat : n \in 0..N => after[n] = args}
<1>6. ASSUME NEW n \in Nat, \A k \in 0..n - 1 : k \in P PROVE n \in P
  <2> SUFFICES ASSUME n \in 0..N PROVE after[n] = args
    OBVIOUS
  <2>1. CASE n = 0
    BY <1>1, <2>1 DEF Turns
  <2>2. CASE n # 0
    <3>1. n - 1 \in 0..n - 1 /\ n - 1 \in 0..N /\ n \in 1..N /\ n - 1 \in Nat
      BY <2>2
    <3>2. after[n - 1] = args
      BY <1>6, <3>1
    <3> QED BY <1>5, <3>1, <3>2
  <2> QED BY <2>1, <2>2
<1>7. \A n \in 1..N : after[n - 1] = args
  <2>1. \A n \in 1..N : n - 1 \in Nat /\ n - 1 \in 0..N
    BY <1>0
  <2> HIDE DEF P
  <2>2. Nat \subseteq P
    BY <1>6, Induction
  <2> QED BY <2>1, <2>2 DEF P
<1> QED BY <1>5, <1>7

(* What the struct o is left with, and what is erased with it.             *)
SameButArgs(p, q) == p.op = q.op /\ p.input = q.input /\ p.lat = q.lat

Drops(o, with, erased) ==
  /\ with = [ops EXCEPT ![o].args = Updated(ops[o].args)]
  /\ with \in [DOMAIN ops -> Op] /\ ops[o].op = "struct"
  /\ ops' = Kept(with, erased) /\ order' = Without(erased) /\ ret' = ret
  /\ ToSet(ret) \cap erased = {}
  /\ \A v \in DOMAIN ops : ToSet(with[v].args) \cap erased = {}
  /\ \A v \in DOMAIN ops : /\ ToSet(with[v].args) \subseteq ToSet(ops[v].args)
                          /\ SameButArgs(with[v], ops[v])
  /\ with[o].args = Updated(ops[o].args) /\ \A v \in DOMAIN ops : v # o => with[v] = ops[v]

(* A struct check that drops subsumed operands changes its operand list    *)
(* and erases operations that nothing uses any more.                       *)
LEMMA DropSubsumedShape ==
  ASSUME Block, NEW o \in DOMAIN ops, DropSubsumed(o)
  PROVE  \E with, erased : Drops(o, with, erased)
<1> DEFINE args == ops[o].args
           updated == Updated(args)
           with == [ops EXCEPT ![o].args = updated]
           erased == Orphaned(with, args, updated)
<1>1. /\ ops' = [v \in DOMAIN ops \ erased |-> with[v]] /\ order' = Without(erased)
      /\ ret' = ret /\ ops[o].op = "struct"
  BY DEF DropSubsumed, Tries
<1>2. ops \in [DOMAIN ops -> Op] /\ args \in Seq(DOMAIN ops) /\ DOMAIN ops \subseteq Value
  BY OperandsDefined DEF Block, IsBlock
<1>3. updated \in Seq(DOMAIN ops) /\ Len(updated) = Len(args) /\ ToSet(updated) \subseteq ToSet(args)
  <2>1. Implied({}, DOMAIN ops)
    BY DEF Implied
  <2>2. updated \in Seq(DOMAIN ops) /\ IsUpdate(updated, args, {})
    BY <1>2, <2>1, UpdatedShape
  <2> QED BY <2>2 DEF IsUpdate
<1> HIDE DEF updated
<1>4. [ops[o] EXCEPT !.args = updated] \in Op
  <2>1. updated \in Seq(Value) /\ ops[o] \in Op
    BY <1>2, <1>3
  <2> QED BY <1>3, <2>1, OpWithArgs
<1>5. with = [ops EXCEPT ![o] = [ops[o] EXCEPT !.args = updated]]
  OBVIOUS
<1>6. with \in [DOMAIN ops -> Op]
  BY <1>2, <1>4, <1>5
<1>7. /\ \A v \in DOMAIN ops : /\ ToSet(with[v].args) \subseteq ToSet(ops[v].args)
                              /\ SameButArgs(with[v], ops[v])
      /\ with[o].args = updated /\ \A v \in DOMAIN ops : v # o => with[v] = ops[v]
  <2> DEFINE q == [ops[o] EXCEPT !.args = updated]
  <2>1. q.args = updated /\ SameButArgs(q, ops[o])
    <3>1. ops[o] \in Op
      BY <1>2
    <3> QED BY <3>1 DEF Op, SameButArgs
  <2>2. with[o] = q /\ \A v \in DOMAIN ops : v # o => with[v] = ops[v]
    BY <1>2, <1>5
  <2> HIDE DEF q
  <2> QED BY <1>3, <2>1, <2>2 DEF SameButArgs
<1> HIDE DEF with
<1>8. \A v \in erased : Users(with, v) = {} /\ v \notin ToSet(ret)
  BY DEF Orphaned, Unused
<1>9. \A v \in DOMAIN ops : ToSet(with[v].args) \cap erased = {}
  BY <1>6, <1>8 DEF Users
<1>10. ops' = Kept(with, erased)
  BY <1>1, <1>6 DEF Kept
<1>11. with = [ops EXCEPT ![o].args = Updated(ops[o].args)]
  BY DEF with, updated
<1>12. ToSet(ret) \cap erased = {}
  BY <1>8
<1> HIDE DEF args, erased
<1>13. Drops(o, with, erased)
  BY <1>1, <1>6, <1>7, <1>9, <1>10, <1>11, <1>12 DEF Drops, updated, args
<1> QED BY <1>13

(* Dropping the subsumed operands of a struct check keeps the block well   *)
(* formed.                                                                 *)
LEMMA DropSubsumedBlock ==
  ASSUME Block, NEW o \in DOMAIN ops, DropSubsumed(o)
  PROVE  Block'
<1>1. PICK with, erased : Drops(o, with, erased)
  BY DropSubsumedShape
<1>2. IsBlock(ops, order) /\ DefinedFirst(ops, order) /\ ret \in Seq(DOMAIN ops)
  BY DEF Block
<1>3. \A v \in DOMAIN ops \ erased : \A a \in ToSet(with[v].args) :
        a \notin erased /\ Before(order, a, v)
  BY <1>1, <1>2 DEF Drops, DefinedFirst
<1>4. /\ with \in [DOMAIN ops -> Op] /\ ToSet(ret) \cap erased = {}
      /\ ops' = Kept(with, erased) /\ order' = Without(erased) /\ ret' = ret
  BY <1>1 DEF Drops
<1>5. IsBlock(ops', order') /\ DefinedFirst(ops', order')
  BY <1>2, <1>3, <1>4, KeptFunction
<1>6. ret \in Seq(DOMAIN ops \ erased)
  BY <1>2, <1>4, ReturnsKept
<1>7. DOMAIN ops' = DOMAIN ops \ erased
  BY <1>4 DEF Kept
<1> QED BY <1>4, <1>5, <1>6, <1>7 DEF Block

(* Normalizing drops a constraint that says nothing, or nothing more.      *)
LEMMA NormalizedShape ==
  ASSUME NEW c \in Lattice
  PROVE  /\ Normalized(c) \in Lattice
         /\ PositiveDivisor(c) => PositiveDivisor(Normalized(c))
<1>1. CASE c \in StringLattice
  <2>1. CASE c.kind = "string" /\ c.minLength = {0}
    <3>1. Normalized(c) = [c EXCEPT !.minLength = {}]
      BY <2>1 DEF Normalized
    <3>2. [c EXCEPT !.minLength = {}] \in StringLattice
      BY <1>1 DEF StringLattice, Opt
    <3>3. [c EXCEPT !.minLength = {}].kind = "string"
      BY <1>1 DEF StringLattice
    <3> QED BY <3>1, <3>2, <3>3 DEF Lattice, PositiveDivisor
  <2>2. CASE ~(c.kind = "string" /\ c.minLength = {0})
    <3>1. Normalized(c) = c
      BY <1>1, <2>2 DEF Normalized, StringLattice
    <3> QED BY <3>1
  <2> QED BY <2>1, <2>2
<1>2. CASE c \in NumberLattice
  <2>0. c.kind = "number"
    BY <1>2 DEF NumberLattice
  <2>1. CASE c.integral /\ c.multipleOf = {One}
    <3>1. Normalized(c) = [c EXCEPT !.multipleOf = {}]
      BY <2>0, <2>1 DEF Normalized
    <3>2. [c EXCEPT !.multipleOf = {}] \in NumberLattice
      BY <1>2 DEF NumberLattice, Opt
    <3>3. [c EXCEPT !.multipleOf = {}].multipleOf = {}
      BY <1>2 DEF NumberLattice
    <3> QED BY <3>1, <3>2, <3>3 DEF Lattice, PositiveDivisor
  <2>2. CASE ~(c.integral /\ c.multipleOf = {One})
    <3>1. Normalized(c) = c
      BY <2>0, <2>2 DEF Normalized
    <3> QED BY <3>1
  <2> QED BY <2>1, <2>2
<1> QED BY <1>1, <1>2 DEF Lattice

(* Normalising a validation replaces its lattice and nothing else.         *)
LEMMA NormalizeShape ==
  ASSUME Block, NEW o \in DOMAIN ops, Normalize(o)
  PROVE  \E c \in Lattice :
           /\ ops[o].op = "validate" /\ ops[o].lat = {c} /\ UNCHANGED <<order, ret>>
           /\ ops' \in [DOMAIN ops -> Op]
           /\ \A v \in DOMAIN ops : v # o => ops'[v] = ops[v]
           /\ ops'[o].op = "validate" /\ ops'[o].input = ops[o].input
           /\ ops'[o].lat = {Normalized(c)} /\ ops'[o].args = ops[o].args
<1>1. PICK c \in ops[o].lat : ops' = [ops EXCEPT ![o].lat = {Normalized(c)}]
  BY DEF Normalize
<1>2. ops[o].op = "validate" /\ UNCHANGED <<order, ret>>
  BY DEF Normalize, Tries
<1>3. ops \in [DOMAIN ops -> Op] /\ ops[o] \in Op
  BY DEF Block, IsBlock
<1>4. OpShape(ops[o])
  BY <1>3, OpCases
<1>5. c \in Lattice /\ ops[o].lat = {c}
  BY <1>4 DEF OpShape, Opt
<1>6. Normalized(c) \in Lattice
  BY <1>5, NormalizedShape
<1> DEFINE q == [ops[o] EXCEPT !.lat = {Normalized(c)}]
<1>7. /\ q \in Op /\ q.op = "validate" /\ q.input = ops[o].input
      /\ q.lat = {Normalized(c)} /\ q.args = ops[o].args
  <2>1. {Normalized(c)} \in Opt(Lattice) \ {{}}
    BY <1>6 DEF Opt
  <2>2. ops[o] \in [op : {"validate"}, input : Opt(Input) \ {{}}, lat : Opt(Lattice) \ {{}}, args : {<<>>}]
    BY <1>2, <1>3 DEF Op
  <2> QED BY <2>1, <2>2 DEF Op
<1>8. ops' = [ops EXCEPT ![o] = q]
  BY <1>1
<1> HIDE DEF q
<1> QED BY <1>2, <1>3, <1>5, <1>7, <1>8

(* Normalising a validation keeps the block well formed.                   *)
LEMMA NormalizeBlock ==
  ASSUME Block, NEW o \in DOMAIN ops, Normalize(o)
  PROVE  Block'
<1>1. /\ UNCHANGED <<order, ret>> /\ ops' \in [DOMAIN ops -> Op] /\ DOMAIN ops' = DOMAIN ops
      /\ \A v \in DOMAIN ops : ops'[v].args = ops[v].args
  BY NormalizeShape
<1> QED BY <1>1 DEF Block, IsBlock, DefinedFirst

-----------------------------------------------------------------------------
(* Names for new operations.  SSA names never run out.                     *)

(* With unboundedly many values, the names a rebuild takes are new and     *)
(* different from each other.                                              *)
LEMMA FreshNames ==
  ASSUME Value = Nat \ {0}, Block, NEW M \in Nat,
         NEW name, name = [n \in 1..M |-> Free(n)]
  PROVE  name \in Seq(Value \ DOMAIN ops) /\ Len(name) = M /\ IsInjective(name)
<1>1. IsFiniteSet(DOMAIN ops)
  <2>1. Len(order) \in Nat /\ order \in [1..Len(order) -> DOMAIN ops]
    BY DEF Block, IsBlock
  <2>2. \A v \in DOMAIN ops : \E n \in 1..Len(order) : order[n] = v
    BY <2>1 DEF Block, IsBlock, ToSet
  <2>3. order \in Surjection(1..Len(order), DOMAIN ops)
    BY <2>1, <2>2 DEF Surjection
  <2>4. IsFiniteSet(1..Len(order))
    BY <2>1, FS_Interval
  <2> QED BY <2>3, <2>4, FS_Surjection
<1>2. \A n \in 1..M : /\ Free(n) \in Value \ DOMAIN ops
                      /\ Cardinality((1..Free(n)) \ DOMAIN ops) = n
  <2> SUFFICES ASSUME NEW n \in 1..M
               PROVE  /\ Free(n) \in Value \ DOMAIN ops
                      /\ Cardinality((1..Free(n)) \ DOMAIN ops) = n
    OBVIOUS
  <2>1. n \in Nat \ {0}
    OBVIOUS
  <2>2. \E v \in Nat \ {0} : v \notin DOMAIN ops /\ Cardinality((1..v) \ DOMAIN ops) = n
    BY <1>1, <2>1, KthOutside
  <2>3. \E v \in Value \ DOMAIN ops : Cardinality((1..v) \ DOMAIN ops) = n
    BY <2>2
  <2> QED BY <2>3 DEF Free
<1>3. name \in [1..M -> Value \ DOMAIN ops] /\ \A n \in 1..M : name[n] = Free(n)
  BY <1>2
<1>4. name \in Seq(Value \ DOMAIN ops) /\ Len(name) = M
  <2>1. name \in UNION {[1..n -> Value \ DOMAIN ops] : n \in Nat}
    BY <1>3
  <2>2. name \in Seq(Value \ DOMAIN ops)
    BY <2>1, SeqDef
  <2>3. DOMAIN name = 1..M
    BY <1>3
  <2> QED BY <2>2, <2>3, LenProperties
<1>5. ASSUME NEW a \in 1..M, NEW b \in 1..M, name[a] = name[b] PROVE a = b
  <2>1. Free(a) = Free(b)
    BY <1>3, <1>5
  <2>2. Cardinality((1..Free(a)) \ DOMAIN ops) = a /\ Cardinality((1..Free(b)) \ DOMAIN ops) = b
    BY <1>2
  <2> HIDE DEF Free
  <2> QED BY <2>1, <2>2
<1>6. IsInjective(name)
  BY <1>3, <1>5 DEF IsInjective
<1> QED BY <1>4, <1>6

(* The conjuncts a rebuild starts from: one that is materialized has what  *)
(* a validation needs, any other is the value of something before the root.*)
Rebuildable(live) ==
  /\ live \in Seq(ToSet(live)) /\ Len(live) > 0
  /\ \A k \in 1..Len(live) :
       /\ live[k].dirty \in BOOLEAN
       /\ live[k].dirty => /\ live[k].lat \in Opt(Lattice) \ {{}}
                           /\ live[k].input \in Opt(Input) \ {{}}
       /\ ~live[k].dirty => Before(order, live[k].value, root)

Named(live, name) ==
  /\ name \in Seq(Value \ DOMAIN ops) /\ IsInjective(name)
  /\ Len(name) = 2 * Len(live) - 1

(* What created operation n may use.                                       *)
Available(live, name, a, n) ==
  Before(order, a, root) \/ \E m \in Created(live) : m < n /\ a = name[m]

(* A rebuild creates a validation for every conjunct the fold changed and  *)
(* an andi for every conjunct but the first.                               *)
LEMMA CreatedIs ==
  ASSUME NEW live, Rebuildable(live)
  PROVE  /\ Created(live) \subseteq 1..2 * Len(live) - 1
         /\ \A k \in 1..Len(live) : k \in Created(live) <=> live[k].dirty
         /\ \A k \in 1..Len(live) - 1 : Len(live) + k \in Created(live)
<1> DEFINE N == Len(live)
<1>1. DOMAIN live = 1..N /\ N \in Nat /\ N > 0
  BY DEF Rebuildable
<1> HIDE DEF N
<1>2. Created(live) = {k \in 1..N : live[k].dirty} \cup (N + 1..2 * N - 1)
  BY <1>1 DEF Created, N
<1>3. 1..N \subseteq 1..2 * N - 1 /\ N + 1..2 * N - 1 \subseteq 1..2 * N - 1
  BY <1>1
<1>4. \A k \in 1..N : k \notin N + 1..2 * N - 1
  BY <1>1
<1>5. \A k \in 1..N - 1 : N + k \in N + 1..2 * N - 1
  BY <1>1
<1> QED BY <1>2, <1>3, <1>4, <1>5 DEF N

(* The validation of a conjunct is in the block before anything that is    *)
(* created after it.                                                       *)
LEMMA OperandAvailable ==
  ASSUME NEW live, NEW name, Rebuildable(live), Named(live, name),
         NEW k \in 1..Len(live), NEW n \in Int, k < n
  PROVE  Available(live, name, Operand(live, name, k), n)
<1>1. CASE live[k].dirty
  <2>1. k \in Created(live)
    BY <1>1, CreatedIs
  <2>2. Operand(live, name, k) = name[k]
    BY <1>1 DEF Operand
  <2> QED BY <2>1, <2>2 DEF Available
<1>2. CASE ~live[k].dirty
  BY <1>2 DEF Operand, Available, Rebuildable
<1> QED BY <1>1, <1>2

(* The conjunction of the first k conjuncts is in the block once its andi  *)
(* is created.                                                             *)
LEMMA JoinedAvailable ==
  ASSUME NEW live, NEW name, Rebuildable(live), Named(live, name), NEW k \in 1..Len(live)
  PROVE  Available(live, name, Joined(live, name, k), Len(live) + k)
<1>0. Len(live) \in Nat /\ Len(live) > 0
  BY DEF Rebuildable
<1>1. CASE k = 1
  <2>1. 1 \in 1..Len(live) /\ Len(live) + 1 \in Int /\ 1 < Len(live) + 1
    BY <1>0
  <2> QED BY <1>1, <2>1, OperandAvailable DEF Joined
<1>2. CASE k # 1
  <2>1. k - 1 \in 1..Len(live) - 1 /\ Len(live) + (k - 1) < Len(live) + k
    BY <1>0, <1>2
  <2>2. Len(live) + (k - 1) \in Created(live) /\ Len(live) + (k - 1) = Len(live) + k - 1
    BY <1>0, <2>1, CreatedIs
  <2>3. Joined(live, name, k) = name[Len(live) + k - 1]
    BY <1>2 DEF Joined
  <2> QED BY <2>1, <2>2, <2>3 DEF Available
<1> QED BY <1>1, <1>2

(* The created operations by their names.                                  *)
Creates(with, live, name) ==
  /\ DOMAIN with = DOMAIN ops \cup {name[n] : n \in Created(live)}
  /\ \A v \in DOMAIN ops : with[v] = ops[v]
  /\ \A n \in Created(live) : /\ name[n] \in Value \ DOMAIN ops
                               /\ with[name[n]] = CreatedOp(live, name, n)

(* A rebuild adds the created operations under their names and changes no  *)
(* other.                                                                  *)
LEMMA WithCreatedIs ==
  ASSUME NEW live, NEW name, Rebuildable(live), Named(live, name)
  PROVE  Creates(WithCreated(live, name), live, name)
<1> DEFINE C == Created(live)
           D == DOMAIN ops \cup {name[n] : n \in C}
           with == WithCreated(live, name)
<1>1. with = [v \in D |-> IF v \in DOMAIN ops THEN ops[v]
                          ELSE CreatedOp(live, name, CHOOSE n \in C : name[n] = v)]
  BY DEF WithCreated
<1>2. C \subseteq DOMAIN name /\ \A n \in DOMAIN name : name[n] \in Value \ DOMAIN ops
  <2>1. DOMAIN name = 1..2 * Len(live) - 1
    BY DEF Named
  <2> QED BY <2>1, CreatedIs DEF Named
<1>3. ASSUME NEW n \in C PROVE with[name[n]] = CreatedOp(live, name, n)
  <2>1. (CHOOSE m \in C : name[m] = name[n]) = n
    <3>1. \A m \in C : name[m] = name[n] => m = n
      BY <1>2 DEF Named, IsInjective
    <3> QED BY <3>1
  <2>2. name[n] \in D /\ name[n] \notin DOMAIN ops
    BY <1>2
  <2> HIDE DEF C, D, with
  <2> QED BY <1>1, <2>1, <2>2
<1>4. DOMAIN with = D /\ \A v \in DOMAIN ops : with[v] = ops[v]
  <2> HIDE DEF D
  <2>1. DOMAIN with = D
    BY <1>1
  <2>2. \A v \in DOMAIN ops : v \in D
    BY DEF D
  <2> QED BY <1>1, <2>1, <2>2
<1>5. \A n \in C : name[n] \in Value \ DOMAIN ops
  BY <1>2
<1> HIDE DEF with
<1>6. Creates(with, live, name)
  BY <1>3, <1>4, <1>5 DEF Creates
<1> QED BY <1>6 DEF with

(* A created operation is one the verifier accepts, and it uses only what  *)
(* is available when it is created.                                        *)
LEMMA CreatedOpShape ==
  ASSUME Block, NEW live, NEW name, Rebuildable(live), Named(live, name), NEW n \in Created(live)
  PROVE  /\ CreatedOp(live, name, n) \in Op
         /\ \A a \in ToSet(CreatedOp(live, name, n).args) : Available(live, name, a, n)
<1>0. Len(live) \in Nat /\ n \in 1..2 * Len(live) - 1
  <2>1. Len(live) \in Nat
    BY DEF Rebuildable
  <2>2. Created(live) \subseteq 1..2 * Len(live) - 1
    BY CreatedIs
  <2> QED BY <2>1, <2>2
<1>1. CASE n =< Len(live)
  <2>1. n \in 1..Len(live) /\ live[n].dirty
    <3>1. n \in 1..Len(live)
      BY <1>0, <1>1
    <3> QED BY <3>1, CreatedIs
  <2>2. live[n].lat \in Opt(Lattice) \ {{}} /\ live[n].input \in Opt(Input) \ {{}}
    BY <2>1 DEF Rebuildable
  <2>3. CreatedOp(live, name, n) =
          [op |-> "validate", input |-> live[n].input, lat |-> live[n].lat, args |-> <<>>]
    BY <1>1 DEF CreatedOp
  <2> QED BY <2>2, <2>3 DEF Op, ToSet
<1>2. CASE ~(n =< Len(live))
  <2> DEFINE k == n - Len(live)
             a == Joined(live, name, k)
             b == Operand(live, name, k + 1)
  <2>1. k \in 1..Len(live) /\ k + 1 \in 1..Len(live) /\ k + 1 < n + 1 /\ n = Len(live) + k /\ n \in Int
    BY <1>0, <1>2
  <2>2. k + 1 < n \/ k + 1 = n
    BY <1>0, <2>1
  <2>3. k + 1 < n
    <3>1. Len(live) > 1
      BY <1>0, <1>2
    <3> QED BY <1>0, <2>1, <3>1
  <2>4. CreatedOp(live, name, n) = [op |-> "and", input |-> {}, lat |-> {}, args |-> <<a, b>>]
    BY <1>2 DEF CreatedOp
  <2> HIDE DEF k
  <2>5. Available(live, name, a, n)
    BY <2>1, JoinedAvailable
  <2>6. Available(live, name, b, n)
    BY <2>1, <2>3, OperandAvailable
  <2> HIDE DEF a, b
  <2>7. \A c : Available(live, name, c, n) => c \in Value
    <3>1. \A c : Before(order, c, root) => c \in Value
      BY DEF Before, Block, IsBlock, ToSet
    <3>2. \A m \in Created(live) : name[m] \in Value
      BY WithCreatedIs DEF Creates
    <3> QED BY <3>1, <3>2 DEF Available
  <2>8. <<a, b>> \in [1..2 -> Value]
    BY <2>5, <2>6, <2>7
  <2>9. ToSet(<<a, b>>) = {a, b}
    BY DEF ToSet
  <2> QED BY <2>4, <2>5, <2>6, <2>8, <2>9 DEF Op
<1> QED BY <1>1, <1>2

(* The operations a rebuild creates supply the value that replaces the     *)
(* root.                                                                   *)
LEMMA RebuildSupplies ==
  ASSUME Block, NEW live, NEW name, Rebuildable(live), Named(live, name)
  PROVE  Supplies(Selected(name, Created(live)), WithCreated(live, name), root,
                  Joined(live, name, Len(live)))
<1> DEFINE C == Created(live)
           new == Selected(name, C)
           with == WithCreated(live, name)
           w == Joined(live, name, Len(live))
<1>1. new \in Seq(Value \ DOMAIN ops) /\ KeepsOrder(new, name, C)
  BY SelectedOrder DEF Named
<1>2. /\ DOMAIN with = DOMAIN ops \cup {name[n] : n \in C}
      /\ \A v \in DOMAIN ops : with[v] = ops[v]
      /\ \A n \in C : name[n] \in Value \ DOMAIN ops /\ with[name[n]] = CreatedOp(live, name, n)
  BY WithCreatedIs DEF Creates
<1>3. DOMAIN name \cap C = C
  <2>1. DOMAIN name = 1..2 * Len(live) - 1
    BY DEF Named
  <2> QED BY <2>1, CreatedIs
<1> HIDE DEF new, with
<1>4. /\ ToSet(new) = {name[n] : n \in C} /\ IsInjective(new)
      /\ \A m, n \in C : m < n => Before(new, name[m], name[n])
  BY <1>1, <1>3 DEF KeepsOrder
<1>5. new \in Seq(Value) /\ ToSet(new) \cap DOMAIN ops = {}
  <2>1. new \in Seq(Value)
    BY <1>1
  <2> QED BY <1>2, <1>4, <2>1
<1>6. \A n \in C : /\ CreatedOp(live, name, n) \in Op
                   /\ \A a \in ToSet(CreatedOp(live, name, n).args) : Available(live, name, a, n)
  BY CreatedOpShape
<1>7. with \in [DOMAIN ops \cup ToSet(new) -> Op]
  <2>1. \A v \in DOMAIN ops : ops[v] \in Op
    BY DEF Block, IsBlock
  <2>2. \A v \in DOMAIN with : with[v] \in Op
    BY <1>2, <1>6, <2>1
  <2>3. with = [v \in DOMAIN with |-> with[v]]
    BY DEF with, WithCreated
  <2> QED BY <1>2, <1>4, <2>2, <2>3
<1>8. ASSUME NEW v \in ToSet(new), NEW a \in ToSet(with[v].args)
      PROVE  Before(order, a, root) \/ (a \in ToSet(new) /\ Before(new, a, v))
  <2>1. PICK n \in C : v = name[n]
    BY <1>4
  <2>2. Available(live, name, a, n)
    BY <1>2, <1>6, <2>1
  <2> QED BY <1>4, <2>1, <2>2 DEF Available
<1>9. Before(order, w, root) \/ w \in ToSet(new)
  <2>1. Len(live) \in 1..Len(live)
    BY DEF Rebuildable
  <2>2. Available(live, name, w, Len(live) + Len(live))
    BY <2>1, JoinedAvailable
  <2> QED BY <1>4, <2>2 DEF Available
<1> HIDE DEF w
<1>10. Supplies(new, with, root, w)
  BY <1>2, <1>4, <1>5, <1>7, <1>8, <1>9 DEF Supplies
<1> QED BY <1>10 DEF new, with, w

(* Rebuilding the conjunction keeps the block well formed.                 *)
LEMMA RebuildBlock ==
  ASSUME Value = Nat \ {0}, Block, root \in DOMAIN ops, NEW live, Rebuildable(live),
         NEW name, Named(live, name), RebuildFrom(live, name)
  PROVE  Block'
<1> DEFINE new == Selected(name, Created(live))
           with == WithCreated(live, name)
           w == Joined(live, name, Len(live))
<1>1. ops' = ReplaceIn(with, root, w) /\ ret' = ReplaceAll(ret, root, w) /\ order' = InPlaceOf(root, new)
  BY DEF RebuildFrom
<1>2. Supplies(new, with, root, w)
  BY RebuildSupplies
<1> HIDE DEF new, with, w
<1>3. IsBlock(ops, order) /\ DefinedFirst(ops, order) /\ ret \in Seq(DOMAIN ops)
  BY DEF Block
<1>4. IsBlock(ops', order') /\ DefinedFirst(ops', order')
  BY <1>1, <1>2, <1>3, SuppliedFunction
<1>5. /\ DOMAIN with = DOMAIN ops \cup ToSet(new) /\ w \in DOMAIN with /\ w # root
  <2>1. w # root
    <3>1. CASE Before(order, w, root)
      BY <1>3, <3>1 DEF Before, IsBlock, IsInjective
    <3>2. CASE w \in ToSet(new)
      BY <1>2, <3>2 DEF Supplies
    <3> QED BY <1>2, <3>1, <3>2 DEF Supplies
  <2> QED BY <1>2, <1>3, <2>1, SuppliedClosed DEF Supplies
<1>6. ret \in Seq(DOMAIN with)
  BY <1>3, <1>5
<1>7. ret' \in Seq(DOMAIN with) /\ IsReplaced(ret', ret, root, w)
  BY <1>1, <1>5, <1>6, ReplaceAllShape
<1>8. ToSet(ret') \cap {root} = {}
  BY <1>5, <1>6, <1>7, ReplacedMembers
<1>9. ret' \in Seq(DOMAIN with \ {root})
  BY <1>7, <1>8, ReturnsKept
<1>10. DOMAIN ops' = DOMAIN with \ {root}
  BY <1>1 DEF ReplaceIn
<1> QED BY <1>4, <1>9, <1>10 DEF Block

-----------------------------------------------------------------------------
(* The leaves of a conjunction.                                            *)

(* t lists values that come no later than v, and v holds when they do.     *)
IsConjunction(t, v) ==
  /\ Len(t) > 0
  /\ \A k \in 1..Len(t) : t[k] = v \/ Before(order, t[k], v)
  /\ \A h, e : HoldsIn(ops, h, e) => (h[v] <=> \A k \in 1..Len(t) : h[t[k]])

(* An andi holds when both operands do.                                    *)
LEMMA AndHolds ==
  ASSUME Block, NEW v \in DOMAIN ops, ops[v].op = "and", NEW h, NEW e, HoldsIn(ops, h, e)
  PROVE  h[v] <=> h[ops[v].args[1]] /\ h[ops[v].args[2]]
<1>1. ops[v].lat = {} /\ Len(ops[v].args) = 2 /\ ops[v].args \in Seq(DOMAIN ops)
  BY OperandsDefined DEF Block, OpShape
<1>2. Own(ops[v], v, e)
  BY <1>1 DEF Own
<1>3. ToSet(ops[v].args) = {ops[v].args[1], ops[v].args[2]}
  <2>1. DOMAIN ops[v].args = {1, 2}
    BY <1>1
  <2> QED BY <2>1 DEF ToSet
<1> QED BY <1>2, <1>3 DEF HoldsIn

(* If two lists of values say what the operands of an andi say, their      *)
(* concatenation says what the andi says.                                  *)
LEMMA JoinConjunctions ==
  ASSUME Block, NEW v \in DOMAIN ops, ops[v].op = "and",
         NEW a \in Seq(DOMAIN ops), IsConjunction(a, ops[v].args[1]),
         NEW b \in Seq(DOMAIN ops), IsConjunction(b, ops[v].args[2])
  PROVE  /\ a \o b \in Seq(DOMAIN ops) /\ IsConjunction(a \o b, v)
         /\ \A k \in 1..Len(a \o b) : Before(order, (a \o b)[k], v)
<1> DEFINE t == a \o b
           x == ops[v].args[1]
           y == ops[v].args[2]
<1>1. /\ t \in Seq(DOMAIN ops) /\ Len(t) = Len(a) + Len(b)
      /\ \A n \in 1..Len(a) : t[n] = a[n]
      /\ \A n \in 1..Len(b) : t[Len(a) + n] = b[n]
  BY Concat2
<1> HIDE DEF t
<1>2. Len(a) \in Nat /\ Len(b) \in Nat /\ Len(a) > 0 /\ Len(b) > 0
  BY DEF IsConjunction
<1>3. \A k \in 1..Len(t) : k \in 1..Len(a) \/ \E n \in 1..Len(b) : k = Len(a) + n
  <2> SUFFICES ASSUME NEW k \in 1..Len(t), k \notin 1..Len(a)
               PROVE  \E n \in 1..Len(b) : k = Len(a) + n
    OBVIOUS
  <2>1. k - Len(a) \in 1..Len(b) /\ k = Len(a) + (k - Len(a))
    BY <1>1, <1>2
  <2> QED BY <2>1
<1>4. \A n \in 1..Len(a) : n \in 1..Len(t)
  BY <1>1, <1>2
<1>5. \A n \in 1..Len(b) : Len(a) + n \in 1..Len(t)
  BY <1>1, <1>2
<1>6. Before(order, x, v) /\ Before(order, y, v)
  <2>1. Len(ops[v].args) = 2 /\ ops[v].args \in Seq(DOMAIN ops)
    BY OperandsDefined DEF Block, OpShape
  <2>2. x \in ToSet(ops[v].args) /\ y \in ToSet(ops[v].args)
    BY <2>1 DEF ToSet
  <2> QED BY <2>2 DEF Block, DefinedFirst
<1>7. \A c, d : Before(order, c, d) /\ Before(order, d, v) => Before(order, c, v)
  BY BeforeTransitive DEF Block
<1>8. \A n \in 1..Len(a) : Before(order, a[n], v)
  BY <1>6, <1>7 DEF IsConjunction
<1>9. \A n \in 1..Len(b) : Before(order, b[n], v)
  BY <1>6, <1>7 DEF IsConjunction
<1>10. \A k \in 1..Len(t) : Before(order, t[k], v)
  BY <1>1, <1>3, <1>8, <1>9
<1>11. ASSUME NEW h, NEW e, HoldsIn(ops, h, e)
       PROVE  h[v] <=> \A k \in 1..Len(t) : h[t[k]]
  <2>1. h[v] <=> h[x] /\ h[y]
    BY <1>11, AndHolds
  <2>2. h[x] <=> \A k \in 1..Len(a) : h[a[k]]
    BY <1>11 DEF IsConjunction
  <2>3. h[y] <=> \A k \in 1..Len(b) : h[b[k]]
    BY <1>11 DEF IsConjunction
  <2>4. (\A k \in 1..Len(t) : h[t[k]])
          <=> (\A k \in 1..Len(a) : h[a[k]]) /\ (\A k \in 1..Len(b) : h[b[k]])
    <3>1. ASSUME \A k \in 1..Len(t) : h[t[k]], NEW k \in 1..Len(a) PROVE h[a[k]]
      BY <1>1, <1>4, <3>1
    <3>2. ASSUME \A k \in 1..Len(t) : h[t[k]], NEW k \in 1..Len(b) PROVE h[b[k]]
      BY <1>1, <1>5, <3>2
    <3>3. ASSUME \A k \in 1..Len(a) : h[a[k]], \A k \in 1..Len(b) : h[b[k]], NEW k \in 1..Len(t)
          PROVE  h[t[k]]
      <4>1. CASE k \in 1..Len(a)
        BY <1>1, <3>3, <4>1
      <4>2. CASE k \notin 1..Len(a)
        <5>1. PICK n \in 1..Len(b) : k = Len(a) + n
          BY <1>3, <4>2
        <5>2. t[k] = b[n] /\ h[b[n]]
          BY <1>1, <3>3, <5>1
        <5> QED BY <5>2
      <4> QED BY <4>1, <4>2
    <3> QED BY <3>1, <3>2, <3>3
  <2> HIDE DEF x, y
  <2> QED BY <2>1, <2>2, <2>3, <2>4
<1>12. IsConjunction(t, v)
  <2>1. Len(t) > 0
    BY <1>1, <1>2
  <2> QED BY <1>10, <1>11, <2>1 DEF IsConjunction
<1> QED BY <1>1, <1>10, <1>12 DEF t

(* The andi operations that are looked through, and what is collected from *)
(* the operands of one.                                                    *)
Single(v) == ops[v].op = "and" /\ HasOneUse(v)

TreeLeaves(v) == CollectConjuncts(ops[v].args[1]) \o CollectConjuncts(ops[v].args[2])

(* An andi has two operands.                                               *)
LEMMA AndOperands ==
  ASSUME Block, NEW v \in DOMAIN ops, ops[v].op = "and"
  PROVE  /\ ToSet(ops[v].args) = {ops[v].args[1], ops[v].args[2]}
         /\ DOMAIN ops[v].args = {1, 2}
         /\ ops[v].args[1] \in DOMAIN ops /\ ops[v].args[2] \in DOMAIN ops
<1>1. Len(ops[v].args) = 2 /\ ops[v].args \in Seq(DOMAIN ops)
  BY OperandsDefined DEF Block, OpShape
<1>2. DOMAIN ops[v].args = {1, 2}
  BY <1>1
<1> QED BY <1>1, <1>2 DEF ToSet

(* Collecting follows the operands.                                        *)
LEMMA CollectIs ==
  ASSUME Block
  PROVE  \A v \in DOMAIN ops :
           /\ CollectConjuncts(v) \in Seq(DOMAIN ops)
           /\ CollectConjuncts(v) = IF Single(v) THEN TreeLeaves(v) ELSE <<v>>
<1> DEFINE D == DOMAIN ops
           T == Seq(D)
           Step(f, v) == IF Single(v) THEN f[ops[v].args[1]] \o f[ops[v].args[2]] ELSE <<v>>
           G == [p \in D \X [D -> T] |->
                   IF Single(p[1]) THEN p[2][ops[p[1]].args[1]] \o p[2][ops[p[1]].args[2]] ELSE <<p[1]>>]
<1>0. IsBlock(ops, order) /\ DefinedFirst(ops, order)
  BY DEF Block
<1>1. ASSUME NEW v \in D, Single(v)
      PROVE  /\ ops[v].args[1] \in ToSet(ops[v].args) /\ ops[v].args[2] \in ToSet(ops[v].args)
             /\ ops[v].args[1] \in D /\ ops[v].args[2] \in D
  BY <1>1, AndOperands, SMTT(30) DEF Single
<1>2. \A v \in D, f \in [D -> T] : G[<<v, f>>] = Step(f, v) /\ Step(f, v) \in T
  <2> SUFFICES ASSUME NEW v \in D, NEW f \in [D -> T]
               PROVE  G[<<v, f>>] = Step(f, v) /\ Step(f, v) \in T
    BY ZenonT(40)
  <2>1. G[<<v, f>>] = Step(f, v)
    BY ZenonT(40)
  <2>2. CASE Single(v)
    <3>1. f[ops[v].args[1]] \in Seq(D) /\ f[ops[v].args[2]] \in Seq(D)
      BY <1>1, <2>2
    <3>2. f[ops[v].args[1]] \o f[ops[v].args[2]] \in Seq(D)
      BY <3>1, Concat2, SMTT(30)
    <3> QED BY <2>1, <2>2, <3>2, Zenon
  <2>3. CASE ~Single(v)
    <3>1. <<v>> \in Seq(D)
      BY SMTT(30)
    <3> QED BY <2>1, <2>3, <3>1, Zenon
  <2> QED BY <2>2, <2>3, ZenonT(40)
<1>3. G \in [D \X [D -> T] -> T]
  BY <1>2, Zenon
<1> HIDE DEF G
<1>4. FromOperands(G, D, ops, T)
  <2>1. ASSUME NEW v \in D, NEW g \in [D -> T], NEW h \in [D -> T],
               \A a \in ToSet(ops[v].args) : g[a] = h[a]
        PROVE  G[<<v, g>>] = G[<<v, h>>]
    <3>1. Step(g, v) = Step(h, v)
      BY <1>1, <2>1
    <3> HIDE DEF Step
    <3> QED BY <1>2, <3>1
  <2>2. T # {}
    <3>1. <<>> \in Seq(D)
      OBVIOUS
    <3> QED BY <3>1
  <2> HIDE DEF D, T
  <2> QED BY <1>3, <2>1, <2>2 DEF FromOperands
<1>5. PICK f \in [D -> T] : Solves(f, G, D)
  <2> HIDE DEF T
  <2> QED BY <1>0, <1>4, BlockRecursion
<1> DEFINE Is(g) == g = [v \in D |-> Step(g, v)]
           leavesOf == CHOOSE g : Is(g)
<1>6. Is(f)
  BY <1>2, <1>5 DEF Solves
<1>7. \A v \in D : CollectConjuncts(v) = leavesOf[v]
  BY DEF CollectConjuncts, Single
<1> HIDE DEF Is
<1>8. Is(leavesOf)
  BY <1>6
<1> HIDE DEF leavesOf
<1>9. \A v \in D : leavesOf[v] = Step(leavesOf, v)
  BY <1>8 DEF Is
<1>10. \A v \in D : CollectConjuncts(v) = IF Single(v) THEN TreeLeaves(v) ELSE <<v>>
  BY <1>1, <1>7, <1>9 DEF TreeLeaves
<1> DEFINE Q == {v \in D : CollectConjuncts(v) \in Seq(D)}
<1>11. ASSUME NEW v \in D, ToSet(ops[v].args) \subseteq Q PROVE v \in Q
  <2>1. CASE Single(v)
    <3>1. /\ CollectConjuncts(ops[v].args[1]) \in Seq(D) /\ CollectConjuncts(ops[v].args[2]) \in Seq(D)
      BY <1>1, <1>11, <2>1
    <3>2. TreeLeaves(v) \in Seq(D)
      BY <3>1, Concat2 DEF TreeLeaves
    <3> QED BY <1>10, <2>1, <3>2
  <2>2. CASE ~Single(v)
    <3>1. <<v>> \in Seq(D)
      OBVIOUS
    <3> QED BY <1>10, <2>2, <3>1
  <2> QED BY <2>1, <2>2
<1> HIDE DEF Q
<1>12. D \subseteq Q
  BY <1>0, <1>11, BlockInduction
<1> QED BY <1>10, <1>12 DEF Q

(* The collected leaves of a value, joined, say what the value says: andi  *)
(* operations used once are looked through.                                *)
LEMMA CollectShape ==
  ASSUME Block
  PROVE  \A v \in DOMAIN ops : /\ CollectConjuncts(v) \in Seq(DOMAIN ops)
                              /\ IsConjunction(CollectConjuncts(v), v)
<1> DEFINE D == DOMAIN ops
           Q == {v \in D : IsConjunction(CollectConjuncts(v), v)}
<1>0. IsBlock(ops, order) /\ DefinedFirst(ops, order)
  BY DEF Block
<1>1. ASSUME NEW v \in D, ToSet(ops[v].args) \subseteq Q PROVE v \in Q
  <2>1. CASE Single(v)
    <3> DEFINE a == CollectConjuncts(ops[v].args[1])
               b == CollectConjuncts(ops[v].args[2])
    <3>1. /\ ops[v].op = "and"
          /\ ops[v].args[1] \in ToSet(ops[v].args) /\ ops[v].args[2] \in ToSet(ops[v].args)
          /\ ops[v].args[1] \in D /\ ops[v].args[2] \in D
      BY <2>1, AndOperands DEF Single
    <3>2. /\ a \in Seq(D) /\ IsConjunction(a, ops[v].args[1])
          /\ b \in Seq(D) /\ IsConjunction(b, ops[v].args[2])
      BY <1>1, <3>1, CollectIs
    <3>3. CollectConjuncts(v) = a \o b
      BY <2>1, CollectIs DEF TreeLeaves
    <3> HIDE DEF a, b
    <3>4. a \o b \in Seq(D) /\ IsConjunction(a \o b, v)
      BY <3>1, <3>2, JoinConjunctions
    <3> QED BY <3>3, <3>4
  <2>2. CASE ~Single(v)
    <3>1. CollectConjuncts(v) = <<v>>
      BY <2>2, CollectIs
    <3>2. <<v>> \in Seq(D) /\ Len(<<v>>) = 1 /\ <<v>>[1] = v /\ \A k \in 1..1 : k = 1
      OBVIOUS
    <3>3. IsConjunction(<<v>>, v)
      <4>1. \A h : (\A k \in 1..Len(<<v>>) : h[<<v>>[k]]) <=> h[v]
        BY <3>2
      <4> QED BY <3>2, <4>1 DEF IsConjunction
    <3> QED BY <3>1, <3>3
  <2> QED BY <2>1, <2>2
<1> HIDE DEF Q
<1>2. D \subseteq Q
  BY <1>0, <1>1, BlockInduction
<1> QED BY <1>2, CollectIs DEF Q

-----------------------------------------------------------------------------
(* The fold that runs inside the pass, with all that is proved about it.   *)

FoldP == INSTANCE ConjunctFoldProofs WITH defs <- Defs, Trees <- {}

(* Both instances of the fold, and their lattices, are the same.           *)
LEMMA SameLattices ==
  /\ FoldP!Lattice = Lattice
  /\ \A S : FoldP!Opt(S) = Opt(S)
  /\ \A c : FoldP!PositiveDivisor(c) <=> PositiveDivisor(c)
  /\ \A c, v : FoldP!Accepts(c, v) <=> Accepts(c, v)
<1>1. \A S : FoldP!Opt(S) = Opt(S)
  BY DEF Opt, FoldP!Opt
<1>2. FoldP!Lattice = Lattice
  BY DEF Lattice, FoldP!Lattice, StringLattice, FoldP!StringLattice,
         NumberLattice, FoldP!NumberLattice, Opt, FoldP!Opt
<1>3. \A c : FoldP!PositiveDivisor(c) <=> PositiveDivisor(c)
  BY DEF PositiveDivisor, FoldP!PositiveDivisor
<1>4. \A c, v : FoldP!Accepts(c, v) <=> Accepts(c, v)
  BY DEF Accepts, FoldP!Accepts, StringAccepts, FoldP!StringAccepts,
         NumberAccepts, FoldP!NumberAccepts
<1> QED BY <1>1, <1>2, <1>3, <1>4

(* What the fold assumes of its constants holds inside the pass.           *)
LEMMA FoldAssumptions ==
  FoldP!NumberAssumption /\ FoldP!DocumentAssumption /\ FoldP!TreesAssumption
<1>1. FoldP!NumberAssumption
  BY NumberAssumption DEF FoldP!NumberAssumption
<1>2. FoldP!DocumentAssumption
  <2>1. FoldP!JsonValue = JsonValue
    BY DEF JsonValue, FoldP!JsonValue, StringValue, FoldP!StringValue,
           NumberValue, FoldP!NumberValue, OtherValue, FoldP!OtherValue
  <2> QED BY <2>1, CanonicalizerAssumption DEF FoldP!DocumentAssumption
<1>3. FoldP!TreesAssumption
  BY DEF FoldP!TreesAssumption
<1> QED BY <1>1, <1>2, <1>3

(* Exact division means the same to the pass and to the fold.              *)
LEMMA SameDivision == DivisionExact => FoldP!DivisionExact
BY DEF DivisionExact, FoldP!DivisionExact, IsIntegralMultipleOf, FoldP!IsIntegralMultipleOf

(* The fold the pass runs and the fold the theorems speak of are one: they *)
(* have the same live conjuncts and take the same steps.                   *)
LEMMA SameFold == Fold!Live = FoldP!Live /\ (Fold!FoldStep => FoldP!FoldStep)
<1>1. Fold!Live = FoldP!Live
  BY DEF Fold!Live, FoldP!Live
<1>2. ASSUME Fold!Classify PROVE FoldP!Classify
  BY <1>2 DEF Fold!Classify, FoldP!Classify, Fold!Seen, FoldP!Seen,
              Fold!Classified, FoldP!Classified, Fold!tree, FoldP!tree
<1>3. ASSUME Fold!Deduplicate PROVE FoldP!Deduplicate
  BY <1>3 DEF Fold!Deduplicate, FoldP!Deduplicate, Fold!Seen, FoldP!Seen, Fold!tree, FoldP!tree
<1>4. ASSUME Fold!StartSweep PROVE FoldP!StartSweep
  BY <1>4 DEF Fold!StartSweep, FoldP!StartSweep, Fold!tree, FoldP!tree
<1>5. ASSUME Fold!NextDst PROVE FoldP!NextDst
  BY <1>5 DEF Fold!NextDst, FoldP!NextDst, Fold!CanAbsorb, FoldP!CanAbsorb, Fold!tree, FoldP!tree
<1>6. \A a, b : Fold!Meet(a, b) = FoldP!Meet(a, b)
  BY DEF Fold!Meet, FoldP!Meet, Fold!StringMeet, FoldP!StringMeet, Fold!NumberMeet, FoldP!NumberMeet,
         Fold!Compatible, FoldP!Compatible, Fold!TightestLower, FoldP!TightestLower,
         Fold!TightestUpper, FoldP!TightestUpper, Fold!DivisorMeet, FoldP!DivisorMeet,
         Fold!IsIntegralMultipleOf, FoldP!IsIntegralMultipleOf,
         Fold!LowerAtLeastAsStrict, FoldP!LowerAtLeastAsStrict,
         Fold!UpperAtLeastAsStrict, FoldP!UpperAtLeastAsStrict
<1>7. Fold!Merged = FoldP!Merged
  BY <1>6 DEF Fold!Merged, FoldP!Merged
<1>8. ASSUME Fold!SkipSrc PROVE FoldP!SkipSrc
  BY <1>7, <1>8, SMTT(30) DEF Fold!SkipSrc, FoldP!SkipSrc, Fold!AtPair, FoldP!AtPair,
              Fold!CanAbsorb, FoldP!CanAbsorb,
              Fold!SameInput, FoldP!SameInput, Fold!tree, FoldP!tree
<1>9. ASSUME Fold!Absorb PROVE FoldP!Absorb
  BY <1>7, <1>9, Zenon DEF Fold!Absorb, FoldP!Absorb, Fold!AtPair, FoldP!AtPair,
              Fold!CanAbsorb, FoldP!CanAbsorb, Fold!Absorbing, FoldP!Absorbing,
              Fold!SameInput, FoldP!SameInput, Fold!tree, FoldP!tree
<1>10. ASSUME Fold!FinishSweep PROVE FoldP!FinishSweep
  BY <1>10 DEF Fold!FinishSweep, FoldP!FinishSweep, Fold!tree, FoldP!tree
<1> QED BY <1>1, <1>2, <1>3, <1>4, <1>5, <1>8, <1>9, <1>10 DEF Fold!FoldStep, FoldP!FoldStep

-----------------------------------------------------------------------------
(* The inductive invariant: besides the block, what it validates are       *)
(* inputs of the given function, under divisors that are positive; while a *)
(* fold runs it is one of the leaves of root, and else it is reset.        *)
Sound(o) ==
  \A v \in DOMAIN o : /\ o[v].input \subseteq Inputs
                      /\ o[v].op = "arg" => v \in Args
                      /\ \A c \in o[v].lat : PositiveDivisor(c)

(* The fold is running, or its result waits to be rebuilt.                 *)
InFold == pc \in {"classify", "sweep", "done"}

(* t holds the leaves of the conjunction o, each defined before it.        *)
Gathered(t, o) ==
  /\ t \in Seq(DOMAIN ops) /\ IsConjunction(t, o)
  /\ \A k \in 1..Len(t) : Before(order, t[k], o)

Folding ==
  /\ root \in DOMAIN ops /\ ops[root].op = "and"
  /\ Gathered(leaves, root)
  /\ FoldP!IInv /\ FoldP!Placed

FoldReset == conj = <<>> /\ next = 1 /\ i = 1 /\ j = 2 /\ changed = FALSE

IInv ==
  /\ TypeOK /\ program \in Programs /\ Block /\ Sound(ops)
  /\ IF InFold THEN Folding ELSE FoldReset

(* The invariant holds of every function the pass can be given.            *)
LEMMA InitIInv == Init => IInv
<1> SUFFICES ASSUME Init PROVE IInv
  OBVIOUS
<1>1. /\ program \in Programs /\ ops = program.ops /\ order = program.order /\ ret = program.ret
      /\ FoldReset /\ pc = "idle"
  BY DEF Init, FoldReset
<1>2. /\ IsFunction(program.ops, program.order, program.ret)
      /\ \A v \in DOMAIN program.ops : \A c \in program.ops[v].lat : Verifies(c)
  BY <1>1, CanonicalizerAssumption
<1>3. Block
  BY <1>1, <1>2, FunctionIs DEF Block
<1>4. Sound(ops)
  <2>1. \A v \in DOMAIN ops : \A c \in ops[v].lat : PositiveDivisor(c)
    BY <1>1, <1>2 DEF Verifies, NumberVerifies, PositiveDivisor
  <2>2. \A v \in DOMAIN ops : ops[v].input \subseteq Inputs /\ (ops[v].op = "arg" => v \in Args)
    BY <1>1 DEF Inputs, Args
  <2> QED BY <2>1, <2>2 DEF Sound
<1>5. TypeOK
  <2>1. 1 \in 1..MaxIterations
    BY CanonicalizerAssumption
  <2> QED BY <2>1 DEF Init, TypeOK
<1>6. ~InFold
  BY <1>1 DEF InFold
<1> QED BY <1>1, <1>3, <1>4, <1>5, <1>6 DEF IInv

(* classify() finds definitions that are well formed.                      *)
LEMMA DefsShape ==
  ASSUME Block, Sound(ops)
  PROVE  Defs \in [Value -> FoldP!Def] /\ \A v \in Value : FoldP!WellFormed(Defs[v])
<1> SUFFICES ASSUME NEW v \in Value
             PROVE  Defs[v] \in FoldP!Def /\ FoldP!WellFormed(Defs[v])
  BY DEF Defs
<1>0. FoldP!Def = [input : Opt(Input), lat : Opt(Lattice)]
  BY SameLattices DEF FoldP!Def
<1>1. CASE v \in DOMAIN ops /\ ops[v].op = "validate"
  <2>1. Defs[v] = [input |-> ops[v].input, lat |-> ops[v].lat]
    BY <1>1 DEF Defs
  <2>2. ops[v].input \in Opt(Input) /\ ops[v].lat \in Opt(Lattice) /\ ops[v].lat # {} /\ ops[v].input # {}
    <3>1. OpShape(ops[v])
      BY <1>1, OperandsDefined DEF Block
    <3> QED BY <1>1, <3>1 DEF OpShape
  <2>3. \A c \in ops[v].lat : FoldP!PositiveDivisor(c)
    BY <1>1, SameLattices DEF Sound
  <2> QED BY <1>0, <2>1, <2>2, <2>3 DEF FoldP!WellFormed
<1>2. CASE ~(v \in DOMAIN ops /\ ops[v].op = "validate")
  <2>1. Defs[v] = [input |-> {}, lat |-> {}]
    BY <1>2 DEF Defs
  <2>2. {} \in Opt(Input) /\ {} \in Opt(Lattice)
    BY DEF Opt
  <2> QED BY <1>0, <2>1, <2>2 DEF FoldP!WellFormed
<1> QED BY <1>1, <1>2

(* The fold starts on the leaves of an andi.                               *)
LEMMA LeavesShape ==
  ASSUME Block, NEW o \in DOMAIN ops, ops[o].op = "and"
  PROVE  Gathered(CollectConjuncts(ops[o].args[1]) \o CollectConjuncts(ops[o].args[2]), o)
<1>1. ops[o].args[1] \in DOMAIN ops /\ ops[o].args[2] \in DOMAIN ops
  <2>1. Len(ops[o].args) = 2 /\ ops[o].args \in Seq(DOMAIN ops)
    BY OperandsDefined DEF Block, OpShape
  <2> QED BY <2>1
<1> DEFINE a == CollectConjuncts(ops[o].args[1])
           b == CollectConjuncts(ops[o].args[2])
<1>2. /\ a \in Seq(DOMAIN ops) /\ IsConjunction(a, ops[o].args[1])
      /\ b \in Seq(DOMAIN ops) /\ IsConjunction(b, ops[o].args[2])
  BY <1>1, CollectShape
<1> HIDE DEF a, b
<1>3. Gathered(a \o b, o)
  BY <1>2, JoinConjunctions DEF Gathered
<1> QED BY <1>3 DEF a, b

(* A fold that starts has the fold's own invariant, before and after a step. *)
LEMMA FreshFold == FoldP!Fresh => FoldP!IInv /\ FoldP!Placed /\ FoldP!VerdictPreserved
<1>1. FoldP!Fresh => FoldP!IInv
  BY FoldAssumptions, FoldP!FreshIInv
     DEF FoldP!NumberAssumption, FoldP!DocumentAssumption, FoldP!TreesAssumption
<1>2. FoldP!Fresh => FoldP!Placed /\ FoldP!VerdictPreserved
  BY FoldAssumptions, FoldP!FreshPlaced
     DEF FoldP!NumberAssumption, FoldP!DocumentAssumption, FoldP!TreesAssumption
<1> QED BY <1>1, <1>2

(* A step of the fold keeps the fold's own invariants.                     *)
LEMMA FoldStays ==
  ASSUME FoldP!IInv, FoldP!Placed, FoldP!FoldStep \/ FoldP!vars' = FoldP!vars
  PROVE  FoldP!IInv' /\ FoldP!Placed'
<1>1. [FoldP!Next]_(FoldP!vars)
  BY DEF FoldP!Next
<1>2. FoldP!IInv'
  BY <1>1, FoldAssumptions, FoldP!NextIInv
     DEF FoldP!NumberAssumption, FoldP!DocumentAssumption, FoldP!TreesAssumption
<1>3. FoldP!Placed'
  BY <1>1, FoldAssumptions, FoldP!PlacedStep
     DEF FoldP!NumberAssumption, FoldP!DocumentAssumption, FoldP!TreesAssumption
<1> QED BY <1>2, <1>3

(* A fold that has just started satisfies its invariants and has preserved *)
(* the verdict.                                                            *)
LEMMA FreshFoldNext ==
  FoldP!Fresh' => FoldP!IInv' /\ FoldP!Placed' /\ FoldP!VerdictPreserved'
BY FreshFold, PTL

(* A fold that starts is in its initial state, on the leaves of the andi.  *)
LEMMA StartFoldIInv ==
  ASSUME IInv, pc = "idle", NEW o \in worklist, StartFold(o)
  PROVE  IInv' /\ FoldP!VerdictPreserved'
<1>0. /\ UNCHANGED <<program, ops, order, ret>> /\ UNCHANGED <<rewritten, iteration>>
      /\ UNCHANGED <<conj, next, i, j, changed>>
      /\ pc' = "classify" /\ root' = o /\ worklist' = worklist \ {o}
      /\ leaves' = CollectConjuncts(ops[o].args[1]) \o CollectConjuncts(ops[o].args[2])
      /\ o \in DOMAIN ops /\ ops[o].op = "and"
  BY DEF StartFold, Tries, ir, IInv, TypeOK
<1>1. TypeOK' /\ program' \in Programs /\ Block' /\ Sound(ops)'
  <2>1. TypeOK'
    BY <1>0 DEF IInv, TypeOK
  <2>2. Block' /\ Sound(ops)' /\ program' \in Programs
    <3>1. ops' = ops /\ order' = order /\ ret' = ret /\ program' = program
      BY <1>0
    <3> QED BY <3>1 DEF IInv, Block, Sound, Inputs, Args
  <2> QED BY <2>1, <2>2
<1>2. Defs' = Defs
  BY <1>0 DEF Defs
<1>3. FoldP!Fresh'
  <2>1. leaves' \in Seq(Value)
    <3>1. leaves' \in Seq(DOMAIN ops)
      BY <1>0, LeavesShape DEF IInv, Gathered
    <3>2. DOMAIN ops \subseteq Value
      BY DEF IInv, Block, IsBlock
    <3> QED BY <3>1, <3>2
  <2>2. Defs \in [Value -> FoldP!Def] /\ \A v \in Value : FoldP!WellFormed(Defs[v])
    BY DefsShape DEF IInv
  <2>3. /\ conj' = <<>> /\ next' = 1 /\ i' = 1 /\ j' = 2 /\ changed' = FALSE /\ pc' = "classify"
    BY <1>0 DEF IInv, InFold, FoldReset
  <2> QED BY <1>2, <2>1, <2>2, <2>3 DEF FoldP!Fresh, FoldP!WellFormed, FoldP!Def
<1>4. FoldP!IInv' /\ FoldP!Placed' /\ FoldP!VerdictPreserved'
  BY <1>3, FreshFoldNext
<1>5. InFold'
  BY <1>0 DEF InFold
<1>6. Folding'
  <2>1. Gathered(leaves', o)
    BY <1>0, LeavesShape, SMTT(30) DEF IInv
  <2>2. Gathered(leaves, root)'
    BY <1>0, <2>1 DEF Gathered, IsConjunction
  <2> QED BY <1>0, <1>4, <2>2 DEF Folding
<1> QED BY <1>1, <1>4, <1>5, <1>6 DEF IInv

(* A step of the fold leaves the function alone.                           *)
LEMMA SweepStepIInv ==
  ASSUME IInv, SweepStep
  PROVE  IInv'
<1>1. UNCHANGED <<program, ops, order, ret, worklist, rewritten, iteration, root>>
  BY DEF SweepStep, ir, driver
<1>2. FoldP!FoldStep
  BY SameFold DEF SweepStep
<1>3. Defs' = Defs
  BY <1>1 DEF Defs
<1>4. leaves' = leaves /\ InFold /\ InFold'
  BY <1>2 DEF InFold, FoldP!FoldStep, FoldP!Classify, FoldP!Deduplicate, FoldP!StartSweep,
         FoldP!NextDst, FoldP!SkipSrc, FoldP!Absorb, FoldP!FinishSweep, FoldP!AtPair, FoldP!tree
<1>5. FoldP!IInv' /\ FoldP!Placed'
  BY <1>2, <1>4, FoldStays DEF IInv, Folding
<1>6. TypeOK' /\ program' \in Programs /\ Block' /\ Sound(ops)'
  <2>1. TypeOK'
    BY <1>1, <1>4 DEF IInv, TypeOK, InFold
  <2>2. Block' /\ Sound(ops)' /\ program' \in Programs
    <3>1. ops' = ops /\ order' = order /\ ret' = ret /\ program' = program
      BY <1>1
    <3> QED BY <3>1 DEF IInv, Block, Sound, Inputs, Args
  <2> QED BY <2>1, <2>2
<1>7. Folding'
  <2>1. Gathered(leaves, root)'
    BY <1>1, <1>4 DEF IInv, Folding, Gathered, IsConjunction
  <2> QED BY <1>1, <1>4, <1>5, <2>1 DEF IInv, Folding
<1> QED BY <1>4, <1>6, <1>7 DEF IInv

(* A rewrite that keeps the block and what is said of its operations ...   *)
LEMMA RewriteIInv ==
  ASSUME IInv, pc = "idle", Block', Sound(ops'),
         UNCHANGED <<program, fold, pc>>, NEW touched, NEW erased, Requeue(touched, erased)
  PROVE  IInv'
<1>1. ~InFold /\ ~InFold' /\ FoldReset /\ FoldReset'
  BY DEF InFold, IInv, FoldReset, fold
<1>2. TypeOK'
  BY DEF IInv, TypeOK, Requeue
<1>3. Sound(ops)' /\ program' \in Programs
  BY DEF IInv, Sound, Inputs, Args
<1> QED BY <1>1, <1>2, <1>3 DEF IInv

(* Erasing a dead operation keeps the invariant.                           *)
LEMMA EraseDeadIInv ==
  ASSUME IInv, pc = "idle", NEW o \in worklist, EraseDead(o)
  PROVE  IInv'
<1>1. Block /\ o \in DOMAIN ops /\ Sound(ops)
  BY DEF IInv, TypeOK
<1>2. Block'
  BY <1>1, EraseDeadBlock
<1>3. Sound(ops')
  BY <1>1 DEF EraseDead, Keep, Sound
<1> QED BY <1>2, <1>3, RewriteIInv DEF EraseDead, fold

(* Folding an andi keeps the invariant.                                    *)
LEMMA FoldAndIInv ==
  ASSUME IInv, pc = "idle", NEW o \in worklist, FoldAnd(o)
  PROVE  IInv'
<1>1. Block /\ o \in DOMAIN ops /\ Sound(ops)
  BY DEF IInv, TypeOK
<1>2. Block'
  BY <1>1, FoldAndBlock
<1>3. Sound(ops')
  <2>1. PICK w \in FoldsTo(o) : ops' = ReplaceIn(ops, o, w)
    BY DEF FoldAnd
  <2>2. Closed(ops) /\ w \in DOMAIN ops
    BY <1>1, BlockClosed, FoldsToBefore DEF Block, Before, IsBlock, ToSet
  <2>3. \A u \in DOMAIN ops : SameButArgs(Instead(ops, o, w)[u], ops[u])
    BY <2>2, InsteadShape DEF SameButArgs
  <2>4. ops' = Kept(Instead(ops, o, w), {o})
    BY <2>1 DEF ReplaceIn, Kept, Instead
  <2>5. DOMAIN Instead(ops, o, w) = DOMAIN ops
    BY DEF Instead
  <2> QED BY <1>1, <2>3, <2>4, <2>5 DEF Sound, Kept, SameButArgs
<1> QED BY <1>2, <1>3, RewriteIInv DEF FoldAnd

(* Dropping subsumed operands keeps the invariant.                         *)
LEMMA DropSubsumedIInv ==
  ASSUME IInv, pc = "idle", NEW o \in worklist, DropSubsumed(o)
  PROVE  IInv'
<1>1. Block /\ o \in DOMAIN ops /\ Sound(ops)
  BY DEF IInv, TypeOK
<1>2. Block'
  BY <1>1, DropSubsumedBlock
<1>3. Sound(ops')
  <2>1. PICK with, erased : Drops(o, with, erased)
    BY <1>1, DropSubsumedShape
  <2>2. ops' = Kept(with, erased) /\ with \in [DOMAIN ops -> Op]
    BY <2>1 DEF Drops
  <2>3. \A v \in DOMAIN ops : SameButArgs(with[v], ops[v])
    BY <2>1 DEF Drops
  <2> QED BY <1>1, <2>2, <2>3 DEF Sound, Kept, SameButArgs
<1>4. \E erased : Requeue({o}, erased)
  BY DEF DropSubsumed
<1> QED BY <1>2, <1>3, <1>4, RewriteIInv DEF DropSubsumed

(* Normalising keeps the invariant: the normalised lattice still passes    *)
(* the verifier of the operation.                                          *)
LEMMA NormalizeIInv ==
  ASSUME IInv, pc = "idle", NEW o \in worklist, Normalize(o)
  PROVE  IInv'
<1>1. Block /\ o \in DOMAIN ops /\ Sound(ops)
  BY DEF IInv, TypeOK
<1>2. Block'
  BY <1>1, NormalizeBlock
<1>3. Sound(ops')
  <2>1. PICK c \in Lattice :
          /\ ops[o].op = "validate" /\ ops[o].lat = {c}
          /\ ops' \in [DOMAIN ops -> Op]
          /\ \A v \in DOMAIN ops : v # o => ops'[v] = ops[v]
          /\ ops'[o].op = "validate" /\ ops'[o].input = ops[o].input
          /\ ops'[o].lat = {Normalized(c)}
    BY <1>1, NormalizeShape
  <2>2. PositiveDivisor(Normalized(c))
    BY <1>1, <2>1, NormalizedShape DEF Sound
  <2>3. DOMAIN ops' = DOMAIN ops
    BY <2>1
  <2> QED BY <1>1, <2>1, <2>2, <2>3 DEF Sound
<1> QED BY <1>2, <1>3, RewriteIInv DEF Normalize

(* The steps that leave the function alone and are not the fold's.         *)
LEMMA DriverIInv ==
  ASSUME IInv, UNCHANGED ir,
         \/ pc = "idle" /\ \E o \in worklist : NoMatch(o)
         \/ NothingRedundant \/ Converge \/ NextRound \/ GiveUp
  PROVE  IInv'
<1>1. UNCHANGED <<program, ops, order, ret>>
  BY DEF ir
<1>2. Block' /\ Sound(ops)' /\ program' \in Programs
  BY <1>1 DEF IInv, Block, Sound, Inputs, Args
<1>3. TypeOK'
  <2>1. /\ worklist \subseteq DOMAIN ops /\ rewritten \in BOOLEAN
        /\ iteration \in 1..MaxIterations /\ MaxIterations \in Nat
        /\ pc \in {"idle", "classify", "sweep", "done", "converged", "failed"}
    BY CanonicalizerAssumption DEF IInv, TypeOK
  <2>2. iteration' \in 1..MaxIterations
    BY <2>1 DEF NoMatch, NothingRedundant, Converge, NextRound, GiveUp, driver
  <2>3. worklist' \subseteq DOMAIN ops /\ rewritten' \in BOOLEAN
    BY <2>1 DEF NoMatch, NothingRedundant, Converge, NextRound, GiveUp, driver
  <2>4. pc' \in {"idle", "classify", "sweep", "done", "converged", "failed"}
    BY <2>1 DEF NoMatch, NothingRedundant, ResetFold, Converge, NextRound, GiveUp
  <2> QED BY <1>1, <2>2, <2>3, <2>4 DEF TypeOK
<1>4. ~InFold' /\ FoldReset'
  BY DEF IInv, InFold, FoldReset, NoMatch, NothingRedundant, ResetFold, Converge, NextRound,
         GiveUp, RoundOver, fold
<1> QED BY <1>2, <1>3, <1>4 DEF IInv

(* What a finished fold hands to the rewrite: the live conjuncts, at least *)
(* one, each of them the value of a leaf or fit to become a validation.    *)
LiveConjuncts(live) ==
  /\ Rebuildable(live)
  /\ ToSet(live) = {conj[q] : q \in FoldP!Live}
  /\ \A k \in 1..Len(live) : /\ live[k].input \subseteq Inputs
                              /\ \A c \in live[k].lat : PositiveDivisor(c)

(* When the fold is done, its live conjuncts can be rebuilt: there is one, *)
(* and each unchanged one is still a validation of the block.              *)
LEMMA LiveShape ==
  ASSUME IInv, pc = "done"
  PROVE  LiveConjuncts(Selected(conj, FoldP!Live))
<1> DEFINE live == Selected(conj, FoldP!Live)
<1>1. Folding /\ Block /\ Sound(ops)
  BY DEF IInv, InFold
<1>2. FoldP!IInv /\ FoldP!Placed /\ Gathered(leaves, root)
  BY <1>1 DEF Folding
<1>3. conj \in Seq(FoldP!Conjunct) /\ Len(conj) \in Nat /\ FoldP!Live \subseteq 1..Len(conj)
  BY <1>2 DEF FoldP!IInv, FoldP!TypeOK, FoldP!Live
<1>4. \A q \in 1..Len(conj) :
        /\ conj[q].dirty \in BOOLEAN
        /\ conj[q].dirty => /\ conj[q].lat \in Opt(Lattice) \ {{}}
                            /\ conj[q].input \in Opt(Input) \ {{}}
        /\ \A c \in conj[q].lat : PositiveDivisor(c)
  <2> SUFFICES ASSUME NEW q \in 1..Len(conj)
               PROVE  /\ conj[q].dirty \in BOOLEAN
                      /\ conj[q].dirty => /\ conj[q].lat \in Opt(Lattice) \ {{}}
                                          /\ conj[q].input \in Opt(Input) \ {{}}
                      /\ \A c \in conj[q].lat : PositiveDivisor(c)
    OBVIOUS
  <2>1. conj[q] \in FoldP!Conjunct
    BY <1>3
  <2>2. /\ conj[q].dirty \in BOOLEAN /\ conj[q].lat \in Opt(Lattice)
        /\ conj[q].input \in Opt(Input)
    BY <2>1, SameLattices DEF FoldP!Conjunct
  <2>3. FoldP!WellFormed(conj[q]) /\ (conj[q].dirty => conj[q].lat # {})
    BY <1>2 DEF FoldP!IInv, FoldP!Current
  <2> QED BY <2>2, <2>3, SameLattices DEF FoldP!WellFormed
<1>5. \A q \in 1..Len(conj) : Before(order, conj[q].value, root) /\ conj[q].input \subseteq Inputs
  <2> SUFFICES ASSUME NEW q \in 1..Len(conj)
               PROVE  Before(order, conj[q].value, root) /\ conj[q].input \subseteq Inputs
    OBVIOUS
  <2>1. PICK n \in 1..Len(leaves) : conj[q].value = leaves[n]
    BY <1>2 DEF FoldP!Placed
  <2>2. PICK m \in 1..Len(leaves) : conj[q].input = Defs[leaves[m]].input
    BY <1>2 DEF FoldP!Placed
  <2>3. leaves[m] \in DOMAIN ops /\ leaves[m] \in Value
    BY <1>1, <1>2 DEF Gathered, Block, IsBlock
  <2>4. Defs[leaves[m]].input = {} \/ Defs[leaves[m]].input = ops[leaves[m]].input
    BY <2>3 DEF Defs
  <2>5. conj[q].input \subseteq Inputs
    BY <1>1, <2>2, <2>3, <2>4 DEF Sound
  <2> QED BY <1>2, <2>1, <2>5 DEF Gathered
<1>6. live \in Seq(FoldP!Conjunct) /\ Lists(live, conj, Len(conj), FoldP!Live)
  BY <1>3, SelectedShape
<1> HIDE DEF live
<1>7. PICK p \in [1..Len(live) -> 1..Len(conj)] :
        /\ \A k \in 1..Len(live) : live[k] = conj[p[k]] /\ p[k] \in FoldP!Live
        /\ \A k, m \in 1..Len(live) : k < m => p[k] < p[m]
        /\ \A k \in 1..Len(conj) : k \in FoldP!Live => \E m \in 1..Len(live) : p[m] = k
  BY <1>6 DEF Lists
<1>8. DOMAIN live = 1..Len(live) /\ Len(live) \in Nat
  BY <1>6
<1>9. ToSet(live) = {conj[q] : q \in FoldP!Live}
  <2>1. ToSet(live) = {live[k] : k \in 1..Len(live)}
    BY <1>8 DEF ToSet
  <2>2. \A k \in 1..Len(live) : live[k] = conj[p[k]] /\ p[k] \in FoldP!Live
    BY <1>7
  <2>3. \A q \in FoldP!Live : \E m \in 1..Len(live) : p[m] = q
    BY <1>3, <1>7
  <2>4. \A q \in FoldP!Live : \E m \in 1..Len(live) : live[m] = conj[q]
    BY <2>2, <2>3
  <2>5. {live[k] : k \in 1..Len(live)} \subseteq {conj[q] : q \in FoldP!Live}
    BY <2>2
  <2>6. {conj[q] : q \in FoldP!Live} \subseteq {live[k] : k \in 1..Len(live)}
    BY <2>4
  <2> QED BY <2>1, <2>5, <2>6
<1>10. Len(live) > 0
  <2>1. Len(leaves) \in Nat /\ Len(leaves) > 0 /\ next = Len(leaves) + 1
    <3>1. leaves \in Seq(DOMAIN ops) /\ Len(leaves) > 0
      BY <1>2 DEF Gathered, IsConjunction
    <3>2. next = Len(leaves) + 1
      BY <1>2 DEF FoldP!Placed
    <3> QED BY <3>1, <3>2
  <2>2. FoldP!Live # {}
    BY <1>2, <2>1 DEF FoldP!Placed
  <2>3. PICK q \in FoldP!Live : q \in 1..Len(conj)
    BY <1>3, <2>2
  <2>4. PICK m \in 1..Len(live) : p[m] = q
    BY <1>7, <2>3
  <2> QED BY <1>8, <2>4
<1>11. live \in Seq(ToSet(live))
  BY <1>6, SeqOfSet
<1>12. \A k \in 1..Len(live) : p[k] \in 1..Len(conj) /\ live[k] = conj[p[k]]
  BY <1>7
<1>13. Rebuildable(live)
  BY <1>4, <1>5, <1>10, <1>11, <1>12 DEF Rebuildable
<1>14. LiveConjuncts(live)
  BY <1>4, <1>5, <1>9, <1>12, <1>13 DEF LiveConjuncts
<1> QED BY <1>14 DEF live

(* Rebuilding keeps the invariant and ends the fold.                       *)
LEMMA RebuildIInv ==
  ASSUME Value = Nat \ {0}, IInv, Rebuild
  PROVE  IInv'
<1>1. pc = "done" /\ Block /\ Sound(ops) /\ root \in DOMAIN ops /\ program' = program
  BY DEF Rebuild, IInv, InFold, Folding
<1>2. PICK live, name : /\ live = Selected(conj, FoldP!Live)
                        /\ name = [n \in 1..2 * Len(live) - 1 |-> Free(n)]
                        /\ RebuildFrom(live, name)
  BY SameFold DEF Rebuild
<1>3. LiveConjuncts(live)
  BY <1>1, <1>2, LiveShape
<1>4. Rebuildable(live)
  BY <1>3 DEF LiveConjuncts
<1>5. Named(live, name)
  <2>1. 2 * Len(live) - 1 \in Nat
    BY <1>4 DEF Rebuildable
  <2> QED BY <1>1, <1>2, <2>1, FreshNames DEF Named
<1>6. Block'
  BY <1>1, <1>2, <1>4, <1>5, RebuildBlock
<1> DEFINE with == WithCreated(live, name)
           w == Joined(live, name, Len(live))
<1>7. Creates(with, live, name)
  BY <1>4, <1>5, WithCreatedIs
<1>8. Closed(with) /\ w \in DOMAIN with
  BY <1>1, <1>4, <1>5, RebuildSupplies, SuppliedClosed DEF Block
<1>9. ops' = ReplaceIn(with, root, w)
  BY <1>2 DEF RebuildFrom
<1> HIDE DEF with, w
<1>10. \A u \in DOMAIN with : SameButArgs(Instead(with, root, w)[u], with[u])
  BY <1>8, InsteadShape DEF SameButArgs
<1>11. Sound(with)
  <2>1. ASSUME NEW n \in Created(live)
        PROVE  LET q == CreatedOp(live, name, n)
               IN /\ q.op # "arg" /\ q.input \subseteq Inputs /\ \A c \in q.lat : PositiveDivisor(c)
    <3>1. n =< Len(live) => n \in 1..Len(live)
      <4>1. Len(live) \in Nat
        BY <1>4 DEF Rebuildable
      <4>2. n \in 1..2 * Len(live) - 1
        BY <1>4, CreatedIs
      <4> QED BY <4>1, <4>2
    <3> QED BY <1>3, <3>1 DEF CreatedOp, LiveConjuncts
  <2>2. ASSUME NEW v \in DOMAIN with
        PROVE  /\ with[v].input \subseteq Inputs /\ (with[v].op = "arg" => v \in Args)
               /\ \A c \in with[v].lat : PositiveDivisor(c)
    <3>1. CASE v \in DOMAIN ops
      BY <1>1, <1>7, <3>1 DEF Creates, Sound
    <3>2. CASE v \notin DOMAIN ops
      <4>1. PICK n \in Created(live) : v = name[n]
        BY <1>7, <3>2 DEF Creates
      <4>2. with[v] = CreatedOp(live, name, n)
        BY <1>7, <4>1 DEF Creates
      <4> QED BY <2>1, <4>2
    <3> QED BY <3>1, <3>2
  <2> QED BY <2>2 DEF Sound
<1>12. Sound(ops')
  <2>1. ops' = Kept(Instead(with, root, w), {root}) /\ DOMAIN Instead(with, root, w) = DOMAIN with
    BY <1>9 DEF ReplaceIn, Kept, Instead
  <2> QED BY <1>10, <1>11, <2>1 DEF Sound, Kept, SameButArgs
<1>13. TypeOK' /\ ~InFold' /\ FoldReset'
  BY <1>2 DEF RebuildFrom, Requeue, Rebuild, ResetFold, IInv, TypeOK, InFold, FoldReset
<1>14. Sound(ops)' /\ program' \in Programs
  BY <1>1, <1>12 DEF IInv, Sound, Inputs, Args
<1> QED BY <1>6, <1>13, <1>14 DEF IInv

(* Every step of the pass keeps the invariant.                             *)
LEMMA NextIInv ==
  ASSUME Value = Nat \ {0}, IInv, [Next]_vars
  PROVE  IInv'
<1>1. ASSUME pc = "idle", NEW o \in worklist, Visit(o) PROVE IInv'
  <2>1. CASE EraseDead(o)
    BY <1>1, <2>1, EraseDeadIInv
  <2>2. CASE FoldAnd(o)
    BY <1>1, <2>2, FoldAndIInv
  <2>3. CASE StartFold(o)
    BY <1>1, <2>3, StartFoldIInv
  <2>4. CASE DropSubsumed(o)
    BY <1>1, <2>4, DropSubsumedIInv
  <2>5. CASE Normalize(o)
    BY <1>1, <2>5, NormalizeIInv
  <2>6. CASE NoMatch(o)
    <3>1. UNCHANGED ir
      BY <2>6 DEF NoMatch
    <3> QED BY <1>1, <2>6, <3>1, DriverIInv
  <2> QED BY <1>1, <2>1, <2>2, <2>3, <2>4, <2>5, <2>6 DEF Visit
<1>2. CASE SweepStep
  BY <1>2, SweepStepIInv
<1>3. CASE Rebuild
  BY <1>3, RebuildIInv
<1>4. CASE NothingRedundant \/ Converge \/ NextRound \/ GiveUp
  <2>1. UNCHANGED ir
    BY <1>4 DEF NothingRedundant, Converge, NextRound, GiveUp
  <2> QED BY <1>4, <2>1, DriverIInv
<1>5. CASE UNCHANGED vars
  <2>1. /\ UNCHANGED <<program, ops, order, ret>> /\ UNCHANGED <<worklist, rewritten, iteration>>
        /\ UNCHANGED <<root, leaves, conj, next, i, j, changed, pc>>
    BY <1>5 DEF vars
  <2>2. TypeOK' /\ program' \in Programs /\ Block' /\ Sound(ops)' /\ InFold' = InFold
    BY <2>1 DEF IInv, TypeOK, Block, Sound, Inputs, Args, InFold
  <2>3. FoldReset => FoldReset'
    BY <2>1 DEF FoldReset
  <2>4. Folding => Folding'
    <3>1. Defs' = Defs
      BY <2>1 DEF Defs
    <3>2. Gathered(leaves, root)' = Gathered(leaves, root)
      BY <2>1 DEF Gathered, IsConjunction
    <3>3. FoldP!vars' = FoldP!vars
      BY <2>1, <3>1 DEF FoldP!vars
    <3>4. ASSUME FoldP!IInv, FoldP!Placed PROVE FoldP!IInv' /\ FoldP!Placed'
      BY <3>3, <3>4, FoldStays
    <3> QED BY <2>1, <3>2, <3>4 DEF Folding
  <2> QED BY <2>2, <2>3, <2>4 DEF IInv
<1> QED BY <1>1, <1>2, <1>3, <1>4, <1>5 DEF Next

(* Every rewrite keeps the block a function: every operation is listed     *)
(* once, every operand is defined before it is used and nothing that is    *)
(* still used is erased, whatever the order in which the driver applies    *)
(* the patterns.  SSA names never run out.                                 *)
THEOREM CanonicalizerWellFormedIR ==
  ASSUME Value = Nat \ {0} PROVE Spec => []WellFormedIR
<1>1. IInv /\ [Next]_vars => IInv'
  BY NextIInv
<1>2. IInv => WellFormedIR
  BY FunctionIs DEF IInv, Block, WellFormedIR
<1> QED BY InitIInv, <1>1, <1>2, PTL DEF Spec

-----------------------------------------------------------------------------
(* Rewrites and verdicts.                                                  *)

(* What operations hold is not changed by erasing some that the others do  *)
(* not use.                                                                *)
LEMMA KeptHolds ==
  ASSUME NEW o, NEW h, NEW e, HoldsIn(o, h, e), NEW erased,
         \A v \in DOMAIN o \ erased : ToSet(o[v].args) \subseteq DOMAIN o \ erased
  PROVE  HoldsIn(Kept(o, erased), Kept(h, erased), e)
<1> DEFINE D == DOMAIN o \ erased
           p == Kept(o, erased)
           g == Kept(h, erased)
<1>1. DOMAIN p = D /\ \A v \in D : p[v] = o[v]
  BY DEF Kept
<1>2. g \in [D -> BOOLEAN] /\ \A v \in D : g[v] = h[v]
  BY DEF Kept, HoldsIn
<1> HIDE DEF p, g
<1>3. ASSUME NEW v \in D
      PROVE  g[v] <=> Own(p[v], v, e) /\ \A a \in ToSet(p[v].args) : g[a]
  <2>1. \A a \in ToSet(o[v].args) : g[a] = h[a]
    BY <1>2
  <2> QED BY <1>1, <1>2, <2>1 DEF HoldsIn
<1>4. HoldsIn(p, g, e)
  BY <1>1, <1>2, <1>3 DEF HoldsIn
<1> QED BY <1>4 DEF p, g

(* Nor by using w for x when they hold alike.                              *)
LEMMA InsteadHolds ==
  ASSUME NEW o, Closed(o), NEW h, NEW e, HoldsIn(o, h, e),
         NEW x \in DOMAIN o, NEW w \in DOMAIN o, h[w] = h[x]
  PROVE  HoldsIn(Instead(o, x, w), h, e)
<1> DEFINE p == Instead(o, x, w)
<1>1. /\ DOMAIN p = DOMAIN o
      /\ \A u \in DOMAIN o :
           /\ SameButArgs(p[u], o[u]) /\ p[u].args \in Seq(DOMAIN o)
           /\ IsReplaced(p[u].args, o[u].args, x, w)
  <2>1. DOMAIN p = DOMAIN o
    BY DEF Instead
  <2> QED BY <2>1, InsteadShape DEF SameButArgs
<1> HIDE DEF p
<1>2. ASSUME NEW u \in DOMAIN o
      PROVE  h[u] <=> Own(p[u], u, e) /\ \A a \in ToSet(p[u].args) : h[a]
  <2>1. Own(p[u], u, e) <=> Own(o[u], u, e)
    BY <1>1 DEF SameButArgs, Own
  <2>2. /\ o[u].args \in Seq(DOMAIN o) /\ p[u].args \in Seq(DOMAIN o)
        /\ Len(p[u].args) = Len(o[u].args)
        /\ \A n \in 1..Len(o[u].args) : h[p[u].args[n]] = h[o[u].args[n]]
    BY <1>1 DEF Closed, IsReplaced
  <2>3. (\A a \in ToSet(p[u].args) : h[a]) <=> (\A a \in ToSet(o[u].args) : h[a])
    <3>1. ToSet(p[u].args) = {p[u].args[n] : n \in 1..Len(o[u].args)}
      BY <2>2 DEF ToSet
    <3>2. ToSet(o[u].args) = {o[u].args[n] : n \in 1..Len(o[u].args)}
      BY <2>2 DEF ToSet
    <3> QED BY <2>2, <3>1, <3>2
  <2> QED BY <2>1, <2>3 DEF HoldsIn
<1>3. HoldsIn(p, h, e)
  BY <1>1, <1>2 DEF HoldsIn
<1> QED BY <1>3 DEF p

(* Operations replaced one at a time: x by w in all that is left.          *)
LEMMA ReplacedHolds ==
  ASSUME NEW o, Closed(o), NEW h, NEW e, HoldsIn(o, h, e),
         NEW x \in DOMAIN o, NEW w \in DOMAIN o, w # x, h[w] = h[x]
  PROVE  HoldsIn(ReplaceIn(o, x, w), Kept(h, {x}), e)
<1> DEFINE p == Instead(o, x, w)
<1>1. HoldsIn(p, h, e)
  BY InsteadHolds
<1>2. ReplaceIn(o, x, w) = Kept(p, {x})
  BY DEF ReplaceIn, Kept, Instead
<1>3. /\ DOMAIN p = DOMAIN o
      /\ \A u \in DOMAIN o : p[u].args \in Seq(DOMAIN o) /\ IsReplaced(p[u].args, o[u].args, x, w)
  BY InsteadShape DEF Instead
<1> HIDE DEF p
<1>4. ASSUME NEW v \in DOMAIN o \ {x}
      PROVE  ToSet(p[v].args) \subseteq DOMAIN p \ {x}
  <2>1. ToSet(p[v].args) \subseteq DOMAIN o
    BY <1>3 DEF ToSet
  <2>2. o[v].args \in Seq(DOMAIN o)
    BY DEF Closed
  <2>3. \A a \in ToSet(p[v].args) : a # x
    BY <1>3, <2>2, ReplacedMembers
  <2> QED BY <1>3, <2>1, <2>3
<1> QED BY <1>1, <1>2, <1>3, <1>4, KeptHolds

(* Two functions whose returned values hold alike have the same verdict.   *)
LEMMA SameVerdict ==
  ASSUME Block, Block', NEW e, NEW h, HoldsIn(ops, h, e), NEW g, HoldsIn(ops', g, e),
         Len(ret') = Len(ret), \A k \in 1..Len(ret) : g[ret'[k]] = h[ret[k]]
  PROVE  Verdict(ops', ret', e) = Verdict(ops, ret, e)
<1>1. /\ IsBlock(ops, order) /\ DefinedFirst(ops, order) /\ ret \in Seq(DOMAIN ops)
      /\ IsBlock(ops', order') /\ DefinedFirst(ops', order') /\ ret' \in Seq(DOMAIN ops')
  BY DEF Block
<1>2. Verdict(ops, ret, e) = [k \in DOMAIN ret |-> h[ret[k]]]
  BY <1>1, VerdictIs
<1>3. Verdict(ops', ret', e) = [k \in DOMAIN ret' |-> g[ret'[k]]]
  BY <1>1, VerdictIs
<1>4. DOMAIN ret = 1..Len(ret) /\ DOMAIN ret' = 1..Len(ret)
  BY <1>1
<1> QED BY <1>2, <1>3, <1>4

(* A value returned instead of x.                                          *)
Alike(t, g, r, h) == Len(t) = Len(r) /\ \A k \in 1..Len(r) : g[t[k]] = h[r[k]]

(* Returning w where x was returned says the same when w and x agree.      *)
LEMMA ReturnsReplaced ==
  ASSUME NEW T, NEW r \in Seq(T), NEW x, NEW w \in T, w # x,
         NEW h \in [T -> BOOLEAN], h[w] = h[x]
  PROVE  Alike(ReplaceAll(r, x, w), Kept(h, {x}), r, h)
<1>2. IsReplaced(ReplaceAll(r, x, w), r, x, w)
  BY ReplaceAllShape
<1>3. \A v \in T \ {x} : Kept(h, {x})[v] = h[v]
  BY DEF Kept
<1>4. \A k \in 1..Len(r) : r[k] \in T
  OBVIOUS
<1> QED BY <1>2, <1>3, <1>4 DEF IsReplaced, Alike

-----------------------------------------------------------------------------
(* Erasing a dead operation keeps the verdict.                             *)
LEMMA EraseDeadVerdict ==
  ASSUME Block, NEW o \in DOMAIN ops, EraseDead(o), NEW e
  PROVE  Verdict(ops', ret', e) = Verdict(ops, ret, e)
<1>1. /\ ops' = Kept(ops, {o}) /\ ret' = ret /\ Users(ops, o) = {} /\ o \notin ToSet(ret)
  BY DEF EraseDead, Keep, Kept, Dead, Unused
<1>2. IsBlock(ops, order) /\ DefinedFirst(ops, order) /\ ret \in Seq(DOMAIN ops) /\ Closed(ops)
  BY BlockClosed DEF Block
<1>3. PICK h : HoldsIn(ops, h, e)
  BY <1>2, HoldsExists
<1>4. \A v \in DOMAIN ops \ {o} : ToSet(ops[v].args) \subseteq DOMAIN ops \ {o}
  <2>1. \A v \in DOMAIN ops : ToSet(ops[v].args) \subseteq DOMAIN ops
    BY <1>2 DEF Closed, ToSet
  <2> QED BY <1>1, <2>1 DEF Users
<1>5. HoldsIn(ops', Kept(h, {o}), e)
  BY <1>1, <1>3, <1>4, KeptHolds
<1>6. \A k \in 1..Len(ret) : Kept(h, {o})[ret'[k]] = h[ret[k]]
  <2>1. \A k \in 1..Len(ret) : ret[k] \in DOMAIN ops /\ ret[k] # o
    BY <1>1, <1>2 DEF ToSet
  <2>2. DOMAIN h = DOMAIN ops
    BY <1>3 DEF HoldsIn
  <2> QED BY <1>1, <2>1, <2>2 DEF Kept
<1>7. Block'
  BY EraseDeadBlock
<1> QED BY <1>1, <1>3, <1>5, <1>6, <1>7, SameVerdict

(* An andi holds when the operand it folds to does.                        *)
LEMMA FoldsToHolds ==
  ASSUME Block, NEW o \in DOMAIN ops, NEW w \in FoldsTo(o), NEW e, NEW h, HoldsIn(ops, h, e)
  PROVE  h[w] = h[o]
<1> DEFINE l == ops[o].args[1]
           r == ops[o].args[2]
<1>1. ops[o].op = "and" /\ l \in DOMAIN ops /\ r \in DOMAIN ops
  <2>1. ops[o].op = "and"
    BY DEF FoldsTo
  <2>2. ops[o].args \in Seq(DOMAIN ops) /\ Len(ops[o].args) = 2
    BY <2>1, OperandsDefined DEF Block, OpShape
  <2> QED BY <2>1, <2>2
<1>2. h[o] <=> h[l] /\ h[r]
  BY <1>1, AndHolds
<1>3. \A v \in DOMAIN ops : ops[v].op = "true" => h[v]
  <2> SUFFICES ASSUME NEW v \in DOMAIN ops, ops[v].op = "true" PROVE h[v]
    OBVIOUS
  <2>1. ops[v].lat = {} /\ ops[v].args = <<>>
    BY OperandsDefined DEF Block, OpShape
  <2>2. Own(ops[v], v, e) /\ ToSet(ops[v].args) = {}
    BY <2>1 DEF Own, ToSet
  <2> QED BY <2>2 DEF HoldsIn
<1>4. \A v \in DOMAIN ops : \A a \in ToSet(ops[v].args) : h[v] => h[a]
  BY DEF HoldsIn
<1>5. h \in [DOMAIN ops -> BOOLEAN]
  BY DEF HoldsIn
<1> QED BY <1>1, <1>2, <1>3, <1>4, <1>5 DEF FoldsTo

(* Folding an andi keeps the verdict.                                      *)
LEMMA FoldAndVerdict ==
  ASSUME Block, NEW o \in DOMAIN ops, FoldAnd(o), NEW e
  PROVE  Verdict(ops', ret', e) = Verdict(ops, ret, e)
<1>1. PICK w \in FoldsTo(o) : ops' = ReplaceIn(ops, o, w) /\ ret' = ReplaceAll(ret, o, w)
  BY DEF FoldAnd
<1>2. IsBlock(ops, order) /\ DefinedFirst(ops, order) /\ ret \in Seq(DOMAIN ops) /\ Closed(ops)
  BY BlockClosed DEF Block
<1>3. PICK h : HoldsIn(ops, h, e)
  BY <1>2, HoldsExists
<1>4. Before(order, w, o)
  BY FoldsToBefore
<1>5. w \in DOMAIN ops /\ w # o
  BY <1>2, <1>4 DEF Before, IsBlock, ToSet, IsInjective
<1>6. h[w] = h[o] /\ h \in [DOMAIN ops -> BOOLEAN]
  BY <1>3, FoldsToHolds DEF HoldsIn
<1>7. HoldsIn(ops', Kept(h, {o}), e)
  BY <1>1, <1>2, <1>3, <1>5, <1>6, ReplacedHolds
<1>8. Len(ret') = Len(ret) /\ \A k \in 1..Len(ret) : Kept(h, {o})[ret'[k]] = h[ret[k]]
  BY <1>1, <1>2, <1>5, <1>6, ReturnsReplaced DEF Alike
<1>9. Block'
  BY FoldAndBlock
<1> QED BY <1>3, <1>7, <1>8, <1>9, SameVerdict

(* The documents a validation looks at.                                    *)
LEMMA DocumentOf ==
  ASSUME Sound(ops), NEW e \in Env, NEW v \in DOMAIN ops, NEW x \in ops[v].input
  PROVE  e.doc[x] \in JsonValue
<1>1. x \in Inputs /\ e.doc \in [Inputs -> Document]
  BY DEF Sound, Env
<1> QED BY <1>1, CanonicalizerAssumption

(* A validation that holds makes those hold that are weaker.               *)
LEMMA StrongerHolds ==
  ASSUME DivisionExact, Block, Sound(ops), NEW e \in Env, NEW h, HoldsIn(ops, h, e)
  PROVE  Implied({v \in DOMAIN ops : h[v]}, DOMAIN ops)
<1> SUFFICES ASSUME NEW s \in DOMAIN ops, NEW w \in DOMAIN ops, h[s], StrongerValue(s, w)
             PROVE  h[w]
  BY DEF Implied
<1>1. PICK a \in ops[s].lat, b \in ops[w].lat : Subsumes(a, b)
  BY DEF StrongerValue, StrictlyStronger
<1>2. ops[s].op = "validate" /\ ops[w].op = "validate" /\ ops[s].input = ops[w].input
  BY DEF StrongerValue
<1>3. OpShape(ops[s]) /\ OpShape(ops[w])
  BY OperandsDefined DEF Block
<1>4. a \in Lattice /\ b \in Lattice /\ ops[w].lat = {b} /\ ops[w].args = <<>>
  BY <1>1, <1>2, <1>3 DEF OpShape, Opt
<1>5. ASSUME NEW x \in ops[w].input PROVE Accepts(b, e.doc[x])
  <2>1. Accepts(a, e.doc[x])
    BY <1>1, <1>2 DEF HoldsIn, Own
  <2>2. e.doc[x] \in JsonValue
    BY DocumentOf
  <2> QED BY <1>1, <1>4, <2>1, <2>2, SubsumesSound, DivisionExact
<1>6. Own(ops[w], w, e) /\ ToSet(ops[w].args) = {}
  BY <1>2, <1>4, <1>5 DEF Own, ToSet
<1> QED BY <1>6 DEF HoldsIn

(* Dropping subsumed operands keeps the verdict: the operand that stays    *)
(* implies the one that goes.                                              *)
LEMMA DropSubsumedVerdict ==
  ASSUME DivisionExact, Block, Sound(ops), NEW o \in DOMAIN ops, DropSubsumed(o), NEW e \in Env
  PROVE  Verdict(ops', ret', e) = Verdict(ops, ret, e)
<1>1. PICK with, erased : Drops(o, with, erased)
  BY DropSubsumedShape
<1>2. IsBlock(ops, order) /\ DefinedFirst(ops, order) /\ ret \in Seq(DOMAIN ops) /\ Closed(ops)
  BY BlockClosed DEF Block
<1>3. PICK h : HoldsIn(ops, h, e)
  BY <1>2, HoldsExists
<1>4. /\ ops' = Kept(with, erased) /\ ret' = ret /\ ToSet(ret) \cap erased = {}
      /\ with \in [DOMAIN ops -> Op] /\ DOMAIN with = DOMAIN ops
      /\ with[o].args = Updated(ops[o].args) /\ SameButArgs(with[o], ops[o])
      /\ \A v \in DOMAIN ops : v # o => with[v] = ops[v]
      /\ \A v \in DOMAIN ops : ToSet(with[v].args) \subseteq ToSet(ops[v].args) \ erased
  BY <1>1 DEF Drops
<1>5. (\A a \in ToSet(with[o].args) : h[a]) <=> (\A a \in ToSet(ops[o].args) : h[a])
  <2> DEFINE s == ops[o].args
             t == with[o].args
             Q == {v \in DOMAIN ops : h[v]}
  <2>1. s \in Seq(DOMAIN ops)
    BY <1>2 DEF Closed
  <2>2. t \in Seq(DOMAIN ops) /\ IsUpdate(t, s, Q)
    <3>1. Implied(Q, DOMAIN ops)
      BY <1>3, StrongerHolds
    <3> HIDE DEF Q
    <3> QED BY <1>4, <2>1, <3>1, UpdatedShape
  <2>3. ASSUME \A a \in ToSet(t) : h[a], NEW a \in ToSet(s) PROVE h[a]
    <3>1. PICK n \in 1..Len(s) : a = s[n]
      BY <2>1 DEF ToSet
    <3>2. n \in DOMAIN t /\ t[n] \in DOMAIN ops
      BY <2>1, <2>2 DEF IsUpdate
    <3>3. t[n] \in Q
      BY <2>3, <3>2 DEF ToSet
    <3>4. s[n] \in Q
      BY <2>2, <3>3 DEF IsUpdate
    <3> QED BY <3>1, <3>4
  <2>4. ToSet(t) \subseteq ToSet(s)
    BY <1>4
  <2> QED BY <2>3, <2>4
<1>6. HoldsIn(with, h, e)
  <2>1. Own(with[o], o, e) <=> Own(ops[o], o, e)
    BY <1>4 DEF SameButArgs, Own
  <2>2. ASSUME NEW v \in DOMAIN ops
        PROVE  h[v] <=> Own(with[v], v, e) /\ \A a \in ToSet(with[v].args) : h[a]
    <3>1. h[v] <=> Own(ops[v], v, e) /\ \A a \in ToSet(ops[v].args) : h[a]
      BY <1>3 DEF HoldsIn
    <3> QED BY <1>4, <1>5, <2>1, <3>1
  <2> QED BY <1>3, <1>4, <2>2 DEF HoldsIn
<1>7. HoldsIn(ops', Kept(h, erased), e)
  <2>1. \A v \in DOMAIN ops : ToSet(ops[v].args) \subseteq DOMAIN ops
    BY <1>2 DEF Closed, ToSet
  <2>2. \A v \in DOMAIN with \ erased : ToSet(with[v].args) \subseteq DOMAIN with \ erased
    BY <1>4, <2>1
  <2> QED BY <1>4, <1>6, <2>2, KeptHolds
<1>8. \A k \in 1..Len(ret) : Kept(h, erased)[ret'[k]] = h[ret[k]]
  <2>1. \A k \in 1..Len(ret) : ret[k] \in DOMAIN ops /\ ret[k] \notin erased
    BY <1>2, <1>4 DEF ToSet
  <2>2. DOMAIN h = DOMAIN ops
    BY <1>3 DEF HoldsIn
  <2> QED BY <1>4, <2>1, <2>2 DEF Kept
<1>9. Block'
  BY DropSubsumedBlock
<1> QED BY <1>3, <1>4, <1>7, <1>8, <1>9, SameVerdict

(* The constraint that normalizing drops rejects nothing the others accept.*)
LEMMA NormalizedAccepts ==
  ASSUME DivisionExact, NEW c \in Lattice, NEW v \in JsonValue
  PROVE  Accepts(Normalized(c), v) <=> Accepts(c, v)
<1>1. CASE c.kind = "string" /\ c.minLength = {0}
  <2>1. c \in StringLattice
    BY <1>1 DEF Lattice, NumberLattice
  <2> DEFINE d == [c EXCEPT !.minLength = {}]
  <2>2. Normalized(c) = d
    BY <1>1 DEF Normalized
  <2>3. /\ d.kind = "string" /\ d.minLength = {} /\ d.maxLength = c.maxLength
        /\ d.pattern = c.pattern /\ d.format = c.format
    BY <2>1, <1>1 DEF StringLattice
  <2>4. v.kind = "string" => v.length >= 0
    BY DEF JsonValue, StringValue, NumberValue, OtherValue
  <2> HIDE DEF d
  <2> QED BY <1>1, <2>2, <2>3, <2>4 DEF Accepts, StringAccepts
<1>2. CASE c.kind = "number" /\ c.integral /\ c.multipleOf = {One}
  <2>1. c \in NumberLattice
    BY <1>2 DEF Lattice, StringLattice
  <2> DEFINE d == [c EXCEPT !.multipleOf = {}]
  <2>2. Normalized(c) = d
    BY <1>2 DEF Normalized
  <2>3. /\ d.kind = "number" /\ d.minimum = c.minimum /\ d.maximum = c.maximum
        /\ d.exclusiveMin = c.exclusiveMin /\ d.exclusiveMax = c.exclusiveMax
        /\ d.multipleOf = {} /\ d.integral = c.integral
    BY <2>1, <1>2 DEF NumberLattice
  <2>4. v.kind = "number" /\ v.x \in Whole => <<v.x, One>> \in Integral
    <3>1. v.kind = "number" => v.x \in Number
      BY DEF JsonValue, StringValue, NumberValue, OtherValue
    <3> QED BY <3>1, DivisionExact DEF DivisionExact
  <2> HIDE DEF d
  <2> QED BY <1>2, <2>2, <2>3, <2>4 DEF Accepts, NumberAccepts
<1>3. CASE ~(c.kind = "string" /\ c.minLength = {0}) /\ ~(c.kind = "number" /\ c.integral /\ c.multipleOf = {One})
  BY <1>3 DEF Normalized
<1> QED BY <1>1, <1>2, <1>3

(* Normalising keeps the verdict: a lattice and its normal form accept the *)
(* same values.                                                            *)
LEMMA NormalizeVerdict ==
  ASSUME DivisionExact, Block, Sound(ops), NEW o \in DOMAIN ops, Normalize(o), NEW e \in Env
  PROVE  Verdict(ops', ret', e) = Verdict(ops, ret, e)
<1>1. PICK c \in Lattice :
        /\ ops[o].op = "validate" /\ ops[o].lat = {c} /\ UNCHANGED <<order, ret>>
        /\ ops' \in [DOMAIN ops -> Op]
        /\ \A v \in DOMAIN ops : v # o => ops'[v] = ops[v]
        /\ ops'[o].op = "validate" /\ ops'[o].input = ops[o].input
        /\ ops'[o].lat = {Normalized(c)} /\ ops'[o].args = ops[o].args
  BY NormalizeShape
<1>2. PICK h : HoldsIn(ops, h, e)
  BY HoldsExists DEF Block
<1>3. Own(ops'[o], o, e) <=> Own(ops[o], o, e)
  <2>1. \A x \in ops[o].input : Accepts(Normalized(c), e.doc[x]) <=> Accepts(c, e.doc[x])
    BY DocumentOf, NormalizedAccepts, DivisionExact
  <2> QED BY <1>1, <2>1 DEF Own
<1>4. HoldsIn(ops', h, e)
  <2>1. ASSUME NEW v \in DOMAIN ops
        PROVE  h[v] <=> Own(ops'[v], v, e) /\ \A a \in ToSet(ops'[v].args) : h[a]
    <3>1. h[v] <=> Own(ops[v], v, e) /\ \A a \in ToSet(ops[v].args) : h[a]
      BY <1>2 DEF HoldsIn
    <3> QED BY <1>1, <1>3, <3>1
  <2>2. DOMAIN ops' = DOMAIN ops
    BY <1>1
  <2> QED BY <1>2, <2>1, <2>2 DEF HoldsIn
<1>5. Block'
  BY NormalizeBlock
<1>6. Len(ret') = Len(ret) /\ \A k \in 1..Len(ret) : h[ret'[k]] = h[ret[k]]
  BY <1>1
<1> QED BY <1>2, <1>4, <1>5, <1>6, SameVerdict

-----------------------------------------------------------------------------
(* The fold's verdicts and the function's.                                 *)

(* A conjunct says what the operation it is rebuilt from holds.            *)
Says(c, h, e) ==
  IF c.dirty THEN \A l \in c.lat, x \in c.input : Accepts(l, e.doc[x]) ELSE h[c.value]

(* What an operation holds, the fold is told of its definition.            *)
LEMMA DefinitionHolds ==
  ASSUME Block, NEW v \in DOMAIN ops, NEW e, NEW h, HoldsIn(ops, h, e), Defs[v].lat # {}
  PROVE  h[v] <=> \A c \in Defs[v].lat, x \in Defs[v].input : Accepts(c, e.doc[x])
<1>1. v \in Value
  BY DEF Block, IsBlock
<1>2. ops[v].op = "validate" /\ Defs[v].lat = ops[v].lat /\ Defs[v].input = ops[v].input
  BY <1>1 DEF Defs
<1>3. ops[v].args = <<>>
  BY <1>2, OperandsDefined DEF Block, OpShape
<1>4. ToSet(ops[v].args) = {}
  BY <1>3 DEF ToSet
<1>5. h[v] <=> Own(ops[v], v, e)
  BY <1>4 DEF HoldsIn
<1> QED BY <1>2, <1>5 DEF Own

(* A live conjunct that is rebuilt from its value is a leaf with the same  *)
(* definition, one that is materialized is a validation.                   *)
LEMMA ConjunctShape ==
  ASSUME IInv, InFold, NEW q \in 1..Len(conj)
  PROVE  /\ conj[q].value \in DOMAIN ops /\ conj[q].input \subseteq Inputs
         /\ conj[q].dirty => conj[q].lat # {}
         /\ ~conj[q].dirty => /\ Defs[conj[q].value].lat = conj[q].lat
                              /\ Defs[conj[q].value].input = conj[q].input
<1>1. Folding /\ Block /\ Sound(ops)
  BY DEF IInv
<1>2. FoldP!IInv /\ FoldP!Placed /\ Gathered(leaves, root)
  BY <1>1 DEF Folding
<1>3. leaves \in Seq(DOMAIN ops)
  BY <1>2 DEF Gathered
<1>4. PICK n \in 1..Len(leaves) : conj[q].value = leaves[n]
  BY <1>2 DEF FoldP!Placed
<1>5. PICK m \in 1..Len(leaves) : conj[q].input = Defs[leaves[m]].input
  BY <1>2 DEF FoldP!Placed
<1>6. leaves[n] \in DOMAIN ops /\ leaves[m] \in DOMAIN ops /\ leaves[m] \in Value
  BY <1>1, <1>3 DEF Block, IsBlock
<1>7. Defs[leaves[m]].input = {} \/ Defs[leaves[m]].input = ops[leaves[m]].input
  BY <1>6 DEF Defs
<1>8. conj[q].input \subseteq Inputs
  BY <1>1, <1>5, <1>6, <1>7 DEF Sound
<1>9. /\ conj[q].dirty => conj[q].lat # {}
      /\ ~conj[q].dirty => /\ Defs[conj[q].value].lat = conj[q].lat
                           /\ Defs[conj[q].value].input = conj[q].input
  BY <1>2 DEF FoldP!IInv, FoldP!Current
<1> QED BY <1>4, <1>6, <1>8, <1>9

(* The conjunction that is folded holds when all the live conjuncts do.    *)
LEMMA LiveSay ==
  ASSUME IInv, pc = "done", FoldP!VerdictPreserved,
         NEW e \in Env, NEW h, HoldsIn(ops, h, e)
  PROVE  h[root] <=> \A q \in FoldP!Live : Says(conj[q], h, e)
<1>1. InFold /\ Folding /\ Block /\ Sound(ops)
  BY DEF IInv, InFold
<1>2. FoldP!Placed /\ Gathered(leaves, root) /\ root \in DOMAIN ops
  BY <1>1 DEF Folding
<1>3. /\ leaves \in Seq(DOMAIN ops) /\ next = Len(leaves) + 1
      /\ h[root] <=> \A k \in 1..Len(leaves) : h[leaves[k]]
  BY <1>2 DEF FoldP!Placed, Gathered, IsConjunction
<1>4. FoldP!Live \subseteq 1..Len(conj)
  BY DEF FoldP!Live
<1>5. h \in [DOMAIN ops -> BOOLEAN] /\ DOMAIN ops \subseteq Value
  BY <1>1 DEF HoldsIn, Block, IsBlock
<1> DEFINE Opaque == {v \in Value : Defs[v].lat = {}}
           d == CHOOSE x \in Document : TRUE
           doc == [x \in Input |-> IF x \in Inputs THEN e.doc[x] ELSE d]
           opaque == [v \in Opaque |-> IF v \in DOMAIN ops THEN h[v] ELSE TRUE]
           f == [doc |-> doc, opaque |-> opaque]
<1>6. f \in FoldP!Env /\ f.doc = doc /\ f.opaque = opaque
  <2>1. e.doc \in [Inputs -> Document] /\ d \in Document
    BY CanonicalizerAssumption DEF Env
  <2>2. doc \in [Input -> Document]
    BY <2>1
  <2>3. opaque \in [Opaque -> BOOLEAN]
    BY <1>5
  <2> HIDE DEF doc, opaque
  <2> QED BY <2>2, <2>3 DEF FoldP!Env
<1>7. \A x \in Inputs \cap Input : doc[x] = e.doc[x]
  OBVIOUS
<1>8. \A v \in DOMAIN ops : Defs[v].lat = {} => opaque[v] = h[v]
  BY <1>5
<1> HIDE DEF f, doc, opaque
<1>9. (\A k \in 1..Len(leaves) : FoldP!LeafHolds(leaves[k], f))
      <=> (\A q \in FoldP!Live : FoldP!ConjunctHolds(conj[q], f))
  BY <1>3, <1>6 DEF FoldP!VerdictPreserved
<1>10. ASSUME NEW v \in DOMAIN ops PROVE FoldP!LeafHolds(v, f) <=> h[v]
  <2>1. CASE Defs[v].lat = {}
    BY <1>6, <1>8, <2>1 DEF FoldP!LeafHolds
  <2>2. CASE Defs[v].lat # {}
    <3>1. Defs[v].input \subseteq Inputs \cap Input
      <4>1. v \in Value /\ ops[v].input \subseteq Input
        BY <1>1, <1>5, OperandsDefined DEF Block, OpShape, Opt
      <4>2. Defs[v].input = {} \/ Defs[v].input = ops[v].input
        BY <4>1 DEF Defs
      <4> QED BY <1>1, <4>1, <4>2 DEF Sound
    <3>2. FoldP!LeafHolds(v, f) <=> \A c \in Defs[v].lat, x \in Defs[v].input : Accepts(c, e.doc[x])
      BY <1>6, <1>7, <2>2, <3>1, SameLattices DEF FoldP!LeafHolds
    <3> QED BY <1>1, <2>2, <3>2, DefinitionHolds
  <2> QED BY <2>1, <2>2
<1>11. ASSUME NEW q \in FoldP!Live PROVE FoldP!ConjunctHolds(conj[q], f) <=> Says(conj[q], h, e)
  <2>1. /\ q \in 1..Len(conj) /\ conj[q].value \in DOMAIN ops /\ conj[q].input \subseteq Inputs
        /\ conj[q].dirty => conj[q].lat # {}
        /\ ~conj[q].dirty => /\ Defs[conj[q].value].lat = conj[q].lat
                             /\ Defs[conj[q].value].input = conj[q].input
    BY <1>1, <1>4, ConjunctShape
  <2>2. conj[q].input \subseteq Input
    <3>1. conj \in Seq(FoldP!Conjunct)
      BY <1>1 DEF Folding, FoldP!IInv, FoldP!TypeOK
    <3>2. conj[q] \in FoldP!Conjunct
      BY <2>1, <3>1
    <3>3. conj[q].input \in Opt(Input)
      BY <3>2, SameLattices DEF FoldP!Conjunct
    <3> QED BY <3>3 DEF Opt
  <2>3. CASE conj[q].lat = {}
    <3>1. ~conj[q].dirty
      BY <2>1, <2>3
    <3> QED BY <1>6, <1>8, <2>1, <2>3, <3>1 DEF FoldP!ConjunctHolds, Says
  <2>4. CASE conj[q].lat # {}
    <3>1. FoldP!ConjunctHolds(conj[q], f)
            <=> \A c \in conj[q].lat, x \in conj[q].input : Accepts(c, e.doc[x])
      BY <1>6, <1>7, <2>1, <2>2, <2>4, SameLattices DEF FoldP!ConjunctHolds
    <3>2. CASE conj[q].dirty
      BY <3>1, <3>2 DEF Says
    <3>3. CASE ~conj[q].dirty
      <4>1. h[conj[q].value] <=> \A c \in conj[q].lat, x \in conj[q].input : Accepts(c, e.doc[x])
        BY <1>1, <2>1, <2>4, <3>3, DefinitionHolds
      <4> QED BY <3>1, <3>3, <4>1 DEF Says
    <3> QED BY <3>2, <3>3
  <2> QED BY <2>3, <2>4
<1>12. \A k \in 1..Len(leaves) : leaves[k] \in DOMAIN ops
  BY <1>3
<1> QED BY <1>3, <1>9, <1>10, <1>11, <1>12

-----------------------------------------------------------------------------
(* What the created operations hold: one that materializes a conjunct what *)
(* that says, an andi what all the conjuncts say that are joined so far.   *)
CreatedHolds(live, h, e, n) ==
  IF n =< Len(live) THEN Says(live[n], h, e)
  ELSE \A m \in 1..n - Len(live) + 1 : Says(live[m], h, e)

Grows(g, live, name, h, e) ==
  /\ g \in [DOMAIN ops \cup {name[n] : n \in Created(live)} -> BOOLEAN]
  /\ \A v \in DOMAIN ops : g[v] = h[v]
  /\ \A n \in Created(live) : g[name[n]] <=> CreatedHolds(live, h, e, n)

(* A valuation of the block extends to the operations a rebuild creates.   *)
LEMMA GrownExists ==
  ASSUME Block, NEW live, NEW name, Rebuildable(live), Named(live, name),
         NEW e, NEW h, HoldsIn(ops, h, e)
  PROVE  \E g : Grows(g, live, name, h, e)
<1> DEFINE C == Created(live)
           D == DOMAIN ops \cup {name[n] : n \in C}
           H(n) == CreatedHolds(live, h, e, n)
           g == [v \in D |-> IF v \in DOMAIN ops THEN h[v] ELSE H(CHOOSE n \in C : name[n] = v) = TRUE]
<1>1. C \subseteq DOMAIN name /\ \A n \in DOMAIN name : name[n] \in Value \ DOMAIN ops
  <2>1. DOMAIN name = 1..2 * Len(live) - 1
    BY DEF Named
  <2> QED BY <2>1, CreatedIs DEF Named
<1>2. h \in [DOMAIN ops -> BOOLEAN]
  BY DEF HoldsIn
<1>3. g \in [D -> BOOLEAN]
  <2> HIDE DEF D, C, H
  <2> QED BY <1>2
<1>4. \A v \in DOMAIN ops : g[v] = h[v]
  <2>1. \A v \in DOMAIN ops : v \in D
    OBVIOUS
  <2> HIDE DEF D, C, H
  <2> QED BY <2>1
<1>5. ASSUME NEW n \in C PROVE g[name[n]] <=> H(n)
  <2>1. (CHOOSE m \in C : name[m] = name[n]) = n
    <3>1. \A m \in C : name[m] = name[n] => m = n
      BY <1>1 DEF Named, IsInjective
    <3> QED BY <3>1
  <2>2. name[n] \in D /\ name[n] \notin DOMAIN ops
    BY <1>1
  <2>3. H(n) \in BOOLEAN
    <3>1. CASE n =< Len(live)
      <4>1. n \in 1..Len(live)
        <5>1. n \in 1..2 * Len(live) - 1
          BY CreatedIs
        <5>2. Len(live) \in Nat
          BY DEF Rebuildable
        <5> QED BY <3>1, <5>1, <5>2
      <4>2. live[n].dirty
        BY <4>1, CreatedIs
      <4> QED BY <3>1, <4>2 DEF CreatedHolds, Says
    <3>2. CASE ~(n =< Len(live))
      BY <3>2 DEF CreatedHolds
    <3> QED BY <3>1, <3>2
  <2> HIDE DEF D, C, H
  <2>4. g[name[n]] = (H(n) = TRUE)
    BY <2>1, <2>2
  <2> QED BY <2>3, <2>4
<1> HIDE DEF g
<1>6. Grows(g, live, name, h, e)
  BY <1>3, <1>4, <1>5 DEF Grows
<1> QED BY <1>6

(* Operand k holds what conjunct k says, and the conjunction of the first  *)
(* k what these say.                                                       *)
LEMMA OperandHolds ==
  ASSUME Block, NEW live, NEW name, Rebuildable(live), Named(live, name),
         NEW e, NEW h, HoldsIn(ops, h, e), NEW g, Grows(g, live, name, h, e),
         NEW k \in 1..Len(live)
  PROVE  /\ g[Operand(live, name, k)] <=> Says(live[k], h, e)
         /\ g[Joined(live, name, k)] <=> \A m \in 1..k : Says(live[m], h, e)
<1>0. Len(live) \in Nat
  BY DEF Rebuildable
<1>1. ASSUME NEW m \in 1..Len(live)
      PROVE  g[Operand(live, name, m)] <=> Says(live[m], h, e)
  <2>1. CASE live[m].dirty
    <3>1. m \in Created(live) /\ m =< Len(live) /\ Operand(live, name, m) = name[m]
      BY <1>0, <2>1, CreatedIs DEF Operand
    <3> QED BY <3>1 DEF Grows, CreatedHolds
  <2>2. CASE ~live[m].dirty
    <3>1. Before(order, live[m].value, root) /\ Operand(live, name, m) = live[m].value
      BY <2>2 DEF Rebuildable, Operand
    <3>2. live[m].value \in DOMAIN ops
      BY <3>1 DEF Before, Block, IsBlock, ToSet
    <3> QED BY <2>2, <3>1, <3>2 DEF Grows, Says
  <2> QED BY <2>1, <2>2
<1>2. CASE k = 1
  <2>1. Joined(live, name, k) = Operand(live, name, 1)
    BY <1>2 DEF Joined
  <2> QED BY <1>1, <1>2, <2>1
<1>3. CASE k # 1
  <2>1. k - 1 \in 1..Len(live) - 1 /\ Len(live) + (k - 1) = Len(live) + k - 1
    BY <1>0, <1>3
  <2> DEFINE n == Len(live) + k - 1
  <2>2. n \in Created(live) /\ ~(n =< Len(live)) /\ n - Len(live) + 1 = k
    <3>1. Len(live) + (k - 1) \in Created(live)
      BY <2>1, CreatedIs
    <3> QED BY <1>0, <2>1, <3>1
  <2>3. Joined(live, name, k) = name[n]
    BY <1>3 DEF Joined
  <2> HIDE DEF n
  <2>4. CreatedHolds(live, h, e, n) <=> \A m \in 1..k : Says(live[m], h, e)
    BY <2>2 DEF CreatedHolds
  <2>5. g[name[n]] <=> CreatedHolds(live, h, e, n)
    BY <2>2 DEF Grows
  <2> QED BY <1>1, <2>3, <2>4, <2>5
<1> QED BY <1>2, <1>3

(* The extended valuation evaluates the block with the created operations. *)
LEMMA WithHolds ==
  ASSUME Block, NEW live, NEW name, Rebuildable(live), Named(live, name),
         NEW e, NEW h, HoldsIn(ops, h, e), NEW g, Grows(g, live, name, h, e)
  PROVE  HoldsIn(WithCreated(live, name), g, e)
<1> DEFINE with == WithCreated(live, name)
<1>0. Len(live) \in Nat /\ Created(live) \subseteq 1..2 * Len(live) - 1
  <2>1. Len(live) \in Nat
    BY DEF Rebuildable
  <2> QED BY <2>1, CreatedIs
<1>1. /\ DOMAIN with = DOMAIN ops \cup {name[n] : n \in Created(live)}
      /\ \A v \in DOMAIN ops : with[v] = ops[v]
      /\ \A n \in Created(live) : with[name[n]] = CreatedOp(live, name, n)
  <2>1. Creates(with, live, name)
    BY WithCreatedIs
  <2> HIDE DEF with
  <2> QED BY <2>1 DEF Creates
<1> HIDE DEF with
<1>2. ASSUME NEW v \in DOMAIN ops
      PROVE  g[v] <=> Own(with[v], v, e) /\ \A a \in ToSet(with[v].args) : g[a]
  <2>1. ops[v].args \in Seq(DOMAIN ops)
    BY OperandsDefined DEF Block
  <2>2. \A a \in ToSet(ops[v].args) : a \in DOMAIN ops
    BY <2>1 DEF ToSet
  <2>3. \A a \in ToSet(ops[v].args) : g[a] = h[a]
    BY <2>2 DEF Grows
  <2>4. h[v] <=> Own(ops[v], v, e) /\ \A a \in ToSet(ops[v].args) : h[a]
    BY DEF HoldsIn
  <2> QED BY <1>1, <2>3, <2>4 DEF Grows
<1>3. ASSUME NEW n \in Created(live)
      PROVE  g[name[n]] <=> /\ Own(with[name[n]], name[n], e)
                            /\ \A a \in ToSet(with[name[n]].args) : g[a]
  <2> DEFINE q == CreatedOp(live, name, n)
  <2>1. with[name[n]] = q /\ (g[name[n]] <=> CreatedHolds(live, h, e, n))
    BY <1>1 DEF Grows
  <2>2. CASE n =< Len(live)
    <3>1. n \in 1..Len(live)
      BY <1>0, <2>2
    <3>2. live[n].dirty
      BY <3>1, CreatedIs
    <3>3. q = [op |-> "validate", input |-> live[n].input, lat |-> live[n].lat, args |-> <<>>]
      BY <2>2 DEF CreatedOp
    <3>4. ToSet(q.args) = {} /\ q.op = "validate" /\ q.input = live[n].input /\ q.lat = live[n].lat
      BY <3>3 DEF ToSet
    <3> HIDE DEF q
    <3>5. Own(q, name[n], e) <=> Says(live[n], h, e)
      BY <3>2, <3>4 DEF Own, Says
    <3> QED BY <2>1, <2>2, <3>4, <3>5 DEF CreatedHolds
  <2>3. CASE ~(n =< Len(live))
    <3> DEFINE k == n - Len(live)
               a == Joined(live, name, k)
               b == Operand(live, name, k + 1)
    <3>1. k \in 1..Len(live) /\ k + 1 \in 1..Len(live)
      BY <1>0, <2>3
    <3>2. q = [op |-> "and", input |-> {}, lat |-> {}, args |-> <<a, b>>]
      BY <2>3 DEF CreatedOp
    <3>3. (g[a] <=> \A m \in 1..k : Says(live[m], h, e)) /\ (g[b] <=> Says(live[k + 1], h, e))
      BY <3>1, OperandHolds
    <3>4. CreatedHolds(live, h, e, n) <=> \A m \in 1..k + 1 : Says(live[m], h, e)
      BY <2>3 DEF CreatedHolds
    <3> HIDE DEF a, b, k
    <3>5. ToSet(q.args) = {a, b} /\ q.op = "and" /\ q.lat = {}
      BY <3>2 DEF ToSet
    <3> HIDE DEF q
    <3>6. Own(q, name[n], e)
      BY <3>5 DEF Own
    <3>7. (\A m \in 1..k + 1 : Says(live[m], h, e))
            <=> (\A m \in 1..k : Says(live[m], h, e)) /\ Says(live[k + 1], h, e)
      <4>1. k \in Nat /\ 1..k + 1 = 1..k \cup {k + 1}
        BY <3>1
      <4> QED BY <4>1
    <3> QED BY <2>1, <3>3, <3>4, <3>5, <3>6, <3>7
  <2> QED BY <2>2, <2>3
<1>4. HoldsIn(with, g, e)
  <2>1. ASSUME NEW v \in DOMAIN with
        PROVE  g[v] <=> Own(with[v], v, e) /\ \A a \in ToSet(with[v].args) : g[a]
    BY <1>1, <1>2, <1>3
  <2> QED BY <1>1, <2>1 DEF HoldsIn, Grows
<1> QED BY <1>4 DEF with

(* Rebuilding keeps the verdict, because the fold kept that of the         *)
(* conjunction.                                                            *)
LEMMA RebuildVerdict ==
  ASSUME Value = Nat \ {0}, IInv, FoldP!VerdictPreserved, Rebuild, NEW e \in Env
  PROVE  Verdict(ops', ret', e) = Verdict(ops, ret, e)
<1>1. pc = "done" /\ Block /\ root \in DOMAIN ops
  BY DEF Rebuild, IInv, InFold, Folding
<1>2. PICK live, name : /\ live = Selected(conj, FoldP!Live)
                        /\ name = [n \in 1..2 * Len(live) - 1 |-> Free(n)]
                        /\ RebuildFrom(live, name)
  BY SameFold DEF Rebuild
<1>3. LiveConjuncts(live)
  BY <1>1, <1>2, LiveShape
<1>4. Rebuildable(live) /\ ToSet(live) = {conj[q] : q \in FoldP!Live}
  BY <1>3 DEF LiveConjuncts
<1>5. Named(live, name)
  <2>1. 2 * Len(live) - 1 \in Nat
    BY <1>4 DEF Rebuildable
  <2> QED BY <1>1, <1>2, <2>1, FreshNames DEF Named
<1> DEFINE with == WithCreated(live, name)
           w == Joined(live, name, Len(live))
           new == Selected(name, Created(live))
<1>6. Supplies(new, with, root, w)
  BY <1>1, <1>4, <1>5, RebuildSupplies
<1>7. Closed(with) /\ w \in DOMAIN with /\ w # root /\ DOMAIN ops \subseteq DOMAIN with
  <2> HIDE DEF new, with, w
  <2>1. Closed(with) /\ w \in DOMAIN with
    BY <1>1, <1>6, SuppliedClosed DEF Block
  <2>2. w # root
    <3>1. CASE Before(order, w, root)
      BY <1>1, <3>1 DEF Before, Block, IsBlock, IsInjective
    <3>2. CASE w \in ToSet(new)
      BY <1>1, <1>6, <3>2 DEF Supplies
    <3> QED BY <1>6, <3>1, <3>2 DEF Supplies
  <2> QED BY <1>6, <2>1, <2>2 DEF Supplies
<1>8. ops' = ReplaceIn(with, root, w) /\ ret' = ReplaceAll(ret, root, w)
  BY <1>2 DEF RebuildFrom
<1>9. PICK h : HoldsIn(ops, h, e)
  BY <1>1, HoldsExists DEF Block
<1>10. PICK g : Grows(g, live, name, h, e)
  BY <1>1, <1>4, <1>5, <1>9, GrownExists
<1>11. HoldsIn(with, g, e)
  BY <1>1, <1>4, <1>5, <1>9, <1>10, WithHolds
<1>12. g[w] = g[root]
  <2>1. Len(live) \in 1..Len(live)
    BY <1>4 DEF Rebuildable
  <2>2. g[w] <=> \A m \in 1..Len(live) : Says(live[m], h, e)
    BY <1>1, <1>4, <1>5, <1>9, <1>10, <2>1, OperandHolds
  <2>3. h[root] <=> \A q \in FoldP!Live : Says(conj[q], h, e)
    BY <1>1, <1>9, LiveSay
  <2>4. (\A m \in 1..Len(live) : Says(live[m], h, e)) <=> (\A q \in FoldP!Live : Says(conj[q], h, e))
    <3>1. ToSet(live) = {live[m] : m \in 1..Len(live)}
      BY <1>4 DEF ToSet, Rebuildable
    <3> QED BY <1>4, <3>1
  <2>5. g[root] = h[root]
    BY <1>1, <1>10 DEF Grows
  <2>6. g \in [DOMAIN with -> BOOLEAN]
    BY <1>11 DEF HoldsIn
  <2>7. g[w] \in BOOLEAN /\ g[root] \in BOOLEAN
    BY <1>1, <1>7, <2>6
  <2> QED BY <2>2, <2>3, <2>4, <2>5, <2>7
<1> HIDE DEF with, w, new
<1>13. HoldsIn(ops', Kept(g, {root}), e)
  <2>1. root \in DOMAIN with
    BY <1>1, <1>7
  <2> QED BY <1>7, <1>8, <1>11, <1>12, <2>1, ReplacedHolds
<1>14. Len(ret') = Len(ret) /\ \A k \in 1..Len(ret) : Kept(g, {root})[ret'[k]] = h[ret[k]]
  <2>1. ret \in Seq(DOMAIN with) /\ \A k \in 1..Len(ret) : ret[k] \in DOMAIN ops
    BY <1>1, <1>7 DEF Block
  <2>2. g \in [DOMAIN with -> BOOLEAN] /\ \A v \in DOMAIN ops : g[v] = h[v]
    BY <1>10, <1>11 DEF HoldsIn, Grows
  <2> DEFINE T == DOMAIN with
  <2>3. Alike(ReplaceAll(ret, root, w), Kept(g, {root}), ret, g)
    <3>1. ret \in Seq(T) /\ w \in T /\ w # root /\ g \in [T -> BOOLEAN] /\ g[w] = g[root]
      BY <1>7, <1>12, <2>1, <2>2
    <3> HIDE DEF T
    <3> QED BY <3>1, ReturnsReplaced
  <2> QED BY <1>8, <2>1, <2>2, <2>3 DEF Alike
<1>15. Block'
  BY <1>1, <1>2, <1>4, <1>5, RebuildBlock
<1> QED BY <1>1, <1>9, <1>13, <1>14, <1>15, SameVerdict

-----------------------------------------------------------------------------
(* Every verdict is kept, and while a fold runs its own account of them    *)
(* is.                                                                     *)
(* The verdicts of the function the pass was given, kept.                  *)
Same == \A e \in Env : Verdict(ops, ret, e) = Verdict(program.ops, program.ret, e)

VInv == IInv /\ Same /\ (InFold => FoldP!VerdictPreserved)

(* A step of the fold keeps its account, with exact division.              *)
LEMMA FoldVerdict ==
  ASSUME DivisionExact, FoldP!IInv, FoldP!VerdictPreserved,
         FoldP!FoldStep \/ FoldP!vars' = FoldP!vars
  PROVE  FoldP!VerdictPreserved'
<1>1. [FoldP!Next]_(FoldP!vars)
  BY DEF FoldP!Next
<1> QED BY <1>1, SameDivision, FoldAssumptions, FoldP!VerdictStep
           DEF FoldP!NumberAssumption, FoldP!DocumentAssumption, FoldP!TreesAssumption

(* Every step of the pass keeps the verdicts of the function it was given. *)
LEMMA VInvStep ==
  ASSUME DivisionExact, Value = Nat \ {0}, VInv, [Next]_vars
  PROVE  VInv'
<1>1. IInv /\ Same /\ (InFold => FoldP!VerdictPreserved)
  BY DEF VInv
<1>2. IInv'
  BY <1>1, NextIInv
<1>3. ASSUME program' = program, \A e \in Env : Verdict(ops', ret', e) = Verdict(ops, ret, e)
      PROVE  Same'
  <2>1. Env' = Env
    BY <1>3 DEF Env, Inputs, Args
  <2> QED BY <1>1, <1>3, <2>1 DEF Same
<1>4. ASSUME UNCHANGED ir PROVE Same'
  <2>1. program' = program /\ ops' = ops /\ ret' = ret
    BY <1>4 DEF ir
  <2> QED BY <1>3, <2>1
<1>5. ASSUME pc = "idle", NEW o \in worklist, Visit(o) PROVE VInv'
  <2>0. Block /\ Sound(ops) /\ o \in DOMAIN ops
    BY <1>1 DEF IInv, TypeOK
  <2>1. CASE StartFold(o)
    <3>1. Same'
      BY <1>4, <2>1 DEF StartFold
    <3>2. FoldP!VerdictPreserved'
      BY <1>1, <1>5, <2>1, StartFoldIInv
    <3> QED BY <1>2, <3>1, <3>2 DEF VInv
  <2>2. CASE EraseDead(o) \/ FoldAnd(o) \/ DropSubsumed(o) \/ Normalize(o) \/ NoMatch(o)
    <3>1. program' = program /\ pc' = pc
      BY <2>2 DEF EraseDead, FoldAnd, DropSubsumed, Normalize, NoMatch, ir
    <3>2. ASSUME NEW e \in Env PROVE Verdict(ops', ret', e) = Verdict(ops, ret, e)
      <4>1. CASE EraseDead(o)
        BY <2>0, <4>1, EraseDeadVerdict
      <4>2. CASE FoldAnd(o)
        BY <2>0, <4>2, FoldAndVerdict
      <4>3. CASE DropSubsumed(o)
        BY <2>0, <4>3, DropSubsumedVerdict, DivisionExact
      <4>4. CASE Normalize(o)
        BY <2>0, <4>4, NormalizeVerdict, DivisionExact
      <4>5. CASE NoMatch(o)
        BY <4>5 DEF NoMatch, ir
      <4> QED BY <2>2, <4>1, <4>2, <4>3, <4>4, <4>5
    <3>3. Same'
      BY <1>3, <3>1, <3>2
    <3>4. ~InFold'
      BY <1>5, <3>1 DEF InFold
    <3> QED BY <1>2, <3>3, <3>4 DEF VInv
  <2> QED BY <1>5, <2>1, <2>2 DEF Visit
<1>6. CASE SweepStep
  <2>1. UNCHANGED ir /\ FoldP!FoldStep
    BY <1>6, SameFold DEF SweepStep
  <2>2. InFold
    BY <2>1 DEF InFold, FoldP!FoldStep, FoldP!Classify, FoldP!Deduplicate, FoldP!StartSweep,
         FoldP!NextDst, FoldP!SkipSrc, FoldP!Absorb, FoldP!FinishSweep, FoldP!AtPair
  <2>3. FoldP!IInv /\ FoldP!VerdictPreserved
    BY <1>1, <2>2 DEF IInv, Folding
  <2>4. FoldP!VerdictPreserved'
    BY <2>1, <2>3, FoldVerdict, DivisionExact
  <2>5. Same'
    BY <1>4, <2>1
  <2> QED BY <1>2, <2>4, <2>5 DEF VInv
<1>7. CASE Rebuild
  <2>1. FoldP!VerdictPreserved
    BY <1>1, <1>7 DEF Rebuild, InFold
  <2>2. \A e \in Env : Verdict(ops', ret', e) = Verdict(ops, ret, e)
    BY <1>1, <1>7, <2>1, RebuildVerdict
  <2>3. program' = program /\ ~InFold'
    BY <1>7 DEF Rebuild, ResetFold, InFold
  <2>4. Same'
    BY <1>3, <2>2, <2>3
  <2> QED BY <1>2, <2>3, <2>4 DEF VInv
<1>8. CASE NothingRedundant \/ Converge \/ NextRound \/ GiveUp
  <2>1. UNCHANGED ir
    BY <1>8 DEF NothingRedundant, Converge, NextRound, GiveUp
  <2>2. ~InFold'
    BY <1>8 DEF NothingRedundant, ResetFold, Converge, NextRound, GiveUp, RoundOver, InFold
  <2>3. Same'
    BY <1>4, <2>1
  <2> QED BY <1>2, <2>2, <2>3 DEF VInv
<1>9. CASE UNCHANGED vars
  <2>1. /\ UNCHANGED <<program, ops, order, ret>>
        /\ UNCHANGED <<root, leaves, conj, next, i, j, changed, pc>>
    BY <1>9 DEF vars
  <2>2. Same'
    BY <1>4, <2>1 DEF ir
  <2>3. InFold' = InFold /\ Defs' = Defs
    BY <2>1 DEF InFold, Defs
  <2>4. FoldP!vars' = FoldP!vars
    BY <2>1, <2>3 DEF FoldP!vars
  <2>5. InFold => FoldP!VerdictPreserved'
    BY <1>1, <2>4, FoldVerdict, DivisionExact DEF IInv, Folding
  <2> QED BY <1>2, <2>2, <2>3, <2>5 DEF VInv
<1> QED BY <1>5, <1>6, <1>7, <1>8, <1>9 DEF Next

(* Every rewrite keeps every verdict of the function, on every document:   *)
(* when the driver comes back from a rewrite, when it converges and when   *)
(* it gives up, the function returns what it was given to return.  It      *)
(* takes that divisions are exact and that SSA names never run out.        *)
THEOREM CanonicalizerVerdictKept ==
  ASSUME DivisionExact, Value = Nat \ {0} PROVE Spec => []VerdictKept
<1>1. Init => VInv
  <2> SUFFICES ASSUME Init PROVE VInv
    OBVIOUS
  <2>1. Same /\ ~InFold
    BY DEF Init, Same, InFold
  <2> QED BY <2>1, InitIInv DEF VInv
<1>2. VInv /\ [Next]_vars => VInv'
  BY VInvStep, DivisionExact
<1>3. VInv => VerdictKept
  BY DEF VInv, Same, VerdictKept
<1> QED BY <1>1, <1>2, <1>3, PTL DEF Spec

-----------------------------------------------------------------------------
(* Normal form.  The tree under an andi: the andi operations that are      *)
(* looked through, each of which has the next one up as its only user.     *)

LEMMA BlockFinite ==
  ASSUME Block
  PROVE  IsFiniteSet(DOMAIN ops)
<1>1. Len(order) \in Nat /\ order \in [1..Len(order) -> DOMAIN ops]
  BY DEF Block, IsBlock
<1>2. \A v \in DOMAIN ops : \E n \in 1..Len(order) : order[n] = v
  BY <1>1 DEF Block, IsBlock, ToSet
<1>3. order \in Surjection(1..Len(order), DOMAIN ops)
  BY <1>1, <1>2 DEF Surjection
<1>4. IsFiniteSet(1..Len(order))
  BY <1>1, FS_Interval
<1> QED BY <1>3, <1>4, FS_Surjection

(* An andi and the single-use andis under its operands.                    *)
LEMMA AndisIs ==
  ASSUME Block
  PROVE  \A v \in DOMAIN ops :
           /\ Andis(v) \subseteq DOMAIN ops
           /\ Andis(v) = {v} \cup UNION {Andis(a) : a \in {b \in ToSet(ops[v].args) : Single(b)}}
<1> DEFINE D == DOMAIN ops
           T == SUBSET D
           Below(v) == {b \in ToSet(ops[v].args) : Single(b)}
           Step(f, v) == {v} \cup UNION {f[a] : a \in Below(v)}
           G == [p \in D \X [D -> T] |-> {p[1]} \cup UNION {p[2][a] : a \in Below(p[1])}]
<1>0. IsBlock(ops, order) /\ DefinedFirst(ops, order)
  BY DEF Block
<1>1. \A v \in D : Below(v) \subseteq D /\ Below(v) \subseteq ToSet(ops[v].args)
  BY <1>0, OperandsDefined
<1> HIDE DEF Below
<1>2. \A v \in D, f \in [D -> T] : G[<<v, f>>] = Step(f, v) /\ Step(f, v) \in T
  <2> SUFFICES ASSUME NEW v \in D, NEW f \in [D -> T]
               PROVE  G[<<v, f>>] = Step(f, v) /\ Step(f, v) \in T
    OBVIOUS
  <2>1. G[<<v, f>>] = Step(f, v)
    OBVIOUS
  <2>2. \A a \in Below(v) : f[a] \in T
    BY <1>1
  <2> QED BY <2>1, <2>2
<1>3. G \in [D \X [D -> T] -> T]
  BY <1>2
<1> HIDE DEF G
<1>4. FromOperands(G, D, ops, T)
  <2>1. ASSUME NEW v \in D, NEW g \in [D -> T], NEW h \in [D -> T],
               \A a \in ToSet(ops[v].args) : g[a] = h[a]
        PROVE  G[<<v, g>>] = G[<<v, h>>]
    <3>1. \A a \in Below(v) : g[a] = h[a]
      BY <1>1, <2>1
    <3>2. Step(g, v) = Step(h, v)
      BY <3>1
    <3> HIDE DEF Step
    <3> QED BY <1>2, <3>2
  <2>2. T # {}
    OBVIOUS
  <2> HIDE DEF D, T
  <2> QED BY <1>3, <2>1, <2>2 DEF FromOperands
<1>5. PICK f \in [D -> T] : Solves(f, G, D)
  <2> HIDE DEF T
  <2> QED BY <1>0, <1>4, BlockRecursion
<1> DEFINE Is(g) == g = [v \in D |-> Step(g, v)]
           under == CHOOSE g : Is(g)
<1>6. Is(f)
  BY <1>2, <1>5 DEF Solves
<1>7. \A v \in D : Andis(v) = under[v]
  BY DEF Andis, Single, Below
<1> HIDE DEF Is
<1>8. Is(under)
  BY <1>6
<1> HIDE DEF under
<1>9. \A v \in D : under[v] = Step(under, v)
  BY <1>8 DEF Is
<1>10. \A v \in D : Andis(v) = {v} \cup UNION {Andis(a) : a \in Below(v)}
  <2> SUFFICES ASSUME NEW v \in D PROVE Andis(v) = {v} \cup UNION {Andis(a) : a \in Below(v)}
    OBVIOUS
  <2>1. \A a \in Below(v) : Andis(a) = under[a]
    BY <1>1, <1>7
  <2>2. Andis(v) = Step(under, v)
    BY <1>7, <1>9
  <2> QED BY <2>1, <2>2
<1> DEFINE Q == {v \in D : Andis(v) \subseteq D}
<1>11. ASSUME NEW v \in D, ToSet(ops[v].args) \subseteq Q PROVE v \in Q
  <2>1. \A a \in Below(v) : Andis(a) \subseteq D
    BY <1>1, <1>11
  <2> QED BY <1>10, <2>1
<1> HIDE DEF Q
<1>12. D \subseteq Q
  BY <1>0, <1>11, BlockInduction
<1> QED BY <1>10, <1>12 DEF Q, Below

(* Precedence in a block is strict, and so is only ever of two values.     *)
LEMMA BeforeStrict ==
  ASSUME Block, NEW a, NEW b, Before(order, a, b)
  PROVE  a # b /\ ~Before(order, b, a)
<1>1. ASSUME NEW c, Before(order, c, c) PROVE FALSE
  <2>1. PICK m \in DOMAIN order, n \in DOMAIN order : m < n /\ order[m] = c /\ order[n] = c
    BY <1>1 DEF Before
  <2>2. m = n
    BY <2>1 DEF Block, IsBlock, IsInjective
  <2>3. m \in Nat
    BY DEF Block, IsBlock
  <2> QED BY <2>1, <2>2, <2>3
<1>2. ASSUME Before(order, b, a) PROVE FALSE
  <2>1. Before(order, a, a)
    BY <1>2, BeforeTransitive DEF Block
  <2> QED BY <1>1, <2>1
<1> QED BY <1>1, <1>2

(* What the members of such a tree have in common.                         *)
IsTree(v) ==
  /\ \A x \in Andis(v) :
       \/ x = v
       \/ Single(x) /\ Before(order, x, v) /\ \E u \in Andis(v) : x \in ToSet(ops[u].args)
  /\ \A u \in Andis(v) : \A y \in ToSet(ops[u].args) : Single(y) => y \in Andis(v)

LEMMA AndisShape ==
  ASSUME Block
  PROVE  \A v \in DOMAIN ops : IsTree(v)
<1> DEFINE D == DOMAIN ops
           Q == {v \in D : IsTree(v)}
<1>0. IsBlock(ops, order) /\ DefinedFirst(ops, order)
  BY DEF Block
<1>1. ASSUME NEW v \in D, ToSet(ops[v].args) \subseteq Q PROVE IsTree(v)
  <2> DEFINE B == {b \in ToSet(ops[v].args) : Single(b)}
  <2>1. /\ Andis(v) = {v} \cup UNION {Andis(a) : a \in B}
        /\ \A a \in B : IsTree(a) /\ a \in D /\ Single(a) /\ Before(order, a, v) /\ a \in Andis(a)
        /\ ToSet(ops[v].args) \subseteq D
    <3>1. Andis(v) = {v} \cup UNION {Andis(a) : a \in B}
      BY AndisIs
    <3>2. \A a \in B : IsTree(a) /\ a \in D /\ Single(a) /\ Before(order, a, v)
      BY <1>0, <1>1 DEF DefinedFirst
    <3>3. \A a \in B : a \in Andis(a)
      BY <3>2, AndisIs
    <3> QED BY <1>1, <3>1, <3>2, <3>3
  <2>2. ASSUME NEW x \in Andis(v), x # v
        PROVE  Single(x) /\ Before(order, x, v) /\ \E u \in Andis(v) : x \in ToSet(ops[u].args)
    <3>1. PICK a \in B : x \in Andis(a)
      BY <2>1, <2>2
    <3>2. CASE x = a
      BY <2>1, <3>1, <3>2
    <3>3. CASE x # a
      <4>1. PICK u \in Andis(a) : Single(x) /\ Before(order, x, a) /\ x \in ToSet(ops[u].args)
        BY <2>1, <3>1, <3>3 DEF IsTree
      <4>2. Before(order, x, v)
        BY <1>0, <2>1, <4>1, BeforeTransitive
      <4> QED BY <2>1, <4>1, <4>2
    <3> QED BY <3>2, <3>3
  <2>3. ASSUME NEW u \in Andis(v), NEW y \in ToSet(ops[u].args), Single(y) PROVE y \in Andis(v)
    <3>1. CASE u = v
      BY <2>1, <2>3, <3>1
    <3>2. CASE u # v
      <4>1. PICK a \in B : u \in Andis(a)
        BY <2>1, <3>2
      <4>2. y \in Andis(a)
        BY <2>1, <2>3, <4>1 DEF IsTree
      <4> QED BY <2>1, <4>2
    <3> QED BY <3>1, <3>2
  <2> QED BY <2>2, <2>3 DEF IsTree
<1> HIDE DEF Q
<1>2. D \subseteq Q
  <2>1. \A v \in D : ToSet(ops[v].args) \subseteq Q => v \in Q
    BY <1>1 DEF Q
  <2> QED BY <1>0, <2>1, BlockInduction
<1> QED BY <1>2 DEF Q

(* A value with one use has one user, and that uses it once.               *)
LEMMA OnlyUser ==
  ASSUME Block, NEW x, HasOneUse(x),
         NEW u \in DOMAIN ops, NEW k \in DOMAIN ops[u].args, ops[u].args[k] = x,
         NEW w \in DOMAIN ops, NEW m \in DOMAIN ops[w].args, ops[w].args[m] = x
  PROVE  u = w /\ k = m
<1>1. <<{u}, k>> \in Uses(x)
  <2>1. k \in Places(ops[u].args, x)
    BY DEF Places
  <2> QED BY <2>1 DEF Uses
<1>2. <<{w}, m>> \in Uses(x)
  <2>1. m \in Places(ops[w].args, x)
    BY DEF Places
  <2> QED BY <2>1 DEF Uses
<1>3. <<{u}, k>> = <<{w}, m>>
  BY <1>1, <1>2 DEF HasOneUse
<1> QED BY <1>3

(* The trees under the two operands of an andi have nothing in common: the *)
(* last operation in both would have its only user in both.                *)
LEMMA TreesApart ==
  ASSUME Block, NEW v \in DOMAIN ops, ops[v].op = "and",
         NEW l, l = ops[v].args[1], NEW r, r = ops[v].args[2], Single(l), Single(r)
  PROVE  Andis(l) \cap Andis(r) = {}
<1> DEFINE X == Andis(l) \cap Andis(r)
<1> SUFFICES ASSUME X # {} PROVE FALSE
  OBVIOUS
<1>0. /\ IsBlock(ops, order) /\ DefinedFirst(ops, order)
      /\ DOMAIN order = 1..Len(order) /\ Len(order) \in Nat
  BY DEF Block, IsBlock
<1>1. /\ l \in DOMAIN ops /\ r \in DOMAIN ops /\ 1 \in DOMAIN ops[v].args /\ 2 \in DOMAIN ops[v].args
      /\ HasOneUse(l) /\ HasOneUse(r) /\ l \in ToSet(ops[v].args) /\ r \in ToSet(ops[v].args)
      /\ Before(order, l, v) /\ Before(order, r, v)
  <2>1. /\ l \in DOMAIN ops /\ r \in DOMAIN ops /\ 1 \in DOMAIN ops[v].args /\ 2 \in DOMAIN ops[v].args
        /\ l \in ToSet(ops[v].args) /\ r \in ToSet(ops[v].args)
    BY AndOperands
  <2> QED BY <1>0, <2>1 DEF Single, DefinedFirst
<1>2. l # r
  <2> SUFFICES ASSUME l = r PROVE FALSE
    OBVIOUS
  <2>1. ASSUME NEW k \in DOMAIN ops[v].args, NEW m \in DOMAIN ops[v].args,
               ops[v].args[k] = l, ops[v].args[m] = l
        PROVE  k = m
    BY <1>1, <2>1, OnlyUser
  <2>2. 1 \in DOMAIN ops[v].args /\ 2 \in DOMAIN ops[v].args /\ ops[v].args[1] = l /\ ops[v].args[2] = l
    BY <1>1
  <2>3. 1 = 2
    BY <2>1, <2>2, Zenon
  <2> QED BY <2>3
<1>3. /\ Andis(l) \subseteq DOMAIN ops /\ Andis(r) \subseteq DOMAIN ops
      /\ IsTree(l) /\ IsTree(r)
  BY <1>1, AndisIs, AndisShape
<1>4. \A x, u, w : /\ HasOneUse(x) /\ u \in DOMAIN ops /\ w \in DOMAIN ops
                   /\ x \in ToSet(ops[u].args) /\ x \in ToSet(ops[w].args)
                   => u = w
  <2> SUFFICES ASSUME NEW x, NEW u \in DOMAIN ops, NEW w \in DOMAIN ops, HasOneUse(x),
                      x \in ToSet(ops[u].args), x \in ToSet(ops[w].args)
               PROVE  u = w
    OBVIOUS
  <2>1. PICK k \in DOMAIN ops[u].args : ops[u].args[k] = x
    BY DEF ToSet
  <2>2. PICK m \in DOMAIN ops[w].args : ops[w].args[m] = x
    BY DEF ToSet
  <2> QED BY <2>1, <2>2, OnlyUser
<1>5. ASSUME NEW a, NEW b, a \in {l, r}, b \in {l, r}, v \in Andis(a) PROVE FALSE
  <2>1. v = a \/ Before(order, v, a)
    BY <1>3, <1>5 DEF IsTree
  <2> QED BY <1>1, <1>5, <2>1, BeforeStrict
<1> DEFINE Rank == {m \in Nat : \E n \in DOMAIN order : order[n] \in X /\ m = Len(order) - n}
<1>6. Rank # {} /\ Rank \subseteq Nat
  <2>1. PICK x : x \in X
    OBVIOUS
  <2>2. PICK n \in DOMAIN order : order[n] = x
    BY <1>3, <2>1 DEF Block, IsBlock, ToSet
  <2>3. Len(order) - n \in Nat
    BY <1>0
  <2>4. Len(order) - n \in Rank
    BY <2>1, <2>2, <2>3
  <2> QED BY <2>4
<1>7. PICK m \in Rank : \A k \in Rank : m =< k
  <2> HIDE DEF Rank
  <2> QED BY <1>6, LeastNat
<1>8. PICK n \in DOMAIN order : order[n] \in X /\ m = Len(order) - n
  BY <1>7
<1> DEFINE x == order[n]
<1>9. ASSUME NEW u \in X, Before(order, x, u) PROVE FALSE
  <2>1. PICK p \in DOMAIN order, q \in DOMAIN order : p < q /\ order[p] = x /\ order[q] = u
    BY <1>9 DEF Before
  <2>2. p = n
    BY <2>1 DEF Block, IsBlock, IsInjective
  <2>3. Len(order) - q \in Nat
    BY <1>0
  <2>4. Len(order) - q \in Rank
    BY <2>1, <2>3
  <2> HIDE DEF Rank
  <2>5. Len(order) - n =< Len(order) - q
    BY <1>7, <1>8, <2>4
  <2> QED BY <1>0, <2>1, <2>2, <2>5
<1>10. x \in Andis(l) /\ x \in Andis(r) /\ x \in DOMAIN ops
  BY <1>3, <1>8
<1> HIDE DEF x, X, Rank
<1>11. CASE x # l /\ x # r
  <2>1. PICK u \in Andis(l) : Single(x) /\ x \in ToSet(ops[u].args)
    BY <1>3, <1>10, <1>11 DEF IsTree
  <2>2. PICK w \in Andis(r) : x \in ToSet(ops[w].args)
    BY <1>3, <1>10, <1>11 DEF IsTree
  <2>3. u = w /\ u \in DOMAIN ops
    BY <1>3, <1>4, <2>1, <2>2 DEF Single
  <2>4. Before(order, x, u)
    BY <1>0, <2>1, <2>3 DEF DefinedFirst
  <2> QED BY <1>9, <2>3, <2>4 DEF X
<1>12. CASE x = l
  <2>1. PICK w \in Andis(r) : l \in ToSet(ops[w].args)
    BY <1>2, <1>3, <1>10, <1>12 DEF IsTree
  <2>2. w = v
    BY <1>1, <1>3, <1>4, <2>1
  <2> QED BY <1>5, <2>1, <2>2
<1>13. CASE x = r
  <2>1. PICK w \in Andis(l) : r \in ToSet(ops[w].args)
    BY <1>2, <1>3, <1>10, <1>13 DEF IsTree
  <2>2. w = v
    BY <1>1, <1>3, <1>4, <2>1
  <2> QED BY <1>5, <2>1, <2>2
<1> QED BY <1>11, <1>12, <1>13

(* What is collected under a single-use andi: one leaf more than the tree  *)
(* has andis, and the leaves are the operands that are not in the tree.    *)
Lowest(v) == {y \in UNION {ToSet(ops[u].args) : u \in Andis(v)} : ~Single(y)}

Collected(v) ==
  Single(v) => /\ Len(CollectConjuncts(v)) = Cardinality(Andis(v)) + 1
               /\ ToSet(CollectConjuncts(v)) = Lowest(v)

LEMMA JoinedMembers ==
  ASSUME NEW S, NEW a \in Seq(S), NEW b \in Seq(S)
  PROVE  ToSet(a \o b) = ToSet(a) \cup ToSet(b)
<1> DEFINE c == a \o b
<1>1. /\ c \in Seq(S) /\ Len(c) = Len(a) + Len(b) /\ Len(a) \in Nat /\ Len(b) \in Nat
      /\ \A n \in 1..Len(a) : c[n] = a[n]
      /\ \A n \in 1..Len(b) : c[Len(a) + n] = b[n]
  BY Concat2
<1> HIDE DEF c
<1>2. ASSUME NEW y \in ToSet(c) PROVE y \in ToSet(a) \cup ToSet(b)
  <2>1. PICK n \in 1..Len(c) : c[n] = y
    <3>1. DOMAIN c = 1..Len(c)
      BY <1>1
    <3> QED BY <1>2, <3>1 DEF ToSet
  <2>2. CASE n =< Len(a)
    <3>1. n \in 1..Len(a) /\ a[n] = y
      BY <1>1, <2>1, <2>2
    <3> QED BY <3>1 DEF ToSet
  <2>3. CASE n > Len(a)
    <3> DEFINE m == n - Len(a)
    <3>1. m \in 1..Len(b) /\ n = Len(a) + m
      BY <1>1, <2>1, <2>3
    <3> HIDE DEF m
    <3>2. b[m] = y
      BY <1>1, <2>1, <3>1
    <3> QED BY <3>1, <3>2 DEF ToSet
  <2> QED BY <1>1, <2>1, <2>2, <2>3
<1>3. ASSUME NEW y \in ToSet(a) PROVE y \in ToSet(c)
  <2>1. PICK n \in 1..Len(a) : a[n] = y
    BY DEF ToSet
  <2>2. n \in 1..Len(c) /\ c[n] = y
    BY <1>1, <2>1
  <2>3. DOMAIN c = 1..Len(c)
    BY <1>1
  <2> QED BY <2>2, <2>3 DEF ToSet
<1>4. ASSUME NEW y \in ToSet(b) PROVE y \in ToSet(c)
  <2>1. PICK n \in 1..Len(b) : b[n] = y
    BY DEF ToSet
  <2>2. Len(a) + n \in 1..Len(c) /\ c[Len(a) + n] = y
    BY <1>1, <2>1
  <2>3. DOMAIN c = 1..Len(c)
    BY <1>1
  <2> QED BY <2>2, <2>3 DEF ToSet
<1> QED BY <1>2, <1>3, <1>4 DEF c

LEMMA TreeCollected ==
  ASSUME Block, NEW v \in DOMAIN ops, ops[v].op = "and",
         Collected(ops[v].args[1]), Collected(ops[v].args[2])
  PROVE  /\ Len(TreeLeaves(v)) = Cardinality(Andis(v)) + 1
         /\ ToSet(TreeLeaves(v)) = Lowest(v)
<1> DEFINE l == ops[v].args[1]
           r == ops[v].args[2]
           B(a) == IF Single(a) THEN Andis(a) ELSE {}
           F(a) == IF Single(a) THEN Lowest(a) ELSE {a}
<1>1. /\ ToSet(ops[v].args) = {l, r} /\ l \in DOMAIN ops /\ r \in DOMAIN ops
      /\ Before(order, l, v) /\ Before(order, r, v)
  <2>1. ToSet(ops[v].args) = {l, r} /\ l \in DOMAIN ops /\ r \in DOMAIN ops
    BY AndOperands
  <2> QED BY <2>1 DEF Block, DefinedFirst
<1>2. Andis(v) = {v} \cup (B(l) \cup B(r))
  <2>1. Andis(v) = {v} \cup UNION {Andis(a) : a \in {b \in ToSet(ops[v].args) : Single(b)}}
    BY AndisIs
  <2> QED BY <1>1, <2>1
<1>3. B(l) \cap B(r) = {}
  BY TreesApart
<1>4. ASSUME NEW a \in {l, r}
      PROVE  /\ IsFiniteSet(B(a)) /\ v \notin B(a)
             /\ Len(CollectConjuncts(a)) = Cardinality(B(a)) + 1
             /\ CollectConjuncts(a) \in Seq(DOMAIN ops)
             /\ ToSet(CollectConjuncts(a)) = F(a)
  <2>0. a \in DOMAIN ops /\ Collected(a) /\ Before(order, a, v)
    BY <1>1
  <2>1. CollectConjuncts(a) \in Seq(DOMAIN ops)
    BY <2>0, CollectIs
  <2>2. CASE Single(a)
    <3>1. IsFiniteSet(Andis(a))
      BY <2>0, AndisIs, BlockFinite, FS_Subset
    <3>2. v \notin Andis(a)
      <4> SUFFICES ASSUME v \in Andis(a) PROVE FALSE
        OBVIOUS
      <4>1. v = a \/ Before(order, v, a)
        BY <2>0, AndisShape DEF IsTree
      <4> QED BY <2>0, <4>1, BeforeStrict
    <3> QED BY <2>0, <2>1, <2>2, <3>1, <3>2 DEF Collected
  <2>3. CASE ~Single(a)
    <3>1. CollectConjuncts(a) = <<a>>
      BY <2>0, <2>3, CollectIs
    <3>2. Len(<<a>>) = 1 /\ ToSet(<<a>>) = {a}
      BY DEF ToSet
    <3>3. Cardinality({}) = 0 /\ IsFiniteSet({})
      BY FS_EmptySet
    <3> QED BY <2>1, <2>3, <3>1, <3>2, <3>3
  <2> QED BY <2>2, <2>3
<1>5. Lowest(v) = F(l) \cup F(r)
  <2>1. ASSUME NEW y \in Lowest(v) PROVE y \in F(l) \cup F(r)
    <3>1. PICK u \in Andis(v) : y \in ToSet(ops[u].args) /\ ~Single(y)
      BY DEF Lowest
    <3>2. CASE u = v
      BY <1>1, <3>1, <3>2
    <3>3. ASSUME NEW a \in {l, r}, u \in B(a) PROVE y \in F(l) \cup F(r)
      BY <3>1, <3>3 DEF Lowest
    <3> QED BY <1>2, <3>1, <3>2, <3>3
  <2>2. ASSUME NEW a \in {l, r}, NEW y \in F(a) PROVE y \in Lowest(v)
    <3>1. CASE Single(a)
      <4>1. PICK u \in Andis(a) : y \in ToSet(ops[u].args) /\ ~Single(y)
        BY <2>2, <3>1 DEF Lowest
      <4>2. u \in Andis(v)
        BY <1>2, <2>2, <3>1, <4>1
      <4> QED BY <4>1, <4>2 DEF Lowest
    <3>2. CASE ~Single(a)
      <4>1. y = a /\ v \in Andis(v) /\ a \in ToSet(ops[v].args)
        BY <1>1, <1>2, <2>2, <3>2
      <4> QED BY <3>2, <4>1 DEF Lowest
    <3> QED BY <3>1, <3>2
  <2> QED BY <2>1, <2>2
<1> DEFINE cl == CollectConjuncts(l)
           cr == CollectConjuncts(r)
           bl == B(l)
           br == B(r)
<1>6. /\ cl \in Seq(DOMAIN ops) /\ cr \in Seq(DOMAIN ops) /\ TreeLeaves(v) = cl \o cr
      /\ Len(cl) = Cardinality(bl) + 1 /\ Len(cr) = Cardinality(br) + 1
      /\ ToSet(cl) = F(l) /\ ToSet(cr) = F(r)
      /\ IsFiniteSet(bl) /\ IsFiniteSet(br) /\ v \notin bl \cup br /\ bl \cap br = {}
      /\ Andis(v) = (bl \cup br) \cup {v}
  BY <1>2, <1>3, <1>4 DEF TreeLeaves
<1> HIDE DEF l, r, B, F, cl, cr, bl, br
<1>7. IsFiniteSet(bl \cup br) /\ Cardinality(bl \cup br) = Cardinality(bl) + Cardinality(br)
  <2>1. /\ IsFiniteSet(bl \cup br)
        /\ Cardinality(bl \cup br) = Cardinality(bl) + Cardinality(br) - Cardinality(bl \cap br)
    BY <1>6, FS_Union
  <2>2. Cardinality(bl \cap br) = 0
    BY <1>6, FS_EmptySet
  <2>3. Cardinality(bl) \in Nat /\ Cardinality(br) \in Nat
    BY <1>6, FS_CardinalityType
  <2> QED BY <2>1, <2>2, <2>3
<1>8. Cardinality(Andis(v)) = Cardinality(bl) + Cardinality(br) + 1
  BY <1>6, <1>7, FS_AddElement
<1>9. Len(TreeLeaves(v)) = Len(cl) + Len(cr)
  <2>1. cl \in Seq(DOMAIN ops) /\ cr \in Seq(DOMAIN ops) /\ TreeLeaves(v) = cl \o cr
    BY <1>6
  <2>2. Len(cl \o cr) = Len(cl) + Len(cr)
    BY <2>1, Concat2
  <2> QED BY <2>1, <2>2
<1>10. ToSet(TreeLeaves(v)) = ToSet(cl) \cup ToSet(cr)
  BY <1>6, JoinedMembers
<1>11. Cardinality(bl) \in Nat /\ Cardinality(br) \in Nat
  BY <1>6, FS_CardinalityType
<1> QED BY <1>5, <1>6, <1>8, <1>9, <1>10, <1>11

(* The leaves a fold starts from are the leaves of the conjunction.        *)
LEMMA LeavesCounted ==
  ASSUME Block, NEW v \in DOMAIN ops, ops[v].op = "and"
  PROVE  /\ Len(TreeLeaves(v)) = Cardinality(Andis(v)) + 1
         /\ ToSet(TreeLeaves(v)) = Leaves(v)
<1> DEFINE Q == {w \in DOMAIN ops : Collected(w)}
<1>1. ASSUME NEW w \in DOMAIN ops, ToSet(ops[w].args) \subseteq Q PROVE w \in Q
  <2> SUFFICES ASSUME Single(w) PROVE Collected(w)
    BY DEF Collected
  <2>1. CollectConjuncts(w) = TreeLeaves(w)
    BY CollectIs
  <2>2. ops[w].op = "and" /\ Collected(ops[w].args[1]) /\ Collected(ops[w].args[2])
    BY <1>1, AndOperands DEF Single
  <2> QED BY <2>1, <2>2, TreeCollected DEF Collected
<1>2. DOMAIN ops \subseteq Q
  <2> HIDE DEF Q
  <2> QED BY <1>1, BlockInduction DEF Block
<1>3. Collected(ops[v].args[1]) /\ Collected(ops[v].args[2])
  BY <1>2, AndOperands
<1>4. /\ Len(TreeLeaves(v)) = Cardinality(Andis(v)) + 1
      /\ ToSet(TreeLeaves(v)) = Lowest(v)
  BY <1>3, TreeCollected
<1>5. Lowest(v) = Leaves(v)
  <2>0. IsTree(v) /\ Andis(v) \subseteq DOMAIN ops
    BY AndisShape, AndisIs
  <2>1. ASSUME NEW u \in Andis(v), NEW y \in ToSet(ops[u].args), y \in Andis(v), ~Single(y)
        PROVE  FALSE
    <3>1. y = v
      BY <2>0, <2>1 DEF IsTree
    <3>2. Before(order, v, u) /\ (u = v \/ Before(order, u, v))
      BY <2>0, <2>1, <3>1 DEF IsTree, Block, DefinedFirst
    <3> QED BY <3>2, BeforeStrict
  <2>2. \A u \in Andis(v) : \A y \in ToSet(ops[u].args) : Single(y) => y \in Andis(v)
    BY <2>0 DEF IsTree
  <2> QED BY <2>1, <2>2 DEF Lowest, Leaves
<1> QED BY <1>4, <1>5

(* The fold's own account of a tree it has left alone, inside the pass.    *)
LEMMA FreshLeavesAlone == FoldP!Fresh => FoldP!Untouched
BY FoldAssumptions, FoldP!FreshUntouched
   DEF FoldP!NumberAssumption, FoldP!DocumentAssumption, FoldP!TreesAssumption

LEMMA FreshLeavesAloneNext == FoldP!Fresh' => FoldP!Untouched'
BY FreshLeavesAlone, PTL

LEMMA FoldLeavesAlone ==
  ASSUME FoldP!IInv, FoldP!Untouched, FoldP!FoldStep \/ FoldP!vars' = FoldP!vars
  PROVE  FoldP!Untouched'
<1>1. [FoldP!Next]_(FoldP!vars)
  BY DEF FoldP!Next
<1> QED BY <1>1, FoldAssumptions, FoldP!UntouchedStep
           DEF FoldP!NumberAssumption, FoldP!DocumentAssumption, FoldP!TreesAssumption

LEMMA SameMeet == \A a, b : Meet(a, b) = FoldP!Meet(a, b)
BY DEF Meet, FoldP!Meet, StringMeet, FoldP!StringMeet, NumberMeet, FoldP!NumberMeet,
       Compatible, FoldP!Compatible, TightestLower, FoldP!TightestLower,
       TightestUpper, FoldP!TightestUpper, DivisorMeet, FoldP!DivisorMeet,
       IsIntegralMultipleOf, FoldP!IsIntegralMultipleOf,
       LowerAtLeastAsStrict, FoldP!LowerAtLeastAsStrict,
       UpperAtLeastAsStrict, FoldP!UpperAtLeastAsStrict

(* What the driver has looked at without a match: it is in use; when it is *)
(* the root of a conjunction, the leaves of that are distinct and no two   *)
(* of them have a meet; and no operand of a struct has to give way.        *)
Settled(o) ==
  \A k, l \in 1..Len(TreeLeaves(o)) : k # l =>
    /\ TreeLeaves(o)[k] # TreeLeaves(o)[l]
    /\ ~Mergeable(TreeLeaves(o)[k], TreeLeaves(o)[l])

Quiet(o) ==
  /\ ~Dead(o)
  /\ ops[o].op = "and" => Interior(o) \/ Settled(o)
  /\ ops[o].op = "struct" => Updated(ops[o].args) = ops[o].args

(* All of this is read off the operations and what the function returns.   *)
LEMMA SameTrees ==
  ASSUME ops' = ops, ret' = ret
  PROVE  /\ \A v : CollectConjuncts(v)' = CollectConjuncts(v)
         /\ \A o : TreeLeaves(o)' = TreeLeaves(o)
<1>1. \A v : CollectConjuncts(v)' = CollectConjuncts(v)
  BY DEF CollectConjuncts, HasOneUse, Uses, Places
<1>2. \A o : TreeLeaves(o)' = TreeLeaves(o)
  BY <1>1 DEF TreeLeaves
<1> QED BY <1>1, <1>2

LEMMA SameQuiet ==
  ASSUME ops' = ops, ret' = ret, NEW o
  PROVE  Quiet(o)' = Quiet(o)
<1>1. Dead(o)' = Dead(o) /\ Interior(o)' = Interior(o)
  BY DEF Dead, Interior, Unused, Users
<1>2. Settled(o)' = Settled(o)
  <2>1. TreeLeaves(o)' = TreeLeaves(o)
    BY SameTrees
  <2>2. ops' = ops
    OBVIOUS
  <2> QED BY <2>1, <2>2 DEF Settled, Mergeable
<1>3. \A s : Updated(s)' = Updated(s)
  BY DEF Updated, StrongerValue
<1> QED BY <1>1, <1>2, <1>3 DEF Quiet

(* A fold that ends without a change has found its tree settled.           *)
LEMMA NothingToFoldSettles ==
  ASSUME IInv, pc = "done", ~changed, leaves = TreeLeaves(root), FoldP!Untouched
  PROVE  Settled(root)
<1>1. Folding /\ Block
  BY DEF IInv, InFold
<1>2. /\ FoldP!IInv /\ FoldP!Placed
      /\ leaves \in Seq(DOMAIN ops) /\ DOMAIN ops \subseteq Value
  BY <1>1 DEF Folding, Gathered, Block, IsBlock
<1>3. \A k, l \in 1..Len(leaves) : k # l =>
        /\ leaves[k] # leaves[l]
        /\ Defs[leaves[k]].input = Defs[leaves[l]].input =>
             \A a \in Defs[leaves[k]].lat, b \in Defs[leaves[l]].lat : FoldP!Meet(a, b) = {}
  BY <1>2, FoldAssumptions, FoldP!NothingToFold
     DEF FoldP!NumberAssumption, FoldP!DocumentAssumption, FoldP!TreesAssumption
<1>4. ASSUME NEW k \in 1..Len(leaves), NEW l \in 1..Len(leaves), k # l,
             Mergeable(leaves[k], leaves[l])
      PROVE  FALSE
  <2>1. leaves[k] \in DOMAIN ops /\ leaves[l] \in DOMAIN ops
    BY <1>2
  <2>2. ops[leaves[k]].op = "validate" /\ ops[leaves[l]].op = "validate"
    BY <1>4 DEF Mergeable
  <2>3. /\ Defs[leaves[k]] = [input |-> ops[leaves[k]].input, lat |-> ops[leaves[k]].lat]
        /\ Defs[leaves[l]] = [input |-> ops[leaves[l]].input, lat |-> ops[leaves[l]].lat]
    BY <1>2, <2>1, <2>2 DEF Defs
  <2>4. PICK a \in ops[leaves[k]].lat, b \in ops[leaves[l]].lat : Meet(a, b) # {}
    BY <1>4 DEF Mergeable
  <2>5. FoldP!Meet(a, b) # {} /\ ops[leaves[k]].input = ops[leaves[l]].input
    BY <1>4, <2>4, SameMeet DEF Mergeable
  <2>6. /\ Defs[leaves[k]].input = Defs[leaves[l]].input
        /\ a \in Defs[leaves[k]].lat /\ b \in Defs[leaves[l]].lat
    BY <2>3, <2>5
  <2>7. FoldP!Meet(a, b) = {}
    BY <1>3, <1>4, <2>6
  <2> QED BY <2>5, <2>7
<1> QED BY <1>3, <1>4 DEF Settled

(* The invariant: in a round that has rewritten nothing, every operation   *)
(* the driver has looked at is quiet, but for the root of a running fold;  *)
(* and that fold has found nothing yet.                                    *)
NInv ==
  /\ IInv
  /\ InFold => leaves = TreeLeaves(root) /\ ~Dead(root) /\ FoldP!Untouched
  /\ ~rewritten => \A o \in DOMAIN ops \ worklist : Quiet(o) \/ (InFold /\ o = root)
  /\ pc = "converged" => ~rewritten /\ worklist = {}

(* A rewrite starts the account of the round again.                        *)
LEMMA RewriteNInv ==
  ASSUME IInv', ~InFold', pc' # "converged", rewritten' = TRUE
  PROVE  NInv'
BY DEF NInv

(* A fold that starts has the leaves of its root before it.                *)
LEMMA StartFoldNInv ==
  ASSUME NInv, IInv', pc = "idle", NEW o \in worklist, StartFold(o)
  PROVE  NInv'
<1>1. /\ ops' = ops /\ ret' = ret /\ rewritten' = rewritten
      /\ UNCHANGED <<conj, next, i, j, changed>>
      /\ pc' = "classify" /\ root' = o /\ worklist' = worklist \ {o}
      /\ leaves' = TreeLeaves(o) /\ ~Dead(o)
  BY DEF StartFold, Tries, ir, TreeLeaves
<1>2. InFold' /\ ~InFold
  BY <1>1 DEF InFold
<1>3. FoldP!Fresh'
  <2>1. /\ conj' = <<>> /\ next' = 1 /\ i' = 1 /\ j' = 2 /\ changed' = FALSE
    BY <1>1, <1>2 DEF NInv, IInv, FoldReset
  <2>2. (Folding /\ Block)'
    BY <1>2 DEF IInv
  <2>3. (FoldP!IInv /\ FoldP!TypeOK)'
    BY <2>2 DEF Folding, FoldP!IInv
  <2> QED BY <1>1, <2>1, <2>3 DEF FoldP!Fresh, FoldP!IInv, FoldP!TypeOK
<1>4. FoldP!Untouched'
  BY <1>3, FreshLeavesAloneNext
<1>5. TreeLeaves(root)' = TreeLeaves(o)
  <2>1. ops' = ops /\ ret' = ret /\ root' = o
    BY <1>1
  <2> QED BY <2>1 DEF TreeLeaves, CollectConjuncts, HasOneUse, Uses, Places
<1>6. ~Dead(root)'
  BY <1>1 DEF Dead, Unused, Users
<1>7. ~rewritten' => \A v \in (DOMAIN ops \ worklist)' : Quiet(v)' \/ v = root'
  <2> SUFFICES ASSUME ~rewritten', NEW v \in DOMAIN ops \ worklist', v # o
               PROVE  Quiet(v)'
    BY <1>1
  <2>1. Quiet(v)
    BY <1>1, <1>2 DEF NInv
  <2> QED BY <1>1, <2>1, SameQuiet
<1> QED BY <1>1, <1>2, <1>4, <1>5, <1>6, <1>7 DEF NInv

(* A step of the fold leaves the function and the worklist alone.          *)
LEMMA SweepStepNInv ==
  ASSUME NInv, IInv', SweepStep
  PROVE  NInv'
<1>1. /\ ops' = ops /\ ret' = ret /\ root' = root
      /\ worklist' = worklist /\ rewritten' = rewritten /\ FoldP!FoldStep
  BY SameFold DEF SweepStep, ir, driver
<1>2. leaves' = leaves /\ InFold /\ InFold' /\ pc' # "converged"
  BY <1>1 DEF InFold, FoldP!FoldStep, FoldP!Classify, FoldP!Deduplicate, FoldP!StartSweep,
         FoldP!NextDst, FoldP!SkipSrc, FoldP!Absorb, FoldP!FinishSweep, FoldP!AtPair, FoldP!tree
<1>3. leaves = TreeLeaves(root) /\ ~Dead(root) /\ FoldP!Untouched /\ FoldP!IInv
  BY <1>2 DEF NInv, IInv, Folding
<1>4. FoldP!Untouched'
  BY <1>1, <1>3, FoldLeavesAlone
<1>5. TreeLeaves(root)' = TreeLeaves(root) /\ Dead(root)' = Dead(root)
  <2>1. ops' = ops /\ ret' = ret /\ root' = root
    BY <1>1
  <2> QED BY <2>1 DEF TreeLeaves, CollectConjuncts, HasOneUse, Uses, Places, Dead, Unused, Users
<1>6. ~rewritten' => \A v \in (DOMAIN ops \ worklist)' : Quiet(v)' \/ v = root'
  <2> SUFFICES ASSUME ~rewritten', NEW v \in DOMAIN ops \ worklist
               PROVE  Quiet(v)' \/ v = root
    BY <1>1
  <2>1. Quiet(v) \/ v = root
    BY <1>1 DEF NInv
  <2> QED BY <1>1, <2>1, SameQuiet
<1> QED BY <1>2, <1>3, <1>4, <1>5, <1>6 DEF NInv

(* The steps that leave the function alone and are not the fold's: what    *)
(* leaves the worklist is quiet, and so is the root of a fold that ends    *)
(* without a change.                                                       *)
LEMMA DriverNInv ==
  ASSUME NInv, IInv', UNCHANGED ir,
         \/ pc = "idle" /\ \E o \in worklist : NoMatch(o)
         \/ NothingRedundant \/ Converge \/ NextRound \/ GiveUp
  PROVE  NInv'
<1>1. ops' = ops /\ ret' = ret /\ \A o : Quiet(o)' = Quiet(o)
  <2>1. ops' = ops /\ ret' = ret
    BY DEF ir
  <2> QED BY <2>1, SameQuiet
<1>2. /\ IInv /\ (InFold => leaves = TreeLeaves(root) /\ ~Dead(root) /\ FoldP!Untouched)
      /\ ~rewritten => \A o \in DOMAIN ops \ worklist : Quiet(o) \/ (InFold /\ o = root)
  BY DEF NInv
<1>3. CASE pc = "idle" /\ \E o \in worklist : NoMatch(o)
  <2>1. PICK o \in worklist : NoMatch(o)
    BY <1>3
  <2>2. Quiet(o)
    BY <2>1 DEF NoMatch, Quiet
  <2>3. /\ worklist' = worklist \ {o} /\ rewritten' = rewritten /\ pc' = pc
        /\ pc = "idle" /\ ~InFold /\ ~InFold'
    BY <1>3, <2>1 DEF NoMatch, InFold
  <2>4. ~rewritten' => \A v \in DOMAIN ops' \ worklist' : Quiet(v)'
    BY <1>1, <1>2, <2>2, <2>3
  <2> QED BY <2>3, <2>4 DEF NInv
<1>4. CASE NothingRedundant
  <2>1. /\ pc = "done" /\ ~changed /\ pc' = "idle" /\ InFold /\ ~InFold'
        /\ worklist' = worklist /\ rewritten' = rewritten
    BY <1>4 DEF NothingRedundant, ResetFold, driver, InFold
  <2>2. Quiet(root)
    <3>1. Settled(root) /\ ~Dead(root)
      BY <1>2, <2>1, NothingToFoldSettles
    <3>2. ops[root].op = "and"
      BY <1>2, <2>1 DEF IInv, Folding
    <3> QED BY <3>1, <3>2 DEF Quiet
  <2>3. ~rewritten' => \A v \in DOMAIN ops' \ worklist' : Quiet(v)'
    BY <1>1, <1>2, <2>1, <2>2
  <2> QED BY <2>1, <2>3 DEF NInv
<1>5. CASE Converge
  <2>1. /\ pc' = "converged" /\ pc = "idle" /\ ~InFold /\ ~InFold' /\ ~rewritten
        /\ worklist = {} /\ worklist' = worklist /\ rewritten' = rewritten
    BY <1>5 DEF Converge, RoundOver, driver, InFold
  <2>2. \A v \in DOMAIN ops' \ worklist' : Quiet(v)'
    BY <1>1, <1>2, <2>1
  <2> QED BY <2>1, <2>2 DEF NInv
<1>6. CASE NextRound
  <2>1. worklist' = DOMAIN ops /\ pc' = pc /\ pc = "idle" /\ ~InFold'
    BY <1>6 DEF NextRound, RoundOver, InFold
  <2> QED BY <1>1, <2>1 DEF NInv
<1>7. CASE GiveUp
  <2>1. rewritten /\ rewritten' = rewritten /\ pc' = "failed" /\ ~InFold'
    BY <1>7 DEF GiveUp, driver, InFold
  <2> QED BY <2>1 DEF NInv
<1> QED BY <1>3, <1>4, <1>5, <1>6, <1>7

LEMMA NextNInv ==
  ASSUME Value = Nat \ {0}, NInv, [Next]_vars
  PROVE  NInv'
<1>1. IInv /\ IInv'
  BY NextIInv DEF NInv
<1>2. ASSUME pc = "idle", NEW o \in worklist, Visit(o) PROVE NInv'
  <2>1. CASE EraseDead(o) \/ FoldAnd(o) \/ DropSubsumed(o) \/ Normalize(o)
    <3>1. rewritten' = TRUE /\ pc' = pc
      BY <2>1 DEF EraseDead, FoldAnd, DropSubsumed, Normalize, Requeue
    <3> QED BY <1>1, <1>2, <3>1, RewriteNInv DEF InFold
  <2>2. CASE StartFold(o)
    BY <1>1, <1>2, <2>2, StartFoldNInv
  <2>3. CASE NoMatch(o)
    <3>1. UNCHANGED ir
      BY <2>3 DEF NoMatch
    <3> QED BY <1>1, <1>2, <2>3, <3>1, DriverNInv
  <2> QED BY <1>2, <2>1, <2>2, <2>3 DEF Visit
<1>3. CASE SweepStep
  BY <1>1, <1>3, SweepStepNInv
<1>4. CASE Rebuild
  <2>1. rewritten' = TRUE /\ pc' = "idle"
    BY <1>4 DEF Rebuild, RebuildFrom, Requeue, ResetFold
  <2> QED BY <1>1, <2>1, RewriteNInv DEF InFold
<1>5. CASE NothingRedundant \/ Converge \/ NextRound \/ GiveUp
  <2>1. UNCHANGED ir
    BY <1>5 DEF NothingRedundant, Converge, NextRound, GiveUp
  <2> QED BY <1>1, <1>5, <2>1, DriverNInv
<1>6. CASE UNCHANGED vars
  <2>1. /\ UNCHANGED <<ops, order, ret, worklist, rewritten>>
        /\ UNCHANGED <<root, leaves, conj, next, i, j, changed, pc>>
    BY <1>6 DEF vars
  <2>2. Defs' = Defs /\ InFold' = InFold
    BY <2>1 DEF Defs, InFold
  <2>3. FoldP!vars' = FoldP!vars
    BY <2>1, <2>2 DEF FoldP!vars
  <2>4. InFold => FoldP!Untouched'
    BY <1>1, <2>3, FoldLeavesAlone DEF NInv, IInv, Folding
  <2>5. TreeLeaves(root)' = TreeLeaves(root) /\ Dead(root)' = Dead(root)
    <3>1. ops' = ops /\ ret' = ret /\ root' = root
      BY <2>1
    <3> QED BY <3>1 DEF TreeLeaves, CollectConjuncts, HasOneUse, Uses, Places, Dead, Unused, Users
  <2>6. \A v : Quiet(v)' = Quiet(v)
    BY <2>1, SameQuiet
  <2> QED BY <1>1, <2>1, <2>2, <2>4, <2>5, <2>6 DEF NInv
<1> QED BY <1>2, <1>3, <1>4, <1>5, <1>6 DEF Next

(* What is quiet is in normal form.                                        *)
LEMMA QuietNormal ==
  ASSUME Block, NEW v \in DOMAIN ops, Quiet(v)
  PROVE  /\ ops[v].op # "arg" => Users(ops, v) # {} \/ v \in ToSet(ret)
         /\ ops[v].op = "and" /\ (\A u \in Users(ops, v) : ops[u].op # "and") =>
              /\ Cardinality(Leaves(v)) = Cardinality(Andis(v)) + 1
              /\ \A l, m \in Leaves(v) : ~Mergeable(l, m)
         /\ ops[v].op = "struct" =>
              \A s, w \in ToSet(ops[v].args) :
                Mergeable(s, w) => \A a \in ops[s].lat, b \in ops[w].lat : ~StrictlyStronger(a, b)
<1>1. ops[v].op # "arg" => Users(ops, v) # {} \/ v \in ToSet(ret)
  BY DEF Quiet, Dead, Unused
<1>2. ASSUME ops[v].op = "and", \A u \in Users(ops, v) : ops[u].op # "and"
      PROVE  /\ Cardinality(Leaves(v)) = Cardinality(Andis(v)) + 1
             /\ \A l, m \in Leaves(v) : ~Mergeable(l, m)
  <2> DEFINE t == TreeLeaves(v)
  <2>1. Settled(v)
    BY <1>2 DEF Quiet, Interior
  <2>2. Gathered(t, v)
    BY <1>2, LeavesShape DEF TreeLeaves
  <2>3. Len(t) = Cardinality(Andis(v)) + 1 /\ ToSet(t) = Leaves(v)
    BY <1>2, LeavesCounted
  <2>4. \A k, l \in 1..Len(t) : k # l => t[k] # t[l] /\ ~Mergeable(t[k], t[l])
    BY <2>1 DEF Settled
  <2> HIDE DEF t
  <2>5. t \in Seq(DOMAIN ops) /\ Len(t) \in Nat /\ DOMAIN t = 1..Len(t)
    BY <2>2 DEF Gathered
  <2>6. Cardinality(ToSet(t)) = Len(t)
    <3>1. t \in [1..Len(t) -> ToSet(t)] /\ \A x \in ToSet(t) : \E k \in 1..Len(t) : t[k] = x
      BY <2>5 DEF ToSet
    <3>2. t \in Bijection(1..Len(t), ToSet(t))
      BY <2>4, <3>1 DEF Bijection, Injection, Surjection, IsInjective
    <3>3. ExistsBijection(1..Len(t), ToSet(t))
      BY <3>2 DEF ExistsBijection
    <3> QED BY <2>5, <3>3, FS_CountingElements
  <2>7. ASSUME NEW l \in ToSet(t), NEW m \in ToSet(t), Mergeable(l, m) PROVE FALSE
    <3>1. PICK p \in 1..Len(t), q \in 1..Len(t) : l = t[p] /\ m = t[q]
      BY <2>5 DEF ToSet
    <3>2. p # q
      BY <2>7, <3>1 DEF Mergeable
    <3> QED BY <2>4, <2>7, <3>1, <3>2
  <2> QED BY <2>3, <2>6, <2>7
<1>3. ASSUME ops[v].op = "struct", NEW s \in ToSet(ops[v].args), NEW w \in ToSet(ops[v].args),
             Mergeable(s, w), NEW a \in ops[s].lat, NEW b \in ops[w].lat, StrictlyStronger(a, b)
      PROVE  FALSE
  <2> DEFINE t == ops[v].args
  <2>1. t \in Seq(DOMAIN ops) /\ DOMAIN t = 1..Len(t)
    BY OperandsDefined DEF Block
  <2>2. Updated(t) = t
    BY <1>3 DEF Quiet
  <2>3. s \in ToSet(t) /\ w \in ToSet(t)
    BY <1>3
  <2> HIDE DEF t
  <2>4. PICK l \in 1..Len(t), k \in 1..Len(t) : s = t[l] /\ w = t[k]
    BY <2>1, <2>3 DEF ToSet
  <2>5. StrongerValue(s, w) /\ s # w
    BY <1>3 DEF Mergeable, StrongerValue
  <2> QED BY <2>1, <2>2, <2>4, <2>5, UpdatedSame
<1> QED BY <1>1, <1>2, <1>3

(* A converged function is in normal form, whatever the function and       *)
(* whatever the order in which the driver looked at its operations: the    *)
(* leaves of every conjunction are distinct and no two of them have a      *)
(* meet, no operand of a struct is strictly weaker than another, and       *)
(* nothing dead is left.  That it converges is not part of it.             *)
THEOREM CanonicalizerNormalForm ==
  ASSUME Value = Nat \ {0} PROVE Spec => []NormalForm
<1>1. Init => NInv
  <2> SUFFICES ASSUME Init PROVE NInv
    OBVIOUS
  <2>1. ~InFold /\ worklist = DOMAIN ops /\ pc = "idle"
    BY DEF Init, InFold
  <2> QED BY <2>1, InitIInv DEF NInv
<1>2. NInv /\ [Next]_vars => NInv'
  BY NextNInv
<1>3. NInv => NormalForm
  <2> SUFFICES ASSUME NInv, pc = "converged" PROVE NormalForm
    BY DEF NormalForm
  <2>1. Block /\ \A v \in DOMAIN ops : Quiet(v)
    BY DEF NInv, IInv, InFold
  <2> QED BY <2>1, QuietNormal DEF NormalForm
<1> QED BY <1>1, <1>2, <1>3, PTL DEF Spec

=============================================================================
