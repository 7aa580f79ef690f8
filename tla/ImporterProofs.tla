--------------------------- MODULE ImporterProofs ---------------------------
(***************************************************************************)
(* Theorems about the importer, for every set of parsed schemas: what it   *)
(* makes of one is a tree (ImporterTreeShaped), the verifier refuses none  *)
(* of it that no error was reported for (ImporterDiagnosedFirst), and its  *)
(* operations share an argument exactly when they belong to one place of   *)
(* the instance (ImporterOneArgumentPerPlace).  An error about types is    *)
(* justified (ImporterContradictionReal, ImporterNeedsTypeReal), and the   *)
(* function of an import without errors decides the schema                 *)
(* (ImporterDecidesSchema).                                                *)
(***************************************************************************)
EXTENDS Importer, DataLemmas

-----------------------------------------------------------------------------
(* Who holds an operation.  A[w] are the operands of operation w of N, B[f]*)
(* the operations the call f of M will use; each operation but r has one   *)
(* holder and r has none.                                                  *)

Held(v, A, B, N, M) == (\E w \in 1..N : v \in A[w]) \/ (\E f \in 1..M : v \in B[f])

OneHolder(A, B, r, N, M) ==
  /\ N \in Nat /\ M \in Nat
  /\ \A w \in 1..N : A[w] \subseteq 1..w - 1
  /\ \A f \in 1..M : B[f] \subseteq 1..N
  /\ \A w, x \in 1..N : w # x => A[w] \cap A[x] = {}
  /\ \A f, g \in 1..M : f # g => B[f] \cap B[g] = {}
  /\ \A w \in 1..N, f \in 1..M : A[w] \cap B[f] = {}
  /\ \A v \in 1..N : v # r <=> Held(v, A, B, N, M)

(* A new operation takes some of what the innermost call holds, and that   *)
(* call holds it instead.                                                  *)
Takes(C, D, A, B, taken, N, M) ==
  /\ \A w \in 1..N : C[w] = A[w]
  /\ C[N + 1] = taken
  /\ \A f \in 1..M - 1 : D[f] = B[f]
  /\ D[M] = (B[M] \ taken) \cup {N + 1}

(* Taking operands for a new operation keeps one holder each.              *)
LEMMA TakeHolder ==
  ASSUME NEW A, NEW B, NEW N, NEW M, OneHolder(A, B, 0, N, M), M > 0,
         NEW taken, taken \subseteq B[M], NEW C, NEW D, Takes(C, D, A, B, taken, N, M)
  PROVE  OneHolder(C, D, 0, N + 1, M)
<1>0. /\ N \in Nat /\ M \in Nat /\ N + 1 \in Nat /\ M \in 1..M
      /\ \A w \in 1..N + 1 : w = N + 1 \/ w \in 1..N
      /\ \A f \in 1..M : f = M \/ f \in 1..M - 1
      /\ \A w \in 1..N : w \in 1..N + 1
      /\ \A f \in 1..M - 1 : f \in 1..M
  BY DEF OneHolder
<1>1. \A w \in 1..N + 1 : C[w] \subseteq 1..w - 1
  BY <1>0 DEF OneHolder, Takes
<1>2. \A f \in 1..M : D[f] \subseteq 1..N + 1
  BY <1>0 DEF OneHolder, Takes
<1>3. \A w, x \in 1..N + 1 : w # x => C[w] \cap C[x] = {}
  BY <1>0 DEF OneHolder, Takes
<1>4. \A f, g \in 1..M : f # g => D[f] \cap D[g] = {}
  BY <1>0 DEF OneHolder, Takes
<1>5. \A w \in 1..N + 1, f \in 1..M : C[w] \cap D[f] = {}
  BY <1>0 DEF OneHolder, Takes
<1>6. \A v \in 1..N + 1 : v # 0 <=> Held(v, C, D, N + 1, M)
  <2> SUFFICES ASSUME NEW v \in 1..N + 1 PROVE Held(v, C, D, N + 1, M)
    OBVIOUS
  <2>1. CASE v = N + 1
    BY <1>0, <2>1 DEF Takes, Held
  <2>2. CASE v # N + 1
    <3>1. Held(v, A, B, N, M)
      BY <1>0, <2>2 DEF OneHolder
    <3>2. CASE \E w \in 1..N : v \in A[w]
      BY <1>0, <3>2 DEF Takes, Held
    <3>3. CASE \E f \in 1..M : v \in B[f]
      BY <1>0, <3>3 DEF Takes, Held
    <3> QED BY <3>1, <3>2, <3>3 DEF Held
  <2> QED BY <2>1, <2>2
<1> QED BY <1>0, <1>1, <1>2, <1>3, <1>4, <1>5, <1>6 DEF OneHolder

(* A call that starts holds nothing.                                       *)
LEMMA PushHolder ==
  ASSUME NEW A, NEW B, NEW r, NEW N, NEW M, OneHolder(A, B, r, N, M),
         NEW D, \A f \in 1..M : D[f] = B[f], D[M + 1] = {}
  PROVE  OneHolder(A, D, r, N, M + 1)
<1>0. /\ M \in Nat /\ M + 1 \in Nat /\ \A f \in 1..M + 1 : f = M + 1 \/ f \in 1..M
      /\ \A f \in 1..M : f \in 1..M + 1
  BY DEF OneHolder
<1>1. \A v \in 1..N : Held(v, A, B, N, M) <=> Held(v, A, D, N, M + 1)
  BY <1>0 DEF Held
<1> QED BY <1>0, <1>1 DEF OneHolder

(* A call that returns hands the one operation it holds to its caller, or  *)
(* to the function.                                                        *)
LEMMA PopHolder ==
  ASSUME NEW A, NEW B, NEW N, NEW M, OneHolder(A, B, 0, N, M), M > 0,
         NEW v, B[M] = {v}
  PROVE  /\ M = 1 => OneHolder(A, <<>>, v, N, 0)
         /\ \A D : /\ M > 1 /\ \A f \in 1..M - 2 : D[f] = B[f]
                   /\ D[M - 1] = B[M - 1] \cup {v}
                   => OneHolder(A, D, 0, N, M - 1)
<1>0. M \in Nat /\ v \in 1..N /\ M \in 1..M
  BY DEF OneHolder
<1>1. ASSUME M = 1 PROVE OneHolder(A, <<>>, v, N, 0)
  <2>1. \A w \in 1..N : v \notin A[w]
    BY <1>0 DEF OneHolder
  <2>2. \A u \in 1..N : u # v <=> Held(u, A, <<>>, N, 0)
    BY <1>0, <1>1, <2>1 DEF OneHolder, Held
  <2> QED BY <1>0, <2>2 DEF OneHolder
<1>2. ASSUME NEW D, M > 1, \A f \in 1..M - 2 : D[f] = B[f], D[M - 1] = B[M - 1] \cup {v}
      PROVE  OneHolder(A, D, 0, N, M - 1)
  <2>0. /\ \A f \in 1..M - 1 : f = M - 1 \/ f \in 1..M - 2
        /\ \A f \in 1..M - 1 : f \in 1..M /\ f # M
        /\ \A f \in 1..M - 2 : f \in 1..M - 1
        /\ \A f \in 1..M : f = M \/ f \in 1..M - 1
        /\ M - 1 \in 1..M - 1 /\ M - 1 \in Nat
    BY <1>0, <1>2
  <2>1. \A u \in 1..N : Held(u, A, B, N, M) <=> Held(u, A, D, N, M - 1)
    BY <1>0, <1>2, <2>0 DEF Held
  <2>2. \A f, g \in 1..M - 1 : f # g => D[f] \cap D[g] = {}
    BY <1>0, <1>2, <2>0 DEF OneHolder
  <2>3. \A w \in 1..N, f \in 1..M - 1 : A[w] \cap D[f] = {}
    BY <1>0, <1>2, <2>0 DEF OneHolder
  <2>4. \A f \in 1..M - 1 : D[f] \subseteq 1..N
    BY <1>0, <1>2, <2>0 DEF OneHolder
  <2> QED BY <2>0, <2>1, <2>2, <2>3, <2>4 DEF OneHolder
<1> QED BY <1>1, <1>2

(* The operations that join m operations from the left: the k-th takes the *)
(* one before it (the first takes c[1]) and c[k + 1].                      *)
Chained(c, N, k) == {IF k = 1 THEN c[1] ELSE N + k - 1, c[k + 1]}

Joins(C, D, A, B, c, N, M) ==
  /\ \A w \in 1..N : C[w] = A[w]
  /\ \A k \in 1..Len(c) - 1 : C[N + k] = Chained(c, N, k)
  /\ \A f \in 1..M - 1 : D[f] = B[f]
  /\ D[M] = {N + Len(c) - 1}

(* Joining what the innermost call holds keeps one holder each: the call   *)
(* holds the last join alone.                                              *)
LEMMA JoinHolder ==
  ASSUME NEW A, NEW B, NEW N, NEW M, OneHolder(A, B, 0, N, M), M > 0,
         NEW c \in Seq(Nat), Len(c) > 1, IsInjective(c), B[M] = ToSet(c),
         NEW C, NEW D, Joins(C, D, A, B, c, N, M)
  PROVE  OneHolder(C, D, 0, N + Len(c) - 1, M)
<1> DEFINE m == Len(c)
           L == N + m - 1
<1>0. /\ N \in Nat /\ M \in Nat /\ m \in Nat /\ m > 1 /\ L \in Nat /\ M \in 1..M
      /\ \A k \in 1..m : c[k] \in B[M]
      /\ \A v \in B[M] : \E k \in 1..m : v = c[k]
      /\ \A k, l \in 1..m : c[k] = c[l] => k = l
  BY SMTT(30) DEF OneHolder, IsInjective, ToSet
<1>1. \A k \in 1..m : c[k] \in 1..N /\ \A w \in 1..N : c[k] \notin A[w]
  BY <1>0 DEF OneHolder
<1>2. \A k \in 1..m, f \in 1..M - 1 : c[k] \notin B[f]
  BY <1>0, SMTT(30) DEF OneHolder
<1>3. /\ \A w \in 1..L : w \in 1..N \/ \E k \in 1..m - 1 : w = N + k
      /\ \A w \in 1..N : w \in 1..L
      /\ \A k \in 1..m - 1 : N + k \in 1..L /\ k + 1 \in 1..m /\ k \in 1..m
      /\ \A f \in 1..M : f = M \/ f \in 1..M - 1
      /\ \A f \in 1..M - 1 : f \in 1..M /\ f # M
      /\ 1 \in 1..m /\ m - 1 \in 1..m - 1
  <2>1. ASSUME NEW w \in 1..L, w \notin 1..N PROVE \E k \in 1..m - 1 : w = N + k
    <3>1. w - N \in 1..m - 1 /\ w = N + (w - N)
      BY <1>0, <2>1
    <3> QED BY <3>1
  <2> QED BY <1>0, <2>1
<1> HIDE DEF m
<1>4. /\ \A w \in 1..N : C[w] = A[w]
      /\ \A k \in 1..m - 1 : C[N + k] = Chained(c, N, k)
      /\ \A f \in 1..M - 1 : D[f] = B[f]
      /\ D[M] = {L}
  BY DEF Joins, m
<1> HIDE DEF L
<1>5. \A k \in 1..m - 1 : \A v \in Chained(c, N, k) :
        (\E l \in 1..m : v = c[l]) \/ (k > 1 /\ v = N + k - 1)
  BY <1>0, <1>3 DEF Chained
<1>6. \A w \in 1..L : C[w] \subseteq 1..w - 1
  <2>1. ASSUME NEW k \in 1..m - 1, NEW v \in C[N + k] PROVE v \in 1..N + k - 1
    <3>1. (\E l \in 1..m : v = c[l]) \/ (k > 1 /\ v = N + k - 1)
      BY <1>4, <1>5
    <3>2. v \in 1..N \/ (k > 1 /\ v = N + k - 1)
      BY <1>1, <3>1
    <3> QED BY <1>0, <3>2
  <2>2. \A w \in 1..N : C[w] \subseteq 1..w - 1
    BY <1>4 DEF OneHolder
  <2>3. ASSUME NEW w \in 1..L, NEW k \in 1..m - 1, w = N + k PROVE C[w] \subseteq 1..w - 1
    <3>1. C[N + k] \subseteq 1..N + k - 1
      BY <2>1
    <3> QED BY <1>0, <2>3, <3>1
  <2> QED BY <1>3, <2>2, <2>3
<1>7. \A f \in 1..M : D[f] \subseteq 1..L
  <2>1. L \in 1..L /\ N =< L
    BY <1>0 DEF L
  <2>2. \A f \in 1..M - 1 : D[f] \subseteq 1..N
    BY <1>3, <1>4 DEF OneHolder
  <2> QED BY <1>0, <1>3, <1>4, <2>1, <2>2
<1>8. \A w, x \in 1..L : w # x => C[w] \cap C[x] = {}
  <2>1. \A w, x \in 1..N : w # x => C[w] \cap C[x] = {}
    BY <1>4 DEF OneHolder
  <2>2. \A w \in 1..N, k \in 1..m - 1 : C[w] \cap C[N + k] = {}
    <3> SUFFICES ASSUME NEW w \in 1..N, NEW k \in 1..m - 1, NEW v \in C[w], v \in C[N + k]
                 PROVE  FALSE
      OBVIOUS
    <3>1. v \in A[w] /\ v \in 1..w - 1 /\ v \in Chained(c, N, k)
      BY <1>4 DEF OneHolder
    <3> QED BY <1>0, <1>1, <1>5, <3>1, SMTT(30)
  <2>3. \A k, l \in 1..m - 1 : k # l => C[N + k] \cap C[N + l] = {}
    <3> SUFFICES ASSUME NEW k \in 1..m - 1, NEW l \in 1..m - 1, k # l,
                        NEW v \in Chained(c, N, k), v \in Chained(c, N, l)
                 PROVE  FALSE
      BY <1>4
    <3>1. \A n \in 1..m : c[n] \in Nat /\ c[n] =< N
      BY <1>1
    <3>2. (v = c[k + 1] \/ (k = 1 /\ v = c[1]) \/ (k > 1 /\ v = N + k - 1))
      BY <1>0 DEF Chained
    <3>3. (v = c[l + 1] \/ (l = 1 /\ v = c[1]) \/ (l > 1 /\ v = N + l - 1))
      BY <1>0 DEF Chained
    <3>4. k + 1 \in 1..m /\ l + 1 \in 1..m /\ 1 \in 1..m /\ k + 1 # l + 1 /\ k + 1 # 1 /\ l + 1 # 1
      BY <1>0
    <3>5. c[k + 1] # c[l + 1] /\ c[k + 1] # c[1] /\ c[l + 1] # c[1]
      BY <1>0, <3>4
    <3>6. c[k + 1] \in 1..N /\ c[l + 1] \in 1..N /\ c[1] \in 1..N
      BY <1>1, <3>4
    <3>7. N + k - 1 # N + l - 1 /\ (k > 1 => N + k - 1 \notin 1..N) /\ (l > 1 => N + l - 1 \notin 1..N)
      BY <1>0
    <3> QED BY <3>2, <3>3, <3>5, <3>6, <3>7
  <2> QED BY <1>3, <2>1, <2>2, <2>3, ZenonT(40)
<1>9. \A f, g \in 1..M : f # g => D[f] \cap D[g] = {}
  <2>1. \A f \in 1..M - 1 : L \notin D[f]
    <3>1. \A f \in 1..M - 1 : D[f] \subseteq 1..N
      BY <1>3, <1>4 DEF OneHolder
    <3> QED BY <1>0, <3>1 DEF L
  <2>2. \A f, g \in 1..M - 1 : f # g => D[f] \cap D[g] = {}
    BY <1>3, <1>4 DEF OneHolder
  <2> QED BY <1>3, <1>4, <2>1, <2>2, SMTT(30)
<1>10. \A w \in 1..L, f \in 1..M : C[w] \cap D[f] = {}
  <2>1. \A w \in 1..L : L \notin C[w]
    BY <1>0, <1>6 DEF L
  <2>2. \A w \in 1..N, f \in 1..M - 1 : C[w] \cap D[f] = {}
    BY <1>3, <1>4 DEF OneHolder
  <2>3. \A k \in 1..m - 1, f \in 1..M - 1 : C[N + k] \cap D[f] = {}
    <3>1. \A f \in 1..M - 1 : D[f] \subseteq 1..N
      BY <1>3, <1>4 DEF OneHolder
    <3> SUFFICES ASSUME NEW k \in 1..m - 1, NEW f \in 1..M - 1, NEW v \in C[N + k], v \in D[f]
                 PROVE  FALSE
      OBVIOUS
    <3>2. (\E l \in 1..m : v = c[l]) \/ (k > 1 /\ v = N + k - 1)
      BY <1>4, <1>5
    <3>3. v \in B[f] /\ v \in 1..N
      BY <1>4, <3>1
    <3>4. k > 1 => N + k - 1 \notin 1..N
      BY <1>0
    <3> QED BY <1>2, <3>2, <3>3, <3>4
  <2>4. \A w \in 1..L : C[w] \cap D[M] = {}
    BY <1>4, <2>1
  <2>5. ASSUME NEW w \in 1..L, NEW f \in 1..M - 1 PROVE C[w] \cap D[f] = {}
    BY <1>3, <2>2, <2>3
  <2> QED BY <1>3, <2>4, <2>5
<1>11. \A v \in 1..L : Held(v, C, D, L, M)
  <2> TAKE v \in 1..L
  <2>1. CASE v = L
    BY <1>0, <1>4, <2>1 DEF Held
  <2>2. CASE v \in 1..N
    <3>1. CASE \E w \in 1..N : v \in A[w]
      BY <1>3, <1>4, <3>1 DEF Held
    <3>2. CASE \E f \in 1..M - 1 : v \in B[f]
      BY <1>3, <1>4, <3>2 DEF Held
    <3>3. CASE v \in B[M]
      <4>1. PICK k \in 1..m : v = c[k]
        BY <1>0, <3>3
      <4>2. CASE k = 1
        <5>1. 1 \in 1..m - 1 /\ v \in Chained(c, N, 1)
          BY <1>0, <4>1, <4>2 DEF Chained
        <5> QED BY <1>3, <1>4, <5>1 DEF Held
      <4>3. CASE k # 1
        <5>1. k - 1 \in 1..m - 1 /\ (k - 1) + 1 = k
          BY <1>0, <4>3
        <5>2. v \in Chained(c, N, k - 1)
          BY <4>1, <5>1 DEF Chained
        <5> QED BY <1>3, <1>4, <5>1, <5>2, SMTT(30) DEF Held
      <4> QED BY <4>2, <4>3
    <3> QED BY <1>0, <1>3, <2>2, <3>1, <3>2, <3>3 DEF OneHolder, Held
  <2>3. CASE v # L /\ v \notin 1..N
    <3>1. PICK k \in 1..m - 1 : v = N + k
      BY <1>3, <2>3
    <3>2. k + 1 \in 1..m - 1 /\ k + 1 > 1 /\ N + (k + 1) - 1 = v
      BY <1>0, <2>3, <3>1 DEF L
    <3>3. v \in Chained(c, N, k + 1)
      BY <1>0, <3>2 DEF Chained
    <3>4. N + (k + 1) \in 1..L /\ v \in C[N + (k + 1)]
      BY <1>3, <1>4, <3>2, <3>3
    <3> QED BY <3>4 DEF Held
  <2> QED BY <2>1, <2>2, <2>3
<1>12. \A v \in 1..L : v # 0
  OBVIOUS
<1>13. OneHolder(C, D, 0, L, M)
  BY <1>0, <1>6, <1>7, <1>8, <1>9, <1>10, <1>11, <1>12 DEF OneHolder
<1> QED BY <1>13 DEF L, m

-----------------------------------------------------------------------------
(* What a call holds: the conjuncts of its schema, and the verdicts of the *)
(* properties until their struct is made.                                  *)
Holding(c) == IF c.at = "properties" THEN c.conjuncts \o c.verdicts ELSE c.conjuncts

CallField ==
  {"node", "input", "fact", "path", "type", "at", "k", "conjuncts", "fields", "verdicts"}

IsCall(c) ==
  /\ DOMAIN c = CallField
  /\ c.node \in DOMAIN schema
  /\ c.at \in {"guard", "keywords", "properties", "allOf"} /\ c.k \in Nat \ {0}
  /\ c.conjuncts \in Seq(Nat) /\ c.verdicts \in Seq(Nat)
  /\ c.at \in {"guard", "keywords"} => c.verdicts = <<>>

Calls == IsRow(stack) /\ \A f \in 1..Len(stack) : IsCall(stack[f]) /\ IsInjective(Holding(stack[f]))

Made ==
  IsRow(ops) /\ \A v \in 1..Len(ops) : Operands(v) \in Seq(Nat) /\ IsInjective(Operands(v))

Shape ==
  /\ schema \in Schemas /\ Made /\ Calls
  /\ stack # <<>> => pc = "import" /\ ret = 0
  /\ pc = "start" => ret = 0

Uses  == [v \in 1..Len(ops) |-> ToSet(Operands(v))]
Holds == [f \in 1..Len(stack) |-> ToSet(Holding(stack[f]))]

Tree == Shape /\ OneHolder(Uses, Holds, ret, Len(ops), Len(stack))

OperandsOf(o) ==
  IF o.op = "and" THEN o.args ELSE IF o.op = "struct" THEN o.results ELSE <<>>

(* The operands depend on the operation alone.                             *)
LEMMA OperandsAre ==
  ASSUME NEW v
  PROVE  Operands(v) = OperandsOf(ops[v]) /\ Operands(v)' = OperandsOf(ops'[v])
BY DEF Operands, OperandsOf

(* An operation that stays keeps its operands.                             *)
LEMMA OperandsKept ==
  ASSUME NEW v, ops'[v] = ops[v]
  PROVE  Operands(v)' = Operands(v)
BY DEF Operands

(* What a step of the innermost call leaves alone.                         *)
Within(c) ==
  /\ Tree /\ stack # <<>> /\ Relast(stack', stack, c)
  /\ IsCall(c) /\ IsInjective(Holding(c))
  /\ UNCHANGED <<schema, ret, pc>>

(* The calls keep their shape, and only the innermost holds something      *)
(* else.                                                                   *)
LEMMA WithinShape ==
  ASSUME NEW c, Within(c)
  PROVE  /\ schema' \in Schemas /\ Len(stack') = Len(stack)
         /\ Calls'
         /\ stack' # <<>> => pc' = "import" /\ ret' = 0
         /\ pc' = "start" => ret' = 0
         /\ ret = 0 /\ ret' = 0 /\ Len(stack) > 0 /\ Len(stack) \in Nat
         /\ Holds[Len(stack)] = ToSet(Holding(Top))
         /\ Holds'[Len(stack)] = ToSet(Holding(c))
         /\ \A f \in 1..Len(stack) - 1 : Holds'[f] = Holds[f]
<1>1. /\ Shape /\ stack # <<>> /\ Relast(stack', stack, c) /\ IsCall(c) /\ IsInjective(Holding(c))
      /\ schema' = schema /\ ret' = ret /\ pc' = pc
  BY DEF Within, Tree
<1>2. /\ Len(stack) \in Nat /\ Len(stack) > 0 /\ Len(stack) \in 1..Len(stack)
      /\ Top = stack[Len(stack)]
  BY <1>1, RowLen DEF Shape, Calls, Top
<1>3. /\ IsRow(stack') /\ Len(stack') = Len(stack) /\ stack'[Len(stack)] = c
      /\ \A f \in 1..Len(stack) - 1 : stack'[f] = stack[f] /\ f \in 1..Len(stack)
      /\ \A f \in 1..Len(stack) : f = Len(stack) \/ f \in 1..Len(stack) - 1
  BY <1>1, <1>2 DEF Relast
<1>5. \A f \in 1..Len(stack) : IsCall(stack[f]) /\ IsInjective(Holding(stack[f]))
  BY <1>1 DEF Shape, Calls
<1>6. Calls'
  <2> SUFFICES ASSUME NEW f \in 1..Len(stack)
               PROVE  IsCall(stack[f])' /\ IsInjective(Holding(stack[f]))'
    BY <1>3 DEF Calls
  <2>1. IsCall(stack'[f]) /\ IsInjective(Holding(stack'[f]))
    BY <1>1, <1>3, <1>5
  <2> QED BY <1>1, <2>1 DEF IsCall, Holding
<1>7. /\ Holds[Len(stack)] = ToSet(Holding(Top))
      /\ Holds'[Len(stack)] = ToSet(Holding(c))
      /\ \A f \in 1..Len(stack) - 1 : Holds'[f] = Holds[f]
  <2>1. /\ \A f \in 1..Len(stack) : Holds[f] = ToSet(Holding(stack[f]))
        /\ \A f \in 1..Len(stack) : Holds'[f] = ToSet(Holding(stack'[f]))
    BY <1>3 DEF Holds, Holding
  <2> QED BY <1>2, <1>3, <2>1
<1> QED BY <1>1, <1>2, <1>3, <1>6, <1>7 DEF Shape

(* A step that makes no operation and keeps what the call holds.           *)
LEMMA TreeStays ==
  ASSUME NEW c, Within(c), ToSet(Holding(c)) = ToSet(Holding(Top)), UNCHANGED ops
  PROVE  Tree'
<1>1. /\ schema' \in Schemas /\ Len(stack') = Len(stack) /\ Calls'
      /\ stack' # <<>> => pc' = "import" /\ ret' = 0
      /\ pc' = "start" => ret' = 0
      /\ ret = 0 /\ ret' = 0 /\ Len(stack) > 0 /\ Len(stack) \in Nat
      /\ \A f \in 1..Len(stack) - 1 : Holds'[f] = Holds[f]
  BY WithinShape
<1>2. Holds'[Len(stack)] = Holds[Len(stack)]
  BY WithinShape
<1>3. Shape /\ OneHolder(Uses, Holds, 0, Len(ops), Len(stack))
  BY <1>1 DEF Within, Tree
<1>4. \A f \in 1..Len(stack) : Holds'[f] = Holds[f]
  <2>1. \A f \in 1..Len(stack) : f = Len(stack) \/ f \in 1..Len(stack) - 1
    BY <1>1
  <2> QED BY <1>1, <1>2, <2>1
<1>5. \A v \in 1..Len(ops) : Operands(v)' = Operands(v)
  BY OperandsKept
<1>6. Uses' = Uses
  BY <1>5 DEF Uses
<1>7. OneHolder(Uses, Holds', 0, Len(ops), Len(stack))
  BY <1>3, <1>4 DEF OneHolder, Held
<1>8. Shape'
  <2>1. Made'
    BY <1>3, <1>5 DEF Shape, Made
  <2> QED BY <1>1, <2>1 DEF Shape
<1> QED BY <1>1, <1>6, <1>7, <1>8 DEF Tree

(* A step that makes one operation, which takes some of what the call      *)
(* holds and is held by the call.                                          *)
LEMMA TreeTakes ==
  ASSUME NEW c, Within(c), NEW o, ops' = Append(ops, o),
         NEW u \in Seq(Nat), IsInjective(u), OperandsOf(o) = u,
         ToSet(u) \subseteq ToSet(Holding(Top)),
         ToSet(Holding(c)) = (ToSet(Holding(Top)) \ ToSet(u)) \cup {NewOp}
  PROVE  Tree'
<1> DEFINE N == Len(ops)
           M == Len(stack)
<1>1. /\ schema' \in Schemas /\ Len(stack') = M /\ Calls'
      /\ stack' # <<>> => pc' = "import" /\ ret' = 0
      /\ pc' = "start" => ret' = 0
      /\ ret = 0 /\ ret' = 0 /\ M > 0 /\ M \in Nat
      /\ Holds[M] = ToSet(Holding(Top))
      /\ Holds'[M] = ToSet(Holding(c))
      /\ \A f \in 1..M - 1 : Holds'[f] = Holds[f]
  BY WithinShape
<1>2. Made /\ OneHolder(Uses, Holds, 0, N, M)
  BY <1>1 DEF Within, Tree, Shape
<1>3. /\ N \in Nat /\ IsRow(ops') /\ Len(ops') = N + 1 /\ ops'[N + 1] = o
      /\ \A v \in 1..N : ops'[v] = ops[v]
  BY <1>2, RowAppend, RowLen DEF Made
<1>4. \A v \in 1..N : Operands(v)' = Operands(v)
  BY <1>3, OperandsKept
<1>5. \A v \in 1..N + 1 : Operands(v)' = OperandsOf(ops'[v])
  BY OperandsAre
<1>6. \A v \in 1..N + 1 : v = N + 1 \/ v \in 1..N
  BY <1>3
<1>7. Made'
  <2> SUFFICES ASSUME NEW v \in 1..N + 1
               PROVE  Operands(v)' \in Seq(Nat) /\ IsInjective(Operands(v)')
    BY <1>3 DEF Made
  <2>1. CASE v = N + 1
    BY <1>3, <1>5, <2>1
  <2>2. CASE v \in 1..N
    BY <1>2, <1>4, <2>2 DEF Made
  <2> QED BY <1>6, <2>1, <2>2
<1>8. Uses' = [v \in 1..N + 1 |-> ToSet(Operands(v)')]
  BY <1>3 DEF Uses
<1>9. \A v \in 1..N : Uses'[v] = Uses[v]
  BY <1>3, <1>4, <1>8 DEF Uses
<1>10. Uses'[N + 1] = ToSet(u)
  BY <1>3, <1>5, <1>8, SMTT(30)
<1> HIDE DEF N, M
<1>11. Takes(Uses', Holds', Uses, Holds, ToSet(u), N, M)
  BY <1>1, <1>9, <1>10 DEF Takes, NewOp, N
<1>12. OneHolder(Uses', Holds', 0, N + 1, M)
  BY <1>1, <1>2, <1>11, TakeHolder
<1>13. Shape'
  BY <1>1, <1>7 DEF Shape
<1> QED BY <1>1, <1>3, <1>12, <1>13 DEF Tree

(* A call that starts: c is the caller.                                    *)
LEMMA TreePush ==
  ASSUME NEW c, NEW d, NEW t, Tree, stack # <<>>, Relast(t, stack, c), stack' = Append(t, d),
         IsCall(c), IsInjective(Holding(c)), ToSet(Holding(c)) = ToSet(Holding(Top)),
         IsCall(d), Holding(d) = <<>>, UNCHANGED <<schema, ops, ret, pc>>
  PROVE  Tree'
<1> DEFINE N == Len(ops)
           M == Len(stack)
<1>1. Shape /\ OneHolder(Uses, Holds, ret, N, M)
  BY DEF Tree
<1>2. M \in Nat /\ M > 0 /\ Top = stack[M] /\ M \in 1..M /\ pc = "import" /\ ret = 0
  BY <1>1, RowLen DEF Shape, Calls, Top
<1>3. /\ IsRow(t) /\ Len(t) = M /\ t[M] = c
      /\ \A f \in 1..M - 1 : t[f] = stack[f] /\ f \in 1..M
  BY <1>2 DEF Relast
<1>4. /\ IsRow(stack') /\ Len(stack') = M + 1 /\ stack'[M + 1] = d
      /\ \A f \in 1..M : stack'[f] = t[f]
  BY <1>3, RowAppend
<1>5. /\ \A f \in 1..M + 1 : f = M + 1 \/ f \in 1..M
      /\ \A f \in 1..M : f = M \/ f \in 1..M - 1
      /\ \A f \in 1..M : f \in 1..M + 1
      /\ M + 1 \in 1..M + 1
  BY <1>2
<1>6. \A f \in 1..M : IsCall(stack[f]) /\ IsInjective(Holding(stack[f]))
  BY <1>1 DEF Shape, Calls
<1> HIDE DEF N, M
<1>7. \A f \in 1..M : IsCall(stack'[f]) /\ IsInjective(Holding(stack'[f]))
                      /\ ToSet(Holding(stack'[f])) = ToSet(Holding(stack[f]))
  <2> SUFFICES ASSUME NEW f \in 1..M
               PROVE  /\ IsCall(stack'[f]) /\ IsInjective(Holding(stack'[f]))
                      /\ ToSet(Holding(stack'[f])) = ToSet(Holding(stack[f]))
    OBVIOUS
  <2>1. CASE f = M
    BY <1>2, <1>3, <1>4, <2>1
  <2>2. CASE f \in 1..M - 1
    BY <1>3, <1>4, <1>6, <2>2
  <2> QED BY <1>5, <2>1, <2>2
<1>8. IsInjective(Holding(d)) /\ ToSet(Holding(d)) = {}
  BY DEF IsInjective, ToSet
<1>9. Calls'
  <2> SUFFICES ASSUME NEW f \in 1..M + 1
               PROVE  IsCall(stack[f])' /\ IsInjective(Holding(stack[f]))'
    BY <1>4 DEF Calls
  <2>1. IsCall(stack'[f]) /\ IsInjective(Holding(stack'[f]))
    BY <1>4, <1>5, <1>7, <1>8
  <2> QED BY <2>1 DEF IsCall, Holding
<1>10. Holds' = [f \in 1..M + 1 |-> ToSet(Holding(stack'[f]))]
  BY <1>4 DEF Holds, Holding
<1>11. (\A f \in 1..M : Holds'[f] = Holds[f]) /\ Holds'[M + 1] = {}
  <2>1. \A f \in 1..M : Holds[f] = ToSet(Holding(stack[f]))
    BY DEF Holds, M
  <2> QED BY <1>4, <1>5, <1>7, <1>8, <1>10, <2>1
<1>12. \A v \in 1..Len(ops) : Operands(v)' = Operands(v)
  BY OperandsKept
<1>13. Uses' = Uses /\ Made'
  BY <1>1, <1>12 DEF Uses, Shape, Made
<1>14. OneHolder(Uses, Holds', 0, N, M + 1)
  BY <1>1, <1>2, <1>11, PushHolder
<1>15. Shape'
  BY <1>1, <1>2, <1>9, <1>13 DEF Shape
<1> QED BY <1>2, <1>4, <1>13, <1>14, <1>15 DEF Tree, N

-----------------------------------------------------------------------------
(* How a call changes.                                                     *)

(* A sequence without repetition stays one when it gets a new member.      *)
LEMMA AppendNew ==
  ASSUME NEW s \in Seq(Nat), IsInjective(s), NEW v \in Nat, v \notin ToSet(s)
  PROVE  /\ Append(s, v) \in Seq(Nat) /\ IsInjective(Append(s, v))
         /\ ToSet(Append(s, v)) = ToSet(s) \cup {v}
<1> DEFINE t == Append(s, v)
           n == Len(s)
<1>1. /\ n \in Nat /\ t \in Seq(Nat) /\ Len(t) = n + 1 /\ t[n + 1] = v
      /\ \A k \in 1..n : t[k] = s[k]
      /\ DOMAIN t = 1..n + 1 /\ DOMAIN s = 1..n
  BY AppendProperties
<1> HIDE DEF t, n
<1>2. /\ \A k \in 1..n + 1 : k = n + 1 \/ k \in 1..n
      /\ \A k \in 1..n : k \in 1..n + 1 /\ k # n + 1
      /\ n + 1 \in 1..n + 1
  BY <1>1
<1>3. \A k \in 1..n : s[k] # v
  BY <1>1 DEF ToSet
<1>4. \A k, l \in 1..n : s[k] = s[l] => k = l
  BY <1>1 DEF IsInjective
<1>5. \A k, l \in 1..n + 1 : t[k] = t[l] => k = l
  BY <1>1, <1>2, <1>3, <1>4
<1>6. IsInjective(t)
  BY <1>1, <1>5 DEF IsInjective
<1>7. ToSet(t) = ToSet(s) \cup {v}
  BY <1>1, <1>2 DEF ToSet
<1> QED BY <1>1, <1>6, <1>7 DEF t

(* The parts of a sequence without repetition have no repetition, and no   *)
(* member in common.                                                       *)
LEMMA ConcatSets ==
  ASSUME NEW S, NEW s \in Seq(S), NEW t \in Seq(S), IsInjective(s \o t)
  PROVE  /\ IsInjective(s) /\ IsInjective(t)
         /\ ToSet(s \o t) = ToSet(s) \cup ToSet(t) /\ ToSet(s) \cap ToSet(t) = {}
<1> DEFINE u == s \o t
           m == Len(s)
           n == Len(t)
<1>1. /\ m \in Nat /\ n \in Nat /\ u \in Seq(S) /\ Len(u) = m + n
      /\ \A k \in 1..m : u[k] = s[k]
      /\ \A k \in 1..n : u[m + k] = t[k]
      /\ DOMAIN u = 1..m + n /\ DOMAIN s = 1..m /\ DOMAIN t = 1..n
  BY Concat2
<1>2. \A k, l \in 1..Len(u) : u[k] = u[l] => k = l
  BY <1>1 DEF IsInjective
<1> HIDE DEF u, m, n
<1>3. /\ \A k \in 1..m : k \in 1..m + n
      /\ \A k \in 1..n : m + k \in 1..m + n
      /\ \A k \in 1..m, l \in 1..n : k # m + l
      /\ \A k, l \in 1..n : m + k = m + l => k = l
  BY <1>1
<1>4. \A k \in 1..m + n : k \in 1..m \/ \E l \in 1..n : k = m + l
  <2> SUFFICES ASSUME NEW k \in 1..m + n, k \notin 1..m PROVE \E l \in 1..n : k = m + l
    OBVIOUS
  <2>1. k - m \in 1..n /\ k = m + (k - m)
    BY <1>1
  <2> QED BY <2>1
<1>5. \A k, l \in 1..m : s[k] = s[l] => k = l
  BY <1>1, <1>2, <1>3
<1>6. \A k, l \in 1..n : t[k] = t[l] => k = l
  BY <1>1, <1>2, <1>3
<1>7. \A k \in 1..m, l \in 1..n : s[k] # t[l]
  BY <1>1, <1>2, <1>3
<1>8. ToSet(s) \cap ToSet(t) = {}
  BY <1>1, <1>7 DEF ToSet
<1>9. ToSet(u) = ToSet(s) \cup ToSet(t)
  <2>1. \A k \in 1..m + n : u[k] \in ToSet(s) \cup ToSet(t)
    BY <1>1, <1>4, ZenonT(40) DEF ToSet
  <2>2. (\A k \in 1..m : s[k] \in ToSet(u)) /\ (\A k \in 1..n : t[k] \in ToSet(u))
    <3>1. \A k \in 1..m : u[k] \in ToSet(u)
      BY <1>1, <1>3 DEF ToSet
    <3>2. \A k \in 1..n : u[m + k] \in ToSet(u)
      BY <1>1, <1>3 DEF ToSet
    <3> QED BY <1>1, <3>1, <3>2
  <2> QED BY <1>1, <2>1, <2>2, ZenonT(40) DEF ToSet
<1> QED BY <1>1, <1>5, <1>6, <1>8, <1>9 DEF IsInjective, u

(* Going on, going to another place and conjoining an operation make calls *)
(* of calls.                                                               *)
LEMMA CallEdits ==
  ASSUME NEW c, IsCall(c)
  PROVE  /\ IsCall(NextK(c)) /\ Holding(NextK(c)) = Holding(c) /\ NextK(c).at = c.at
         /\ \A at \in {"keywords", "properties", "allOf"} :
              (at = "keywords" => c.verdicts = <<>>)
              => /\ IsCall(GoTo(c, at)) /\ GoTo(c, at).at = at
                 /\ GoTo(c, at).conjuncts = c.conjuncts /\ GoTo(c, at).verdicts = c.verdicts
         /\ \A v \in Nat : /\ IsCall(Conjoin(c, v)) /\ Conjoin(c, v).at = c.at
                           /\ Conjoin(c, v).conjuncts = Append(c.conjuncts, v)
                           /\ Conjoin(c, v).verdicts = c.verdicts
<1>1. "k" \in DOMAIN c /\ "at" \in DOMAIN c /\ "conjuncts" \in DOMAIN c /\ "verdicts" \in DOMAIN c
  BY DEF IsCall, CallField
<1>2. IsCall(NextK(c)) /\ NextK(c).at = c.at /\ Holding(NextK(c)) = Holding(c)
  BY <1>1 DEF NextK, IsCall, Holding
<1>3. ASSUME NEW at \in {"keywords", "properties", "allOf"}, at = "keywords" => c.verdicts = <<>>
      PROVE  /\ IsCall(GoTo(c, at)) /\ GoTo(c, at).at = at
             /\ GoTo(c, at).conjuncts = c.conjuncts /\ GoTo(c, at).verdicts = c.verdicts
  BY <1>1, <1>3 DEF GoTo, IsCall
<1>4. ASSUME NEW v \in Nat
      PROVE  /\ IsCall(Conjoin(c, v)) /\ Conjoin(c, v).at = c.at
             /\ Conjoin(c, v).conjuncts = Append(c.conjuncts, v)
             /\ Conjoin(c, v).verdicts = c.verdicts
  BY <1>1 DEF Conjoin, IsCall
<1> QED BY <1>2, <1>3, <1>4

(* A call that starts is at its type guard and holds nothing.              *)
LEMMA NewCall ==
  ASSUME NEW node \in DOMAIN schema, NEW input, NEW fact, NEW path, NEW type
  PROVE  IsCall(Call(node, input, fact, path, type)) /\ Holding(Call(node, input, fact, path, type)) = <<>>
BY DEF IsCall, Call, CallField, Holding

-----------------------------------------------------------------------------
(* The steps.                                                              *)

(* The innermost call, and the operation it would make.                   *)
LEMMA TopShape ==
  ASSUME Tree, stack # <<>>
  PROVE  /\ IsCall(Top) /\ IsInjective(Holding(Top)) /\ ToSet(Holding(Top)) \subseteq 1..Len(ops)
         /\ Len(ops) \in Nat /\ NewOp \in Nat /\ NewOp = Len(ops) + 1 /\ NewOp \notin ToSet(Holding(Top))
         /\ pc = "import" /\ ret = 0
<1>1. Len(stack) \in 1..Len(stack) /\ Top = stack[Len(stack)]
  BY RowLen DEF Tree, Shape, Calls, Top
<1>2. Holds[Len(stack)] = ToSet(Holding(Top))
  BY <1>1 DEF Holds
<1>3. Len(ops) \in Nat
  BY RowLen DEF Tree, Shape, Made
<1>4. ToSet(Holding(Top)) \subseteq 1..Len(ops)
  BY <1>1, <1>2 DEF Tree, OneHolder
<1> QED BY <1>1, <1>3, <1>4 DEF Tree, Shape, Calls, NewOp

(* Be changes the innermost call only.                                     *)
LEMMA BeWithin ==
  ASSUME Tree, stack # <<>>, NEW c, Be(c), IsCall(c), IsInjective(Holding(c)),
         UNCHANGED <<schema, ret, pc>>
  PROVE  Within(c)
<1>1. IsRow(stack)
  BY DEF Tree, Shape, Calls
<1>2. Relast(stack', stack, c)
  BY <1>1, RowRelast DEF Be
<1> QED BY <1>2 DEF Within

(* A call that conjoins a new operation without operands.                  *)
LEMMA TreeLeaf ==
  ASSUME Tree, stack # <<>>, Top.at # "properties",
         NEW c, Be(c), IsCall(c), c.at # "properties", c.conjuncts = Append(Top.conjuncts, NewOp),
         NEW o, o.op \notin {"and", "struct"}, ops' = Append(ops, o),
         UNCHANGED <<schema, ret, pc>>
  PROVE  Tree'
<1>1. /\ IsCall(Top) /\ IsInjective(Top.conjuncts) /\ NewOp \in Nat
      /\ NewOp \notin ToSet(Top.conjuncts) /\ Holding(Top) = Top.conjuncts
  BY TopShape DEF Holding
<1>2. Top.conjuncts \in Seq(Nat)
  BY <1>1 DEF IsCall
<1>3. Holding(c) = c.conjuncts
  BY DEF Holding
<1>4. IsInjective(Holding(c)) /\ ToSet(Holding(c)) = ToSet(Holding(Top)) \cup {NewOp}
  BY <1>1, <1>2, <1>3, AppendNew
<1>5. Within(c)
  BY <1>4, BeWithin
<1>6. OperandsOf(o) = <<>> /\ <<>> \in Seq(Nat) /\ IsInjective(<<>>) /\ ToSet(<<>>) = {}
  BY DEF OperandsOf, IsInjective, ToSet
<1>7. /\ ToSet(<<>>) \subseteq ToSet(Holding(Top))
      /\ ToSet(Holding(c)) = (ToSet(Holding(Top)) \ ToSet(<<>>)) \cup {NewOp}
  BY <1>4, <1>6
<1> QED BY <1>5, <1>6, <1>7, TreeTakes

(* TypeGuard keeps the tree: its operation, if any, becomes a conjunct.    *)
LEMMA TypeGuardTree == ASSUME Tree, TypeGuard PROVE Tree'
<1>1. /\ stack # <<>> /\ Top.at = "guard" /\ UNCHANGED <<schema, ret, pc>>
      /\ \/ Be(GoTo(Top, "keywords")) /\ UNCHANGED ops
         \/ \E c : /\ ops' = Append(ops, Validate(Top.node, Top.input, c))
                   /\ Be(GoTo(Conjoin(Top, NewOp), "keywords"))
  BY DEF TypeGuard, At
<1>2. IsCall(Top) /\ IsInjective(Holding(Top)) /\ NewOp \in Nat /\ Top.verdicts = <<>>
  BY <1>1, TopShape DEF IsCall
<1>3. CASE Be(GoTo(Top, "keywords")) /\ UNCHANGED ops
  <2>1. IsCall(GoTo(Top, "keywords")) /\ Holding(GoTo(Top, "keywords")) = Holding(Top)
    BY <1>1, <1>2, CallEdits DEF Holding
  <2>2. Within(GoTo(Top, "keywords"))
    BY <1>1, <1>2, <1>3, <2>1, BeWithin
  <2> QED BY <1>3, <2>1, <2>2, TreeStays
<1>4. CASE \E c : /\ ops' = Append(ops, Validate(Top.node, Top.input, c))
                  /\ Be(GoTo(Conjoin(Top, NewOp), "keywords"))
  <2> DEFINE d == Conjoin(Top, NewOp)
             e == GoTo(d, "keywords")
  <2>1. PICK c : /\ ops' = Append(ops, Validate(Top.node, Top.input, c)) /\ Be(e)
    BY <1>4
  <2>2. IsCall(d) /\ d.conjuncts = Append(Top.conjuncts, NewOp) /\ d.verdicts = <<>>
    BY <1>2, CallEdits
  <2> HIDE DEF d
  <2>3. IsCall(e) /\ e.at = "keywords" /\ e.conjuncts = Append(Top.conjuncts, NewOp)
    BY <2>2, CallEdits
  <2> HIDE DEF e
  <2>4. Validate(Top.node, Top.input, c).op = "validate"
    BY DEF Validate
  <2> QED BY <1>1, <2>1, <2>3, <2>4, TreeLeaf
<1> QED BY <1>1, <1>3, <1>4

(* EmitKeyword keeps the tree: its operation becomes a conjunct.           *)
LEMMA EmitKeywordTree == ASSUME Tree, EmitKeyword PROVE Tree'
<1> DEFINE o == Validate(Top.node, Top.input, KeywordLattice(TheKeyword))
           d == Conjoin(Top, NewOp)
           e == NextK(d)
<1>1. /\ stack # <<>> /\ Top.at = "keywords" /\ UNCHANGED <<schema, ret, pc>>
      /\ ops' = Append(ops, o) /\ Be(e)
  BY DEF EmitKeyword, AtKeyword, At
<1>2. IsCall(Top) /\ NewOp \in Nat
  BY <1>1, TopShape
<1>3. o.op = "validate"
  BY DEF Validate
<1> HIDE DEF o
<1>4. IsCall(d) /\ d.conjuncts = Append(Top.conjuncts, NewOp) /\ d.at = "keywords"
  BY <1>1, <1>2, CallEdits
<1> HIDE DEF d
<1>5. IsCall(e) /\ e.at = "keywords" /\ Holding(e) = Holding(d)
  BY <1>4, CallEdits
<1>6. e.conjuncts = Append(Top.conjuncts, NewOp)
  BY <1>4, <1>5 DEF Holding
<1> HIDE DEF e
<1> QED BY <1>1, <1>3, <1>5, <1>6, TreeLeaf

(* Steps of a call that only go on.                                        *)
LEMMA NextKTree ==
  ASSUME Tree, stack # <<>>, Be(NextK(Top)), UNCHANGED <<schema, ops, ret, pc>>
  PROVE  Tree'
<1>1. IsCall(Top) /\ IsInjective(Holding(Top))
  BY TopShape
<1>2. IsCall(NextK(Top)) /\ Holding(NextK(Top)) = Holding(Top)
  BY <1>1, CallEdits
<1>3. Within(NextK(Top))
  BY <1>1, <1>2, BeWithin
<1> QED BY <1>2, <1>3, TreeStays

(* EndKeywords keeps the tree: the call holds its conjuncts at both places *)
(* it goes to.                                                             *)
LEMMA EndKeywordsTree == ASSUME Tree, EndKeywords PROVE Tree'
<1>1. /\ stack # <<>> /\ Top.at = "keywords" /\ UNCHANGED <<schema, ops, ret, pc>>
      /\ \E at \in {"properties", "allOf"} : Be(GoTo(Top, at))
  BY DEF EndKeywords, At
<1>2. PICK at \in {"properties", "allOf"} : Be(GoTo(Top, at))
  BY <1>1
<1> DEFINE e == GoTo(Top, at)
<1>3. IsCall(Top) /\ IsInjective(Holding(Top)) /\ Top.verdicts = <<>> /\ Top.conjuncts \in Seq(Nat)
  BY <1>1, TopShape DEF IsCall
<1>4. IsCall(e) /\ e.conjuncts = Top.conjuncts /\ e.verdicts = <<>>
  BY <1>3, CallEdits
<1>5. Top.conjuncts \o <<>> = Top.conjuncts
  BY <1>3
<1>6. Holding(e) = Holding(Top)
  BY <1>1, <1>4, <1>5 DEF Holding
<1> HIDE DEF e
<1>7. Within(e)
  BY <1>1, <1>2, <1>3, <1>4, <1>6, BeWithin DEF e
<1> QED BY <1>1, <1>6, <1>7, TreeStays

(* FinishObject keeps the tree: the struct takes the verdicts of the       *)
(* properties and becomes a conjunct.                                      *)
LEMMA FinishObjectTree == ASSUME Tree, FinishObject PROVE Tree'
<1> DEFINE n == Top.node
           known == {k \in DOMAIN Needs(n) : Needs(n)[k] \in ToSet(Top.fields)}
           o == [op |-> "struct", loc |-> n, input |-> Top.input,
                 type |-> Or(schema[n].title, Top.type), fields |-> Top.fields,
                 results |-> Top.verdicts, required |-> Selected(Needs(n), known)]
           d == Conjoin(Top, NewOp)
           e == GoTo(d, "allOf")
<1>1. /\ stack # <<>> /\ Top.at = "properties" /\ UNCHANGED <<schema, ret, pc>> /\ Be(e)
      /\ ops' = Append(ops, o)
  BY DEF FinishObject, At
<1>2. o.op = "struct" /\ o.results = Top.verdicts
  OBVIOUS
<1> HIDE DEF o
<1>3. /\ IsCall(Top) /\ IsInjective(Holding(Top)) /\ NewOp \in Nat /\ NewOp \notin ToSet(Holding(Top))
      /\ Top.conjuncts \in Seq(Nat) /\ Top.verdicts \in Seq(Nat)
      /\ Holding(Top) = Top.conjuncts \o Top.verdicts
  BY <1>1, TopShape DEF IsCall, Holding
<1>4. /\ IsInjective(Top.conjuncts) /\ IsInjective(Top.verdicts)
      /\ ToSet(Holding(Top)) = ToSet(Top.conjuncts) \cup ToSet(Top.verdicts)
      /\ ToSet(Top.conjuncts) \cap ToSet(Top.verdicts) = {}
  BY <1>3, ConcatSets
<1>5. IsCall(d) /\ d.conjuncts = Append(Top.conjuncts, NewOp)
  BY <1>3, CallEdits
<1> HIDE DEF d
<1>6. IsCall(e) /\ e.conjuncts = Append(Top.conjuncts, NewOp) /\ e.at = "allOf"
  BY <1>5, CallEdits
<1>7. Holding(e) = Append(Top.conjuncts, NewOp)
  BY <1>6 DEF Holding
<1>8. IsInjective(Holding(e)) /\ ToSet(Holding(e)) = ToSet(Top.conjuncts) \cup {NewOp}
  <2>1. NewOp \notin ToSet(Top.conjuncts)
    BY <1>3, <1>4
  <2> QED BY <1>3, <1>4, <1>7, <2>1, AppendNew, ZenonT(40)
<1> HIDE DEF e
<1>9. Within(e)
  BY <1>1, <1>6, <1>8, BeWithin
<1>10. OperandsOf(o) = Top.verdicts
  BY <1>2 DEF OperandsOf
<1>11. /\ ToSet(Top.verdicts) \subseteq ToSet(Holding(Top))
       /\ ToSet(Holding(e)) = (ToSet(Holding(Top)) \ ToSet(Top.verdicts)) \cup {NewOp}
  BY <1>4, <1>8
<1> QED BY <1>1, <1>3, <1>4, <1>9, <1>10, <1>11, TreeTakes

-----------------------------------------------------------------------------
(* What a parsed schema guarantees.                                        *)

(* An optional value or its default.                                       *)
LEMMA OrIs ==
  ASSUME NEW S, NEW o \in Opt(S), NEW d
  PROVE  (o = {} /\ Or(o, d) = d) \/ (Or(o, d) \in S /\ o = {Or(o, d)})
<1>1. ASSUME o = {} PROVE Or(o, d) = d
  BY <1>1 DEF Or
<1>2. ASSUME o # {} PROVE Or(o, d) \in S /\ o = {Or(o, d)}
  <2>1. PICK x \in S : o = {x}
    BY <1>2 DEF Opt
  <2>2. (CHOOSE v \in {x} : TRUE) = x
    OBVIOUS
  <2>3. Or(o, d) = x
    BY <1>2, <2>1, <2>2, Zenon DEF Or
  <2> QED BY <2>1, <2>3
<1> QED BY <1>1, <1>2

(* A parsed schema is a sequence of schema nodes, and has a root.          *)
LEMMA NodeIs ==
  ASSUME schema \in Schemas
  PROVE  /\ schema \in Seq(SchemaNode) /\ 1 \in DOMAIN schema
         /\ \A n \in DOMAIN schema : schema[n] \in SchemaNode /\ Props(n) \in Seq(Property)
<1>1. WellFormedSchema(schema)
  BY SchemasAssumption
<1>2. schema \in Seq(SchemaNode) /\ schema # <<>>
  BY <1>1 DEF WellFormedSchema
<1>3. \A n \in DOMAIN schema : schema[n] \in SchemaNode
  BY <1>2
<1>4. ASSUME NEW n \in DOMAIN schema PROVE Props(n) \in Seq(Property)
  <2>1. schema[n].properties \in Opt(Seq(Property)) /\ <<>> \in Seq(Property)
    BY <1>3 DEF SchemaNode
  <2> QED BY <2>1, OrIs DEF Props
<1> QED BY <1>2, <1>3, <1>4

(* The children of a node are nodes after it.                              *)
LEMMA ChildrenAre ==
  ASSUME schema \in Schemas, NEW n \in DOMAIN schema
  PROVE  /\ schema[n].allOf \in Seq(Nat)
         /\ \A k \in 1..Len(schema[n].allOf) :
              schema[n].allOf[k] \in DOMAIN schema /\ schema[n].allOf[k] > n
         /\ \A k \in 1..Len(Props(n)) :
              Props(n)[k].schema \in DOMAIN schema /\ Props(n)[k].schema > n
<1>1. schema[n].allOf \in Seq(Nat) /\ Props(n) \in Seq(Property)
  BY NodeIs DEF SchemaNode
<1> DEFINE b == [k \in DOMAIN Props(n) |-> Props(n)[k].schema]
           a == schema[n].allOf
           N == Len(Props(n))
<1>2. N \in Nat /\ DOMAIN Props(n) = 1..N /\ \A k \in 1..N : Props(n)[k].schema \in Nat
  <2>1. \A s \in Seq(Property) : Len(s) \in Nat /\ DOMAIN s = 1..Len(s) /\ \A k \in 1..Len(s) : s[k] \in Property
    OBVIOUS
  <2>2. N \in Nat /\ DOMAIN Props(n) = 1..N /\ \A k \in 1..N : Props(n)[k] \in Property
    BY <1>1, <2>1
  <2> QED BY <2>2 DEF Property
<1>10. b = [k \in 1..N |-> Props(n)[k].schema]
  BY <1>2
<1>11. /\ b \in Seq(Nat) /\ Len(b) = N
       /\ \A k \in 1..N : b[k] = Props(n)[k].schema
  BY <1>2, <1>10
<1>3. ToSet(a \o b) \subseteq {m \in DOMAIN schema : m > n}
  <2>1. WellFormedSchema(schema)
    BY SchemasAssumption
  <2>2. LET props    == Or(schema[n].properties, <<>>)
            children == schema[n].allOf \o [k \in DOMAIN props |-> props[k].schema]
        IN  ToSet(children) \subseteq {m \in DOMAIN schema : m > n}
    BY <2>1, Zenon DEF WellFormedSchema
  <2> QED BY <2>2 DEF Props
<1>7. a \in Seq(Nat)
  BY <1>1
<1>12. b \in Seq(Nat)
  BY <1>11
<1> HIDE DEF b, a
<1>8. /\ a \o b \in Seq(Nat) /\ Len(a \o b) = Len(a) + Len(b)
      /\ \A k \in 1..Len(a) : (a \o b)[k] = a[k]
      /\ \A k \in 1..Len(b) : (a \o b)[Len(a) + k] = b[k]
  BY <1>7, <1>12, Concat2
<1>9. Len(a) \in Nat /\ Len(b) \in Nat /\ DOMAIN (a \o b) = 1..Len(a) + Len(b)
  <2>1. DOMAIN (a \o b) = 1..Len(a \o b)
    BY <1>8
  <2> QED BY <1>7, <1>8, <1>12, <2>1
<1>4. /\ \A k \in 1..Len(a) : (a \o b)[k] = a[k] /\ k \in DOMAIN (a \o b)
      /\ \A k \in 1..Len(b) : (a \o b)[Len(a) + k] = b[k] /\ Len(a) + k \in DOMAIN (a \o b)
  BY <1>8, <1>9
<1>5. \A k \in 1..Len(a) : a[k] \in ToSet(a \o b)
  BY <1>4 DEF ToSet
<1>6. \A k \in 1..Len(b) : b[k] \in ToSet(a \o b)
  BY <1>4 DEF ToSet
<1> QED BY <1>1, <1>3, <1>5, <1>6, <1>11 DEF a

(* EnterProperty keeps the tree: it starts the call for a property.        *)
LEMMA EnterPropertyTree == ASSUME Tree, EnterProperty PROVE Tree'
<1> DEFINE child == TheProperty.schema
           path  == Top.path \o <<"/">> \o EscapePointerToken(TheProperty.name)
           known == {k \in DOMAIN args : args[k].path = path}
           input == IF known = {} THEN Len(args) + 1 ELSE CHOOSE k \in known : TRUE
           fact  == CollectKind(child, "any")
           b == [Top EXCEPT !.fields = Append(@, TheProperty.name)]
           c == NextK(b)
           d == Call(child, input, fact.kind, path, Or(schema[child].title, TheProperty.name))
<1>1. /\ stack # <<>> /\ Top.at = "properties" /\ UNCHANGED <<schema, ops, ret, pc>>
      /\ Top.k =< Len(Props(Top.node)) /\ stack' = Front(stack) \o <<c, d>>
  BY SMTT(30) DEF EnterProperty, AtProperty, At
<1>2. IsCall(Top) /\ IsInjective(Holding(Top))
  BY <1>1, TopShape, SMTT(30)
<1>3. schema \in Schemas /\ Top.node \in DOMAIN schema /\ Top.k \in 1..Len(Props(Top.node))
  <2>1. schema \in Schemas /\ Top.node \in DOMAIN schema
    BY <1>2 DEF Tree, Shape, IsCall
  <2>2. Props(Top.node) \in Seq(Property)
    BY <2>1, NodeIs
  <2> QED BY <1>1, <1>2, <2>1, <2>2 DEF IsCall
<1>4. child \in DOMAIN schema
  BY <1>3, ChildrenAre DEF TheProperty
<1>5. IsCall(b) /\ Holding(b) = Holding(Top)
  BY <1>2 DEF IsCall, Holding
<1> HIDE DEF b
<1>6. IsCall(c) /\ Holding(c) = Holding(Top)
  BY <1>5, CallEdits
<1> HIDE DEF c, child, path, input, fact
<1>7. IsCall(d) /\ Holding(d) = <<>>
  BY <1>4, NewCall
<1> HIDE DEF d
<1>8. IsRow(stack)
  BY DEF Tree, Shape, Calls
<1>9. PICK t : Relast(t, stack, c) /\ stack' = Append(t, d)
  BY <1>1, <1>8, RowPush, ZenonT(40)
<1> QED BY <1>1, <1>2, <1>6, <1>7, <1>9, TreePush

(* EnterBranch keeps the tree: it starts the call for a branch.            *)
LEMMA EnterBranchTree == ASSUME Tree, EnterBranch PROVE Tree'
<1> DEFINE child == schema[Top.node].allOf[Top.k]
           c == NextK(Top)
           d == Call(child, Top.input, Top.fact, Top.path, Top.type)
<1>1. /\ stack # <<>> /\ Top.at = "allOf" /\ UNCHANGED <<schema, ops, ret, pc>>
      /\ Top.k =< Len(schema[Top.node].allOf) /\ stack' = Front(stack) \o <<c, d>>
  BY DEF EnterBranch, At
<1>2. IsCall(Top) /\ IsInjective(Holding(Top))
  BY <1>1, TopShape
<1>3. schema \in Schemas /\ Top.node \in DOMAIN schema /\ Top.k \in 1..Len(schema[Top.node].allOf)
  <2>1. schema \in Schemas /\ Top.node \in DOMAIN schema
    BY <1>2 DEF Tree, Shape, IsCall
  <2>2. schema[Top.node].allOf \in Seq(Nat)
    BY <2>1, ChildrenAre
  <2> QED BY <1>1, <1>2, <2>1, <2>2 DEF IsCall
<1>4. child \in DOMAIN schema
  BY <1>3, ChildrenAre
<1>5. IsCall(c) /\ Holding(c) = Holding(Top)
  BY <1>2, CallEdits
<1> HIDE DEF c, child
<1>6. IsCall(d) /\ Holding(d) = <<>>
  BY <1>4, NewCall
<1> HIDE DEF d
<1>7. IsRow(stack)
  BY DEF Tree, Shape, Calls
<1>8. PICK t : Relast(t, stack, c) /\ stack' = Append(t, d)
  BY <1>1, <1>7, RowPush
<1> QED BY <1>1, <1>2, <1>5, <1>6, <1>8, TreePush

(* Begin keeps the tree: it starts the call for the root.                  *)
LEMMA BeginTree == ASSUME Tree, Begin PROVE Tree'
<1> DEFINE d == Call(1, 1, CollectKind(1, "any").kind, <<>>, RootName)
<1>1. /\ pc = "start" /\ stack' = <<d>> /\ pc' = "import" /\ UNCHANGED <<schema, ops, ret>>
  BY DEF Begin
<1>2. /\ Shape /\ stack = <<>> /\ ret = 0 /\ schema \in Schemas /\ Made
      /\ OneHolder(Uses, Holds, 0, Len(ops), Len(stack))
  BY <1>1 DEF Tree, Shape
<1>3. IsCall(d) /\ Holding(d) = <<>>
  BY <1>2, NodeIs, NewCall
<1> HIDE DEF d
<1>4. Len(stack) = 0 /\ Len(stack') = 1 /\ stack'[1] = d /\ IsRow(stack')
  <2>1. <<d>> \in Seq({d})
    OBVIOUS
  <2> QED BY <1>1, <1>2, <2>1 DEF IsRow
<1>5. IsInjective(Holding(d)) /\ ToSet(Holding(d)) = {}
  BY <1>3 DEF IsInjective, ToSet
<1>6. Calls'
  <2> SUFFICES ASSUME NEW f \in 1..1 PROVE IsCall(stack[f])' /\ IsInjective(Holding(stack[f]))'
    BY <1>4 DEF Calls
  <2>1. stack'[f] = d
    BY <1>4
  <2> QED BY <1>1, <1>3, <1>5, <2>1 DEF IsCall, Holding
<1>7. Holds'[1] = {}
  BY <1>3, <1>4, <1>5 DEF Holds, Holding
<1>8. \A v \in 1..Len(ops) : Operands(v)' = Operands(v)
  BY <1>1, OperandsKept
<1>9. Uses' = Uses /\ Made'
  BY <1>1, <1>2, <1>8 DEF Uses, Made
<1>10. OneHolder(Uses, Holds', 0, Len(ops), 1)
  BY <1>2, <1>4, <1>7, PushHolder
<1>11. Shape'
  BY <1>1, <1>2, <1>6, <1>9 DEF Shape
<1> QED BY <1>1, <1>2, <1>4, <1>9, <1>10, <1>11 DEF Tree

-----------------------------------------------------------------------------
(* The end of a call.  Its conjuncts become one operation v, which it then *)
(* holds alone.                                                            *)
Mid(v) == [f \in 1..Len(stack) |-> IF f = Len(stack) THEN {v} ELSE Holds[f]]

Folded(v) == Made' /\ v \in 1..Len(ops') /\ OneHolder(Uses', Mid(v), 0, Len(ops'), Len(stack))

(* Operations made at the end leave the uses before them alone.            *)
LEMMA NewOps ==
  ASSUME Made, NEW made, IsRow(made), ops' = ops \o made,
         \A k \in 1..Len(made) : OperandsOf(made[k]) \in Seq(Nat) /\ IsInjective(OperandsOf(made[k]))
  PROVE  /\ Made' /\ Len(ops') = Len(ops) + Len(made)
         /\ \A v \in 1..Len(ops) : Uses'[v] = Uses[v]
         /\ \A k \in 1..Len(made) : Uses'[Len(ops) + k] = ToSet(OperandsOf(made[k]))
<1> DEFINE N == Len(ops)
           L == Len(made)
<1>1. /\ IsRow(ops') /\ Len(ops') = N + L /\ N \in Nat /\ L \in Nat
      /\ \A v \in 1..N : ops'[v] = ops[v]
      /\ \A k \in 1..L : ops'[N + k] = made[k]
  BY RowConcat, RowLen DEF Made
<1>2. \A v \in 1..N : Operands(v)' = Operands(v)
  BY <1>1, OperandsKept
<1>3. \A v \in 1..N + L : Operands(v)' = OperandsOf(ops'[v])
  BY OperandsAre
<1>4. Uses' = [v \in 1..N + L |-> ToSet(Operands(v)')] /\ Uses = [v \in 1..N |-> ToSet(Operands(v))]
  BY <1>1 DEF Uses
<1>5. \A v \in 1..N : Operands(v) \in Seq(Nat) /\ IsInjective(Operands(v))
  BY DEF Made
<1>6. \A v \in 1..N + L : v \in 1..N \/ \E k \in 1..L : v = N + k
  <2> SUFFICES ASSUME NEW v \in 1..N + L, v \notin 1..N PROVE \E k \in 1..L : v = N + k
    OBVIOUS
  <2>1. v - N \in 1..L /\ v = N + (v - N)
    BY <1>1
  <2> QED BY <2>1
<1>7. /\ \A v \in 1..N : v \in 1..N + L
      /\ \A k \in 1..L : N + k \in 1..N + L
  BY <1>1
<1> HIDE DEF N, L
<1>8. Made'
  <2> SUFFICES ASSUME NEW v \in 1..N + L
               PROVE  Operands(v)' \in Seq(Nat) /\ IsInjective(Operands(v)')
    BY <1>1 DEF Made
  <2>1. CASE v \in 1..N
    BY <1>2, <1>5, <2>1
  <2>2. CASE \E k \in 1..L : v = N + k
    BY <1>1, <1>3, <2>2 DEF L
  <2> QED BY <1>6, <2>1, <2>2
<1>9. \A v \in 1..N : Uses'[v] = Uses[v]
  BY <1>2, <1>4, <1>7
<1>10. \A k \in 1..L : Uses'[N + k] = ToSet(OperandsOf(made[k]))
  BY <1>1, <1>3, <1>4, <1>7
<1> QED BY <1>1, <1>8, <1>9, <1>10 DEF N, L

(* No conjuncts: the operation is true.                                    *)
LEMMA FoldsNone ==
  ASSUME Tree, stack # <<>>, Top.at = "allOf", Top.conjuncts = <<>>,
         ops' = ops \o Conjunction(Top.node, Top.conjuncts)
  PROVE  Folded(Len(ops) + 1)
<1> DEFINE o == [op |-> "true", loc |-> Top.node]
           N == Len(ops)
           M == Len(stack)
<1>1. Conjunction(Top.node, Top.conjuncts) = <<o>>
  BY DEF Conjunction
<1>2. OperandsOf(o) = <<>> /\ <<>> \in Seq(Nat) /\ IsInjective(<<>>) /\ ToSet(<<>>) = {}
  BY DEF OperandsOf, IsInjective, ToSet
<1> HIDE DEF o
<1>3. IsRow(<<o>>) /\ Len(<<o>>) = 1 /\ <<o>>[1] = o
  <2>1. <<o>> \in Seq({o})
    OBVIOUS
  <2> QED BY <2>1 DEF IsRow
<1>4. Made /\ OneHolder(Uses, Holds, 0, N, M) /\ Holds[M] = {} /\ M > 0 /\ M \in Nat /\ N \in Nat
  <2>1. /\ Made /\ OneHolder(Uses, Holds, ret, N, M) /\ ret = 0 /\ N \in Nat
    BY TopShape DEF Tree, Shape
  <2>2. M \in Nat /\ M > 0 /\ M \in 1..M /\ Top = stack[M]
    BY RowLen DEF Tree, Shape, Calls, Top
  <2>3. Holding(Top) = <<>>
    BY DEF Holding
  <2> QED BY <1>2, <2>1, <2>2, <2>3 DEF Holds
<1>5. /\ Made' /\ Len(ops') = N + 1 /\ \A v \in 1..N : Uses'[v] = Uses[v]
      /\ Uses'[N + 1] = {}
  <2>1. \A k \in 1..Len(<<o>>) : <<o>>[k] = o
    BY <1>3
  <2>2. \A k \in 1..Len(<<o>>) : OperandsOf(<<o>>[k]) \in Seq(Nat) /\ IsInjective(OperandsOf(<<o>>[k]))
    BY <1>2, <2>1
  <2>3. /\ Made' /\ Len(ops') = N + Len(<<o>>)
        /\ \A v \in 1..N : Uses'[v] = Uses[v]
        /\ \A k \in 1..Len(<<o>>) : Uses'[N + k] = ToSet(OperandsOf(<<o>>[k]))
    BY <1>1, <1>3, <1>4, <2>2, NewOps
  <2>4. 1 \in 1..Len(<<o>>)
    BY <1>3
  <2> QED BY <1>2, <1>3, <2>1, <2>3, <2>4
<1>6. /\ Mid(N + 1)[M] = {N + 1} /\ \A f \in 1..M - 1 : Mid(N + 1)[f] = Holds[f]
  <2>1. M \in 1..M /\ \A f \in 1..M - 1 : f \in 1..M /\ f # M
    BY <1>4
  <2> QED BY <2>1 DEF Mid
<1> HIDE DEF N, M
<1>7. Takes(Uses', Mid(N + 1), Uses, Holds, {}, N, M)
  BY <1>4, <1>5, <1>6 DEF Takes
<1>8. OneHolder(Uses', Mid(N + 1), 0, N + 1, M)
  BY <1>4, <1>7, TakeHolder
<1> QED BY <1>4, <1>5, <1>8 DEF Folded, N, M

(* One conjunct: it is the operation, and none is made.                    *)
LEMMA FoldsOne ==
  ASSUME Tree, stack # <<>>, Top.at = "allOf", Len(Top.conjuncts) = 1,
         ops' = ops \o Conjunction(Top.node, Top.conjuncts)
  PROVE  Folded(Top.conjuncts[1]) /\ Conjunction(Top.node, Top.conjuncts) = <<>>
<1> DEFINE v == Top.conjuncts[1]
           N == Len(ops)
           M == Len(stack)
<1>1. Top.conjuncts \in Seq(Nat) /\ Top.conjuncts # <<>> /\ ToSet(Top.conjuncts) = {v}
  <2>1. Top.conjuncts \in Seq(Nat)
    BY TopShape DEF IsCall
  <2>2. DOMAIN Top.conjuncts = {1}
    BY <2>1
  <2>3. ToSet(Top.conjuncts) = {v}
    BY <2>2 DEF ToSet
  <2>4. Top.conjuncts # <<>>
    <3>1. Len(<<>>) = 0
      OBVIOUS
    <3> SUFFICES ASSUME Top.conjuncts = <<>> PROVE FALSE
      OBVIOUS
    <3>2. Len(Top.conjuncts) = Len(<<>>)
      OBVIOUS
    <3> HIDE DEF v, N, M
    <3> QED BY <3>1, <3>2
  <2> QED BY <2>1, <2>3, <2>4
<1>2. Conjunction(Top.node, Top.conjuncts) = <<>>
  <2>1. 1..Len(Top.conjuncts) - 1 = {}
    OBVIOUS
  <2>2. Conjunction(Top.node, Top.conjuncts)
        = [k \in {} |-> [op |-> "and", loc |-> Top.node,
             args |-> <<IF k = 1 THEN Top.conjuncts[1] ELSE Len(ops) + k - 1, Top.conjuncts[k + 1]>>]]
    BY <1>1, <2>1 DEF Conjunction
  <2> QED BY <2>2
<1>3. /\ Made /\ OneHolder(Uses, Holds, 0, N, M) /\ M > 0 /\ M \in Nat /\ N \in Nat
      /\ M \in 1..M /\ Top = stack[M]
  <2>1. /\ Made /\ OneHolder(Uses, Holds, ret, N, M) /\ ret = 0 /\ N \in Nat
    BY TopShape DEF Tree, Shape
  <2>2. M \in Nat /\ M > 0 /\ M \in 1..M /\ Top = stack[M]
    BY RowLen DEF Tree, Shape, Calls, Top
  <2> QED BY <2>1, <2>2
<1>4. ops' = ops
  <2>1. PICK S : ops \in Seq(S)
    BY <1>3 DEF Made, IsRow
  <2> QED BY <1>2, <2>1
<1>5. Holds[M] = {v} /\ v \in 1..N
  <2>1. Holding(Top) = Top.conjuncts
    BY DEF Holding
  <2>2. Holds[M] = {v}
    BY <1>1, <1>3, <2>1 DEF Holds
  <2> QED BY <1>3, <2>2 DEF OneHolder
<1>6. \A w \in 1..N : Operands(w)' = Operands(w)
  BY <1>4, OperandsKept
<1>7. Uses' = Uses /\ Made'
  BY <1>3, <1>4, <1>6 DEF Uses, Made
<1>8. \A f \in 1..M : Mid(v)[f] = Holds[f]
  BY <1>5 DEF Mid
<1> HIDE DEF N, M, v
<1>9. OneHolder(Uses, Mid(v), 0, N, M)
  BY <1>3, <1>8 DEF OneHolder, Held
<1>10. Folded(v)
  BY <1>4, <1>5, <1>7, <1>9 DEF Folded, N, M
<1> QED BY <1>2, <1>10 DEF v

(* Several conjuncts are joined from the left, and the last join is the    *)
(* operation.                                                              *)
LEMMA FoldsMany ==
  ASSUME Tree, stack # <<>>, Top.at = "allOf", Len(Top.conjuncts) > 1,
         ops' = ops \o Conjunction(Top.node, Top.conjuncts)
  PROVE  /\ Folded(Len(ops) + Len(Top.conjuncts) - 1)
         /\ Len(Conjunction(Top.node, Top.conjuncts)) = Len(Top.conjuncts) - 1
<1> DEFINE c == Top.conjuncts
           N == Len(ops)
           M == Len(stack)
           L == Len(c) - 1
           and(k) == [op |-> "and", loc |-> Top.node,
                      args |-> <<IF k = 1 THEN c[1] ELSE N + k - 1, c[k + 1]>>]
           made == [k \in 1..L |-> and(k)]
<1>1. /\ c \in Seq(Nat) /\ IsInjective(c) /\ Holding(Top) = c /\ Len(c) \in Nat
  BY TopShape DEF IsCall, Holding
<1>2. /\ Made /\ OneHolder(Uses, Holds, 0, N, M) /\ M > 0 /\ M \in Nat /\ N \in Nat
      /\ M \in 1..M /\ Top = stack[M]
  <2>1. /\ Made /\ OneHolder(Uses, Holds, ret, N, M) /\ ret = 0 /\ N \in Nat
    BY TopShape DEF Tree, Shape
  <2>2. M \in Nat /\ M > 0 /\ M \in 1..M /\ Top = stack[M]
    BY RowLen DEF Tree, Shape, Calls, Top
  <2> QED BY <2>1, <2>2
<1>3. Conjunction(Top.node, c) = made
  <2>1. c # <<>>
    BY <1>1
  <2> QED BY <2>1 DEF Conjunction
<1>4. Holds[M] = ToSet(c)
  BY <1>1, <1>2 DEF Holds
<1>5. /\ \A k \in 1..L + 1 : c[k] \in Nat /\ c[k] \in 1..N
      /\ \A k, l \in 1..L + 1 : c[k] = c[l] => k = l
      /\ L \in Nat /\ L > 0 /\ Len(c) = L + 1
  <2>1. ToSet(c) \subseteq 1..N
    BY <1>2, <1>4 DEF OneHolder
  <2>2. DOMAIN c = 1..L + 1 /\ L \in Nat /\ L > 0 /\ Len(c) = L + 1
    BY <1>1
  <2>3. \A k \in 1..L + 1 : c[k] \in ToSet(c)
    BY <2>2 DEF ToSet
  <2>4. \A k, l \in 1..L + 1 : c[k] = c[l] => k = l
    BY <1>1, <2>2 DEF IsInjective
  <2>5. \A x \in 1..N : x \in Nat
    BY <1>2
  <2> HIDE DEF c, N, L
  <2> QED BY <2>1, <2>2, <2>3, <2>4, <2>5
<1> HIDE DEF c, N, M, L
<1>6. \A k \in 1..L : OperandsOf(and(k)) = <<IF k = 1 THEN c[1] ELSE N + k - 1, c[k + 1]>>
  BY DEF OperandsOf
<1>7. \A k \in 1..L : /\ OperandsOf(and(k)) \in Seq(Nat) /\ IsInjective(OperandsOf(and(k)))
                      /\ ToSet(OperandsOf(and(k))) = Chained(c, N, k)
  <2> SUFFICES ASSUME NEW k \in 1..L
               PROVE  /\ OperandsOf(and(k)) \in Seq(Nat) /\ IsInjective(OperandsOf(and(k)))
                      /\ ToSet(OperandsOf(and(k))) = Chained(c, N, k)
    OBVIOUS
  <2> DEFINE a == IF k = 1 THEN c[1] ELSE N + k - 1
             b == c[k + 1]
  <2>1. k \in 1..L + 1 /\ k + 1 \in 1..L + 1 /\ 1 \in 1..L + 1 /\ k + 1 # 1
    BY <1>5
  <2>2. a \in Nat /\ b \in Nat /\ a # b
    <3>1. CASE k = 1
      BY <1>5, <2>1, <3>1
    <3>2. CASE k # 1
      <4>1. a = N + k - 1 /\ a > N /\ a \in Nat
        BY <1>2, <3>2
      <4>2. b \in Nat /\ b =< N
        BY <1>2, <1>5, <2>1
      <4> QED BY <1>2, <4>1, <4>2
    <3> QED BY <3>1, <3>2
  <2>3. Chained(c, N, k) = {a, b}
    BY DEF Chained
  <2>4. OperandsOf(and(k)) = <<a, b>>
    BY <1>6
  <2> HIDE DEF a, b
  <2>5. <<a, b>> \in Seq(Nat) /\ IsInjective(<<a, b>>) /\ ToSet(<<a, b>>) = {a, b}
    BY <2>2 DEF IsInjective, ToSet
  <2> QED BY <2>3, <2>4, <2>5
<1> HIDE DEF and
<1>8. IsRow(made) /\ Len(made) = L /\ \A k \in 1..L : made[k] = and(k)
  <2> DEFINE S == {and(k) : k \in 1..L}
  <2>1. \A k \in 1..L : and(k) \in S
    OBVIOUS
  <2> HIDE DEF S
  <2>2. made \in Seq(S) /\ Len(made) = L
    BY <1>5, <2>1
  <2> QED BY <2>2 DEF IsRow
<1> HIDE DEF made
<1>9. ops' = ops \o made
  BY <1>3 DEF c
<1>10. /\ Made' /\ Len(ops') = N + L
       /\ \A v \in 1..N : Uses'[v] = Uses[v]
       /\ \A k \in 1..L : Uses'[N + k] = Chained(c, N, k)
  <2>1. \A k \in 1..Len(made) : OperandsOf(made[k]) \in Seq(Nat) /\ IsInjective(OperandsOf(made[k]))
    BY <1>7, <1>8
  <2>2. /\ Made' /\ Len(ops') = Len(ops) + Len(made)
        /\ \A v \in 1..Len(ops) : Uses'[v] = Uses[v]
        /\ \A k \in 1..Len(made) : Uses'[Len(ops) + k] = ToSet(OperandsOf(made[k]))
    BY <1>2, <1>8, <1>9, <2>1, NewOps
  <2>3. \A k \in 1..L : Uses'[N + k] = ToSet(OperandsOf(made[k]))
    BY <1>8, <2>2 DEF N
  <2> QED BY <1>7, <1>8, <2>2, <2>3 DEF N
<1> DEFINE v == N + L
<1>11. Mid(v)[M] = {v} /\ \A f \in 1..M - 1 : Mid(v)[f] = Holds[f]
  <2>1. \A f \in 1..M - 1 : f \in 1..M /\ f # M
    BY <1>2
  <2> QED BY <1>2, <2>1 DEF Mid, M
<1>12. v = N + Len(c) - 1 /\ v \in 1..v /\ L = Len(c) - 1
  BY <1>2, <1>5
<1> HIDE DEF v
<1>13. Joins(Uses', Mid(v), Uses, Holds, c, N, M)
  BY <1>10, <1>11, <1>12 DEF Joins
<1>14. Len(c) > 1
  BY <1>5
<1>15. OneHolder(Uses', Mid(v), 0, N + Len(c) - 1, M)
  BY <1>1, <1>2, <1>4, <1>13, <1>14, JoinHolder
<1>16. Len(ops') = v
  BY <1>10 DEF v
<1>17. Folded(v)
  BY <1>10, <1>12, <1>15, <1>16 DEF Folded, M
<1> QED BY <1>3, <1>8, <1>12, <1>17 DEF c, N, L

(* What Return does once the conjuncts are one operation v.                *)
Returned(c, v) ==
  IF c.at = "properties" THEN [c EXCEPT !.verdicts = Append(@, v)] ELSE Conjoin(c, v)

HandsOver(v) ==
  /\ UNCHANGED <<schema, pc>>
  /\ Len(stack) = 1 => stack' = <<>> /\ ret' = v
  /\ Len(stack) # 1 => /\ stack' = Append(Front(Front(stack)), Returned(Last(Front(stack)), v))
                       /\ ret' = ret

(* Return is the fold of the conjuncts and the handing over of what it     *)
(* gives.                                                                  *)
LEMMA ReturnFolds == ASSUME Tree, Return PROVE \E v : Folded(v) /\ HandsOver(v)
<1> DEFINE made    == Conjunction(Top.node, Top.conjuncts)
           verdict == IF made = <<>> THEN Top.conjuncts[1] ELSE Len(ops) + Len(made)
<1>1. /\ stack # <<>> /\ Top.at = "allOf" /\ ops' = ops \o made
  BY DEF Return, At
<1>2. HandsOver(verdict)
  BY DEF Return, HandsOver, Returned
<1>3. Top.conjuncts \in Seq(Nat) /\ Len(ops) \in Nat
  BY <1>1, TopShape DEF IsCall
<1>4. Len(<<>>) = 0 /\ Len(Top.conjuncts) \in Nat
  BY <1>3
<1>5. CASE Top.conjuncts = <<>>
  <2>1. made = <<[op |-> "true", loc |-> Top.node]>>
    BY <1>5 DEF Conjunction
  <2>2. Len(made) = 1
    BY <2>1
  <2>3. verdict = Len(ops) + 1
    BY <1>4, <2>2
  <2>4. Folded(Len(ops) + 1)
    BY <1>1, <1>5, FoldsNone
  <2> QED BY <1>2, <2>3, <2>4
<1>6. CASE Len(Top.conjuncts) = 1
  <2>1. Folded(Top.conjuncts[1]) /\ made = <<>>
    BY <1>1, <1>6, FoldsOne
  <2> QED BY <1>2, <2>1
<1>7. CASE Len(Top.conjuncts) > 1
  <2>1. Folded(Len(ops) + Len(Top.conjuncts) - 1) /\ Len(made) = Len(Top.conjuncts) - 1
    BY <1>1, <1>7, FoldsMany
  <2>2. verdict = Len(ops) + Len(made)
    BY <1>4, <1>7, <2>1
  <2>3. Len(ops) + Len(Top.conjuncts) - 1 = Len(ops) + Len(made)
    BY <1>3, <1>4, <2>1
  <2> QED BY <1>2, <2>1, <2>2, <2>3
<1>8. Top.conjuncts = <<>> \/ Len(Top.conjuncts) = 1 \/ Len(Top.conjuncts) > 1
  <2>1. Len(Top.conjuncts) \in Nat /\ (Top.conjuncts # <<>> <=> Len(Top.conjuncts) > 0)
    BY <1>3, RowLen DEF IsRow
  <2>2. \A n \in Nat : n > 0 => n = 1 \/ n > 1
    OBVIOUS
  <2> QED BY <2>1, <2>2
<1> QED BY <1>5, <1>6, <1>7, <1>8

(* The caller holds what it is handed, after what it held.                 *)
LEMMA CallerEdit ==
  ASSUME NEW c, IsCall(c), IsInjective(Holding(c)), NEW v \in Nat, v \notin ToSet(Holding(c))
  PROVE  /\ IsCall(Returned(c, v)) /\ IsInjective(Holding(Returned(c, v)))
         /\ ToSet(Holding(Returned(c, v))) = ToSet(Holding(c)) \cup {v}
<1> DEFINE d == Returned(c, v)
<1>1. /\ c.conjuncts \in Seq(Nat) /\ c.verdicts \in Seq(Nat) /\ Holding(c) \in Seq(Nat)
      /\ DOMAIN c = CallField
  BY DEF IsCall, Holding
<1>2. IsCall(d) /\ Holding(d) = Append(Holding(c), v)
  <2>1. CASE c.at = "properties"
    <3>1. d = [c EXCEPT !.verdicts = Append(@, v)]
      BY <2>1 DEF Returned
    <3>2. "verdicts" \in DOMAIN c /\ "at" \in DOMAIN c /\ "conjuncts" \in DOMAIN c
      BY <1>1 DEF CallField
    <3>3. d.at = "properties" /\ d.conjuncts = c.conjuncts /\ d.verdicts = Append(c.verdicts, v)
      BY <2>1, <3>1, <3>2
    <3>4. IsCall(d)
      BY <1>1, <2>1, <3>1, <3>2 DEF IsCall
    <3>5. \A a, b \in Seq(Nat) : a \o Append(b, v) = Append(a \o b, v)
      OBVIOUS
    <3>6. Holding(d) = c.conjuncts \o Append(c.verdicts, v) /\ Holding(c) = c.conjuncts \o c.verdicts
      BY <2>1, <3>3 DEF Holding
    <3> QED BY <1>1, <3>4, <3>5, <3>6, ZenonT(40)
  <2>2. CASE c.at # "properties"
    <3>1. d = Conjoin(c, v)
      BY <2>2 DEF Returned
    <3> HIDE DEF d
    <3>2. IsCall(d) /\ d.at = c.at /\ d.conjuncts = Append(c.conjuncts, v)
      BY <3>1, CallEdits
    <3> QED BY <2>2, <3>2 DEF Holding
  <2> QED BY <2>1, <2>2
<1> HIDE DEF d
<1>3. IsInjective(Append(Holding(c), v)) /\ ToSet(Append(Holding(c), v)) = ToSet(Holding(c)) \cup {v}
  BY <1>1, AppendNew
<1> QED BY <1>2, <1>3 DEF d

(* Return keeps the tree: the verdict passes to the caller, or is what the *)
(* function returns.                                                       *)
LEMMA ReturnTree == ASSUME Tree, Return PROVE Tree'
<1> DEFINE N == Len(ops')
           M == Len(stack)
<1>1. PICK v : Folded(v) /\ HandsOver(v)
  BY ReturnFolds
<1>2. /\ Made' /\ v \in 1..N /\ OneHolder(Uses', Mid(v), 0, N, M)
      /\ schema' = schema /\ pc' = pc
  BY <1>1 DEF Folded, HandsOver
<1>3. /\ stack # <<>> /\ IsRow(stack) /\ ret = 0 /\ pc = "import" /\ schema' \in Schemas
      /\ \A f \in 1..M : IsCall(stack[f]) /\ IsInjective(Holding(stack[f]))
  BY <1>2 DEF Return, At, Tree, Shape, Calls
<1>4. M \in Nat /\ M > 0 /\ M \in 1..M /\ v \in Nat
  BY <1>2, <1>3, RowLen DEF OneHolder
<1>5. Mid(v)[M] = {v} /\ \A f \in 1..M - 1 : Mid(v)[f] = ToSet(Holding(stack[f]))
  <2>1. \A f \in 1..M - 1 : f \in 1..M /\ f # M
    BY <1>4
  <2> QED BY <1>4, <2>1 DEF Mid, Holds
<1>6. /\ M = 1 => OneHolder(Uses', <<>>, v, N, 0)
      /\ \A D : /\ M > 1 /\ \A f \in 1..M - 2 : D[f] = Mid(v)[f]
                /\ D[M - 1] = Mid(v)[M - 1] \cup {v}
                => OneHolder(Uses', D, 0, N, M - 1)
  BY <1>2, <1>4, <1>5, PopHolder
<1>7. CASE M = 1
  <2>1. stack' = <<>> /\ ret' = v /\ Len(stack') = 0
    BY <1>1, <1>7 DEF HandsOver
  <2>2. IsRow(stack')
    <3>1. <<>> \in Seq({})
      OBVIOUS
    <3> QED BY <2>1, <3>1 DEF IsRow
  <2>3. Shape'
    BY <1>2, <1>3, <2>1, <2>2 DEF Shape, Calls
  <2>4. OneHolder(Uses', Holds', v, N, 0)
    BY <1>6, <1>7 DEF OneHolder, Held
  <2> QED BY <2>1, <2>3, <2>4 DEF Tree
<1>8. CASE M # 1
  <2> DEFINE s == Front(stack)
             c == Returned(Last(s), v)
  <2>1. stack' = Append(Front(s), c) /\ ret' = 0
    BY <1>1, <1>3, <1>8 DEF HandsOver
  <2>2. /\ IsRow(s) /\ Len(s) = M - 1 /\ \A f \in 1..M - 1 : s[f] = stack[f]
    BY <1>3, RowFront
  <2>3. M - 1 \in Nat /\ M - 1 > 0 /\ M > 1 /\ M - 1 \in 1..M - 1 /\ M - 1 \in 1..M
    <3>1. \A m \in Nat : m > 0 /\ m # 1 => m - 1 \in Nat /\ m - 1 > 0 /\ m > 1
                                          /\ m - 1 \in 1..m - 1 /\ m - 1 \in 1..m
      OBVIOUS
    <3> HIDE DEF M
    <3> QED BY <1>4, <1>8, <3>1
  <2>4. s # <<>> /\ Last(s) = stack[M - 1]
    BY <2>2, <2>3, RowLen
  <2> HIDE DEF s
  <2>5. v \notin ToSet(Holding(stack[M - 1]))
    <3>1. Mid(v)[M] \cap Mid(v)[M - 1] = {}
      BY <1>2, <1>4, <2>3 DEF OneHolder
    <3> QED BY <1>5, <2>3, <3>1
  <2>6. /\ IsCall(c) /\ IsInjective(Holding(c))
        /\ ToSet(Holding(c)) = ToSet(Holding(stack[M - 1])) \cup {v}
    BY <1>3, <1>4, <2>3, <2>4, <2>5, CallerEdit
  <2> HIDE DEF c
  <2>7. Relast(stack', s, c)
    BY <2>1, <2>2, <2>4, RowRelast
  <2>8. /\ IsRow(stack') /\ Len(stack') = M - 1 /\ stack'[M - 1] = c
        /\ \A f \in 1..M - 2 : stack'[f] = stack[f] /\ f \in 1..M - 1 /\ f \in 1..M
        /\ \A f \in 1..M - 1 : f = M - 1 \/ f \in 1..M - 2
    <3>1. (M - 1) - 1 = M - 2
      BY <1>4
    <3>2. /\ \A f \in 1..M - 2 : f \in 1..M - 1 /\ f \in 1..M
          /\ \A f \in 1..M - 1 : f = M - 1 \/ f \in 1..M - 2
      BY <1>4
    <3> QED BY <2>2, <2>7, <3>1, <3>2 DEF Relast
  <2>9. \A f \in 1..M - 1 : IsCall(stack'[f]) /\ IsInjective(Holding(stack'[f]))
    BY <1>3, <2>6, <2>8
  <2>10. Calls'
    <3> SUFFICES ASSUME NEW f \in 1..M - 1
                 PROVE  IsCall(stack[f])' /\ IsInjective(Holding(stack[f]))'
      BY <2>8 DEF Calls
    <3> QED BY <1>2, <2>9 DEF IsCall, Holding
  <2>11. Holds' = [f \in 1..M - 1 |-> ToSet(Holding(stack'[f]))]
    BY <2>8 DEF Holds, Holding
  <2>12. /\ \A f \in 1..M - 2 : Holds'[f] = Mid(v)[f]
         /\ Holds'[M - 1] = Mid(v)[M - 1] \cup {v}
    BY <1>5, <2>3, <2>6, <2>8, <2>11
  <2>13. OneHolder(Uses', Holds', 0, N, M - 1)
    BY <1>6, <2>3, <2>12
  <2>14. Shape'
    BY <1>2, <1>3, <2>1, <2>10 DEF Shape
  <2> QED BY <2>1, <2>8, <2>13, <2>14 DEF Tree
<1> QED BY <1>7, <1>8

(* Finish keeps the tree.                                                  *)
LEMMA FinishTree == ASSUME Tree, Finish PROVE Tree'
<1>1. /\ stack = <<>> /\ pc' # "start" /\ UNCHANGED <<schema, stack, ops, ret>>
  BY DEF Finish
<1>2. Uses' = Uses /\ Holds' = Holds
  BY <1>1 DEF Uses, Holds, Operands, Holding
<1>3. Made' /\ Calls'
  BY <1>1 DEF Tree, Shape, Made, Calls, Operands, IsCall, Holding
<1>4. Shape'
  BY <1>1, <1>3 DEF Tree, Shape
<1> QED BY <1>1, <1>2, <1>4 DEF Tree

(* Every step keeps the tree.                                              *)
LEMMA NextTree == ASSUME Tree, Next PROVE Tree'
<1>1. ASSUME RejectKeyword \/ DropKeyword \/ RejectProperty PROVE Tree'
  <2>1. stack # <<>> /\ Be(NextK(Top)) /\ UNCHANGED <<schema, ops, ret, pc>>
    BY <1>1 DEF RejectKeyword, DropKeyword, RejectProperty, AtKeyword, AtProperty, At
  <2> QED BY <2>1, NextKTree
<1> QED BY <1>1, BeginTree, TypeGuardTree, EmitKeywordTree, EndKeywordsTree, EnterPropertyTree,
           FinishObjectTree, EnterBranchTree, ReturnTree, FinishTree DEF Next

(* A stutter keeps the tree.                                               *)
LEMMA StutterTree == ASSUME Tree, UNCHANGED vars PROVE Tree'
<1>1. UNCHANGED <<schema, stack, ops, ret, pc>>
  BY DEF vars
<1>2. Uses' = Uses /\ Holds' = Holds
  BY <1>1 DEF Uses, Holds, Operands, Holding
<1>3. Made' /\ Calls'
  BY <1>1 DEF Tree, Shape, Made, Calls, Operands, IsCall, Holding
<1>4. Shape'
  BY <1>1, <1>3 DEF Tree, Shape
<1> QED BY <1>1, <1>2, <1>4 DEF Tree

(* At the start there are no operations and no calls.                      *)
LEMMA InitTree == ASSUME Init PROVE Tree
<1>1. /\ schema \in Schemas /\ stack = <<>> /\ ops = <<>> /\ ret = 0 /\ pc = "start"
      /\ Len(stack) = 0 /\ Len(ops) = 0
  BY DEF Init, Idle
<1>2. IsRow(stack) /\ IsRow(ops)
  <2>1. <<>> \in Seq({})
    OBVIOUS
  <2> QED BY <1>1, <2>1 DEF IsRow
<1>3. Shape
  BY <1>1, <1>2 DEF Shape, Made, Calls
<1>4. OneHolder(Uses, Holds, 0, 0, 0)
  BY DEF OneHolder
<1> QED BY <1>1, <1>3, <1>4 DEF Tree

(* With no call under way the holder of an operation is its one user, so   *)
(* the tree is the one TreeShaped asks for.                                *)
LEMMA TreeIsShaped == ASSUME Tree PROVE TreeShaped
<1> DEFINE N == Len(ops)
           At2(v, w) == {<<w, k>> : k \in {l \in DOMAIN Operands(w) : Operands(w)[l] = v}}
           UsesOf(v) == UNION {At2(v, w) : w \in DOMAIN ops}
<1> SUFFICES ASSUME Over, NEW v \in DOMAIN ops
             PROVE  /\ Cardinality(UsesOf(v)) = IF v = ret THEN 0 ELSE 1
                    /\ \A u \in UsesOf(v) : v < u[1]
  BY DEF TreeShaped
<1>1. /\ Made /\ OneHolder(Uses, Holds, ret, N, Len(stack)) /\ stack = <<>>
      /\ Len(<<>>) = 0
  BY DEF Tree, Shape, Over
<1>2. DOMAIN ops = 1..N /\ N \in Nat /\ v \in 1..N
  BY <1>1, RowLen DEF Made
<1>3. \A w \in 1..N : Uses[w] = ToSet(Operands(w)) /\ Operands(w) \in Seq(Nat) /\ IsInjective(Operands(w))
  BY <1>1 DEF Made, Uses
<1>4. OneHolder(Uses, Holds, ret, N, 0)
  BY <1>1
<1>5. v # ret <=> \E w \in 1..N : v \in ToSet(Operands(w))
  <2>1. v # ret <=> Held(v, Uses, Holds, N, 0)
    BY <1>2, <1>4 DEF OneHolder
  <2>2. 1..0 = {}
    OBVIOUS
  <2>3. Held(v, Uses, Holds, N, 0) <=> \E w \in 1..N : v \in Uses[w]
    BY <2>2 DEF Held
  <2> HIDE DEF N
  <2> QED BY <1>3, <2>1, <2>3
<1>6. \A w \in 1..N : v \in ToSet(Operands(w)) => v < w
  <2> HIDE DEF N
  <2>1. \A w \in 1..N : Uses[w] \subseteq 1..w - 1
    BY <1>4 DEF OneHolder
  <2>2. \A w \in 1..N : v \in ToSet(Operands(w)) => v \in 1..w - 1
    BY <1>3, <2>1
  <2> QED BY <1>2, <2>2
<1>7. \A w, x \in 1..N : v \in ToSet(Operands(w)) /\ v \in ToSet(Operands(x)) => w = x
  <2>1. \A w, x \in 1..N : w # x => ToSet(Operands(w)) \cap ToSet(Operands(x)) = {}
    BY <1>3, <1>4 DEF OneHolder
  <2> QED BY <2>1
<1>8. \A w \in 1..N : \A k \in DOMAIN Operands(w) : Operands(w)[k] = v => v \in ToSet(Operands(w))
  BY DEF ToSet
<1>9. \A u : u \in UsesOf(v) <=> \E w \in 1..N : \E k \in DOMAIN Operands(w) : u = <<w, k>> /\ Operands(w)[k] = v
  BY <1>2
<1> HIDE DEF UsesOf, N
<1>10. \A u \in UsesOf(v) : v < u[1]
  BY <1>6, <1>8, <1>9
<1>11. CASE v = ret
  <2>1. UsesOf(v) = {}
    BY <1>5, <1>8, <1>9, <1>11
  <2> QED BY <1>10, <1>11, <2>1, FS_EmptySet
<1>12. CASE v # ret
  <2>1. PICK w \in 1..N : v \in ToSet(Operands(w))
    BY <1>5, <1>12
  <2>2. PICK k \in DOMAIN Operands(w) : Operands(w)[k] = v
    BY <2>1 DEF ToSet
  <2>3. \A x \in 1..N : \A l \in DOMAIN Operands(x) : Operands(x)[l] = v => x = w /\ l = k
    <3> SUFFICES ASSUME NEW x \in 1..N, NEW l \in DOMAIN Operands(x), Operands(x)[l] = v
                 PROVE  x = w /\ l = k
      OBVIOUS
    <3>1. x = w
      BY <1>7, <1>8, <2>1
    <3>2. IsInjective(Operands(w)) /\ l \in DOMAIN Operands(w) /\ Operands(w)[l] = Operands(w)[k]
      BY <1>3, <2>2, <3>1
    <3>3. l = k
      BY <2>2, <3>2 DEF IsInjective
    <3> QED BY <3>1, <3>3
  <2>4. UsesOf(v) = {<<w, k>>}
    BY <1>9, <2>2, <2>3
  <2> QED BY <1>10, <1>12, <2>4, FS_Singleton
<1> QED BY <1>11, <1>12

(* The importer makes a tree: once it is over, each operation but the      *)
(* returned one has one user, made after it, and uses it once; the returned*)
(* one has none.                                                           *)
THEOREM ImporterTreeShaped == Spec => []TreeShaped
<1>1. Init => Tree
  BY InitTree
<1>2. Tree /\ [Next]_vars => Tree'
  BY NextTree, StutterTree
<1>3. Tree => TreeShaped
  BY TreeIsShaped
<1> QED BY <1>1, <1>2, <1>3, PTL DEF Spec

-----------------------------------------------------------------------------
(* Nothing the verifier would refuse is made without an error.  Plain: no  *)
(* schema has the empty title.  m is the number of properties entered whose*)
(* verdicts are still to come.                                             *)
Plain == \A n \in DOMAIN schema : schema[n].title # {<<>>}

Legal(o) ==
  /\ o.op = "validate" => Verifies(o.lat)
  /\ o.op = "struct"   => StructVerifies(o)

Divides(n) ==
  \A k \in DOMAIN schema[n].keywords :
    schema[n].keywords[k].name = "multipleOf" => schema[n].keywords[k].value > Zero

Named(c, m) ==
  /\ IsRow(c.fields) /\ Len(c.fields) = c.k - 1 /\ Len(c.fields) =< Len(Props(c.node))
  /\ \A j \in 1..Len(c.fields) : c.fields[j] = Props(c.node)[j].name /\ c.fields[j] # <<>>
  /\ Len(c.verdicts) + m = Len(c.fields)

Fine(c, m) ==
  /\ c.type # <<>>
  /\ c.at # "guard" => Divides(c.node)
  /\ c.at \in {"guard", "keywords"} => c.fields = <<>>
  /\ c.at = "properties" => Named(c, m)

AllFine == \A f \in 1..Len(stack) : Fine(stack[f], IF f = Len(stack) THEN 0 ELSE 1)

AllLegal == \A v \in 1..Len(ops) : Legal(ops[v])

Diagnosed ==
  /\ errors = {} /\ Plain => AllFine /\ AllLegal
  /\ pc = "none" => errors # {} \/ ~Plain
  /\ pc = "start" => errors = {}

(* The calls stay fine when each call of the new stack is fine for the     *)
(* schemas as they are: no step changes a schema.                          *)
LEMMA AllFineNext ==
  ASSUME UNCHANGED schema,
         \A f \in 1..Len(stack') : Fine(stack'[f], IF f = Len(stack') THEN 0 ELSE 1)
  PROVE  AllFine'
<1> SUFFICES ASSUME NEW f \in 1..Len(stack')
             PROVE  Fine(stack[f], IF f = Len(stack) THEN 0 ELSE 1)'
  BY DEF AllFine
<1>1. Fine(stack'[f], IF f = Len(stack') THEN 0 ELSE 1)
  OBVIOUS
<1>2. schema' = schema
  OBVIOUS
<1> QED BY ONLY <1>1, <1>2 DEF Fine, Named, Divides, Props

(* What a step of the innermost call keeps fine.                           *)
LEMMA FineStays ==
  ASSUME Tree, stack # <<>>, AllFine, UNCHANGED schema,
         NEW c, Be(c), Fine(c, 0)
  PROVE  AllFine'
<1> DEFINE M == Len(stack)
<1>1. IsRow(stack) /\ M \in Nat /\ M > 0
  BY RowLen DEF Tree, Shape, Calls
<1>2. /\ Len(stack') = M /\ stack'[M] = c
      /\ \A f \in 1..M - 1 : stack'[f] = stack[f]
  BY <1>1, RowRelast DEF Be, Relast
<1>3. \A f \in 1..M : f = M \/ (f \in 1..M - 1 /\ f # M)
  BY <1>1
<1>4. \A f \in 1..M : Fine(stack[f], IF f = M THEN 0 ELSE 1)
  BY DEF AllFine
<1> HIDE DEF M
<1>5. \A f \in 1..M : Fine(stack'[f], IF f = M THEN 0 ELSE 1)
  BY <1>2, <1>3, <1>4
<1>6. \A f \in 1..Len(stack') : Fine(stack'[f], IF f = Len(stack') THEN 0 ELSE 1)
  BY <1>2, <1>5
<1> QED BY <1>6, AllFineNext

(* What a call that starts keeps fine: its caller c waits for one verdict. *)
LEMMA FinePush ==
  ASSUME Tree, stack # <<>>, AllFine, UNCHANGED schema,
         NEW c, NEW d, stack' = Front(stack) \o <<c, d>>, Fine(c, 1), Fine(d, 0)
  PROVE  AllFine'
<1> DEFINE M == Len(stack)
<1>1. IsRow(stack) /\ M \in Nat /\ M > 0
  BY RowLen DEF Tree, Shape, Calls
<1>2. PICK t : Relast(t, stack, c) /\ stack' = Append(t, d)
  BY <1>1, RowPush
<1>3. /\ Len(stack') = M + 1 /\ stack'[M + 1] = d /\ stack'[M] = c
      /\ \A f \in 1..M - 1 : stack'[f] = stack[f]
  <2>1. IsRow(t) /\ Len(t) = M /\ t[M] = c /\ \A f \in 1..M - 1 : t[f] = stack[f]
    BY <1>2 DEF Relast
  <2>2. M \in 1..M /\ \A f \in 1..M - 1 : f \in 1..M
    BY <1>1
  <2>3. /\ Len(Append(t, d)) = Len(t) + 1 /\ Append(t, d)[Len(t) + 1] = d
        /\ \A f \in 1..Len(t) : Append(t, d)[f] = t[f]
    BY <2>1, RowAppend
  <2> HIDE DEF M
  <2> QED BY <1>2, <2>1, <2>2, <2>3
<1>4. /\ \A f \in 1..M + 1 : f = M + 1 \/ (f = M /\ f # M + 1) \/ (f \in 1..M - 1 /\ f # M /\ f # M + 1)
      /\ \A f \in 1..M - 1 : f \in 1..M
  BY <1>1
<1>5. \A f \in 1..M : Fine(stack[f], IF f = M THEN 0 ELSE 1)
  BY DEF AllFine
<1> HIDE DEF M
<1>6. \A f \in 1..M + 1 : Fine(stack'[f], IF f = M + 1 THEN 0 ELSE 1)
  <2> TAKE f \in 1..M + 1
  <2>1. CASE f \in 1..M - 1
    BY <1>3, <1>4, <1>5, <2>1
  <2>2. CASE f = M \/ f = M + 1
    BY <1>3, <1>4, <2>2
  <2> QED BY <1>4, <2>1, <2>2
<1>7. \A f \in 1..Len(stack') : Fine(stack'[f], IF f = Len(stack') THEN 0 ELSE 1)
  BY <1>3, <1>6
<1> QED BY <1>7, AllFineNext

(* An operation that is made, and several that need no verifier.           *)
LEMMA LegalAppend ==
  ASSUME Tree, AllLegal, NEW o, Legal(o), ops' = Append(ops, o)
  PROVE  AllLegal'
<1> DEFINE N == Len(ops)
<1>1. IsRow(ops) /\ N \in Nat
  BY RowLen DEF Tree, Shape, Made
<1>2. Len(ops') = N + 1 /\ ops'[N + 1] = o /\ \A v \in 1..N : ops'[v] = ops[v]
  BY <1>1, RowAppend
<1>3. \A v \in 1..N + 1 : v = N + 1 \/ v \in 1..N
  BY <1>1
<1>4. \A v \in 1..N : Legal(ops[v])
  BY DEF AllLegal
<1> HIDE DEF N
<1>5. \A v \in 1..N + 1 : Legal(ops'[v])
  BY <1>2, <1>3, <1>4
<1> QED BY <1>2, <1>5 DEF AllLegal

(* Operations that need no verifier, made at the end, keep the rest legal. *)
LEMMA LegalConcat ==
  ASSUME Tree, AllLegal, NEW made, IsRow(made), ops' = ops \o made,
         \A k \in 1..Len(made) : made[k].op \notin {"validate", "struct"}
  PROVE  AllLegal'
<1> DEFINE N == Len(ops)
           L == Len(made)
<1>1. IsRow(ops) /\ N \in Nat /\ L \in Nat
  BY RowLen DEF Tree, Shape, Made
<1>2. /\ Len(ops') = N + L /\ \A v \in 1..N : ops'[v] = ops[v]
      /\ \A k \in 1..L : ops'[N + k] = made[k]
  BY <1>1, RowConcat
<1>3. \A v \in 1..N + L : v \in 1..N \/ \E k \in 1..L : v = N + k
  <2> SUFFICES ASSUME NEW v \in 1..N + L, v \notin 1..N PROVE \E k \in 1..L : v = N + k
    OBVIOUS
  <2>1. v - N \in 1..L /\ v = N + (v - N)
    BY <1>1
  <2> QED BY <2>1
<1>4. \A v \in 1..N : Legal(ops[v])
  BY DEF AllLegal
<1>5. \A k \in 1..L : Legal(made[k])
  BY DEF Legal
<1> HIDE DEF N, L
<1>6. \A v \in 1..N + L : Legal(ops'[v])
  BY <1>2, <1>3, <1>4, <1>5
<1> QED BY <1>2, <1>6 DEF AllLegal

(* The innermost call waits for no verdict.                                *)
LEMMA TopFine ==
  ASSUME Tree, stack # <<>>, AllFine
  PROVE  Fine(Top, 0)
<1>1. Len(stack) \in 1..Len(stack) /\ Top = stack[Len(stack)]
  BY RowLen DEF Tree, Shape, Calls, Top
<1> QED BY <1>1 DEF AllFine

-----------------------------------------------------------------------------
(* The steps.                                                              *)
LEMMA TypeGuardFine ==
  ASSUME Tree, TypeGuard, AllFine, AllLegal, errors' = {}
  PROVE  AllFine' /\ AllLegal'
<1> DEFINE n == Top.node
           guard == IF Len(schema[n].types) = 1 THEN Guard(schema[n].types[1]) ELSE {}
<1>1. /\ stack # <<>> /\ Top.at = "guard" /\ schema' = schema /\ CheckBounds(n) = {}
      /\ \/ Be(GoTo(Top, "keywords")) /\ UNCHANGED ops
         \/ \E c \in guard : /\ ops' = Append(ops, Validate(n, Top.input, c))
                             /\ Be(GoTo(Conjoin(Top, NewOp), "keywords"))
  BY DEF TypeGuard, At
<1>2. IsCall(Top) /\ Fine(Top, 0) /\ NewOp \in Nat
  BY <1>1, TopFine, TopShape
<1>3. Divides(n)
  <2> SUFFICES ASSUME NEW k \in DOMAIN schema[n].keywords, schema[n].keywords[k].name = "multipleOf"
               PROVE  schema[n].keywords[k].value > Zero
    BY DEF Divides
  <2>1. ~NoDivisor(n)
    <3>1. <<"divisor", n>> \in {"number bounds", "string bounds", "divisor"} \X {n}
      OBVIOUS
    <3>2. <<"divisor", n>>[1] = "divisor"
      OBVIOUS
    <3> QED BY <1>1, <3>1, <3>2 DEF CheckBounds
  <2>2. schema[n].keywords[k] \in ToSet(schema[n].keywords)
    BY DEF ToSet
  <2>3. schema[n].keywords[k].value \in Find(n, "multipleOf")
    BY <2>2 DEF Find
  <2> QED BY <2>1, <2>3 DEF NoDivisor
<1>4. \A c : IsCall(c) /\ c.type = Top.type /\ c.node = n /\ c.fields = <<>>
             => Fine(GoTo(c, "keywords"), 0)
  <2> SUFFICES ASSUME NEW c, IsCall(c), c.type = Top.type, c.node = n, c.fields = <<>>
               PROVE  Fine(GoTo(c, "keywords"), 0)
    OBVIOUS
  <2>1. /\ GoTo(c, "keywords").type = Top.type /\ GoTo(c, "keywords").node = n
        /\ GoTo(c, "keywords").fields = <<>> /\ GoTo(c, "keywords").at = "keywords"
    BY DEF GoTo, IsCall, CallField
  <2> QED BY <1>2, <1>3, <2>1 DEF Fine
<1>5. Top.fields = <<>>
  BY <1>1, <1>2 DEF Fine
<1>6. CASE Be(GoTo(Top, "keywords")) /\ UNCHANGED ops
  <2>1. Fine(GoTo(Top, "keywords"), 0)
    BY <1>2, <1>4, <1>5
  <2>2. AllFine'
    BY <1>1, <1>6, <2>1, FineStays
  <2> QED BY <1>6, <2>2 DEF AllLegal
<1>7. CASE \E c \in guard : /\ ops' = Append(ops, Validate(n, Top.input, c))
                            /\ Be(GoTo(Conjoin(Top, NewOp), "keywords"))
  <2>1. PICK c \in guard : /\ ops' = Append(ops, Validate(n, Top.input, c))
                           /\ Be(GoTo(Conjoin(Top, NewOp), "keywords"))
    BY <1>7
  <2>2. IsCall(Conjoin(Top, NewOp))
    BY <1>2, CallEdits
  <2>3. /\ Conjoin(Top, NewOp).type = Top.type /\ Conjoin(Top, NewOp).node = n
        /\ Conjoin(Top, NewOp).fields = <<>>
    BY <1>2, <1>5 DEF Conjoin, IsCall, CallField
  <2>4. Fine(GoTo(Conjoin(Top, NewOp), "keywords"), 0)
    BY <1>4, <2>2, <2>3
  <2>5. AllFine'
    BY <1>1, <2>1, <2>4, FineStays
  <2>6. Verifies(c)
    <3>1. c \in {AnyString, AnyNumber, [AnyNumber EXCEPT !.integral = TRUE]}
      BY <2>1 DEF Guard
    <3> QED BY <3>1 DEF AnyString, AnyNumber, Verifies, StringVerifies, NumberVerifies
  <2>7. Legal(Validate(n, Top.input, c))
    BY <2>6 DEF Legal, Validate
  <2> QED BY <2>1, <2>5, <2>7, LegalAppend
<1> QED BY <1>1, <1>6, <1>7

(* The lattice of a keyword the importer takes is one the verifier takes.  *)
LEMMA KeywordVerifies ==
  ASSUME NEW kw \in Keyword, kw.name # "unknown", kw.name = "multipleOf" => kw.value > Zero
  PROVE  Verifies(KeywordLattice(kw))
<1>1. /\ kw.name \in NumberKeywords \cup LengthKeywords \cup StringKeywords
      /\ (kw.name \in LengthKeywords => kw.value \in Nat)
  <2>1. \/ kw \in [name : NumberKeywords, value : Number]
        \/ kw \in [name : LengthKeywords, value : Nat]
        \/ kw \in [name : {"pattern"}, value : Pattern \cup Invalid \cup {""}]
        \/ kw \in [name : {"format"}, value : Format \cup {""}]
        \/ kw \in [name : {"unknown"}]
    BY DEF Keyword
  <2>2. /\ NumberKeywords \cap LengthKeywords = {} /\ StringKeywords \cap LengthKeywords = {}
        /\ "pattern" \in StringKeywords /\ "format" \in StringKeywords
    BY DEF NumberKeywords, LengthKeywords, StringKeywords
  <2>3. CASE kw \in [name : NumberKeywords, value : Number]
    BY <2>2, <2>3
  <2>4. CASE kw \in [name : LengthKeywords, value : Nat]
    BY <2>4
  <2>5. CASE kw \in [name : {"pattern"}, value : Pattern \cup Invalid \cup {""}]
    BY <2>2, <2>5
  <2>6. CASE kw \in [name : {"format"}, value : Format \cup {""}]
    BY <2>2, <2>6
  <2>7. CASE kw \in [name : {"unknown"}]
    BY <2>7
  <2> QED BY <2>1, <2>3, <2>4, <2>5, <2>6, <2>7
<1>2. CASE kw.name = "minimum"
  BY <1>2 DEF KeywordLattice, AnyNumber, Verifies, NumberVerifies
<1>3. CASE kw.name = "maximum"
  BY <1>3 DEF KeywordLattice, AnyNumber, Verifies, NumberVerifies
<1>4. CASE kw.name = "multipleOf"
  BY <1>4 DEF KeywordLattice, AnyNumber, Verifies, NumberVerifies
<1>5. CASE kw.name = "exclusiveMinimum"
  BY <1>5 DEF KeywordLattice, AnyNumber, Verifies, NumberVerifies
<1>6. CASE kw.name = "exclusiveMaximum"
  BY <1>6 DEF KeywordLattice, AnyNumber, Verifies, NumberVerifies
<1>7. CASE kw.name = "minLength"
  BY <1>1, <1>7 DEF KeywordLattice, AnyString, Verifies, StringVerifies, LengthKeywords
<1>8. CASE kw.name = "maxLength"
  BY <1>1, <1>8 DEF KeywordLattice, AnyString, Verifies, StringVerifies, LengthKeywords
<1>9. CASE kw.name = "pattern"
  BY <1>9 DEF KeywordLattice, AnyString, Verifies, StringVerifies
<1>10. CASE kw.name = "format"
  BY <1>10 DEF KeywordLattice, AnyString, Verifies, StringVerifies
<1> QED BY <1>1, <1>2, <1>3, <1>4, <1>5, <1>6, <1>7, <1>8, <1>9, <1>10
        DEF NumberKeywords, LengthKeywords, StringKeywords

(* EmitKeyword makes the operation of a keyword it has checked.            *)
LEMMA EmitKeywordFine ==
  ASSUME Tree, EmitKeyword, AllFine, AllLegal
  PROVE  AllFine' /\ AllLegal'
<1> DEFINE n == Top.node
           kw == TheKeyword
           o == Validate(n, Top.input, KeywordLattice(kw))
           d == Conjoin(Top, NewOp)
<1>1. /\ stack # <<>> /\ Top.at = "keywords" /\ schema' = schema
      /\ Top.k =< Len(schema[n].keywords) /\ KeywordErrors(kw) = {}
      /\ ops' = Append(ops, o) /\ Be(NextK(d))
  BY DEF EmitKeyword, AtKeyword, At
<1>2. IsCall(Top) /\ Fine(Top, 0) /\ NewOp \in Nat
  BY <1>1, TopFine, TopShape
<1>3. schema[n].keywords \in Seq(Keyword) /\ Top.k \in DOMAIN schema[n].keywords
  <2>1. schema[n].keywords \in Seq(Keyword)
    BY <1>2, NodeIs DEF Tree, Shape, IsCall, SchemaNode
  <2>2. DOMAIN schema[n].keywords = 1..Len(schema[n].keywords) /\ Len(schema[n].keywords) \in Nat
    BY <2>1
  <2>3. Top.k \in Nat /\ Top.k > 0
    BY <1>2 DEF IsCall
  <2> QED BY <1>1, <2>1, <2>2, <2>3
<1>4. kw \in Keyword
  BY <1>3 DEF TheKeyword
<1>5. kw.name # "unknown" /\ (kw.name = "multipleOf" => kw.value > Zero)
  <2>1. kw.name # "unknown"
    BY <1>1 DEF KeywordErrors
  <2>2. Divides(n)
    BY <1>1, <1>2 DEF Fine
  <2>3. kw = schema[n].keywords[Top.k]
    BY DEF TheKeyword
  <2> QED BY <1>3, <2>1, <2>2, <2>3 DEF Divides
<1> HIDE DEF kw
<1>6. Verifies(KeywordLattice(kw))
  BY <1>4, <1>5, KeywordVerifies
<1>7. Legal(o)
  BY <1>6 DEF Legal, Validate
<1>8. Fine(NextK(d), 0)
  <2>1. /\ NextK(d).type = Top.type /\ NextK(d).node = n /\ NextK(d).fields = Top.fields
        /\ NextK(d).at = "keywords"
    BY <1>1, <1>2 DEF NextK, Conjoin, IsCall, CallField
  <2> QED BY <1>1, <1>2, <2>1 DEF Fine
<1> HIDE DEF o, d
<1> QED BY <1>1, <1>7, <1>8, FineStays, LegalAppend

(* A keyword that makes no operation.                                      *)
LEMMA NextKeywordFine ==
  ASSUME Tree, AtKeyword, Be(NextK(Top)), UNCHANGED <<schema, ops>>, AllFine, AllLegal
  PROVE  AllFine' /\ AllLegal'
<1>1. stack # <<>> /\ Top.at = "keywords"
  BY DEF AtKeyword, At
<1>2. IsCall(Top) /\ Fine(Top, 0)
  BY <1>1, TopFine, TopShape
<1>3. Fine(NextK(Top), 0)
  <2>1. /\ NextK(Top).type = Top.type /\ NextK(Top).node = Top.node
        /\ NextK(Top).fields = Top.fields /\ NextK(Top).at = "keywords"
    BY <1>1, <1>2 DEF NextK, IsCall, CallField
  <2> QED BY <1>1, <1>2, <2>1 DEF Fine
<1>4. AllFine'
  BY <1>1, <1>3, FineStays
<1> QED BY <1>4 DEF AllLegal

(* EndKeywords starts the properties with no field.                        *)
LEMMA EndKeywordsFine ==
  ASSUME Tree, EndKeywords, AllFine, AllLegal
  PROVE  AllFine' /\ AllLegal'
<1>1. /\ stack # <<>> /\ Top.at = "keywords" /\ UNCHANGED <<schema, ops>>
      /\ \E at \in {"properties", "allOf"} : Be(GoTo(Top, at))
  BY DEF EndKeywords, At
<1>2. PICK at \in {"properties", "allOf"} : Be(GoTo(Top, at))
  BY <1>1
<1>3. IsCall(Top) /\ Fine(Top, 0) /\ Top.verdicts = <<>> /\ Top.fields = <<>>
  BY <1>1, TopFine, TopShape DEF IsCall, Fine
<1>4. Props(Top.node) \in Seq(Property)
  BY <1>3, NodeIs DEF IsCall, Tree, Shape
<1>5. Fine(GoTo(Top, at), 0)
  <2>1. /\ GoTo(Top, at).type = Top.type /\ GoTo(Top, at).node = Top.node
        /\ GoTo(Top, at).fields = <<>> /\ GoTo(Top, at).verdicts = <<>>
        /\ GoTo(Top, at).at = at /\ GoTo(Top, at).k = 1
    BY <1>3 DEF GoTo, IsCall, CallField
  <2>2. IsRow(<<>>) /\ Len(<<>>) = 0
    <3>1. <<>> \in Seq({}) /\ Len(<<>>) = 0
      OBVIOUS
    <3> QED BY <3>1 DEF IsRow
  <2>3. Len(Props(Top.node)) \in Nat
    BY <1>4
  <2>4. Named(GoTo(Top, at), 0)
    BY <2>1, <2>2, <2>3 DEF Named
  <2> QED BY <1>1, <1>3, <2>1, <2>4 DEF Fine
<1>6. AllFine'
  BY <1>1, <1>2, <1>5, FineStays
<1> QED BY <1>1, <1>6 DEF AllLegal

(* The name a schema gives its struct, when no title is empty.             *)
LEMMA TitleIs ==
  ASSUME schema \in Schemas, Plain, NEW n \in DOMAIN schema, NEW name, name # <<>>
  PROVE  Or(schema[n].title, name) # <<>>
<1>1. schema[n].title \in Opt(PropertyName) /\ schema[n].title # {<<>>}
  BY NodeIs, SMTT(30) DEF SchemaNode, Plain
<1>2. \/ Or(schema[n].title, name) = name
      \/ schema[n].title = {Or(schema[n].title, name)}
  BY <1>1, OrIs
<1> QED BY <1>1, <1>2

(* EnterProperty adds the name of the property, which is not empty, to the *)
(* fields; its verdict is still to come.                                   *)
LEMMA EnterPropertyFine ==
  ASSUME Tree, EnterProperty, Plain, AllFine, AllLegal
  PROVE  AllFine' /\ AllLegal'
<1> DEFINE n == Top.node
           p == TheProperty
           path  == Top.path \o <<"/">> \o EscapePointerToken(p.name)
           known == {k \in DOMAIN args : args[k].path = path}
           input == IF known = {} THEN Len(args) + 1 ELSE CHOOSE k \in known : TRUE
           fact  == CollectKind(p.schema, "any")
           b == [Top EXCEPT !.fields = Append(@, p.name)]
           c == NextK(b)
           d == Call(p.schema, input, fact.kind, path, Or(schema[p.schema].title, p.name))
<1>1. /\ stack # <<>> /\ Top.at = "properties" /\ UNCHANGED <<schema, ops>>
      /\ Top.k =< Len(Props(n)) /\ p.name # <<>> /\ stack' = Front(stack) \o <<c, d>>
  BY SMTT(30) DEF EnterProperty, AtProperty, At
<1>2. IsCall(Top) /\ Fine(Top, 0) /\ schema \in Schemas /\ n \in DOMAIN schema
  BY <1>1, TopFine, TopShape, SMTT(30) DEF IsCall, Tree, Shape
<1>3. Named(Top, 0) /\ Top.k \in Nat /\ Top.k > 0 /\ Top.verdicts \in Seq(Nat)
  BY <1>1, <1>2 DEF Fine, IsCall
<1>4. Props(n) \in Seq(Property) /\ p = Props(n)[Top.k]
  BY <1>2, NodeIs, SMTT(30) DEF TheProperty
<1>5. Len(Props(n)) \in Nat /\ Top.k \in 1..Len(Props(n))
  <2>1. Len(Props(n)) \in Nat
    BY <1>4, RowLen DEF IsRow
  <2>2. \A k, m \in Nat : k > 0 /\ k =< m => k \in 1..m
    OBVIOUS
  <2> HIDE DEF n, p
  <2> QED BY <1>1, <1>3, <2>1, <2>2
<1>6. p.schema \in DOMAIN schema
  BY <1>2, <1>4, <1>5, ChildrenAre, SMTT(30)
<1>7. Or(schema[p.schema].title, p.name) # <<>>
  BY <1>1, <1>2, <1>6, TitleIs
<1>8. Fine(d, 0)
  BY <1>7 DEF Fine, Call
<1>9. /\ c.type = Top.type /\ c.at = "properties" /\ c.node = n /\ c.k = Top.k + 1
      /\ c.fields = Append(Top.fields, p.name) /\ c.verdicts = Top.verdicts
  BY <1>1, <1>2 DEF NextK, IsCall, CallField
<1> HIDE DEF c, d, n, p
<1>10. Named(c, 1)
  <2>1. /\ IsRow(Top.fields) /\ Len(Top.fields) = Top.k - 1 /\ Len(Top.verdicts) = Len(Top.fields)
        /\ \A j \in 1..Len(Top.fields) : Top.fields[j] = Props(n)[j].name /\ Top.fields[j] # <<>>
    BY <1>3, SMTT(30) DEF Named, n
  <2>2. /\ IsRow(c.fields) /\ Len(c.fields) = Top.k /\ c.fields[Top.k] = p.name
        /\ \A j \in 1..Top.k - 1 : c.fields[j] = Top.fields[j]
    <3>1. Top.k - 1 + 1 = Top.k
      BY <1>3
    <3> QED BY <1>9, <2>1, <3>1, RowAppend
  <2>3. \A j \in 1..Top.k : j = Top.k \/ j \in 1..Top.k - 1
    BY <1>3
  <2>4. \A j \in 1..Top.k : c.fields[j] = Props(n)[j].name /\ c.fields[j] # <<>>
    BY <1>1, <1>4, <2>1, <2>2, <2>3
  <2>5. Len(c.fields) = c.k - 1 /\ Len(c.verdicts) + 1 = Len(c.fields) /\ Len(c.fields) =< Len(Props(c.node))
    BY <1>1, <1>3, <1>9, <2>1, <2>2
  <2> QED BY <1>9, <2>2, <2>4, <2>5 DEF Named
<1>11. Fine(c, 1)
  BY <1>1, <1>2, <1>9, <1>10 DEF Fine, n
<1>12. AllFine'
  BY <1>1, <1>8, <1>11, FinePush
<1> QED BY <1>1, <1>12 DEF AllLegal

(* EnterBranch passes the name of the struct on to the branch.             *)
LEMMA EnterBranchFine ==
  ASSUME Tree, EnterBranch, AllFine, AllLegal
  PROVE  AllFine' /\ AllLegal'
<1> DEFINE c == NextK(Top)
           d == Call(schema[Top.node].allOf[Top.k], Top.input, Top.fact, Top.path, Top.type)
<1>1. /\ stack # <<>> /\ Top.at = "allOf" /\ UNCHANGED <<schema, ops>>
      /\ stack' = Front(stack) \o <<c, d>>
  BY DEF EnterBranch, At
<1>2. IsCall(Top) /\ Fine(Top, 0)
  BY <1>1, TopFine, TopShape
<1>3. Fine(d, 0)
  BY <1>2 DEF Fine, Call
<1>4. c.type = Top.type /\ c.at = "allOf" /\ c.node = Top.node
  BY <1>1, <1>2 DEF NextK, IsCall, CallField
<1>5. Fine(c, 1)
  BY <1>1, <1>2, <1>4 DEF Fine
<1> HIDE DEF c, d
<1>6. AllFine'
  BY <1>1, <1>3, <1>5, FinePush
<1> QED BY <1>1, <1>6 DEF AllLegal

(* Begin starts with a name that is not empty.                             *)
LEMMA BeginFine ==
  ASSUME Tree, Begin, AllLegal
  PROVE  AllFine' /\ AllLegal'
<1> DEFINE d == Call(1, 1, CollectKind(1, "any").kind, <<>>, RootName)
<1>1. UNCHANGED <<schema, ops>> /\ stack' = <<d>> /\ pc = "start"
  BY DEF Begin
<1>2. schema \in Schemas /\ 1 \in DOMAIN schema
  BY NodeIs DEF Tree, Shape
<1>3. RootName # <<>>
  <2>1. <<"schema">> # <<>>
    OBVIOUS
  <2> QED BY <2>1 DEF RootName
<1>4. Fine(d, 0)
  BY <1>3 DEF Fine, Call
<1> HIDE DEF d
<1>5. \A f \in 1..Len(stack') : Fine(stack'[f], IF f = Len(stack') THEN 0 ELSE 1)
  <2>1. Len(stack') = 1 /\ stack'[1] = d
    BY <1>1
  <2>2. \A f \in 1..1 : f = 1
    OBVIOUS
  <2> QED BY <1>4, <2>1, <2>2
<1>6. AllFine'
  BY <1>1, <1>5, AllFineNext
<1> QED BY <1>1, <1>6 DEF AllLegal

(* The struct has a result for each field, no two fields alike, and asks   *)
(* only for fields it has.                                                 *)
LEMMA FinishObjectFine ==
  ASSUME Tree, FinishObject, Plain, AllFine, AllLegal
  PROVE  AllFine' /\ AllLegal'
<1> DEFINE n == Top.node
           F == Top.fields
           known == {k \in DOMAIN Needs(n) : Needs(n)[k] \in ToSet(F)}
           R == Selected(Needs(n), known)
           o == [op |-> "struct", loc |-> n, input |-> Top.input,
                 type |-> Or(schema[n].title, Top.type), fields |-> F,
                 results |-> Top.verdicts, required |-> R]
           d == Conjoin(Top, NewOp)
           e == GoTo(d, "allOf")
<1>1. /\ stack # <<>> /\ Top.at = "properties" /\ UNCHANGED schema /\ Be(e)
      /\ Top.k > Len(Props(n)) /\ ops' = Append(ops, o)
  BY DEF FinishObject, At
<1>2. IsCall(Top) /\ Fine(Top, 0) /\ schema \in Schemas /\ n \in DOMAIN schema /\ NewOp \in Nat
  BY <1>1, TopFine, TopShape DEF IsCall, Tree, Shape
<1>3. /\ IsRow(F) /\ Len(F) = Top.k - 1 /\ Len(F) =< Len(Props(n)) /\ Top.k \in Nat
      /\ \A j \in 1..Len(F) : F[j] = Props(n)[j].name /\ F[j] # <<>>
      /\ Len(Top.verdicts) + 0 = Len(F)
  BY <1>1, <1>2 DEF Fine, Named, IsCall
<1>4. Fine(e, 0)
  <2>1. e.type = Top.type /\ e.at = "allOf" /\ e.node = n
    BY <1>2 DEF GoTo, Conjoin, IsCall, CallField
  <2> QED BY <1>1, <1>2, <2>1 DEF Fine
<1> HIDE DEF e, d
<1>5. WellFormedSchema(schema) /\ schema[n] \in SchemaNode
  BY <1>2, SchemasAssumption, NodeIs
<1>6. Len(Top.verdicts) = Len(F) /\ DOMAIN F = 1..Len(F) /\ Len(F) \in Nat
  <2>1. Len(F) \in Nat /\ DOMAIN F = 1..Len(F)
    BY <1>3, RowLen
  <2>2. Len(Top.verdicts) \in Nat
    BY <1>2 DEF IsCall
  <2> QED BY <1>3, <2>1, <2>2
<1>7. <<>> \notin ToSet(F) /\ IsInjective(F)
  <2>1. Props(n) \in Seq(Property)
    BY <1>2, NodeIs
  <2>2. DOMAIN Props(n) = 1..Len(Props(n)) /\ Len(Props(n)) \in Nat
    BY <2>1
  <2>3. IsInjective([k \in DOMAIN Props(n) |-> Props(n)[k].name])
    <3>1. LET props == Or(schema[n].properties, <<>>)
          IN  IsInjective([k \in DOMAIN props |-> props[k].name])
      BY <1>2, <1>5, Zenon DEF WellFormedSchema
    <3> QED BY <3>1 DEF Props
  <2>4. \A j, k \in 1..Len(Props(n)) : Props(n)[j].name = Props(n)[k].name => j = k
    BY <2>2, <2>3 DEF IsInjective
  <2>5. \A j \in 1..Len(F) : j \in 1..Len(Props(n))
    <3>1. \A a, b \in Nat : a =< b => \A j \in 1..a : j \in 1..b
      OBVIOUS
    <3> QED BY <1>3, <1>6, <2>2, <3>1
  <2>6. \A j, k \in 1..Len(F) : F[j] = F[k] => j = k
    BY <1>3, <2>4, <2>5
  <2> HIDE DEF F
  <2> QED BY <1>3, <1>6, <2>6 DEF IsInjective, ToSet
<1>8. ToSet(R) \subseteq ToSet(F) /\ IsInjective(R)
  <2>1. schema[n].required \in Opt(Seq(PropertyName)) /\ \A r \in schema[n].required : IsInjective(r)
    <3>1. \A r \in schema[n].required : IsInjective(r)
      BY <1>2, <1>5, Zenon DEF WellFormedSchema
    <3> QED BY <1>5, <3>1 DEF SchemaNode
  <2>2. \/ Needs(n) = <<>>
        \/ Needs(n) \in Seq(PropertyName) /\ schema[n].required = {Needs(n)}
    BY <2>1, OrIs DEF Needs
  <2>3. <<>> \in Seq(PropertyName) /\ IsInjective(<<>>)
    BY DEF IsInjective
  <2>4. Needs(n) \in Seq(PropertyName) /\ IsInjective(Needs(n))
    BY <2>1, <2>2, <2>3
  <2>5. KeepsOrder(R, Needs(n), known)
    BY <2>4, SelectedOrder
  <2>6. ToSet(R) = {Needs(n)[k] : k \in DOMAIN Needs(n) \cap known} /\ IsInjective(R)
    BY <2>5 DEF KeepsOrder
  <2> QED BY <2>6
<1>9. Or(schema[n].title, Top.type) # <<>>
  BY <1>2, TitleIs DEF Fine
<1>10. Legal(o)
  <2>1. /\ o.op = "struct" /\ o.type = Or(schema[n].title, Top.type) /\ o.fields = F
        /\ o.results = Top.verdicts /\ o.required = R
    OBVIOUS
  <2> HIDE DEF o, F, R
  <2> QED BY <1>6, <1>7, <1>8, <1>9, <2>1 DEF Legal, StructVerifies
<1> HIDE DEF o
<1>11. AllFine'
  BY <1>1, <1>4, FineStays
<1> QED BY <1>1, <1>10, <1>11, LegalAppend

(* Return makes no operation the verifier looks at, and a caller at its    *)
(* properties gets the verdict it waits for.                               *)
LEMMA ReturnFine ==
  ASSUME Tree, Return, AllFine, AllLegal
  PROVE  AllFine' /\ AllLegal'
<1> DEFINE made == Conjunction(Top.node, Top.conjuncts)
           M == Len(stack)
<1>1. /\ stack # <<>> /\ Top.at = "allOf" /\ ops' = ops \o made
  BY DEF Return, At
<1>2. /\ IsCall(Top) /\ IsRow(stack) /\ M \in Nat /\ M > 0
      /\ \A f \in 1..M : IsCall(stack[f]) /\ Fine(stack[f], IF f = M THEN 0 ELSE 1)
  BY <1>1, TopShape, RowLen DEF Tree, Shape, Calls, AllFine
<1>3. IsRow(made) /\ \A k \in 1..Len(made) : made[k].op \notin {"validate", "struct"}
  <2> DEFINE c == Top.conjuncts
             L == Len(c) - 1
             and(k) == [op |-> "and", loc |-> Top.node,
                        args |-> <<IF k = 1 THEN c[1] ELSE Len(ops) + k - 1, c[k + 1]>>]
  <2>1. CASE c = <<>>
    <3> DEFINE o == [op |-> "true", loc |-> Top.node]
    <3>1. made = <<o>> /\ o.op = "true"
      BY <2>1 DEF Conjunction
    <3> HIDE DEF o, made
    <3>2. <<o>> \in Seq({o}) /\ \A k \in 1..Len(<<o>>) : <<o>>[k] = o
      OBVIOUS
    <3> QED BY <3>1, <3>2 DEF IsRow
  <2>2. CASE c # <<>>
    <3>1. made = [k \in 1..L |-> and(k)]
      BY <2>2 DEF Conjunction
    <3>2. L \in Nat
      <4>1. Len(c) \in Nat /\ Len(c) > 0
        BY <1>2, <2>2, RowLen DEF IsCall, IsRow
      <4> QED BY <4>1
    <3>3. \A k \in 1..L : and(k).op = "and"
      OBVIOUS
    <3> DEFINE S == {and(k) : k \in 1..L}
    <3>4. \A k \in 1..L : and(k) \in S
      OBVIOUS
    <3> HIDE DEF S, and, L, made
    <3>5. made \in Seq(S) /\ Len(made) = L /\ \A k \in 1..L : made[k] = and(k)
      BY <3>1, <3>2, <3>4
    <3> QED BY <3>3, <3>5 DEF IsRow
  <2> QED BY <2>1, <2>2
<1> HIDE DEF made
<1>4. AllLegal'
  BY <1>1, <1>3, LegalConcat
<1>5. PICK v : HandsOver(v)
  BY ReturnFolds
<1>6. CASE M = 1
  <2>1. stack' = <<>> /\ Len(<<>>) = 0
    BY <1>5, <1>6 DEF HandsOver
  <2>2. Len(stack') = 0 /\ 1..0 = {}
    BY <2>1
  <2> QED BY <1>4, <2>2 DEF AllFine
<1>7. CASE M # 1
  <2> DEFINE s == Front(stack)
             c == Returned(Last(s), v)
  <2>1. stack' = Append(Front(s), c) /\ schema' = schema
    BY <1>5, <1>7 DEF HandsOver
  <2>2. /\ IsRow(s) /\ Len(s) = M - 1 /\ \A f \in 1..M - 1 : s[f] = stack[f]
    BY <1>1, <1>2, RowFront
  <2>3. /\ M - 1 \in Nat /\ M - 1 > 0 /\ M > 1 /\ M - 1 \in 1..M - 1 /\ M - 1 \in 1..M /\ M - 1 # M
        /\ \A f \in 1..M - 1 : f = M - 1 \/ (f \in 1..(M - 1) - 1 /\ f \in 1..M /\ f # M /\ f # M - 1)
    <3>1. \A m \in Nat : m > 0 /\ m # 1 =>
            /\ m - 1 \in Nat /\ m - 1 > 0 /\ m > 1 /\ m - 1 \in 1..m - 1 /\ m - 1 \in 1..m /\ m - 1 # m
            /\ \A f \in 1..m - 1 : f = m - 1 \/ (f \in 1..(m - 1) - 1 /\ f \in 1..m /\ f # m /\ f # m - 1)
      OBVIOUS
    <3> HIDE DEF M
    <3> QED BY <1>2, <1>7, <3>1
  <2>4. s # <<>> /\ Last(s) = stack[M - 1]
    BY <2>2, <2>3, RowLen
  <2> HIDE DEF s, M
  <2>5. Fine(c, 0)
    <3> DEFINE b == stack[M - 1]
    <3>1. IsCall(b) /\ Fine(b, 1)
      BY <1>2, <2>3
    <3>2. /\ c.type = b.type /\ c.at = b.at /\ c.node = b.node /\ c.fields = b.fields /\ c.k = b.k
          /\ b.at = "properties" => c.verdicts = Append(b.verdicts, v)
      <4> HIDE DEF b
      <4>1. c = Returned(b, v) /\ DOMAIN b = CallField
        BY <2>4, <3>1 DEF b, IsCall
      <4> HIDE DEF c
      <4> QED BY <4>1 DEF Returned, Conjoin, CallField
    <3> HIDE DEF b, c
    <3>3. CASE b.at = "properties"
      <4>1. b.verdicts \in Seq(Nat) /\ Len(b.verdicts) + 1 = Len(b.fields)
        BY <3>1, <3>3 DEF IsCall, Fine, Named
      <4>2. Len(Append(b.verdicts, v)) = Len(b.verdicts) + 1 /\ Len(b.verdicts) + 1 \in Nat
        BY <4>1, RowAppend, RowLen DEF IsRow
      <4>3. Len(c.verdicts) + 0 = Len(c.fields)
        BY <3>2, <3>3, <4>1, <4>2
      <4>4. Named(c, 0)
        BY <3>1, <3>2, <3>3, <4>3 DEF Fine, Named
      <4> QED BY <3>1, <3>2, <3>3, <4>4 DEF Fine
    <3>4. CASE b.at # "properties"
      BY <3>1, <3>2, <3>4 DEF Fine
    <3> QED BY <3>3, <3>4
  <2> HIDE DEF c
  <2>6. Relast(stack', s, c)
    BY <2>1, <2>2, <2>4, RowRelast
  <2>7. /\ Len(stack') = M - 1 /\ stack'[M - 1] = c
        /\ \A f \in 1..(M - 1) - 1 : stack'[f] = s[f]
    BY <2>2, <2>6 DEF Relast
  <2>8. \A f \in 1..Len(stack') : Fine(stack'[f], IF f = Len(stack') THEN 0 ELSE 1)
    <3> SUFFICES ASSUME NEW f \in 1..M - 1 PROVE Fine(stack'[f], IF f = M - 1 THEN 0 ELSE 1)
      BY <2>7
    <3>1. CASE f = M - 1
      BY <2>5, <2>7, <3>1
    <3>2. CASE f # M - 1
      <4>1. f \in 1..(M - 1) - 1 /\ f \in 1..M /\ f # M
        BY <2>3, <3>2
      <4>2. stack'[f] = stack[f]
        BY <2>2, <2>7, <4>1
      <4> QED BY <1>2, <3>2, <4>1, <4>2
    <3> QED BY <3>1, <3>2
  <2>9. AllFine'
    BY <2>1, <2>8, AllFineNext
  <2> QED BY <1>4, <2>9
<1> QED BY <1>6, <1>7

(* Errors are only added, and Finish alone ends the import.                *)
LEMMA StepErrors ==
  ASSUME Next, ~Finish, pc = "start" => errors = {}
  PROVE  (errors' = {} => errors = {}) /\ schema' = schema /\ pc' = "import"
<1> DEFINE Fact == (errors' = {} => errors = {}) /\ schema' = schema /\ pc' = "import"
<1>1. Begin => Fact
  BY DEF Begin
<1>2. TypeGuard => Fact
  BY DEF TypeGuard, At
<1>3. RejectKeyword \/ DropKeyword \/ EmitKeyword \/ EndKeywords => Fact
  <2>1. RejectKeyword => Fact
    BY DEF RejectKeyword, AtKeyword, At
  <2>2. DropKeyword => Fact
    BY DEF DropKeyword, AtKeyword, At
  <2>3. EmitKeyword => Fact
    BY DEF EmitKeyword, AtKeyword, At
  <2>4. EndKeywords => Fact
    BY DEF EndKeywords, At
  <2> QED BY <2>1, <2>2, <2>3, <2>4
<1>4. RejectProperty \/ FinishObject => Fact
  BY DEF RejectProperty, FinishObject, AtProperty, At
<1>5. EnterProperty => Fact
  <2> SUFFICES ASSUME EnterProperty PROVE Fact
    OBVIOUS
  <2>1. errors \subseteq errors' /\ UNCHANGED <<schema, pc>> /\ pc = "import"
    BY DEF EnterProperty, AtProperty, At
  <2> QED BY <2>1
<1>6. EnterBranch \/ Return => Fact
  BY DEF EnterBranch, Return, At
<1> HIDE DEF Fact
<1>7. Fact
  BY <1>1, <1>2, <1>3, <1>4, <1>5, <1>6 DEF Next
<1> QED BY <1>7 DEF Fact

(* Finish refuses no module without an error or an empty title.            *)
LEMMA FinishDiagnosed == ASSUME Tree, Diagnosed, Finish PROVE Diagnosed'
<1>1. /\ UNCHANGED <<schema, stack, ops, errors>>
      /\ pc' = IF errors = {} /\ ModuleVerifies THEN "module" ELSE "none"
  BY DEF Finish
<1>2. Plain' <=> Plain
  BY <1>1 DEF Plain
<1>3. errors = {} /\ Plain => ModuleVerifies
  <2> SUFFICES ASSUME errors = {}, Plain PROVE ModuleVerifies
    OBVIOUS
  <2>1. AllLegal /\ DOMAIN ops = 1..Len(ops)
    BY RowLen DEF Diagnosed, Tree, Shape, Made
  <2> QED BY <2>1 DEF AllLegal, Legal, ModuleVerifies
<1>4. AllFine' <=> AllFine
  BY <1>1 DEF AllFine, Fine, Named, Divides, Props
<1>5. AllLegal' <=> AllLegal
  BY <1>1 DEF AllLegal
<1> QED BY <1>1, <1>2, <1>3, <1>4, <1>5 DEF Diagnosed

(* Every step keeps what is made without an error legal.                   *)
LEMMA NextDiagnosed == ASSUME Tree, Diagnosed, Next PROVE Diagnosed'
<1>1. CASE Finish
  BY <1>1, FinishDiagnosed
<1>2. CASE ~Finish
  <2>1. (errors' = {} => errors = {}) /\ schema' = schema /\ pc' = "import"
    BY <1>2, StepErrors DEF Diagnosed
  <2>2. ASSUME errors' = {}, Plain' PROVE AllFine' /\ AllLegal'
    <3>1. errors = {} /\ Plain
      BY <2>1, <2>2 DEF Plain
    <3>2. AllFine /\ AllLegal
      BY <3>1 DEF Diagnosed
    <3>3. ~RejectKeyword /\ ~RejectProperty
      <4>1. ASSUME RejectKeyword PROVE FALSE
        <5>1. KeywordErrors(TheKeyword) # {} /\ (KeywordErrors(TheKeyword) \X {Top.node}) \subseteq errors'
          BY <4>1 DEF RejectKeyword
        <5>2. PICK e : e \in KeywordErrors(TheKeyword)
          BY <5>1
        <5>3. <<e, Top.node>> \in errors'
          BY <5>1, <5>2
        <5> QED BY <2>2, <5>3
      <4>2. ASSUME RejectProperty PROVE FALSE
        BY <2>2, <4>2 DEF RejectProperty
      <4> QED BY <4>1, <4>2
    <3>4. CASE DropKeyword
      <4>1. AtKeyword /\ Be(NextK(Top)) /\ UNCHANGED <<schema, ops>>
        BY <3>4 DEF DropKeyword
      <4> QED BY <3>2, <4>1, NextKeywordFine
    <3> QED BY <1>2, <2>2, <3>1, <3>2, <3>3, <3>4, BeginFine, TypeGuardFine, EmitKeywordFine,
               EndKeywordsFine, EnterPropertyFine, FinishObjectFine, EnterBranchFine, ReturnFine
            DEF Next
  <2> QED BY <2>1, <2>2 DEF Diagnosed
<1> QED BY <1>1, <1>2

(* A stutter changes nothing of it.                                        *)
LEMMA StutterDiagnosed == ASSUME Diagnosed, UNCHANGED vars PROVE Diagnosed'
BY ZenonT(40) DEF Diagnosed, Plain, AllFine, Fine, Named, Divides, Props, AllLegal, vars

(* A module the verifier would refuse is refused with an error at the      *)
(* keyword first: only the empty title gets past the importer's own checks.*)
THEOREM ImporterDiagnosedFirst == Spec => []DiagnosedFirst
<1> DEFINE Inv == Tree /\ Diagnosed
<1>1. Init => Inv
  <2>1. Init => Diagnosed
    <3> SUFFICES ASSUME Init PROVE AllFine /\ AllLegal /\ pc # "none" /\ errors = {}
      BY DEF Diagnosed
    <3>1. Len(stack) = 0 /\ Len(ops) = 0 /\ pc = "start" /\ errors = {}
      BY DEF Init, Idle
    <3>2. 1..0 = {}
      OBVIOUS
    <3> QED BY <3>1, <3>2 DEF AllFine, AllLegal
  <2> QED BY <2>1, InitTree
<1>2. Inv /\ [Next]_vars => Inv'
  BY NextTree, StutterTree, NextDiagnosed, StutterDiagnosed
<1>3. Inv => DiagnosedFirst
  BY DEF Diagnosed, DiagnosedFirst, Plain
<1> QED BY <1>1, <1>2, <1>3, PTL DEF Spec

-----------------------------------------------------------------------------
(* Paths: the names on the way to a location, escaped and separated.       *)

Letter == Char \cup {"~", "/", "0", "1"}

Code(c) ==
  CASE c = "~" -> <<"~", "0">>
    [] c = "/" -> <<"~", "1">>
    [] OTHER   -> <<c>>

(* What a character becomes.                                               *)
LEMMA CodeIs ==
  ASSUME NEW c \in Char
  PROVE  /\ Code(c) \in Seq(Letter) /\ (Len(Code(c)) = 1 \/ Len(Code(c)) = 2)
         /\ \A k \in 1..Len(Code(c)) : Code(c)[k] # "/"
         /\ Code(c)[Len(Code(c))] # "~"
         /\ Len(Code(c)) = 1 => Code(c)[1] = c
         /\ Len(Code(c)) = 2 => /\ Code(c)[1] = "~"
                                /\ \/ c = "~" /\ Code(c)[2] = "0"
                                   \/ c = "/" /\ Code(c)[2] = "1"
<1>0. {"~", "/", "0", "1"} \subseteq Letter /\ c \in Letter
  BY DEF Letter
<1>1. CASE c = "~"
  <2>1. Code(c) = <<"~", "0">>
    BY <1>1 DEF Code
  <2>2. <<"~", "0">> \in Seq(Letter) /\ Len(<<"~", "0">>) = 2
    BY <1>0
  <2>3. Code(c)[1] = "~" /\ Code(c)[2] = "0"
    BY <2>1
  <2>4. \A k \in 1..2 : k = 1 \/ k = 2
    OBVIOUS
  <2>5. "~" # "/" /\ "0" # "/" /\ "0" # "~"
    OBVIOUS
  <2> QED BY <1>1, <2>1, <2>2, <2>3, <2>4, <2>5
<1>2. CASE c = "/"
  <2>1. Code(c) = <<"~", "1">>
    BY <1>2 DEF Code
  <2>2. <<"~", "1">> \in Seq(Letter) /\ Len(<<"~", "1">>) = 2
    BY <1>0
  <2>3. Code(c)[1] = "~" /\ Code(c)[2] = "1"
    BY <2>1
  <2>4. \A k \in 1..2 : k = 1 \/ k = 2
    OBVIOUS
  <2>5. "~" # "/" /\ "1" # "/" /\ "1" # "~"
    OBVIOUS
  <2> QED BY <1>2, <2>1, <2>2, <2>3, <2>4, <2>5
<1>3. CASE c # "~" /\ c # "/"
  <2>1. Code(c) = <<c>>
    BY <1>3 DEF Code
  <2> QED BY <1>0, <1>3, <2>1
<1> QED BY <1>1, <1>2, <1>3

(* A sequence of one or two letters, by its length.                        *)
LEMMA OneOrTwo ==
  \A n : n = 1 \/ n = 2 => n \in Nat /\ n > 0
OBVIOUS

(* A sequence extended at its end is not empty.                            *)
LEMMA LongerNotEmpty ==
  ASSUME NEW S, NEW x \in Seq(S), NEW y \in Seq(S), y # <<>>
  PROVE  x \o y # <<>>
<1>1. Len(x \o y) = Len(x) + Len(y) /\ Len(x) \in Nat /\ Len(y) \in Nat
  BY Concat2
<1>2. Len(y) # 0
  BY EmptySeq
<1> QED BY <1>1, <1>2

(* Escaping a name, character by character.                                *)
LEMMA EscapeIs ==
  /\ EscapePointerToken(<<>>) = <<>>
  /\ \A s \in Seq(Char) : EscapePointerToken(s) \in Seq(Letter)
  /\ \A s \in Seq(Char), c \in Char :
       EscapePointerToken(Append(s, c)) = EscapePointerToken(s) \o Code(c)
<1> DEFINE E(s) == [k \in DOMAIN s |-> Code(s[k])]
<1>1. \A s : EscapePointerToken(s) = FlattenSeq(E(s))
  BY DEF EscapePointerToken, Code
<1>2. \A c \in Char : Code(c) \in Seq(Letter)
  BY CodeIs
<1>3. E(<<>>) = <<>>
  OBVIOUS
<1>4. \A s \in Seq(Char) : E(s) \in Seq(Seq(Letter))
  <2> SUFFICES ASSUME NEW s \in Seq(Char) PROVE E(s) \in Seq(Seq(Letter))
    OBVIOUS
  <2>1. DOMAIN s = 1..Len(s) /\ Len(s) \in Nat /\ \A k \in 1..Len(s) : s[k] \in Char
    OBVIOUS
  <2>2. \A k \in 1..Len(s) : Code(s[k]) \in Seq(Letter)
    BY <1>2, <2>1
  <2> QED BY <2>1, <2>2
<1>5. ASSUME NEW s \in Seq(Char), NEW c \in Char PROVE E(Append(s, c)) = Append(E(s), Code(c))
  <2> DEFINE t == Append(s, c)
             n == Len(s)
  <2>1. /\ t \in Seq(Char) /\ n \in Nat /\ DOMAIN t = 1..n + 1 /\ DOMAIN s = 1..n /\ t[n + 1] = c
        /\ \A k \in 1..n : t[k] = s[k]
    BY AppendProperties
  <2>2. E(s) \in Seq(Seq(Letter)) /\ Len(E(s)) = n /\ Code(c) \in Seq(Letter) /\ \A k \in 1..n : E(s)[k] = Code(s[k])
    BY <1>2, <1>4, <2>1
  <2> HIDE DEF t, n
  <2>3. E(t) \in Seq(Seq(Letter)) /\ Len(E(t)) = n + 1 /\ \A k \in 1..n + 1 : E(t)[k] = Code(t[k])
    <3>1. E(t) \in Seq(Seq(Letter))
      BY <1>4, <2>1
    <3>2. E(t) = [k \in 1..n + 1 |-> Code(t[k])]
      BY <2>1
    <3> HIDE DEF E
    <3> QED BY <2>1, <3>1, <3>2
  <2> HIDE DEF E
  <2>4. /\ Append(E(s), Code(c)) \in Seq(Seq(Letter)) /\ Len(Append(E(s), Code(c))) = n + 1
        /\ Append(E(s), Code(c))[n + 1] = Code(c)
        /\ \A k \in 1..n : Append(E(s), Code(c))[k] = E(s)[k]
    BY <2>2, AppendProperties
  <2>5. \A k \in 1..n + 1 : k = n + 1 \/ k \in 1..n
    BY <2>1
  <2>6. \A k \in 1..n + 1 : E(t)[k] = Append(E(s), Code(c))[k]
    BY <2>1, <2>2, <2>3, <2>4, <2>5
  <2>7. E(t) = Append(E(s), Code(c))
    BY <2>3, <2>4, <2>6, SeqEqual
  <2> QED BY <2>7 DEF t
<1> HIDE DEF E
<1>6. /\ FlattenSeq(<<>>) = <<>>
      /\ \A s \in Seq(Seq(Letter)) : FlattenSeq(s) \in Seq(Letter)
      /\ \A s \in Seq(Seq(Letter)), x \in Seq(Letter) : FlattenSeq(Append(s, x)) = FlattenSeq(s) \o x
  BY FlattenIs
<1>7. \A s \in Seq(Char) : EscapePointerToken(s) \in Seq(Letter)
  BY <1>1, <1>4, <1>6
<1>8. \A s \in Seq(Char), c \in Char : EscapePointerToken(Append(s, c)) = EscapePointerToken(s) \o Code(c)
  <2> SUFFICES ASSUME NEW s \in Seq(Char), NEW c \in Char
               PROVE  EscapePointerToken(Append(s, c)) = EscapePointerToken(s) \o Code(c)
    OBVIOUS
  <2>1. E(s) \in Seq(Seq(Letter)) /\ Code(c) \in Seq(Letter) /\ E(Append(s, c)) = Append(E(s), Code(c))
    BY <1>2, <1>4, <1>5
  <2>2. FlattenSeq(Append(E(s), Code(c))) = FlattenSeq(E(s)) \o Code(c)
    BY <1>6, <2>1
  <2> QED BY <1>1, <2>1, <2>2
<1> QED BY <1>1, <1>3, <1>6, <1>7, <1>8

(* An escaped name has no separator in it, and does not end in a tilde.    *)
LEMMA EscapeClean ==
  ASSUME NEW s \in Seq(Char)
  PROVE  /\ \A k \in 1..Len(EscapePointerToken(s)) : EscapePointerToken(s)[k] # "/"
         /\ EscapePointerToken(s) # <<>> => EscapePointerToken(s)[Len(EscapePointerToken(s))] # "~"
<1> DEFINE E(t) == EscapePointerToken(t)
           Clean(t) == /\ \A k \in 1..Len(E(t)) : E(t)[k] # "/"
                       /\ E(t) # <<>> => E(t)[Len(E(t))] # "~"
           P == {n \in Nat : \A t \in Seq(Char) : Len(t) = n => Clean(t)}
<1>1. ASSUME NEW n \in Nat, \A k \in 0..n - 1 : k \in P
      PROVE  n \in P
  <2> SUFFICES ASSUME NEW t \in Seq(Char), Len(t) = n PROVE Clean(t)
    OBVIOUS
  <2>1. CASE t = <<>>
    BY <2>1, EscapeIs
  <2>2. CASE t # <<>>
    <3>1. PICK r \in Seq(Char), c \in Char : t = Append(r, c)
      BY <2>2, SequenceEmptyOrAppend
    <3>2. Len(r) \in 0..n - 1
      BY <3>1
    <3>3. Clean(r)
      BY <1>1, <3>2
    <3>4. /\ E(r) \in Seq(Letter) /\ E(t) = E(r) \o Code(c)
      BY <3>1, EscapeIs
    <3>5. /\ Code(c) \in Seq(Letter) /\ (Len(Code(c)) = 1 \/ Len(Code(c)) = 2)
          /\ \A k \in 1..Len(Code(c)) : Code(c)[k] # "/"
          /\ Code(c)[Len(Code(c))] # "~"
      BY CodeIs
    <3> DEFINE a == E(r)
               b == Code(c)
               d == E(t)
    <3>11. a \in Seq(Letter) /\ b \in Seq(Letter) /\ d = a \o b /\ (Len(b) = 1 \/ Len(b) = 2)
      BY <3>4, <3>5
    <3> HIDE DEF a, b, d
    <3>6. /\ Len(d) = Len(a) + Len(b) /\ Len(a) \in Nat /\ Len(b) \in Nat /\ Len(b) > 0
          /\ \A k \in 1..Len(a) : d[k] = a[k]
          /\ \A k \in 1..Len(b) : d[Len(a) + k] = b[k]
      <4>1. /\ a \o b \in Seq(Letter) /\ Len(a \o b) = Len(a) + Len(b)
            /\ \A k \in 1..Len(a) : (a \o b)[k] = a[k]
            /\ \A k \in 1..Len(b) : (a \o b)[Len(a) + k] = b[k]
        BY <3>11, Concat2
      <4>2. Len(a) \in Nat /\ Len(b) \in Nat /\ Len(b) > 0
        BY <3>11, OneOrTwo, LenProperties, Zenon
      <4> QED BY <3>11, <4>1, <4>2
    <3>7. (\A k \in 1..Len(a) : a[k] # "/") /\ (\A k \in 1..Len(b) : b[k] # "/") /\ b[Len(b)] # "~"
      BY <3>3, <3>5 DEF a, b
    <3>8. \A k \in 1..Len(d) : k \in 1..Len(a) \/ (k - Len(a) \in 1..Len(b) /\ k = Len(a) + (k - Len(a)))
      BY <3>6
    <3>9. \A k \in 1..Len(d) : d[k] # "/"
      BY <3>6, <3>7, <3>8, ZenonT(40)
    <3>10. d[Len(d)] = b[Len(b)]
      BY <3>6
    <3> QED BY <3>7, <3>9, <3>10 DEF d
  <2> QED BY <2>1, <2>2
<1> HIDE DEF P
<1>2. Nat \subseteq P
  BY <1>1, Induction
<1>3. Len(s) \in Nat /\ Len(s) \in P
  BY <1>2
<1>4. Clean(s)
  BY <1>3 DEF P
<1> QED BY <1>4

(* The last character can be read off what a name is escaped to.           *)
LEMMA LastCode ==
  ASSUME NEW s \in Seq(Letter), NEW t \in Seq(Letter), NEW c \in Char, NEW d \in Char,
         s # <<>> => s[Len(s)] # "~", t # <<>> => t[Len(t)] # "~",
         s \o Code(c) = t \o Code(d)
  PROVE  c = d /\ s = t
<1> DEFINE a == Code(c)
           b == Code(d)
           u == s \o a
<1>1. /\ a \in Seq(Letter) /\ b \in Seq(Letter) /\ (Len(a) = 1 \/ Len(a) = 2) /\ (Len(b) = 1 \/ Len(b) = 2)
      /\ Len(a) = 1 => a[1] = c /\ a[1] # "~"
      /\ Len(b) = 1 => b[1] = d /\ b[1] # "~"
      /\ Len(a) = 2 => a[1] = "~" /\ ((c = "~" /\ a[2] = "0") \/ (c = "/" /\ a[2] = "1"))
      /\ Len(b) = 2 => b[1] = "~" /\ ((d = "~" /\ b[2] = "0") \/ (d = "/" /\ b[2] = "1"))
  BY CodeIs, SMTT(30)
<1>2. /\ Len(u) = Len(s) + Len(a) /\ Len(s) \in Nat /\ \A k \in 1..Len(s) : u[k] = s[k]
      /\ \A k \in 1..Len(a) : u[Len(s) + k] = a[k]
      /\ Len(u) = Len(t) + Len(b) /\ Len(t) \in Nat /\ \A k \in 1..Len(t) : u[k] = t[k]
      /\ \A k \in 1..Len(b) : u[Len(t) + k] = b[k]
  <2>1. a \in Seq(Letter) /\ b \in Seq(Letter) /\ u = s \o a /\ u = t \o b
    BY <1>1
  <2> HIDE DEF a, b, u
  <2>2. ASSUME NEW x \in Seq(Letter), NEW y \in Seq(Letter)
        PROVE  /\ Len(x \o y) = Len(x) + Len(y) /\ Len(x) \in Nat
               /\ \A k \in 1..Len(x) : (x \o y)[k] = x[k]
               /\ \A k \in 1..Len(y) : (x \o y)[Len(x) + k] = y[k]
    BY Concat2, SMTT(30)
  <2>3. /\ Len(s \o a) = Len(s) + Len(a) /\ Len(s) \in Nat
        /\ \A k \in 1..Len(s) : (s \o a)[k] = s[k]
        /\ \A k \in 1..Len(a) : (s \o a)[Len(s) + k] = a[k]
    BY <2>1, <2>2
  <2>4. /\ Len(t \o b) = Len(t) + Len(b) /\ Len(t) \in Nat
        /\ \A k \in 1..Len(t) : (t \o b)[k] = t[k]
        /\ \A k \in 1..Len(b) : (t \o b)[Len(t) + k] = b[k]
    BY <2>1, <2>2
  <2> QED BY <2>1, <2>3, <2>4
<1>0. "0" # "1"
  OBVIOUS
<1> HIDE DEF a, b, u
<1>3. CASE Len(a) = Len(b)
  <2>1. Len(s) = Len(t) /\ a[1] = b[1] /\ (Len(a) = 2 => a[2] = b[2])
    BY <1>1, <1>2, <1>3, SMTT(30)
  <2>2. \A k \in 1..Len(s) : s[k] = t[k]
    BY <1>2, <2>1
  <2>3. s = t
    BY <2>1, <2>2, SeqEqual
  <2>4. c = d
    BY <1>0, <1>1, <1>3, <2>1
  <2> QED BY <2>3, <2>4
<1>4. ASSUME Len(a) = 1, Len(b) = 2 PROVE FALSE
  <2>1. Len(s) = Len(t) + 1 /\ Len(s) > 0
    BY <1>2, <1>4
  <2>2. s[Len(s)] = b[1]
    BY <1>2, <1>4, <2>1
  <2> QED BY <1>1, <1>4, <2>1, <2>2
<1>5. ASSUME Len(a) = 2, Len(b) = 1 PROVE FALSE
  <2>1. Len(t) = Len(s) + 1 /\ Len(t) > 0
    BY <1>2, <1>5
  <2>2. t[Len(t)] = a[1]
    BY <1>2, <1>5, <2>1
  <2> QED BY <1>1, <1>5, <2>1, <2>2
<1> QED BY <1>1, <1>3, <1>4, <1>5

EndsWell(s) == s # <<>> => s[Len(s)] # "~"

(* The last letter of an escaped name tells its last code.                 *)
LEMMA LastCodes ==
  \A s, t \in Seq(Letter), c, d \in Char :
    EndsWell(s) /\ EndsWell(t) /\ s \o Code(c) = t \o Code(d) => c = d /\ s = t
BY LastCode DEF EndsWell

(* A name that is not empty is not escaped to nothing.                     *)
LEMMA EscapeKeeps ==
  ASSUME NEW s \in Seq(Char), s # <<>>
  PROVE  EscapePointerToken(s) # <<>>
<1>1. PICK r \in Seq(Char), c \in Char : s = Append(r, c)
  BY SequenceEmptyOrAppend
<1> DEFINE e == EscapePointerToken(r)
           y == Code(c)
<1>2. EscapePointerToken(s) = e \o y /\ e \in Seq(Letter)
  BY <1>1, EscapeIs
<1>3. y \in Seq(Letter) /\ y # <<>>
  <2>1. y \in Seq(Letter) /\ (Len(y) = 1 \/ Len(y) = 2)
    BY CodeIs
  <2>2. \A t \in Seq(Letter) : Len(t) = 1 \/ Len(t) = 2 => t # <<>>
    OBVIOUS
  <2> HIDE DEF y
  <2> QED BY ONLY <2>1, <2>2
<1> HIDE DEF e, y
<1>4. e \o y # <<>>
  BY <1>2, <1>3, LongerNotEmpty
<1> QED BY <1>2, <1>4

(* No two names are escaped alike.                                         *)
LEMMA EscapeInjective ==
  ASSUME NEW s \in Seq(Char), NEW t \in Seq(Char), EscapePointerToken(s) = EscapePointerToken(t)
  PROVE  s = t
<1> DEFINE E(u) == EscapePointerToken(u)
           P == {n \in Nat : \A a, b \in Seq(Char) : Len(a) = n /\ E(a) = E(b) => a = b}
<1>1. ASSUME NEW n \in Nat, \A k \in 0..n - 1 : k \in P
      PROVE  n \in P
  <2> SUFFICES ASSUME NEW a \in Seq(Char), NEW b \in Seq(Char), Len(a) = n, E(a) = E(b)
               PROVE  a = b
    OBVIOUS
  <2>2. E(<<>>) = <<>>
    BY EscapeIs
  <2>3. CASE a = <<>> \/ b = <<>>
    <3>1. \A u \in Seq(Char) : E(u) = <<>> => u = <<>>
      BY EscapeKeeps
    <3> HIDE DEF E
    <3> QED BY <2>2, <2>3, <3>1
  <2>4. CASE a # <<>> /\ b # <<>>
    <3>1. PICK r \in Seq(Char), c \in Char : a = Append(r, c)
      BY <2>4, SequenceEmptyOrAppend
    <3>2. PICK q \in Seq(Char), d \in Char : b = Append(q, d)
      BY <2>4, SequenceEmptyOrAppend
    <3>3. E(r) \in Seq(Letter) /\ E(q) \in Seq(Letter) /\ E(r) \o Code(c) = E(q) \o Code(d)
      <4>1. E(r) \in Seq(Letter) /\ E(q) \in Seq(Letter)
        BY EscapeIs
      <4>2. E(a) = E(r) \o Code(c)
        BY <3>1, EscapeIs
      <4>3. E(b) = E(q) \o Code(d)
        BY <3>2, EscapeIs
      <4> QED BY <4>1, <4>2, <4>3
    <3>4. EndsWell(E(r)) /\ EndsWell(E(q))
      BY EscapeClean DEF EndsWell
    <3>5. c = d /\ E(r) = E(q)
      <4> DEFINE e == E(r)
                 f == E(q)
      <4>1. /\ e \in Seq(Letter) /\ f \in Seq(Letter) /\ e \o Code(c) = f \o Code(d)
            /\ EndsWell(e) /\ EndsWell(f)
        BY <3>3, <3>4
      <4>0. c \in Char /\ d \in Char
        OBVIOUS
      <4> HIDE DEF e, f
      <4>2. c = d /\ e = f
        BY ONLY <4>1, <4>0, LastCodes, Zenon
      <4> QED BY <4>2 DEF e, f
    <3>6. Len(r) \in 0..n - 1
      BY <3>1
    <3>7. r = q
      BY <1>1, <3>5, <3>6
    <3> QED BY <3>1, <3>2, <3>5, <3>7
  <2> QED BY <2>3, <2>4
<1> HIDE DEF P
<1>2. Nat \subseteq P
  BY <1>1, Induction
<1>3. Len(s) \in Nat /\ Len(s) \in P
  BY <1>2
<1> QED BY <1>3 DEF P

(* The last separator splits a sequence.                                  *)
Splits(u, p, sep, x) == u = p \o (<<sep>> \o x) /\ \A k \in 1..Len(x) : x[k] # sep

(* The last separator splits a sequence in one way.                        *)
LEMMA SplitLast ==
  ASSUME NEW S, NEW sep \in S, NEW p \in Seq(S), NEW q \in Seq(S), NEW x \in Seq(S), NEW y \in Seq(S),
         NEW u, Splits(u, p, sep, x), Splits(u, q, sep, y)
  PROVE  p = q /\ x = y
<1> DEFINE a == <<sep>> \o x
           b == <<sep>> \o y
<1>0. (\A k \in 1..Len(x) : x[k] # sep) /\ (\A k \in 1..Len(y) : y[k] # sep)
  BY DEF Splits
<1>1. /\ a \in Seq(S) /\ Len(a) = 1 + Len(x) /\ a[1] = sep /\ \A k \in 1..Len(x) : a[1 + k] = x[k]
      /\ b \in Seq(S) /\ Len(b) = 1 + Len(y) /\ b[1] = sep /\ \A k \in 1..Len(y) : b[1 + k] = y[k]
      /\ Len(x) \in Nat /\ Len(y) \in Nat
  <2>1. <<sep>> \in Seq(S) /\ Len(<<sep>>) = 1 /\ <<sep>>[1] = sep /\ 1 \in 1..1
    OBVIOUS
  <2>2. \A z \in Seq(S) : /\ <<sep>> \o z \in Seq(S) /\ Len(<<sep>> \o z) = Len(<<sep>>) + Len(z)
                          /\ \A n \in 1..Len(<<sep>>) : (<<sep>> \o z)[n] = <<sep>>[n]
                          /\ \A n \in 1..Len(z) : (<<sep>> \o z)[Len(<<sep>>) + n] = z[n]
    BY <2>1, Concat2
  <2>3. Len(x) \in Nat /\ Len(y) \in Nat
    BY LenProperties
  <2> QED BY <2>1, <2>2, <2>3
<1>2. u = p \o a /\ u = q \o b
  BY DEF Splits
<1> HIDE DEF a, b
<1>3. /\ Len(p \o a) = Len(p) + Len(a) /\ Len(p) \in Nat /\ \A k \in 1..Len(p) : (p \o a)[k] = p[k]
      /\ \A k \in 1..Len(a) : (p \o a)[Len(p) + k] = a[k]
  <2>1. p \in Seq(S) /\ a \in Seq(S)
    BY <1>1
  <2> QED BY ONLY <2>1, Concat2, LenProperties
<1>4. /\ Len(q \o b) = Len(q) + Len(b) /\ Len(q) \in Nat /\ \A k \in 1..Len(q) : (q \o b)[k] = q[k]
      /\ \A k \in 1..Len(b) : (q \o b)[Len(q) + k] = b[k]
  <2>1. q \in Seq(S) /\ b \in Seq(S)
    BY <1>1
  <2> QED BY ONLY <2>1, Concat2, LenProperties
<1>5. /\ Len(u) = Len(p) + 1 + Len(x) /\ Len(u) = Len(q) + 1 + Len(y)
      /\ u[Len(p) + 1] = sep /\ u[Len(q) + 1] = sep
      /\ \A k \in 1..Len(x) : u[Len(p) + 1 + k] = x[k]
      /\ \A k \in 1..Len(y) : u[Len(q) + 1 + k] = y[k]
      /\ \A k \in 1..Len(p) : u[k] = p[k]
      /\ \A k \in 1..Len(q) : u[k] = q[k]
  <2>1. 1 \in 1..Len(a) /\ 1 \in 1..Len(b)
    BY <1>1
  <2>2. \A k \in 1..Len(x) : 1 + k \in 1..Len(a) /\ Len(p) + 1 + k = Len(p) + (1 + k)
    BY <1>1, <1>3
  <2>3. \A k \in 1..Len(y) : 1 + k \in 1..Len(b) /\ Len(q) + 1 + k = Len(q) + (1 + k)
    BY <1>1, <1>4
  <2>4. \A k \in 1..Len(x) : u[Len(p) + 1 + k] = x[k]
    BY ONLY <1>1, <1>2, <1>3, <2>2, ZenonT(40)
  <2>5. \A k \in 1..Len(y) : u[Len(q) + 1 + k] = y[k]
    BY ONLY <1>1, <1>2, <1>4, <2>3, SMTT(30)
  <2>6. Len(u) = Len(p) + 1 + Len(x) /\ Len(u) = Len(q) + 1 + Len(y)
    BY <1>1, <1>2, <1>3, <1>4
  <2> QED BY <1>1, <1>2, <1>3, <1>4, <2>1, <2>4, <2>5, <2>6, ZenonT(40)
<1>6. ~ (Len(p) < Len(q))
  <2> SUFFICES ASSUME Len(p) < Len(q) PROVE FALSE
    OBVIOUS
  <2>0. Len(p) < Len(q)
    OBVIOUS
  <2> DEFINE k == Len(q) - Len(p)
  <2>1. k \in 1..Len(x) /\ Len(p) + 1 + k = Len(q) + 1
    BY ONLY <1>1, <1>3, <1>4, <1>5, <2>0
  <2> HIDE DEF k
  <2>3. u[Len(p) + 1 + k] = x[k]
    BY <1>5, <2>1, Zenon
  <2>4. u[Len(q) + 1] = x[k]
    BY <2>1, <2>3, Zenon
  <2>5. x[k] # sep
    BY <1>0, <2>1, Zenon
  <2>2. u[Len(q) + 1] # sep
    BY <2>4, <2>5, Zenon
  <2> QED BY <1>5, <2>2
<1>7. ~ (Len(q) < Len(p))
  <2> SUFFICES ASSUME Len(q) < Len(p) PROVE FALSE
    OBVIOUS
  <2>0. Len(q) < Len(p)
    OBVIOUS
  <2> DEFINE k == Len(p) - Len(q)
  <2>1. k \in 1..Len(y) /\ Len(q) + 1 + k = Len(p) + 1
    BY ONLY <1>1, <1>3, <1>4, <1>5, <2>0
  <2> HIDE DEF k
  <2>3. u[Len(q) + 1 + k] = y[k]
    BY <1>5, <2>1, Zenon
  <2>4. u[Len(p) + 1] = y[k]
    BY <2>1, <2>3, Zenon
  <2>5. y[k] # sep
    BY <1>0, <2>1, Zenon
  <2>2. u[Len(p) + 1] # sep
    BY <2>4, <2>5, Zenon
  <2> QED BY <1>5, <2>2
<1>8. Len(p) = Len(q) /\ Len(x) = Len(y)
  BY <1>1, <1>3, <1>4, <1>5, <1>6, <1>7
<1>9. \A k \in 1..Len(p) : p[k] = q[k]
  BY <1>5, <1>8
<1>10. \A k \in 1..Len(x) : x[k] = y[k]
  BY <1>5, <1>8
<1> QED BY <1>8, <1>9, <1>10, SeqEqual

(* Two ways to split a sequence before its last separator are the same.    *)
LEMMA SplitLasts ==
  \A S : \A sep \in S : \A p, q, x, y \in Seq(S) : \A u :
    Splits(u, p, sep, x) /\ Splits(u, q, sep, y) => p = q /\ x = y
BY SplitLast

(* The path to a location: its names, escaped, a separator before each.    *)
Segment(name) == <<"/">> \o EscapePointerToken(name)
PathOf(at) == FlattenSeq([k \in DOMAIN at |-> Segment(at[k])])

(* A segment of a path is not empty.                                       *)
LEMMA SegmentIs ==
  \A name \in PropertyName : Segment(name) \in Seq(Letter) /\ Segment(name) # <<>>
<1> SUFFICES ASSUME NEW name \in PropertyName PROVE Segment(name) \in Seq(Letter) /\ Segment(name) # <<>>
  OBVIOUS
<1> DEFINE e == EscapePointerToken(name)
<1>1. e \in Seq(Letter)
  BY EscapeIs DEF PropertyName
<1>2. "/" \in Letter
  BY DEF Letter
<1> HIDE DEF e
<1>3. <<"/">> \in Seq(Letter) /\ Len(<<"/">>) = 1
  BY <1>2
<1>4. <<"/">> \o e \in Seq(Letter) /\ Len(<<"/">> \o e) = 1 + Len(e) /\ Len(e) \in Nat
  BY <1>1, <1>3, Concat2
<1>5. Len(<<"/">> \o e) # 0
  BY ONLY <1>4
<1> QED BY <1>4, <1>5 DEF Segment, e

(* The path of the root is empty, and a name more is a segment more.       *)
LEMMA PathIs ==
  /\ PathOf(<<>>) = <<>>
  /\ \A at \in Seq(PropertyName) : PathOf(at) \in Seq(Letter)
  /\ \A at \in Seq(PropertyName), name \in PropertyName :
       /\ PathOf(Append(at, name)) = PathOf(at) \o Segment(name)
       /\ PathOf(Append(at, name)) = PathOf(at) \o <<"/">> \o EscapePointerToken(name)
<1> DEFINE E(s) == [k \in DOMAIN s |-> Segment(s[k])]
<1>1. \A s : PathOf(s) = FlattenSeq(E(s))
  BY DEF PathOf
<1>3. E(<<>>) = <<>>
  OBVIOUS
<1>4. \A s \in Seq(PropertyName) : E(s) \in Seq(Seq(Letter)) /\ Len(E(s)) = Len(s)
  <2> SUFFICES ASSUME NEW s \in Seq(PropertyName) PROVE E(s) \in Seq(Seq(Letter)) /\ Len(E(s)) = Len(s)
    OBVIOUS
  <2>1. DOMAIN s = 1..Len(s) /\ Len(s) \in Nat /\ \A k \in 1..Len(s) : s[k] \in PropertyName
    OBVIOUS
  <2>2. \A k \in 1..Len(s) : Segment(s[k]) \in Seq(Letter)
    BY SegmentIs, <2>1
  <2> QED BY <2>1, <2>2
<1>5. ASSUME NEW s \in Seq(PropertyName), NEW c \in PropertyName PROVE E(Append(s, c)) = Append(E(s), Segment(c))
  <2> DEFINE t == Append(s, c)
             n == Len(s)
  <2>1. /\ t \in Seq(PropertyName) /\ n \in Nat /\ DOMAIN t = 1..n + 1 /\ DOMAIN s = 1..n /\ t[n + 1] = c
        /\ \A k \in 1..n : t[k] = s[k]
    BY AppendProperties
  <2>2. E(s) \in Seq(Seq(Letter)) /\ Len(E(s)) = n /\ Segment(c) \in Seq(Letter) /\ \A k \in 1..n : E(s)[k] = Segment(s[k])
    BY SegmentIs, <1>4, <2>1
  <2> HIDE DEF t, n
  <2>3. E(t) \in Seq(Seq(Letter)) /\ Len(E(t)) = n + 1 /\ \A k \in 1..n + 1 : E(t)[k] = Segment(t[k])
    <3>1. E(t) \in Seq(Seq(Letter))
      BY <1>4, <2>1
    <3>2. E(t) = [k \in 1..n + 1 |-> Segment(t[k])]
      BY <2>1
    <3> HIDE DEF E
    <3> QED BY <2>1, <3>1, <3>2
  <2> HIDE DEF E
  <2>4. /\ Append(E(s), Segment(c)) \in Seq(Seq(Letter)) /\ Len(Append(E(s), Segment(c))) = n + 1
        /\ Append(E(s), Segment(c))[n + 1] = Segment(c)
        /\ \A k \in 1..n : Append(E(s), Segment(c))[k] = E(s)[k]
    BY <2>2, AppendProperties
  <2>5. \A k \in 1..n + 1 : k = n + 1 \/ k \in 1..n
    BY <2>1
  <2>6. \A k \in 1..n + 1 : E(t)[k] = Append(E(s), Segment(c))[k]
    BY <2>1, <2>2, <2>3, <2>4, <2>5
  <2>7. E(t) = Append(E(s), Segment(c))
    BY <2>3, <2>4, <2>6, SeqEqual
  <2> QED BY <2>7 DEF t
<1> HIDE DEF E
<1>6. /\ FlattenSeq(<<>>) = <<>>
      /\ \A s \in Seq(Seq(Letter)) : FlattenSeq(s) \in Seq(Letter)
      /\ \A s \in Seq(Seq(Letter)), x \in Seq(Letter) : FlattenSeq(Append(s, x)) = FlattenSeq(s) \o x
  BY FlattenIs
<1>7. \A s \in Seq(PropertyName) : PathOf(s) \in Seq(Letter)
  BY <1>1, <1>4, <1>6
<1>8. ASSUME NEW s \in Seq(PropertyName), NEW c \in PropertyName
      PROVE  /\ PathOf(Append(s, c)) = PathOf(s) \o Segment(c)
             /\ PathOf(Append(s, c)) = PathOf(s) \o <<"/">> \o EscapePointerToken(c)
  <2>1. E(s) \in Seq(Seq(Letter)) /\ Segment(c) \in Seq(Letter) /\ E(Append(s, c)) = Append(E(s), Segment(c))
    BY SegmentIs, <1>4, <1>5
  <2>2. FlattenSeq(Append(E(s), Segment(c))) = FlattenSeq(E(s)) \o Segment(c)
    BY <1>6, <2>1
  <2>3. PathOf(Append(s, c)) = PathOf(s) \o Segment(c)
    BY <1>1, <2>1, <2>2
  <2> DEFINE f == PathOf(s)
             g == <<"/">>
             h == EscapePointerToken(c)
  <2>4. f \in Seq(Letter) /\ h \in Seq(Letter)
    BY <1>7, EscapeIs DEF PropertyName
  <2>5. g \in Seq(Letter)
    <3>1. "/" \in Letter
      BY DEF Letter
    <3> QED BY <3>1
  <2>6. Segment(c) = g \o h
    BY DEF Segment
  <2> HIDE DEF f, g, h
  <2>7. (f \o g) \o h = f \o (g \o h)
    BY <2>4, <2>5, ConcatAssociative, SMTT(30)
  <2>8. PathOf(Append(s, c)) = f \o g \o h
    BY <2>3, <2>6, <2>7 DEF f
  <2> QED BY <2>3, <2>8 DEF f, g, h
<1> QED BY <1>1, <1>3, <1>6, <1>7, <1>8

(* Only the root has the empty path.                                       *)
LEMMA PathKeeps ==
  \A u \in Seq(PropertyName) : PathOf(u) = <<>> => u = <<>>
<1> SUFFICES ASSUME NEW u \in Seq(PropertyName), u # <<>> PROVE PathOf(u) # <<>>
  OBVIOUS
<1>1. PICK r \in Seq(PropertyName), c \in PropertyName : u = Append(r, c)
  BY SequenceEmptyOrAppend
<1> DEFINE e == PathOf(r)
           y == Segment(c)
<1>2. PathOf(u) = e \o y /\ e \in Seq(Letter)
  BY <1>1, PathIs
<1>3. y \in Seq(Letter) /\ y # <<>>
  BY SegmentIs
<1> HIDE DEF e, y
<1>4. e \o y # <<>>
  BY <1>2, <1>3, LongerNotEmpty
<1> QED BY <1>2, <1>4

(* The last name of a location can be read off its path.                   *)
LEMMA LastSegment ==
  \A p, q \in Seq(Letter), c, d \in PropertyName :
    \A u : u = p \o Segment(c) /\ u = q \o Segment(d) => p = q /\ c = d
<1> SUFFICES ASSUME NEW p \in Seq(Letter), NEW q \in Seq(Letter), NEW c \in PropertyName, NEW d \in PropertyName,
                    NEW u, u = p \o Segment(c), u = q \o Segment(d)
             PROVE  p = q /\ c = d
  OBVIOUS
<1> DEFINE x == EscapePointerToken(c)
           y == EscapePointerToken(d)
           sep == "/"
<1>1. x \in Seq(Letter) /\ y \in Seq(Letter) /\ c \in Seq(Char) /\ d \in Seq(Char)
  BY EscapeIs DEF PropertyName
<1>0. p \in Seq(Letter) /\ q \in Seq(Letter)
  OBVIOUS
<1>2. (\A k \in 1..Len(x) : x[k] # sep) /\ (\A k \in 1..Len(y) : y[k] # sep)
  BY <1>1, EscapeClean
<1>3. sep \in Letter
  BY DEF Letter
<1>4. Splits(u, p, sep, x)
  BY <1>2 DEF Splits, Segment
<1>8. Splits(u, q, sep, y)
  BY <1>2, Zenon DEF Splits, Segment
<1> HIDE DEF x, y, sep
<1>5. p = q /\ x = y
  BY ONLY <1>1, <1>3, <1>4, <1>8, <1>0, SplitLasts
<1>6. EscapePointerToken(c) = EscapePointerToken(d)
  BY <1>5 DEF x, y
<1>7. c = d
  BY <1>1, <1>6, EscapeInjective
<1> QED BY <1>5, <1>7

(* Different locations have different paths.                               *)
LEMMA PathInjective ==
  \A a, b \in Seq(PropertyName) : PathOf(a) = PathOf(b) => a = b
<1> DEFINE P == {n \in Nat : \A a, b \in Seq(PropertyName) : Len(a) = n /\ PathOf(a) = PathOf(b) => a = b}
<1>1. ASSUME NEW n \in Nat, \A k \in 0..n - 1 : k \in P
      PROVE  n \in P
  <2> SUFFICES ASSUME NEW a \in Seq(PropertyName), NEW b \in Seq(PropertyName), Len(a) = n, PathOf(a) = PathOf(b)
               PROVE  a = b
    OBVIOUS
  <2>1. \A u \in Seq(PropertyName) : PathOf(u) = <<>> => u = <<>>
    BY PathKeeps
  <2>2. CASE a = <<>> \/ b = <<>>
    BY <2>1, <2>2, PathIs
  <2>3. CASE a # <<>> /\ b # <<>>
    <3>1. PICK r \in Seq(PropertyName), c \in PropertyName : a = Append(r, c)
      BY <2>3, SequenceEmptyOrAppend
    <3>2. PICK q \in Seq(PropertyName), d \in PropertyName : b = Append(q, d)
      BY <2>3, SequenceEmptyOrAppend
    <3>3. /\ PathOf(a) = PathOf(r) \o Segment(c) /\ PathOf(b) = PathOf(q) \o Segment(d)
          /\ PathOf(r) \in Seq(Letter) /\ PathOf(q) \in Seq(Letter)
      BY <3>1, <3>2, PathIs, Zenon
    <3> DEFINE u == PathOf(a)
               v == PathOf(r)
               w == PathOf(q)
    <3>7. u = v \o Segment(c) /\ u = w \o Segment(d) /\ v \in Seq(Letter) /\ w \in Seq(Letter)
      BY <3>3, Zenon
    <3> HIDE DEF u, v, w
    <3>8. v = w /\ c = d
      BY <3>7, LastSegment
    <3>4. PathOf(r) = PathOf(q) /\ c = d
      BY <3>8 DEF v, w
    <3>5. Len(r) \in 0..n - 1
      <4>1. Len(a) = Len(r) + 1 /\ Len(r) \in Nat
        BY <3>1, AppendProperties, LenProperties
      <4>2. Len(r) + 1 = n
        BY <4>1
      <4> QED BY ONLY <4>1, <4>2
    <3>6. r = q
      BY <1>1, <3>4, <3>5
    <3> QED BY <3>1, <3>2, <3>4, <3>6
  <2> QED BY <2>2, <2>3
<1> HIDE DEF P
<1>2. Nat \subseteq P
  BY <1>1, Induction
<1>3. \A s \in Seq(PropertyName) : Len(s) \in Nat /\ Len(s) \in P
  BY <1>2, LenProperties
<1> QED BY <1>3 DEF P

-----------------------------------------------------------------------------
(* The place of a node.                                                    *)

InBranch(n) == {m \in DOMAIN schema : n \in ToSet(schema[m].allOf)}
AsMember(n) ==
  UNION {{<<m, p.name>> : p \in {q \in ToSet(Props(m)) : q.schema = n}} : m \in DOMAIN schema}

(* The children of a node are told apart.                                  *)
LEMMA KidsApart ==
  ASSUME schema \in Schemas, NEW n \in DOMAIN schema
  PROVE  /\ \A k \in 1..Len(schema[n].allOf), l \in 1..Len(Props(n)) : schema[n].allOf[k] # Props(n)[l].schema
         /\ \A k, l \in 1..Len(Props(n)) : Props(n)[k].schema = Props(n)[l].schema => k = l
         /\ \A k, l \in 1..Len(schema[n].allOf) : schema[n].allOf[k] = schema[n].allOf[l] => k = l
<1>1. schema[n].allOf \in Seq(Nat) /\ Props(n) \in Seq(Property)
  BY NodeIs DEF SchemaNode
<1> DEFINE b == [k \in DOMAIN Props(n) |-> Props(n)[k].schema]
           a == schema[n].allOf
           N == Len(Props(n))
<1>2. N \in Nat /\ DOMAIN Props(n) = 1..N /\ \A k \in 1..N : Props(n)[k].schema \in Nat
  <2>1. \A s \in Seq(Property) : Len(s) \in Nat /\ DOMAIN s = 1..Len(s) /\ \A k \in 1..Len(s) : s[k] \in Property
    OBVIOUS
  <2>2. N \in Nat /\ DOMAIN Props(n) = 1..N /\ \A k \in 1..N : Props(n)[k] \in Property
    BY <1>1, <2>1
  <2> QED BY <2>2 DEF Property
<1>10. b = [k \in 1..N |-> Props(n)[k].schema]
  BY <1>2
<1>11. /\ b \in Seq(Nat) /\ Len(b) = N
       /\ \A k \in 1..N : b[k] = Props(n)[k].schema
  BY <1>2, <1>10
<1>3. IsInjective(a \o b)
  <2>1. WellFormedSchema(schema)
    BY SchemasAssumption
  <2>2. LET props    == Or(schema[n].properties, <<>>)
            children == schema[n].allOf \o [k \in DOMAIN props |-> props[k].schema]
        IN  IsInjective(children)
    BY <2>1, Zenon DEF WellFormedSchema
  <2> QED BY <2>2 DEF Props
<1>7. a \in Seq(Nat)
  BY <1>1
<1>12. b \in Seq(Nat)
  BY <1>11
<1> HIDE DEF b, a
<1>8. /\ a \o b \in Seq(Nat) /\ Len(a \o b) = Len(a) + Len(b)
      /\ \A k \in 1..Len(a) : (a \o b)[k] = a[k]
      /\ \A k \in 1..Len(b) : (a \o b)[Len(a) + k] = b[k]
  BY <1>7, <1>12, Concat2
<1>9. Len(a) \in Nat /\ Len(b) \in Nat /\ DOMAIN (a \o b) = 1..Len(a) + Len(b)
  <2>1. DOMAIN (a \o b) = 1..Len(a \o b)
    BY <1>8
  <2> QED BY <1>7, <1>8, <1>12, <2>1
<1>4. \A k, l \in 1..Len(a) + Len(b) : (a \o b)[k] = (a \o b)[l] => k = l
  BY <1>3, <1>9 DEF IsInjective
<1>5. /\ \A k \in 1..Len(a) : k \in 1..Len(a) + Len(b)
      /\ \A k \in 1..Len(b) : Len(a) + k \in 1..Len(a) + Len(b) /\ Len(a) + k \notin 1..Len(a)
      /\ \A k, l \in 1..Len(b) : Len(a) + k = Len(a) + l => k = l
  BY <1>9
<1>6. /\ \A k \in 1..Len(a), l \in 1..Len(b) : a[k] # b[l]
      /\ \A k, l \in 1..Len(b) : b[k] = b[l] => k = l
      /\ \A k, l \in 1..Len(a) : a[k] = a[l] => k = l
  BY <1>4, <1>5, <1>8
<1> QED BY <1>6, <1>11 DEF a

(* The properties a node is the schema of, one by one.                     *)
LEMMA AsMemberIs ==
  ASSUME NEW n
  PROVE  \A x : x \in AsMember(n) <=>
           \E m \in DOMAIN schema : \E p \in ToSet(Props(m)) : p.schema = n /\ x = <<m, p.name>>
<1> DEFINE F(m) == {<<m, p.name>> : p \in {q \in ToSet(Props(m)) : q.schema = n}}
<1>1. \A m, x : x \in F(m) <=> \E p \in ToSet(Props(m)) : p.schema = n /\ x = <<m, p.name>>
  OBVIOUS
<1>2. AsMember(n) = UNION {F(m) : m \in DOMAIN schema}
  BY DEF AsMember
<1> HIDE DEF F
<1>3. \A x : x \in AsMember(n) <=> \E m \in DOMAIN schema : x \in F(m)
  BY <1>2
<1> QED BY <1>1, <1>3

(* Who a node is the child of, member by member.                           *)
LEMMA ParentsAre ==
  ASSUME schema \in Schemas, NEW n \in DOMAIN schema
  PROVE  /\ \A m : m \in InBranch(n) <=> m \in DOMAIN schema /\ \E k \in 1..Len(schema[m].allOf) : schema[m].allOf[k] = n
         /\ \A x : x \in AsMember(n) <=>
              \E m \in DOMAIN schema : \E l \in 1..Len(Props(m)) :
                Props(m)[l].schema = n /\ x = <<m, Props(m)[l].name>>
         /\ \A m \in DOMAIN schema : \A l \in 1..Len(Props(m)) : Props(m)[l].name \in PropertyName
<1>1. ASSUME NEW m \in DOMAIN schema
      PROVE  /\ DOMAIN schema[m].allOf = 1..Len(schema[m].allOf)
             /\ DOMAIN Props(m) = 1..Len(Props(m))
             /\ \A l \in 1..Len(Props(m)) : Props(m)[l] \in Property
  <2>1. schema[m].allOf \in Seq(Nat) /\ Props(m) \in Seq(Property)
    BY NodeIs, ChildrenAre
  <2> QED BY <2>1
<1>2. \A m : m \in InBranch(n) <=> m \in DOMAIN schema /\ \E k \in 1..Len(schema[m].allOf) : schema[m].allOf[k] = n
  BY <1>1 DEF InBranch, ToSet
<1>3. \A m \in DOMAIN schema : ToSet(Props(m)) = {Props(m)[l] : l \in 1..Len(Props(m))}
  BY <1>1 DEF ToSet
<1>4. \A x : x \in AsMember(n) <=>
        \E m \in DOMAIN schema : \E p \in ToSet(Props(m)) : p.schema = n /\ x = <<m, p.name>>
  BY AsMemberIs
<1>5. \A x : x \in AsMember(n) <=>
        \E m \in DOMAIN schema : \E l \in 1..Len(Props(m)) :
          Props(m)[l].schema = n /\ x = <<m, Props(m)[l].name>>
  <2>1. \A m \in DOMAIN schema : \A p : p \in ToSet(Props(m)) <=> \E l \in 1..Len(Props(m)) : p = Props(m)[l]
    BY <1>3
  <2>2. \A x, m : m \in DOMAIN schema =>
          ((\E p \in ToSet(Props(m)) : p.schema = n /\ x = <<m, p.name>>)
           <=> (\E l \in 1..Len(Props(m)) : Props(m)[l].schema = n /\ x = <<m, Props(m)[l].name>>))
    BY <2>1
  <2> QED BY <1>4, <2>2
<1> QED BY <1>1, <1>2, <1>5 DEF Property

(* The root has no parent; every other node is a branch of one node, or a  *)
(* property of one node.                                                   *)
LEMMA OneParent ==
  ASSUME schema \in Schemas, NEW n \in DOMAIN schema
  PROVE  /\ n = 1 => InBranch(n) = {} /\ AsMember(n) = {}
         /\ n # 1 => \/ \E m \in DOMAIN schema : m < n /\ InBranch(n) = {m} /\ AsMember(n) = {}
                     \/ \E m \in DOMAIN schema, name \in PropertyName :
                          m < n /\ InBranch(n) = {} /\ AsMember(n) = {<<m, name>>}
<1>0. schema \in Seq(SchemaNode) /\ 1 \in DOMAIN schema /\ DOMAIN schema = 1..Len(schema) /\ Len(schema) \in Nat
  BY NodeIs
<1>1. /\ \A m : m \in InBranch(n) <=> m \in DOMAIN schema /\ \E k \in 1..Len(schema[m].allOf) : schema[m].allOf[k] = n
      /\ \A x : x \in AsMember(n) <=>
              \E m \in DOMAIN schema : \E l \in 1..Len(Props(m)) :
                Props(m)[l].schema = n /\ x = <<m, Props(m)[l].name>>
      /\ \A m \in DOMAIN schema : \A l \in 1..Len(Props(m)) : Props(m)[l].name \in PropertyName
  BY ParentsAre
<1> DEFINE Up == {m \in DOMAIN schema :
                    n \in ToSet(schema[m].allOf) \cup {p.schema : p \in ToSet(Or(schema[m].properties, <<>>))}}
<1>2. \A m : m \in Up <=> m \in InBranch(n) \/ (\E name : <<m, name>> \in AsMember(n))
  <2>1. \A m : m \in Up <=> m \in DOMAIN schema /\ (n \in ToSet(schema[m].allOf) \/ \E p \in ToSet(Props(m)) : p.schema = n)
    BY Zenon DEF Props
  <2>2. \A m : (\E name : <<m, name>> \in AsMember(n)) <=> m \in DOMAIN schema /\ \E p \in ToSet(Props(m)) : p.schema = n
    <3>1. \A x : x \in AsMember(n) <=>
            \E m \in DOMAIN schema : \E p \in ToSet(Props(m)) : p.schema = n /\ x = <<m, p.name>>
      BY AsMemberIs
    <3>2. ASSUME NEW m, NEW name, <<m, name>> \in AsMember(n)
          PROVE  m \in DOMAIN schema /\ \E p \in ToSet(Props(m)) : p.schema = n
      <4>1. PICK o \in DOMAIN schema : \E p \in ToSet(Props(o)) : p.schema = n /\ <<m, name>> = <<o, p.name>>
        BY <3>1, <3>2
      <4>2. o = m
        BY <4>1
      <4> QED BY <4>1, <4>2
    <3>3. ASSUME NEW m \in DOMAIN schema, NEW p \in ToSet(Props(m)), p.schema = n
          PROVE  <<m, p.name>> \in AsMember(n)
      BY <3>1, <3>3
    <3> QED BY <3>2, <3>3
  <2> QED BY <2>1, <2>2 DEF InBranch
<1>3. \A m \in Up : m \in DOMAIN schema /\ m < n
  <2> SUFFICES ASSUME NEW m \in Up PROVE m < n
    OBVIOUS
  <2>0. m \in DOMAIN schema
    OBVIOUS
  <2>1. /\ \A k \in 1..Len(schema[m].allOf) : schema[m].allOf[k] > m
        /\ \A k \in 1..Len(Props(m)) : Props(m)[k].schema > m
    BY <2>0, ChildrenAre
  <2>2. CASE m \in InBranch(n)
    BY <1>0, <1>1, <2>0, <2>1, <2>2
  <2>3. CASE \E name : <<m, name>> \in AsMember(n)
    <3>1. PICK name : <<m, name>> \in AsMember(n)
      BY <2>3
    <3>2. PICK o \in DOMAIN schema : \E l \in 1..Len(Props(o)) : Props(o)[l].schema = n /\ <<m, name>> = <<o, Props(o)[l].name>>
      BY <1>1, <3>1
    <3>3. o = m
      BY <3>2
    <3> QED BY <1>0, <2>0, <2>1, <3>2, <3>3
  <2> HIDE DEF Up
  <2> QED BY <1>2, <2>2, <2>3
<1>4. CASE n = 1
  <2>1. Up = {}
    BY <1>0, <1>3, <1>4
  <2>2. InBranch(n) = {}
    BY <1>2, <2>1
  <2>3. AsMember(n) = {}
    <3> SUFFICES ASSUME NEW x \in AsMember(n) PROVE FALSE
      OBVIOUS
    <3>1. PICK m, name : x = <<m, name>>
      BY <1>1
    <3> QED BY <1>2, <2>1, <3>1
  <2> QED BY <1>4, <2>2, <2>3
<1>5. CASE n # 1
  <2>1. Cardinality(Up) = 1
    <3>1. WellFormedSchema(schema)
      BY SchemasAssumption
    <3> QED BY <1>5, <3>1 DEF WellFormedSchema
  <2>2. IsFiniteSet(Up)
    <3>1. IsFiniteSet(DOMAIN schema)
      BY <1>0, FS_Interval
    <3> QED BY <3>1, FS_Subset
  <2> HIDE DEF Up
  <2>3. PICK m : Up = {m}
    BY <2>1, <2>2, FS_Singleton
  <2>4. m \in DOMAIN schema /\ m < n
    BY <1>3, <2>3
  <2>5. \A x \in AsMember(n) : \E l \in 1..Len(Props(m)) : Props(m)[l].schema = n /\ x = <<m, Props(m)[l].name>>
    <3> SUFFICES ASSUME NEW x \in AsMember(n)
                 PROVE  \E l \in 1..Len(Props(m)) : Props(m)[l].schema = n /\ x = <<m, Props(m)[l].name>>
      OBVIOUS
    <3>1. PICK o \in DOMAIN schema : \E l \in 1..Len(Props(o)) : Props(o)[l].schema = n /\ x = <<o, Props(o)[l].name>>
      BY <1>1
    <3>2. o \in Up
      BY <1>2, <3>1
    <3> QED BY <2>3, <3>1, <3>2
  <2>6. /\ \A k \in 1..Len(schema[m].allOf), l \in 1..Len(Props(m)) : schema[m].allOf[k] # Props(m)[l].schema
        /\ \A k, l \in 1..Len(Props(m)) : Props(m)[k].schema = Props(m)[l].schema => k = l
    BY <2>4, KidsApart
  <2>7. CASE m \in InBranch(n)
    <3>1. PICK k \in 1..Len(schema[m].allOf) : schema[m].allOf[k] = n
      BY <1>1, <2>7
    <3>2. AsMember(n) = {}
      BY <2>5, <2>6, <3>1
    <3>3. InBranch(n) = {m}
      BY <1>2, <2>3, <2>7
    <3> QED BY <1>5, <2>4, <3>2, <3>3
  <2>8. CASE m \notin InBranch(n)
    <3>1. InBranch(n) = {}
      BY <1>2, <2>3, <2>8
    <3>2. PICK name : <<m, name>> \in AsMember(n)
      BY <1>2, <2>3, <2>8
    <3>3. PICK l \in 1..Len(Props(m)) : Props(m)[l].schema = n /\ <<m, name>> = <<m, Props(m)[l].name>>
      BY <2>5, <3>2
    <3>4. name = Props(m)[l].name
      BY <3>3
    <3>5. \A x \in AsMember(n) : x = <<m, name>>
      <4> SUFFICES ASSUME NEW x \in AsMember(n) PROVE x = <<m, name>>
        OBVIOUS
      <4>1. PICK j \in 1..Len(Props(m)) : Props(m)[j].schema = n /\ x = <<m, Props(m)[j].name>>
        BY <2>5
      <4>2. j = l
        BY <2>6, <3>3, <4>1
      <4> QED BY <3>4, <4>1, <4>2
    <3>6. AsMember(n) = {<<m, name>>}
      BY <3>2, <3>5
    <3>7. name \in PropertyName
      BY <1>1, <2>4, <3>4
    <3> QED BY <1>5, <2>4, <3>1, <3>6, <3>7
  <2> QED BY <2>7, <2>8
<1> QED BY <1>4, <1>5

(* n is a branch of m and nothing else, or the property of that name of m. *)
BranchOf(n, m) == InBranch(n) = {m} /\ AsMember(n) = {}
MemberOf(n, m, name) == InBranch(n) = {} /\ AsMember(n) = {<<m, name>>}

(* The same, as one of three cases.                                        *)
LEMMA Kinship ==
  ASSUME schema \in Schemas, NEW n \in DOMAIN schema
  PROVE  \/ n = 1
         \/ \E m \in DOMAIN schema : n # 1 /\ m < n /\ BranchOf(n, m)
         \/ \E m \in DOMAIN schema, name \in PropertyName : n # 1 /\ m < n /\ MemberOf(n, m, name)
BY OneParent DEF BranchOf, MemberOf

(* The places solve the equation Place is defined by.                      *)
PlaceStep(f, n) ==
  (UNION {f[m] : m \in InBranch(n)})
  \cup (UNION {{Append(at, m[2]) : at \in f[m[1]]} : m \in AsMember(n)})
  \cup {<<>> : root \in {1} \cap {n}}

Extended(S, name) == {Append(at, name) : at \in S}

IsPlaces(f) == f = [n \in DOMAIN schema |-> PlaceStep(f, n)]

(* Each step gives one place: that of the root, the place of the parent,   *)
(* or the place of the parent and the name of the property.                *)
LEMMA PlaceStepIs ==
  ASSUME schema \in Schemas, NEW f, NEW n \in DOMAIN schema
  PROVE  /\ n = 1 => PlaceStep(f, n) = {<<>>}
         /\ \A m : n # 1 /\ BranchOf(n, m) => PlaceStep(f, n) = f[m]
         /\ \A m, name : n # 1 /\ MemberOf(n, m, name)
                         => PlaceStep(f, n) = Extended(f[m], name)
<1>1. ASSUME n = 1 PROVE PlaceStep(f, n) = {<<>>}
  <2>1. InBranch(n) = {} /\ AsMember(n) = {}
    BY <1>1, OneParent
  <2>2. {<<>> : root \in {1} \cap {n}} = {<<>>}
    BY <1>1
  <2> QED BY <2>1, <2>2 DEF PlaceStep
<1>2. n # 1 => {<<>> : root \in {1} \cap {n}} = {}
  OBVIOUS
<1>3. ASSUME NEW m, n # 1, BranchOf(n, m) PROVE PlaceStep(f, n) = f[m]
  <2>0. InBranch(n) = {m} /\ AsMember(n) = {}
    BY <1>3 DEF BranchOf
  <2>1. UNION {f[k] : k \in {m}} = f[m]
    OBVIOUS
  <2>2. UNION {{Append(at, k[2]) : at \in f[k[1]]} : k \in {}} = {}
    OBVIOUS
  <2>3. PlaceStep(f, n) = (UNION {f[k] : k \in {m}})
                          \cup (UNION {{Append(at, k[2]) : at \in f[k[1]]} : k \in {}}) \cup {}
    BY <1>2, <1>3, <2>0 DEF PlaceStep
  <2> QED BY <2>1, <2>2, <2>3
<1>4. ASSUME NEW m, NEW name, n # 1, MemberOf(n, m, name)
      PROVE  PlaceStep(f, n) = Extended(f[m], name)
  <2>0. InBranch(n) = {} /\ AsMember(n) = {<<m, name>>}
    BY <1>4 DEF MemberOf
  <2>1. UNION {f[k] : k \in {}} = {}
    OBVIOUS
  <2> DEFINE F(k) == {Append(at, k[2]) : at \in f[k[1]]}
  <2>2. F(<<m, name>>) = Extended(f[m], name)
    BY DEF Extended
  <2>3. PlaceStep(f, n) = (UNION {f[k] : k \in {}}) \cup (UNION {F(k) : k \in {<<m, name>>}}) \cup {}
    BY <1>2, <1>4, <2>0 DEF PlaceStep, Extended
  <2>6. \A k : F(k) = {Append(at, k[2]) : at \in f[k[1]]}
    OBVIOUS
  <2> HIDE DEF F
  <2> DEFINE x == <<m, name>>
             a == UNION {f[k] : k \in {}}
             b == UNION {F(k) : k \in {x}}
  <2>4. b = F(x)
    <3> HIDE DEF x
    <3> QED OBVIOUS
  <2>5. PlaceStep(f, n) = a \cup b \cup {}
    BY <2>3
  <2>7. a = {}
    BY <2>1
  <2> HIDE DEF a, b
  <2> QED BY <2>2, <2>4, <2>5, <2>7 DEF x
<1> QED BY <1>1, <1>3, <1>4

(* The equation of the places has a solution: parents come first.          *)
LEMMA PlacesExist ==
  ASSUME schema \in Schemas
  PROVE  \E f : IsPlaces(f)
<1> DEFINE D == DOMAIN schema
           T == SUBSET Seq(PropertyName)
           G == [v \in D \X [D -> T] |-> PlaceStep(v[2], v[1])]
           rank == [n \in D |-> n]
<1>0. D = 1..Len(schema) /\ Len(schema) \in Nat /\ T # {}
  <2>1. schema \in Seq(SchemaNode)
    BY NodeIs
  <2> QED BY <2>1
<1>1. \A n \in D, f \in [D -> T] : G[<<n, f>>] = PlaceStep(f, n) /\ PlaceStep(f, n) \in T
  <2> SUFFICES ASSUME NEW n \in D, NEW f \in [D -> T]
               PROVE  G[<<n, f>>] = PlaceStep(f, n) /\ PlaceStep(f, n) \in T
    OBVIOUS
  <2>1. G[<<n, f>>] = PlaceStep(f, n)
    OBVIOUS
  <2>2. CASE n = 1
    <3>1. PlaceStep(f, n) = {<<>>}
      BY <2>2, PlaceStepIs
    <3>2. <<>> \in Seq(PropertyName)
      OBVIOUS
    <3> QED BY <2>1, <3>1, <3>2
  <2>3. CASE \E m \in D : n # 1 /\ m < n /\ BranchOf(n, m)
    BY <2>1, <2>3, PlaceStepIs
  <2>4. CASE \E m \in D, name \in PropertyName : n # 1 /\ m < n /\ MemberOf(n, m, name)
    <3>1. PICK m \in D, name \in PropertyName : n # 1 /\ MemberOf(n, m, name)
      BY <2>4
    <3>2. PlaceStep(f, n) = Extended(f[m], name)
      BY <3>1, PlaceStepIs
    <3>3. \A at \in f[m] : Append(at, name) \in Seq(PropertyName)
      BY AppendProperties
    <3> QED BY <2>1, <3>2, <3>3 DEF Extended
  <2> QED BY <2>2, <2>3, <2>4, Kinship
<1>2. G \in [D \X [D -> T] -> T]
  BY <1>1
<1>3. rank \in [D -> 0..Len(schema)]
  BY <1>0
<1>4. \A n \in D : \A g, h \in [D -> T] :
        (\A m \in D : rank[m] < rank[n] => g[m] = h[m]) => G[<<n, g>>] = G[<<n, h>>]
  <2> SUFFICES ASSUME NEW n \in D, NEW g \in [D -> T], NEW h \in [D -> T],
                      \A m \in D : rank[m] < rank[n] => g[m] = h[m]
               PROVE  PlaceStep(g, n) = PlaceStep(h, n)
    BY <1>1
  <2>1. \A m \in D : m < n => g[m] = h[m]
    OBVIOUS
  <2>2. CASE n = 1
    BY <2>2, PlaceStepIs
  <2>3. CASE \E m \in D : n # 1 /\ m < n /\ BranchOf(n, m)
    BY <2>1, <2>3, PlaceStepIs
  <2>4. CASE \E m \in D, name \in PropertyName : n # 1 /\ m < n /\ MemberOf(n, m, name)
    <3>1. PICK m \in D, name \in PropertyName : n # 1 /\ m < n /\ MemberOf(n, m, name)
      BY <2>4
    <3>3. \A e : PlaceStep(e, n) = Extended(e[m], name)
      BY <3>1, PlaceStepIs
    <3>2. PlaceStep(g, n) = Extended(g[m], name) /\ PlaceStep(h, n) = Extended(h[m], name)
      BY <3>3
    <3> QED BY <2>1, <3>1, <3>2
  <2> QED BY <2>2, <2>3, <2>4, Kinship
<1> HIDE DEF G, rank, T
<1>5. Descends(G, D, T, rank, Len(schema))
  BY <1>0, <1>2, <1>3, <1>4 DEF Descends
<1>6. PICK f \in [D -> T] : Solves(f, G, D)
  BY <1>5, RecursionExists
<1>7. \A n \in D : f[n] = PlaceStep(f, n)
  BY <1>1, <1>6 DEF Solves
<1>8. f = [n \in D |-> f[n]]
  OBVIOUS
<1> QED BY <1>7, <1>8 DEF IsPlaces

(* The root is at the empty place, a branch where its schema is, and a     *)
(* property one name further.                                              *)
LEMMA PlaceIs ==
  ASSUME schema \in Schemas
  PROVE  /\ DOMAIN Place = DOMAIN schema
         /\ \A n \in DOMAIN schema : Place[n] \in Seq(PropertyName)
         /\ Place[1] = <<>>
         /\ \A n \in DOMAIN schema : \A k \in 1..Len(schema[n].allOf) : Place[schema[n].allOf[k]] = Place[n]
         /\ \A n \in DOMAIN schema : \A k \in 1..Len(Props(n)) :
              Place[Props(n)[k].schema] = Append(Place[n], Props(n)[k].name)
<1> DEFINE D == DOMAIN schema
           place == CHOOSE f : IsPlaces(f)
<1>0. D = 1..Len(schema) /\ Len(schema) \in Nat /\ 1 \in D
  <2>1. schema \in Seq(SchemaNode) /\ 1 \in D
    BY NodeIs
  <2> QED BY <2>1
<1>1. IsPlaces(place)
  BY PlacesExist
<1>2. Place = [n \in D |-> CHOOSE at \in place[n] : TRUE]
  BY DEF Place, IsPlaces, PlaceStep, InBranch, AsMember
<1> HIDE DEF place
<1>3. \A n \in D : place[n] = PlaceStep(place, n)
  BY <1>1 DEF IsPlaces
<1> DEFINE One1(n) == \E at \in Seq(PropertyName) : place[n] = {at}
           P == {n \in Nat : n \in D => One1(n)}
<1>4. ASSUME NEW n \in Nat, \A k \in 0..n - 1 : k \in P
      PROVE  n \in P
  <2> SUFFICES ASSUME n \in D PROVE One1(n)
    OBVIOUS
  <2>2. CASE n = 1
    <3>1. <<>> \in Seq(PropertyName)
      OBVIOUS
    <3> QED BY <1>3, <2>2, <3>1, PlaceStepIs
  <2>3. CASE \E m \in D : n # 1 /\ m < n /\ BranchOf(n, m)
    <3>1. PICK m \in D : n # 1 /\ m < n /\ BranchOf(n, m)
      BY <2>3
    <3>2. m \in 0..n - 1
      BY <1>0, <3>1
    <3>3. One1(m)
      BY <1>4, <3>2
    <3>4. place[n] = place[m]
      BY <1>3, <3>1, PlaceStepIs
    <3> QED BY <3>3, <3>4
  <2>4. CASE \E m \in D, name \in PropertyName : n # 1 /\ m < n /\ MemberOf(n, m, name)
    <3>1. PICK m \in D, name \in PropertyName : n # 1 /\ m < n /\ MemberOf(n, m, name)
      BY <2>4
    <3>2. m \in 0..n - 1
      BY <1>0, <3>1
    <3>3. PICK at \in Seq(PropertyName) : place[m] = {at}
      BY <1>4, <3>2
    <3>4. place[n] = Extended(place[m], name)
      BY <1>3, <3>1, PlaceStepIs
    <3>5. place[n] = {Append(at, name)}
      BY <3>3, <3>4 DEF Extended
    <3>6. Append(at, name) \in Seq(PropertyName)
      BY AppendProperties
    <3> QED BY <3>5, <3>6
  <2> QED BY <2>2, <2>3, <2>4, Kinship
<1> HIDE DEF P, One1
<1>5. Nat \subseteq P
  BY <1>4, Induction
<1>6. \A n \in D : One1(n)
  BY <1>0, <1>5 DEF P
<1>7. \A n \in D : Place[n] \in Seq(PropertyName) /\ place[n] = {Place[n]}
  <2> SUFFICES ASSUME NEW n \in D PROVE Place[n] \in Seq(PropertyName) /\ place[n] = {Place[n]}
    OBVIOUS
  <2>1. PICK at \in Seq(PropertyName) : place[n] = {at}
    BY <1>6 DEF One1
  <2>2. Place[n] = CHOOSE a \in {at} : TRUE
    BY <1>2, <2>1
  <2>3. Place[n] = at
    BY <2>2
  <2> QED BY <2>1, <2>3
<1>8. Place[1] = <<>>
  <2>1. place[1] = {<<>>}
    BY <1>0, <1>3, PlaceStepIs
  <2> QED BY <1>0, <1>7, <2>1
<1>9. ASSUME NEW n \in D, NEW k \in 1..Len(schema[n].allOf)
      PROVE  Place[schema[n].allOf[k]] = Place[n]
  <2> DEFINE c == schema[n].allOf[k]
  <2>1. c \in D /\ c > n /\ c # 1
    BY <1>0, ChildrenAre
  <2>2. n \in InBranch(c)
    BY <2>1, ParentsAre
  <2> HIDE DEF c
  <2>3. BranchOf(c, n)
    BY <2>1, <2>2, OneParent DEF BranchOf
  <2>4. place[c] = place[n]
    BY <1>3, <2>1, <2>3, PlaceStepIs
  <2>5. {Place[c]} = {Place[n]}
    BY <1>7, <2>1, <2>4
  <2> QED BY <2>5 DEF c
<1>10. ASSUME NEW n \in D, NEW k \in 1..Len(Props(n))
       PROVE  Place[Props(n)[k].schema] = Append(Place[n], Props(n)[k].name)
  <2> DEFINE c == Props(n)[k].schema
             name == Props(n)[k].name
  <2>1. c \in D /\ c > n /\ c # 1
    BY <1>0, ChildrenAre
  <2>2. <<n, name>> \in AsMember(c)
    BY <2>1, ParentsAre
  <2> HIDE DEF c, name
  <2>3. MemberOf(c, n, name)
    <3>1. PICK m, q : InBranch(c) = {} /\ AsMember(c) = {<<m, q>>}
      BY <2>1, <2>2, OneParent
    <3>2. <<m, q>> = <<n, name>>
      BY <2>2, <3>1
    <3>3. m = n /\ q = name
      BY <3>2
    <3> QED BY <3>1, <3>3 DEF MemberOf
  <2>4. place[c] = Extended(place[n], name)
    BY <1>3, <2>1, <2>3, PlaceStepIs
  <2>5. {Place[c]} = {Append(Place[n], name)}
    BY <1>7, <2>1, <2>4 DEF Extended
  <2> QED BY <2>5 DEF c, name
<1>11. DOMAIN Place = D
  BY <1>2
<1> QED BY <1>7, <1>8, <1>9, <1>10, <1>11

-----------------------------------------------------------------------------
(* What a step does to the stack and to the operations.                    *)

(* c and d are the same call, further on.                                  *)
Alike(c, d) ==
  /\ c.node = d.node /\ c.input = d.input /\ c.fact = d.fact
  /\ c.path = d.path /\ c.type = d.type

(* Only the innermost call changes.                                        *)
LEMMA BeShape ==
  ASSUME Tree, stack # <<>>, NEW c, Be(c)
  PROVE  /\ Len(stack') = Len(stack) /\ stack'[Len(stack)] = c
         /\ \A f \in 1..Len(stack) - 1 : stack'[f] = stack[f]
<1>1. IsRow(stack)
  BY DEF Tree, Shape, Calls
<1> QED BY <1>1, RowRelast DEF Be, Relast

(* A call that starts comes after its caller, which goes on.               *)
LEMMA PushShape ==
  ASSUME Tree, stack # <<>>, NEW c, NEW d, stack' = Front(stack) \o <<c, d>>
  PROVE  /\ Len(stack') = Len(stack) + 1 /\ stack'[Len(stack) + 1] = d /\ stack'[Len(stack)] = c
         /\ \A f \in 1..Len(stack) - 1 : stack'[f] = stack[f]
<1> DEFINE M == Len(stack)
<1>1. IsRow(stack) /\ M \in Nat /\ M > 0
  BY RowLen DEF Tree, Shape, Calls
<1>2. PICK t : Relast(t, stack, c) /\ stack' = Append(t, d)
  BY <1>1, RowPush
<1>3. IsRow(t) /\ Len(t) = M /\ t[M] = c /\ \A f \in 1..M - 1 : t[f] = stack[f]
  BY <1>2 DEF Relast
<1>4. M \in 1..M /\ \A f \in 1..M - 1 : f \in 1..M
  BY <1>1
<1>5. /\ Len(Append(t, d)) = Len(t) + 1 /\ Append(t, d)[Len(t) + 1] = d
      /\ \A f \in 1..Len(t) : Append(t, d)[f] = t[f]
  BY <1>3, RowAppend
<1> HIDE DEF M
<1>6. /\ Len(stack') = M + 1 /\ stack'[M + 1] = d /\ stack'[M] = c
      /\ \A f \in 1..M - 1 : stack'[f] = stack[f]
  BY <1>2, <1>3, <1>4, <1>5
<1> QED BY <1>6 DEF M

(* A call that returns hands its operation to its caller, if any.          *)
LEMMA PopShape ==
  ASSUME Tree, stack # <<>>, NEW v, HandsOver(v)
  PROVE  /\ Len(stack) = 1 => stack' = <<>> /\ Len(stack') = 0 /\ ret' = v
         /\ Len(stack) # 1 =>
              /\ Len(stack) > 1 /\ Len(stack') = Len(stack) - 1 /\ ret' = ret
              /\ stack'[Len(stack) - 1] = Returned(stack[Len(stack) - 1], v)
              /\ \A f \in 1..Len(stack) - 2 : stack'[f] = stack[f]
<1> DEFINE M == Len(stack)
<1>1. IsRow(stack) /\ M \in Nat /\ M > 0
  BY RowLen DEF Tree, Shape, Calls
<1>2. CASE M = 1
  <2>1. stack' = <<>> /\ Len(<<>>) = 0 /\ ret' = v
    BY <1>2, SMTT(30) DEF HandsOver
  <2> QED BY <1>2, <2>1
<1>3. CASE M # 1
  <2> DEFINE s == Front(stack)
             c == Returned(Last(s), v)
  <2>1. stack' = Append(Front(s), c) /\ ret' = ret
    BY <1>3 DEF HandsOver
  <2>2. /\ IsRow(s) /\ Len(s) = M - 1 /\ \A f \in 1..M - 1 : s[f] = stack[f]
    BY <1>1, RowFront
  <2>3. /\ M - 1 \in Nat /\ M - 1 > 0 /\ M > 1 /\ M - 1 \in 1..M - 1 /\ (M - 1) - 1 = M - 2
        /\ \A f \in 1..M - 2 : f \in 1..M - 1
    <3>1. \A m \in Nat : m > 0 /\ m # 1 =>
            /\ m - 1 \in Nat /\ m - 1 > 0 /\ m > 1 /\ m - 1 \in 1..m - 1 /\ (m - 1) - 1 = m - 2
            /\ \A f \in 1..m - 2 : f \in 1..m - 1
      OBVIOUS
    <3> HIDE DEF M
    <3> QED BY <1>1, <1>3, <3>1
  <2>4. s # <<>> /\ Last(s) = stack[M - 1]
    BY <2>2, <2>3, RowLen
  <2> HIDE DEF s, M
  <2>5. Relast(stack', s, c)
    BY <2>1, <2>2, <2>4, RowRelast
  <2>6. c = Returned(stack[M - 1], v)
    BY <2>4
  <2> HIDE DEF c
  <2>7. /\ Len(stack') = M - 1 /\ stack'[M - 1] = c
        /\ \A f \in 1..M - 2 : stack'[f] = stack[f]
    BY <2>2, <2>3, <2>5 DEF Relast
  <2> QED BY <1>3, <2>1, <2>3, <2>6, <2>7, Zenon DEF M
<1> QED BY <1>2, <1>3

(* What becomes of a call.                                                 *)
LEMMA SameCall ==
  ASSUME NEW c, IsCall(c)
  PROVE  /\ Alike(c, c)
         /\ Alike(NextK(c), c) /\ (\A at : Alike(GoTo(c, at), c))
         /\ \A v : /\ Alike(Conjoin(c, v), c) /\ Alike(NextK(Conjoin(c, v)), c)
                   /\ Alike(Returned(c, v), c) /\ \A at : Alike(GoTo(Conjoin(c, v), at), c)
         /\ \A name : Alike(NextK([c EXCEPT !.fields = Append(@, name)]), c)
<1>1. DOMAIN c = CallField
  BY DEF IsCall
<1>2. Alike(NextK(c), c) /\ (\A at : Alike(GoTo(c, at), c))
  BY <1>1 DEF Alike, NextK, GoTo, CallField
<1>3. ASSUME NEW v
      PROVE  /\ Alike(Conjoin(c, v), c) /\ Alike(NextK(Conjoin(c, v)), c)
             /\ Alike(Returned(c, v), c) /\ \A at : Alike(GoTo(Conjoin(c, v), at), c)
  <2>1. Alike(Conjoin(c, v), c) /\ Alike(NextK(Conjoin(c, v)), c)
    BY <1>1 DEF Alike, NextK, Conjoin, CallField
  <2>2. \A at : Alike(GoTo(Conjoin(c, v), at), c)
    BY <1>1 DEF Alike, GoTo, Conjoin, CallField
  <2>3. Alike(Returned(c, v), c)
    BY <1>1, <2>1 DEF Alike, Returned, CallField
  <2> QED BY <2>1, <2>2, <2>3
<1>4. \A name : Alike(NextK([c EXCEPT !.fields = Append(@, name)]), c)
  BY <1>1 DEF Alike, NextK, CallField
<1> QED BY <1>2, <1>3, <1>4 DEF Alike

(* Where every call of the new stack comes from: it was there, or it is the*)
(* one that starts.                                                        *)
Follow ==
  \A f \in 1..Len(stack') :
    f \in 1..Len(stack) /\ Alike(stack'[f], stack[f])

Started(c) ==
  /\ Len(stack') = Len(stack) + 1 /\ stack'[Len(stack) + 1] = c
  /\ \A f \in 1..Len(stack) : Alike(stack'[f], stack[f])

(* The innermost call and those around it.                                 *)
LEMMA TopIs ==
  ASSUME Tree, stack # <<>>
  PROVE  /\ Len(stack) \in Nat /\ Len(stack) > 0 /\ Top = stack[Len(stack)] /\ IsCall(Top)
         /\ \A f \in 1..Len(stack) : IsCall(stack[f]) /\ (f = Len(stack) \/ f \in 1..Len(stack) - 1)
         /\ \A f \in 1..Len(stack) - 1 : f \in 1..Len(stack)
<1>1. IsRow(stack) /\ \A f \in 1..Len(stack) : IsCall(stack[f])
  BY DEF Tree, Shape, Calls
<1>2. Len(stack) \in Nat /\ Len(stack) > 0 /\ Top = stack[Len(stack)] /\ Len(stack) \in 1..Len(stack)
  BY <1>1, RowLen DEF Top
<1>3. /\ \A f \in 1..Len(stack) : f = Len(stack) \/ f \in 1..Len(stack) - 1
      /\ \A f \in 1..Len(stack) - 1 : f \in 1..Len(stack)
  BY <1>2
<1> QED BY <1>1, <1>2, <1>3

(* A step of the innermost call alone leaves every call where it was.      *)
LEMMA FollowBe ==
  ASSUME Tree, stack # <<>>, NEW c, Be(c), Alike(c, Top)
  PROVE  Follow
<1>1. /\ Len(stack') = Len(stack) /\ stack'[Len(stack)] = c
      /\ \A f \in 1..Len(stack) - 1 : stack'[f] = stack[f]
  BY BeShape
<1>2. /\ Top = stack[Len(stack)]
      /\ \A f \in 1..Len(stack) : IsCall(stack[f]) /\ (f = Len(stack) \/ f \in 1..Len(stack) - 1)
  BY TopIs
<1>3. \A f \in 1..Len(stack) : Alike(stack[f], stack[f])
  BY <1>2, SameCall
<1> QED BY <1>1, <1>2, <1>3 DEF Follow

(* A call that starts leaves every other call where it was.                *)
LEMMA StartedPush ==
  ASSUME Tree, stack # <<>>, NEW c, NEW d, stack' = Front(stack) \o <<c, d>>, Alike(c, Top)
  PROVE  Started(d)
<1>1. /\ Len(stack') = Len(stack) + 1 /\ stack'[Len(stack) + 1] = d /\ stack'[Len(stack)] = c
      /\ \A f \in 1..Len(stack) - 1 : stack'[f] = stack[f]
  BY PushShape
<1>2. /\ Top = stack[Len(stack)]
      /\ \A f \in 1..Len(stack) : IsCall(stack[f]) /\ (f = Len(stack) \/ f \in 1..Len(stack) - 1)
  BY TopIs
<1>3. \A f \in 1..Len(stack) : Alike(stack[f], stack[f])
  BY <1>2, SameCall
<1> QED BY <1>1, <1>2, <1>3 DEF Started

(* A call that returns leaves the others where they were.                  *)
LEMMA FollowPop ==
  ASSUME Tree, stack # <<>>, NEW v, HandsOver(v)
  PROVE  Follow
<1> DEFINE M == Len(stack)
<1>1. /\ M = 1 => Len(stack') = 0
      /\ M # 1 =>
              /\ M > 1 /\ Len(stack') = M - 1
              /\ stack'[M - 1] = Returned(stack[M - 1], v)
              /\ \A f \in 1..M - 2 : stack'[f] = stack[f]
  BY PopShape
<1>2. /\ M \in Nat
      /\ \A f \in 1..M : IsCall(stack[f])
  BY TopIs
<1>3. \A f \in 1..M : Alike(stack[f], stack[f]) /\ Alike(Returned(stack[f], v), stack[f])
  BY <1>2, SameCall
<1>4. \A f \in 1..M - 1 : f \in 1..M /\ (f = M - 1 \/ f \in 1..M - 2)
  BY <1>2
<1>5. \A f \in 1..0 : FALSE
  OBVIOUS
<1> HIDE DEF M
<1>6. CASE M = 1
  BY <1>1, <1>5, <1>6 DEF Follow
<1>7. CASE M # 1
  <2> SUFFICES ASSUME NEW f \in 1..M - 1 PROVE f \in 1..M /\ Alike(stack'[f], stack[f])
    BY <1>1, <1>7 DEF Follow, M
  <2> QED BY <1>1, <1>3, <1>4, <1>7
<1> QED BY <1>6, <1>7

(* The operations made by a step of the innermost call: they come after    *)
(* the rest, from its node, and look at its argument if at any.            *)
MadeBy(c) ==
  /\ Len(ops') \in Nat /\ Len(ops) \in Nat /\ Len(ops') >= Len(ops)
  /\ \A v \in 1..Len(ops) : ops'[v] = ops[v] /\ v \in 1..Len(ops')
  /\ \A v \in 1..Len(ops') :
       \/ v \in 1..Len(ops)
       \/ /\ ops'[v].loc = c.node
          /\ ops'[v].op \in {"validate", "struct"} => ops'[v].input = c.input

(* No operation is made.                                                   *)
LEMMA MadeNone ==
  ASSUME Tree, NEW c, UNCHANGED ops
  PROVE  MadeBy(c)
<1>1. Len(ops) \in Nat
  BY RowLen DEF Tree, Shape, Made
<1> QED BY <1>1 DEF MadeBy

(* One operation is made.                                                  *)
LEMMA MadeOne ==
  ASSUME Tree, NEW c, NEW o, ops' = Append(ops, o), o.loc = c.node, o.input = c.input
  PROVE  MadeBy(c)
<1> DEFINE N == Len(ops)
<1>1. IsRow(ops) /\ N \in Nat
  BY RowLen DEF Tree, Shape, Made
<1>2. Len(ops') = N + 1 /\ ops'[N + 1] = o /\ \A v \in 1..N : ops'[v] = ops[v]
  BY <1>1, RowAppend
<1>3. /\ N + 1 \in Nat /\ N + 1 >= N
      /\ \A v \in 1..N + 1 : v = N + 1 \/ v \in 1..N
      /\ \A v \in 1..N : v \in 1..N + 1
  BY <1>1
<1> HIDE DEF N
<1> QED BY <1>1, <1>2, <1>3 DEF MadeBy, N

(* Operations that look at no argument are made.                           *)
LEMMA MadeSome ==
  ASSUME Tree, NEW c, NEW made, IsRow(made), ops' = ops \o made,
         \A k \in 1..Len(made) : made[k].loc = c.node /\ made[k].op \notin {"validate", "struct"}
  PROVE  MadeBy(c)
<1> DEFINE N == Len(ops)
           L == Len(made)
<1>1. IsRow(ops) /\ N \in Nat /\ L \in Nat
  BY RowLen DEF Tree, Shape, Made
<1>2. /\ Len(ops') = N + L /\ \A v \in 1..N : ops'[v] = ops[v]
      /\ \A k \in 1..L : ops'[N + k] = made[k]
  BY <1>1, RowConcat
<1>3. \A v \in 1..N + L : v \in 1..N \/ \E k \in 1..L : v = N + k
  <2> SUFFICES ASSUME NEW v \in 1..N + L, v \notin 1..N PROVE \E k \in 1..L : v = N + k
    OBVIOUS
  <2>1. v - N \in 1..L /\ v = N + (v - N)
    BY <1>1
  <2> QED BY <2>1
<1>4. N + L \in Nat /\ N + L >= N /\ \A v \in 1..N : v \in 1..N + L
  BY <1>1
<1>5. \A k \in 1..L : made[k].loc = c.node /\ made[k].op \notin {"validate", "struct"}
  OBVIOUS
<1> HIDE DEF N, L
<1>6. \A v \in 1..N + L : v \in 1..N \/ (ops'[v].loc = c.node /\ ops'[v].op \notin {"validate", "struct"})
  <2> SUFFICES ASSUME NEW v \in 1..N + L, v \notin 1..N
               PROVE  ops'[v].loc = c.node /\ ops'[v].op \notin {"validate", "struct"}
    OBVIOUS
  <2>1. PICK k \in 1..L : v = N + k
    BY <1>3
  <2>2. ops'[v] = made[k]
    BY <1>2, <2>1
  <2> QED BY <1>5, <2>2
<1> QED BY <1>1, <1>2, <1>4, <1>6 DEF MadeBy, N

(* The conjunction of a call's conjuncts.                                  *)
LEMMA ConjunctionIs ==
  ASSUME NEW n, NEW cs \in Seq(Nat)
  PROVE  /\ IsRow(Conjunction(n, cs))
         /\ Len(Conjunction(n, cs)) = IF cs = <<>> THEN 1 ELSE Len(cs) - 1
         /\ \A k \in 1..Len(Conjunction(n, cs)) :
              /\ Conjunction(n, cs)[k].loc = n /\ Conjunction(n, cs)[k].op \in {"true", "and"}
              /\ Conjunction(n, cs)[k] =
                   IF cs = <<>> THEN [op |-> "true", loc |-> n]
                   ELSE [op |-> "and", loc |-> n,
                         args |-> <<IF k = 1 THEN cs[1] ELSE Len(ops) + k - 1, cs[k + 1]>>]
<1> DEFINE made == Conjunction(n, cs)
           L == Len(cs) - 1
           and(k) == [op |-> "and", loc |-> n,
                      args |-> <<IF k = 1 THEN cs[1] ELSE Len(ops) + k - 1, cs[k + 1]>>]
<1>1. CASE cs = <<>>
  <2> DEFINE o == [op |-> "true", loc |-> n]
  <2>1. made = <<o>> /\ o.op = "true" /\ o.loc = n
    BY <1>1 DEF Conjunction
  <2>3. o = [op |-> "true", loc |-> n]
    OBVIOUS
  <2> HIDE DEF o, made
  <2>2. <<o>> \in Seq({o}) /\ Len(<<o>>) = 1 /\ \A k \in 1..Len(<<o>>) : <<o>>[k] = o
    OBVIOUS
  <2> QED BY <1>1, <2>1, <2>2, <2>3 DEF IsRow, made
<1>2. CASE cs # <<>>
  <2>1. made = [k \in 1..L |-> and(k)]
    BY <1>2 DEF Conjunction
  <2>2. L \in Nat
    <3>1. Len(cs) \in Nat /\ Len(cs) > 0
      BY <1>2, RowLen DEF IsRow
    <3> QED BY <3>1
  <2>3. \A k \in 1..L : and(k).op = "and" /\ and(k).loc = n
    OBVIOUS
  <2>6. \A k \in 1..L : and(k) = [op |-> "and", loc |-> n,
                      args |-> <<IF k = 1 THEN cs[1] ELSE Len(ops) + k - 1, cs[k + 1]>>]
    OBVIOUS
  <2>7. L = Len(cs) - 1
    OBVIOUS
  <2> DEFINE S == {and(k) : k \in 1..L}
  <2>4. \A k \in 1..L : and(k) \in S
    OBVIOUS
  <2> HIDE DEF S, and, L, made
  <2>5. made \in Seq(S) /\ Len(made) = L /\ \A k \in 1..L : made[k] = and(k)
    BY <2>1, <2>2, <2>4
  <2> QED BY <1>2, <2>3, <2>5, <2>6, <2>7, SMTT(30) DEF IsRow, made
<1> QED BY <1>1, <1>2

(* The same, without what the operations join.                             *)
LEMMA ConjunctionKinds ==
  \A n : \A cs \in Seq(Nat) :
    /\ IsRow(Conjunction(n, cs))
    /\ \A k \in 1..Len(Conjunction(n, cs)) :
         Conjunction(n, cs)[k].loc = n /\ Conjunction(n, cs)[k].op \in {"true", "and"}
<1> SUFFICES ASSUME NEW n, NEW cs \in Seq(Nat)
             PROVE  /\ IsRow(Conjunction(n, cs))
                    /\ \A k \in 1..Len(Conjunction(n, cs)) :
                         Conjunction(n, cs)[k].loc = n /\ Conjunction(n, cs)[k].op \in {"true", "and"}
  OBVIOUS
<1>1. /\ IsRow(Conjunction(n, cs))
      /\ \A k \in 1..Len(Conjunction(n, cs)) :
              /\ Conjunction(n, cs)[k].loc = n /\ Conjunction(n, cs)[k].op \in {"true", "and"}
              /\ Conjunction(n, cs)[k] =
                   IF cs = <<>> THEN [op |-> "true", loc |-> n]
                   ELSE [op |-> "and", loc |-> n,
                         args |-> <<IF k = 1 THEN cs[1] ELSE Len(ops) + k - 1, cs[k + 1]>>]
  BY ConjunctionIs
<1> QED BY ONLY <1>1

-----------------------------------------------------------------------------
(* A step but the first and the last: which calls it leaves, and which     *)
(* operations it makes.                                                    *)
Branch == schema[Top.node].allOf[Top.k]

(* The steps of the innermost call that neither start a call nor return.   *)
LEMMA InPlace ==
  ASSUME Tree,
         TypeGuard \/ RejectKeyword \/ DropKeyword \/ EmitKeyword \/ EndKeywords
         \/ RejectProperty \/ FinishObject
  PROVE  stack # <<>> /\ UNCHANGED <<schema, args, ret, pc>> /\ Follow /\ MadeBy(Top)
<1>0. stack # <<>> /\ UNCHANGED <<schema, args, ret, pc>>
  <2>1. TypeGuard \/ EndKeywords \/ FinishObject => stack # <<>> /\ UNCHANGED <<schema, args, ret, pc>>
    BY DEF TypeGuard, EndKeywords, FinishObject, At
  <2>2. RejectKeyword \/ DropKeyword \/ EmitKeyword => stack # <<>> /\ UNCHANGED <<schema, args, ret, pc>>
    BY DEF RejectKeyword, DropKeyword, EmitKeyword, AtKeyword, At
  <2>3. RejectProperty => stack # <<>> /\ UNCHANGED <<schema, args, ret, pc>>
    BY DEF RejectProperty, AtProperty, At
  <2> QED BY <2>1, <2>2, <2>3, SMTT(30)
<1>1. IsCall(Top) /\ NewOp \in Nat
  BY <1>0, TopShape
<1>2. /\ Alike(NextK(Top), Top) /\ (\A at : Alike(GoTo(Top, at), Top))
      /\ Alike(NextK(Conjoin(Top, NewOp)), Top) /\ (\A at : Alike(GoTo(Conjoin(Top, NewOp), at), Top))
  BY <1>1, SameCall
<1>3. \A n, i, l : Validate(n, i, l).loc = n /\ Validate(n, i, l).input = i
  BY DEF Validate
<1>4. CASE TypeGuard
  <2>1. \/ Be(GoTo(Top, "keywords")) /\ UNCHANGED ops
        \/ \E c : /\ ops' = Append(ops, Validate(Top.node, Top.input, c))
                  /\ Be(GoTo(Conjoin(Top, NewOp), "keywords"))
    BY <1>4 DEF TypeGuard
  <2>2. CASE Be(GoTo(Top, "keywords")) /\ UNCHANGED ops
    BY <1>0, <1>2, <2>2, FollowBe, MadeNone
  <2>3. CASE \E c : /\ ops' = Append(ops, Validate(Top.node, Top.input, c))
                    /\ Be(GoTo(Conjoin(Top, NewOp), "keywords"))
    <3>1. PICK c : /\ ops' = Append(ops, Validate(Top.node, Top.input, c))
                   /\ Be(GoTo(Conjoin(Top, NewOp), "keywords"))
      BY <2>3
    <3>2. Follow
      BY <1>0, <1>2, <3>1, FollowBe
    <3>3. MadeBy(Top)
      BY <1>3, <3>1, MadeOne
    <3> QED BY <1>0, <3>2, <3>3
  <2> QED BY <2>1, <2>2, <2>3
<1>5. CASE RejectKeyword \/ DropKeyword \/ RejectProperty
  <2>1. Be(NextK(Top)) /\ UNCHANGED ops
    BY <1>5 DEF RejectKeyword, DropKeyword, RejectProperty
  <2> QED BY <1>0, <1>2, <2>1, FollowBe, MadeNone
<1>6. CASE EmitKeyword
  <2>1. /\ ops' = Append(ops, Validate(Top.node, Top.input, KeywordLattice(TheKeyword)))
        /\ Be(NextK(Conjoin(Top, NewOp)))
    BY <1>6 DEF EmitKeyword
  <2>2. Follow
    BY <1>0, <1>2, <2>1, FollowBe
  <2>3. MadeBy(Top)
    BY <1>3, <2>1, MadeOne
  <2> QED BY <1>0, <2>2, <2>3
<1>7. CASE EndKeywords
  <2>1. UNCHANGED ops /\ \E at : Be(GoTo(Top, at))
    BY <1>7 DEF EndKeywords
  <2> QED BY <1>0, <1>2, <2>1, FollowBe, MadeNone
<1>8. CASE FinishObject
  <2> DEFINE n == Top.node
             known == {k \in DOMAIN Needs(n) : Needs(n)[k] \in ToSet(Top.fields)}
             o == [op |-> "struct", loc |-> n, input |-> Top.input,
                   type |-> Or(schema[n].title, Top.type), fields |-> Top.fields,
                   results |-> Top.verdicts, required |-> Selected(Needs(n), known)]
  <2>1. Be(GoTo(Conjoin(Top, NewOp), "allOf")) /\ ops' = Append(ops, o)
    BY <1>8 DEF FinishObject
  <2>4. o.loc = Top.node /\ o.input = Top.input
    OBVIOUS
  <2> HIDE DEF o
  <2>2. Follow
    BY <1>0, <1>2, <2>1, FollowBe
  <2>3. MadeBy(Top)
    BY <2>1, <2>4, MadeOne
  <2> QED BY <1>0, <2>2, <2>3
<1> QED BY <1>4, <1>5, <1>6, <1>7, <1>8

(* A branch is imported by a call that looks at the argument of its        *)
(* caller.                                                                 *)
LEMMA EnterBranchStarts ==
  ASSUME Tree, EnterBranch
  PROVE  /\ stack # <<>> /\ UNCHANGED <<schema, args, ret, pc, ops, errors>>
         /\ Top.at = "allOf" /\ Top.k \in 1..Len(schema[Top.node].allOf)
         /\ Started(Call(Branch, Top.input, Top.fact, Top.path, Top.type))
<1>1. /\ stack # <<>> /\ UNCHANGED <<schema, args, ret, pc, ops, errors>>
      /\ Top.at = "allOf" /\ Top.k =< Len(schema[Top.node].allOf)
      /\ stack' = Front(stack) \o <<NextK(Top), Call(Branch, Top.input, Top.fact, Top.path, Top.type)>>
  BY DEF EnterBranch, At, Branch
<1>2. IsCall(Top) /\ schema \in Schemas
  BY <1>1, TopShape DEF Tree, Shape
<1>3. Alike(NextK(Top), Top)
  BY <1>2, SameCall
<1>4. schema[Top.node].allOf \in Seq(Nat)
  BY <1>2, ChildrenAre DEF IsCall
<1>5. Top.k \in 1..Len(schema[Top.node].allOf)
  BY <1>1, <1>2, <1>4 DEF IsCall
<1> QED BY <1>1, <1>3, <1>5, StartedPush

PropertyPath == Top.path \o <<"/">> \o EscapePointerToken(TheProperty.name)

(* A property has the argument of its path.                                *)
LEMMA EnterPropertyStarts ==
  ASSUME Tree, EnterProperty
  PROVE  /\ stack # <<>> /\ UNCHANGED <<schema, ops, ret, pc>>
         /\ Top.at = "properties" /\ Top.k \in 1..Len(Props(Top.node)) /\ TheProperty.name # <<>>
         /\ LET child == TheProperty.schema
                path  == PropertyPath
                known == {k \in DOMAIN args : args[k].path = path}
                input == IF known = {} THEN Len(args) + 1 ELSE CHOOSE k \in known : TRUE
            IN /\ args' = IF known = {} THEN Append(args, [path |-> path, loc |-> child]) ELSE args
               /\ errors' = errors \cup CollectKind(child, "any").errors
               /\ Started(Call(child, input, CollectKind(child, "any").kind, path,
                               Or(schema[child].title, TheProperty.name)))
<1> DEFINE child == TheProperty.schema
           path  == PropertyPath
           known == {k \in DOMAIN args : args[k].path = path}
           input == IF known = {} THEN Len(args) + 1 ELSE CHOOSE k \in known : TRUE
           c == NextK([Top EXCEPT !.fields = Append(@, TheProperty.name)])
           d == Call(child, input, CollectKind(child, "any").kind, path,
                     Or(schema[child].title, TheProperty.name))
<1>1. /\ stack # <<>> /\ UNCHANGED <<schema, ops, ret, pc>>
      /\ Top.at = "properties" /\ Top.k =< Len(Props(Top.node)) /\ TheProperty.name # <<>>
      /\ args' = IF known = {} THEN Append(args, [path |-> path, loc |-> child]) ELSE args
      /\ errors' = errors \cup CollectKind(child, "any").errors
      /\ stack' = Front(stack) \o <<c, d>>
  BY DEF EnterProperty, AtProperty, At, PropertyPath
<1>2. IsCall(Top) /\ schema \in Schemas
  BY <1>1, TopShape DEF Tree, Shape
<1>3. Alike(c, Top)
  BY <1>2, SameCall
<1>4. Props(Top.node) \in Seq(Property)
  BY <1>2, NodeIs DEF IsCall
<1>5. Top.k \in 1..Len(Props(Top.node))
  BY <1>1, <1>2, <1>4 DEF IsCall
<1> HIDE DEF c, d
<1>6. Started(d)
  BY <1>1, <1>3, StartedPush
<1> QED BY <1>1, <1>5, <1>6, SMTT(30) DEF d

(* Return makes conjunctions only.                                         *)
LEMMA ReturnGoes ==
  ASSUME Tree, Return
  PROVE  /\ stack # <<>> /\ UNCHANGED <<schema, args, pc, errors>> /\ Follow /\ MadeBy(Top)
<1>1. /\ stack # <<>> /\ UNCHANGED <<schema, args, pc, errors>> /\ ops' = ops \o Conjunction(Top.node, Top.conjuncts)
  BY DEF Return, At
<1>2. PICK v : HandsOver(v)
  BY ReturnFolds
<1>3. Follow
  BY <1>1, <1>2, FollowPop
<1>4. Top.conjuncts \in Seq(Nat)
  BY <1>1, TopShape DEF IsCall
<1>9. \A n : \A cs \in Seq(Nat) :
        /\ IsRow(Conjunction(n, cs))
        /\ \A k \in 1..Len(Conjunction(n, cs)) :
             Conjunction(n, cs)[k].loc = n /\ Conjunction(n, cs)[k].op \in {"true", "and"}
  BY ConjunctionKinds
<1> DEFINE made == Conjunction(Top.node, Top.conjuncts)
<1>5. /\ IsRow(made)
      /\ \A k \in 1..Len(made) : made[k].loc = Top.node /\ made[k].op \in {"true", "and"}
  BY ONLY <1>4, <1>9
<1>6. \A k \in 1..Len(made) : made[k].loc = Top.node /\ made[k].op \notin {"validate", "struct"}
  BY <1>5
<1> HIDE DEF made
<1>7. ops' = ops \o made
  BY <1>1 DEF made
<1>8. MadeBy(Top)
  BY <1>5, <1>6, <1>7, MadeSome
<1> QED BY <1>1, <1>3, <1>8

-----------------------------------------------------------------------------
(* Arguments and places.  Each argument has the path of a place, no two    *)
(* have the same path, and every call and every operation looks at the one *)
(* with the path of its own place.                                         *)
Rooted(a, k, n) == k \in 1..Len(a) /\ a[k].path = PathOf(Place[n])

Arguments(a) ==
  /\ IsRow(a)
  /\ \A k \in 1..Len(a) :
       a[k].loc \in DOMAIN schema /\ a[k].path = PathOf(Place[a[k].loc])
  /\ \A j, k \in 1..Len(a) : a[j].path = a[k].path => j = k

CallsRooted(a, s) ==
  \A f \in 1..Len(s) : s[f].path = PathOf(Place[s[f].node]) /\ Rooted(a, s[f].input, s[f].node)

OpsRooted(a, o) ==
  \A v \in 1..Len(o) :
    /\ o[v].loc \in DOMAIN schema
    /\ o[v].op \in {"validate", "struct"} => Rooted(a, o[v].input, o[v].loc)

Placed ==
  /\ Arguments(args) /\ CallsRooted(args, stack) /\ OpsRooted(args, ops)
  /\ pc = "start" => ops = <<>> /\ args = <<>>

(* The places are those of the schema, which no step changes.              *)
LEMMA PlacedNext ==
  ASSUME UNCHANGED schema, Arguments(args'), CallsRooted(args', stack'), OpsRooted(args', ops'),
         pc' = "start" => ops' = <<>> /\ args' = <<>>
  PROVE  Placed'
<1>1. schema' = schema /\ (pc' = "start" => ops' = <<>> /\ args' = <<>>)
  OBVIOUS
<1>2. Place' = Place
  BY DEF Place, Props
<1>3. Arguments(args)'
  <2>1. Arguments(args')
    OBVIOUS
  <2>2. IsRow(args)'
    <3>1. IsRow(args')
      BY <2>1 DEF Arguments
    <3> QED BY ONLY <3>1 DEF IsRow
  <2>3. /\ \A k \in 1..Len(args') :
             args'[k].loc \in DOMAIN schema' /\ args'[k].path = PathOf(Place'[args'[k].loc])
        /\ \A j, k \in 1..Len(args') : args'[j].path = args'[k].path => j = k
    BY <1>1, <1>2, <2>1, SMTT(30) DEF Arguments
  <2> QED BY ONLY <2>2, <2>3, Zenon DEF Arguments, PathOf, Segment, EscapePointerToken
<1>4. CallsRooted(args, stack)'
  <2>1. CallsRooted(args', stack')
    OBVIOUS
  <2> QED BY ONLY <1>1, <1>2, <2>1, ZenonT(40) DEF CallsRooted, Rooted, PathOf, Segment, EscapePointerToken
<1>5. OpsRooted(args, ops)'
  <2>1. OpsRooted(args', ops')
    OBVIOUS
  <2> QED BY ONLY <1>1, <1>2, <2>1, ZenonT(40) DEF OpsRooted, Rooted, PathOf, Segment, EscapePointerToken
<1> QED BY <1>1, <1>3, <1>4, <1>5 DEF Placed

(* An argument, once made, keeps its path.                                 *)
Grown(a, b) == Len(b) >= Len(a) /\ \A k \in 1..Len(a) : k \in 1..Len(b) /\ b[k] = a[k]

(* What looks at the argument of a place keeps looking at it.              *)
LEMMA RootedKept ==
  ASSUME NEW a, NEW b, Grown(a, b)
  PROVE  \A k, n : Rooted(a, k, n) => Rooted(b, k, n)
BY DEF Rooted, Grown

(* A step that starts no call.                                             *)
LEMMA FollowPlaced ==
  ASSUME Tree, Placed, stack # <<>>, UNCHANGED <<schema, args>>, Follow, MadeBy(Top), pc' # "start"
  PROVE  Placed'
<1>1. Arguments(args') /\ CallsRooted(args, stack) /\ OpsRooted(args, ops) /\ args' = args
  BY DEF Placed
<1>2. CallsRooted(args', stack')
  <2> SUFFICES ASSUME NEW f \in 1..Len(stack')
               PROVE  /\ stack'[f].path = PathOf(Place[stack'[f].node])
                      /\ Rooted(args', stack'[f].input, stack'[f].node)
    BY DEF CallsRooted
  <2>1. f \in 1..Len(stack) /\ Alike(stack'[f], stack[f])
    BY DEF Follow
  <2> QED BY <1>1, <2>1 DEF CallsRooted, Alike
<1>3. /\ Top.node \in DOMAIN schema /\ Rooted(args, Top.input, Top.node)
  <2>1. Len(stack) \in 1..Len(stack) /\ Top = stack[Len(stack)] /\ IsCall(Top)
    BY TopIs
  <2> QED BY <1>1, <2>1 DEF CallsRooted, IsCall
<1>4. OpsRooted(args', ops')
  <2> SUFFICES ASSUME NEW v \in 1..Len(ops')
               PROVE  /\ ops'[v].loc \in DOMAIN schema
                      /\ ops'[v].op \in {"validate", "struct"} => Rooted(args, ops'[v].input, ops'[v].loc)
    BY <1>1 DEF OpsRooted
  <2>1. CASE v \in 1..Len(ops)
    <3>1. ops'[v] = ops[v]
      BY <2>1 DEF MadeBy
    <3> QED BY <1>1, <2>1, <3>1 DEF OpsRooted
  <2>2. CASE v \notin 1..Len(ops)
    BY <1>3, <2>2 DEF MadeBy
  <2> QED BY <2>1, <2>2
<1> QED BY <1>1, <1>2, <1>4, PlacedNext

(* A step that starts a call.                                              *)
LEMMA StartedPlaced ==
  ASSUME Tree, Placed, stack # <<>>, UNCHANGED <<schema, ops>>, Grown(args, args'), Arguments(args'),
         pc' # "start", NEW c, Started(c),
         c.path = PathOf(Place[c.node]), Rooted(args', c.input, c.node)
  PROVE  Placed'
<1>1. /\ CallsRooted(args, stack) /\ OpsRooted(args, ops) /\ Len(stack) \in Nat
      /\ \A k, n : Rooted(args, k, n) => Rooted(args', k, n)
  BY RootedKept, TopIs DEF Placed
<1>2. CallsRooted(args', stack')
  <2> SUFFICES ASSUME NEW f \in 1..Len(stack) + 1
               PROVE  /\ stack'[f].path = PathOf(Place[stack'[f].node])
                      /\ Rooted(args', stack'[f].input, stack'[f].node)
    BY DEF CallsRooted, Started
  <2>1. CASE f = Len(stack) + 1
    BY <2>1 DEF Started
  <2>2. CASE f # Len(stack) + 1
    <3>1. f \in 1..Len(stack)
      BY <1>1, <2>2
    <3>2. Alike(stack'[f], stack[f])
      BY <3>1 DEF Started
    <3> QED BY <1>1, <3>1, <3>2 DEF CallsRooted, Alike
  <2> QED BY <2>1, <2>2
<1>3. OpsRooted(args', ops')
  BY <1>1 DEF OpsRooted
<1> QED BY <1>2, <1>3, PlacedNext

(* The root looks at the first argument, which has the empty path.         *)
LEMMA BeginPlaced ==
  ASSUME Tree, Placed, Begin
  PROVE  Placed'
<1> DEFINE c == Call(1, 1, CollectKind(1, "any").kind, <<>>, RootName)
           a == [path |-> <<>>, loc |-> 1]
<1>1. /\ pc = "start" /\ UNCHANGED <<schema, ops>> /\ stack' = <<c>> /\ args' = <<a>> /\ pc' # "start"
  BY DEF Begin
<1>2. ops' = <<>> /\ schema \in Schemas
  BY <1>1 DEF Placed, Tree, Shape
<1>3. c.node = 1 /\ c.input = 1 /\ c.path = <<>> /\ a.path = <<>> /\ a.loc = 1
  BY DEF Call
<1>4. 1 \in DOMAIN schema /\ PathOf(Place[1]) = <<>>
  BY <1>2, NodeIs, PlaceIs, PathIs
<1> HIDE DEF a, c
<1>5. /\ Len(args') = 1 /\ args'[1] = a /\ IsRow(args')
      /\ Len(stack') = 1 /\ stack'[1] = c /\ Len(ops') = 0
  <2>1. <<a>> \in Seq({a})
    OBVIOUS
  <2> QED BY <1>1, <1>2, <2>1 DEF IsRow
<1>6. (\A k \in 1..1 : k = 1) /\ 1 \in 1..1 /\ \A k \in 1..0 : FALSE
  OBVIOUS
<1>7. Arguments(args')
  BY <1>3, <1>4, <1>5, <1>6 DEF Arguments
<1>8. CallsRooted(args', stack')
  BY <1>3, <1>4, <1>5, <1>6 DEF CallsRooted, Rooted
<1>9. OpsRooted(args', ops')
  BY <1>5, <1>6 DEF OpsRooted
<1> QED BY <1>1, <1>7, <1>8, <1>9, PlacedNext

(* A branch is at the place of its schema.                                 *)
LEMMA EnterBranchPlaced ==
  ASSUME Tree, Placed, EnterBranch
  PROVE  Placed'
<1> DEFINE c == Call(Branch, Top.input, Top.fact, Top.path, Top.type)
<1>1. /\ stack # <<>> /\ UNCHANGED <<schema, args, ops>> /\ pc' = pc
      /\ Top.k \in 1..Len(schema[Top.node].allOf) /\ Started(c)
  BY EnterBranchStarts
<1>2. c.node = Branch /\ c.input = Top.input /\ c.path = Top.path
  BY DEF Call
<1> HIDE DEF c
<1>3. /\ Top.path = PathOf(Place[Top.node]) /\ Rooted(args, Top.input, Top.node)
      /\ schema \in Schemas /\ Top.node \in DOMAIN schema /\ pc = "import"
  <2>1. Len(stack) \in 1..Len(stack) /\ Top = stack[Len(stack)] /\ IsCall(Top)
    BY <1>1, TopIs
  <2> QED BY <1>1, <2>1 DEF Placed, CallsRooted, IsCall, Tree, Shape
<1>4. Place[Branch] = Place[Top.node]
  BY <1>1, <1>3, PlaceIs DEF Branch
<1>5. Grown(args, args')
  <2>1. Len(args) \in Nat
    BY RowLen DEF Placed, Arguments
  <2> QED BY <1>1, <2>1 DEF Grown
<1> QED BY <1>1, <1>2, <1>3, <1>4, <1>5, StartedPlaced DEF Placed, Rooted

(* A property is one name further than its schema, and so is its path.     *)
LEMMA EnterPropertyPlaced ==
  ASSUME Tree, Placed, EnterProperty
  PROVE  Placed'
<1> DEFINE child == TheProperty.schema
           name  == TheProperty.name
           path  == PropertyPath
           known == {k \in DOMAIN args : args[k].path = path}
           input == IF known = {} THEN Len(args) + 1 ELSE CHOOSE k \in known : TRUE
           a == [path |-> path, loc |-> child]
           c == Call(child, input, CollectKind(child, "any").kind, path, Or(schema[child].title, name))
<1>1. /\ stack # <<>> /\ UNCHANGED <<schema, ops>> /\ pc' = pc
      /\ Top.k \in 1..Len(Props(Top.node)) /\ Started(c)
      /\ args' = IF known = {} THEN Append(args, a) ELSE args
  BY EnterPropertyStarts
<1>2. c.node = child /\ c.input = input /\ c.path = path /\ a.path = path /\ a.loc = child
  BY DEF Call
<1>3. /\ Top.path = PathOf(Place[Top.node])
      /\ schema \in Schemas /\ Top.node \in DOMAIN schema /\ pc = "import" /\ Arguments(args)
  <2>1. Len(stack) \in 1..Len(stack) /\ Top = stack[Len(stack)] /\ IsCall(Top)
    BY <1>1, TopIs
  <2> QED BY <1>1, <2>1 DEF Placed, CallsRooted, IsCall, Tree, Shape
<1>4. child \in DOMAIN schema /\ name \in PropertyName
  <2>1. Props(Top.node) \in Seq(Property)
    BY <1>3, NodeIs
  <2>2. Props(Top.node)[Top.k] \in Property
    BY <1>1, <2>1
  <2> QED BY <1>1, <1>3, <2>2, ChildrenAre DEF TheProperty, Property
<1>5. path = PathOf(Place[child])
  <2>1. Place[child] = Append(Place[Top.node], name) /\ Place[Top.node] \in Seq(PropertyName)
    BY <1>1, <1>3, PlaceIs DEF TheProperty
  <2>2. PathOf(Append(Place[Top.node], name)) = PathOf(Place[Top.node]) \o <<"/">> \o EscapePointerToken(name)
    BY <1>4, <2>1, PathIs
  <2> QED BY <1>3, <2>1, <2>2, SMTT(30) DEF PropertyPath
<1> HIDE DEF c, a, child, path, name
<1>6. DOMAIN args = 1..Len(args) /\ IsRow(args) /\ Len(args) \in Nat
  BY <1>3, RowLen DEF Arguments
<1>7. CASE known = {}
  <2>1. args' = Append(args, a) /\ input = Len(args) + 1
    BY <1>1, <1>7
  <2>2. \A k \in 1..Len(args) : args[k].path # path
    BY <1>6, <1>7
  <2>3. /\ IsRow(args') /\ Len(args') = Len(args) + 1 /\ args'[Len(args) + 1] = a
        /\ \A k \in 1..Len(args) : args'[k] = args[k]
    BY <1>6, <2>1, RowAppend
  <2>4. \A k \in 1..Len(args) + 1 : k \in 1..Len(args) \/ k = Len(args) + 1
    BY <1>6
  <2>5. /\ Len(args) + 1 >= Len(args) /\ Len(args) + 1 \in 1..Len(args) + 1
        /\ \A k \in 1..Len(args) : k \in 1..Len(args) + 1
    BY <1>6
  <2> HIDE DEF known, input
  <2>6. Arguments(args')
    <3>1. \A k \in 1..Len(args) + 1 :
            args'[k].loc \in DOMAIN schema /\ args'[k].path = PathOf(Place[args'[k].loc])
      BY <1>2, <1>3, <1>4, <1>5, <2>3, <2>4 DEF Arguments
    <3>2. \A j, k \in 1..Len(args) + 1 : args'[j].path = args'[k].path => j = k
      BY <1>2, <1>3, <2>2, <2>3, <2>4 DEF Arguments
    <3> QED BY <2>3, <3>1, <3>2 DEF Arguments
  <2>7. Grown(args, args')
    BY <2>3, <2>5 DEF Grown
  <2>8. Rooted(args', c.input, c.node)
    BY <1>2, <1>5, <2>1, <2>3, <2>5 DEF Rooted
  <2> QED BY <1>1, <1>2, <1>3, <1>5, <2>6, <2>7, <2>8, StartedPlaced
<1>8. CASE known # {}
  <2>1. args' = args /\ input \in known
    BY <1>1, <1>8
  <2>2. input \in 1..Len(args) /\ args[input].path = path
    BY <1>6, <2>1
  <2> HIDE DEF known, input
  <2>3. Grown(args, args') /\ Arguments(args')
    BY <1>3, <1>6, <2>1 DEF Grown
  <2>4. Rooted(args', c.input, c.node)
    BY <1>2, <1>5, <2>1, <2>2 DEF Rooted
  <2> QED BY <1>1, <1>2, <1>3, <1>5, <2>3, <2>4, StartedPlaced
<1> QED BY <1>7, <1>8

(* Finish changes no argument.                                             *)
LEMMA FinishPlaced ==
  ASSUME Tree, Placed, Finish
  PROVE  Placed'
<1>1. UNCHANGED <<schema, stack, ops, args>> /\ pc' # "start"
  BY DEF Finish
<1> QED BY <1>1, PlacedNext DEF Placed

(* Every step keeps the arguments at their places.                         *)
LEMMA NextPlaced == ASSUME Tree, Placed, Next PROVE Placed'
<1>1. CASE TypeGuard \/ RejectKeyword \/ DropKeyword \/ EmitKeyword \/ EndKeywords
           \/ RejectProperty \/ FinishObject
  <2>1. stack # <<>> /\ UNCHANGED <<schema, args, pc>> /\ Follow /\ MadeBy(Top)
    BY <1>1, InPlace
  <2>2. pc = "import"
    BY <2>1 DEF Tree, Shape
  <2> QED BY <2>1, <2>2, FollowPlaced
<1>2. CASE Return
  <2>1. stack # <<>> /\ UNCHANGED <<schema, args, pc>> /\ Follow /\ MadeBy(Top)
    BY <1>2, ReturnGoes
  <2>2. pc = "import"
    BY <2>1 DEF Tree, Shape
  <2> QED BY <2>1, <2>2, FollowPlaced
<1> QED BY <1>1, <1>2, BeginPlaced, EnterPropertyPlaced, EnterBranchPlaced, FinishPlaced DEF Next

(* At first there is nothing to place.                                     *)
LEMMA InitPlaced == ASSUME Init PROVE Placed
<1>1. stack = <<>> /\ ops = <<>> /\ args = <<>>
  BY DEF Init, Idle
<1>2. <<>> \in Seq({}) /\ Len(<<>>) = 0 /\ 1..0 = {}
  OBVIOUS
<1>3. Arguments(args) /\ CallsRooted(args, stack) /\ OpsRooted(args, ops)
  BY <1>1, <1>2 DEF Arguments, CallsRooted, OpsRooted, IsRow
<1> QED BY <1>1, <1>3 DEF Placed

(* A stutter changes nothing of it.                                        *)
LEMMA StutterPlaced == ASSUME Placed, UNCHANGED vars PROVE Placed'
<1>1. UNCHANGED <<schema, stack, ops, args, pc>>
  BY DEF vars
<1> QED BY <1>1, PlacedNext DEF Placed

(* Two operations look at the same argument exactly when they come from    *)
(* schemas of the same instance location: the pointers of two places are   *)
(* different, because ~ and / are escaped in the names.                    *)
THEOREM ImporterOneArgumentPerPlace == Spec => []OneArgumentPerPlace
<1> DEFINE Inv == Tree /\ Placed
<1>1. Init => Inv
  BY InitTree, InitPlaced
<1>2. Inv /\ [Next]_vars => Inv'
  BY NextTree, StutterTree, NextPlaced, StutterPlaced
<1>3. Inv => OneArgumentPerPlace
  <2> SUFFICES ASSUME Inv, NEW v \in DOMAIN ops, NEW w \in DOMAIN ops,
                      ops[v].op \in {"validate", "struct"}, ops[w].op \in {"validate", "struct"}
               PROVE  (ops[v].input = ops[w].input) <=> (Place[ops[v].loc] = Place[ops[w].loc])
    BY DEF OneArgumentPerPlace
  <2>1. DOMAIN ops = 1..Len(ops) /\ schema \in Schemas
    BY RowLen DEF Tree, Shape, Made
  <2>2. /\ ops[v].loc \in DOMAIN schema /\ Rooted(args, ops[v].input, ops[v].loc)
        /\ ops[w].loc \in DOMAIN schema /\ Rooted(args, ops[w].input, ops[w].loc)
        /\ \A j, k \in 1..Len(args) : args[j].path = args[k].path => j = k
    BY <2>1 DEF Placed, OpsRooted, Arguments
  <2>3. Place[ops[v].loc] \in Seq(PropertyName) /\ Place[ops[w].loc] \in Seq(PropertyName)
    BY <2>1, <2>2, PlaceIs
  <2> DEFINE i == ops[v].input
             j == ops[w].input
             a == Place[ops[v].loc]
             b == Place[ops[w].loc]
  <2>4. /\ i \in 1..Len(args) /\ args[i].path = PathOf(a)
        /\ j \in 1..Len(args) /\ args[j].path = PathOf(b)
    BY <2>2 DEF Rooted
  <2> HIDE DEF i, j, a, b
  <2>5. i = j => a = b
    <3>1. i = j => PathOf(a) = PathOf(b)
      BY <2>4
    <3> QED BY <2>3, <3>1, PathInjective DEF a, b
  <2>6. a = b => i = j
    BY <2>2, <2>4
  <2> QED BY <2>5, <2>6 DEF i, j, a, b
<1> QED BY <1>1, <1>2, <1>3, PTL DEF Spec

-----------------------------------------------------------------------------
(* What the branches of a schema say together of their instance.           *)
Complaint == {"union", "type", "contradiction"} \X DOMAIN schema
Collected == [kind : InstanceKind, errors : SUBSET Complaint]

Legit(n) == schema[n].types = <<>> \/ \E t \in InstanceKind \ {"any"} : schema[n].types = <<t>>

NamesType(n) == Len(schema[n].types) = 1 /\ schema[n].types[1] \in InstanceKind

TypesHold(n, d) == \A t \in ToSet(schema[n].types) : HasType(d, t)
Known(fact, d) == fact = "any" \/ HasType(d, fact)

(* The step of the recursion over the branches, and the recursion itself.  *)
Joined(g, f, b) ==
  [kind |-> g[b][f.kind].kind, errors |-> f.errors \cup g[b][f.kind].errors]

IsAfter(after, g, n, have) ==
  after = [k \in 0..Len(schema[n].allOf) |->
             IF k = 0 THEN OwnKind(n, have) ELSE Joined(g, after[k - 1], schema[n].allOf[k])]

After(g, n, have) == (CHOOSE after : IsAfter(after, g, n, have))[Len(schema[n].allOf)]

IsCollect(f) == f = [n \in DOMAIN schema |-> [have \in InstanceKind |-> After(f, n, have)]]

(* The type names of a node, and when there is exactly one.                *)
LEMMA TypesAre ==
  ASSUME schema \in Schemas, NEW n \in DOMAIN schema
  PROVE  /\ schema[n].types \in Seq(JsonType) /\ Len(schema[n].types) \in Nat
         /\ DOMAIN schema[n].types = 1..Len(schema[n].types)
         /\ schema[n].types = <<>> <=> Len(schema[n].types) = 0
         /\ Len(schema[n].types) = 1 =>
              /\ schema[n].types[1] \in JsonType /\ schema[n].types = <<schema[n].types[1]>>
              /\ ToSet(schema[n].types) = {schema[n].types[1]}
<1>1. schema[n].types \in Seq(JsonType)
  BY NodeIs DEF SchemaNode
<1> DEFINE t == schema[n].types
<1>2. Len(t) \in Nat /\ DOMAIN t = 1..Len(t) /\ (t = <<>> <=> Len(t) = 0)
  BY <1>1
<1> HIDE DEF t
<1>3. t \in Seq(JsonType)
  BY <1>1 DEF t
<1>4. ASSUME Len(t) = 1 PROVE t[1] \in JsonType /\ t = <<t[1]>> /\ ToSet(t) = {t[1]}
  <2>1. DOMAIN t = {1}
    BY <1>2, <1>4
  <2>2. t[1] \in JsonType /\ t = <<t[1]>>
    BY <1>3, <1>4
  <2> QED BY <2>1, <2>2 DEF ToSet
<1> QED BY <1>2, <1>3, <1>4 DEF t

(* What a node itself says of the kind, once the kind is known.            *)
LEMMA OwnKindIs ==
  ASSUME schema \in Schemas, NEW n \in DOMAIN schema, NEW have \in InstanceKind
  PROVE  LET own == OwnKind(n, have)
         IN /\ own \in Collected
            /\ own.errors = {} => Legit(n)
            /\ own.kind = "any" => have = "any" /\ ~NamesType(n)
            /\ \A d : TypesHold(n, d) /\ Known(have, d) => Known(own.kind, d)
            /\ \A m : <<"contradiction", m>> \in own.errors =>
                 \A d \in JsonValue : ~(TypesHold(n, d) /\ Known(have, d))
<1> DEFINE t == schema[n].types
           own == OwnKind(n, have)
<1>1. /\ Len(t) \in Nat /\ (t = <<>> <=> Len(t) = 0)
      /\ Len(t) = 1 => t[1] \in JsonType /\ t = <<t[1]>> /\ ToSet(t) = {t[1]}
  BY TypesAre
<1>2. CASE t = <<>>
  <2>1. own = [kind |-> have, errors |-> {}]
    BY <1>2 DEF OwnKind
  <2>2. ~NamesType(n) /\ Legit(n)
    BY <1>1, <1>2 DEF NamesType, Legit
  <2> QED BY <2>1, <2>2 DEF Collected
<1>3. CASE Len(t) # 1 /\ t # <<>>
  <2>1. own = [kind |-> have, errors |-> {"union"} \X {n}]
    BY <1>3 DEF OwnKind
  <2>2. ~NamesType(n)
    BY <1>3 DEF NamesType
  <2>3. {"union"} \X {n} \subseteq Complaint /\ <<"union", n>> \in {"union"} \X {n}
    BY DEF Complaint
  <2>4. \A m : <<"contradiction", m>> \notin {"union"} \X {n}
    OBVIOUS
  <2> QED BY <2>1, <2>2, <2>3, <2>4 DEF Collected
<1>4. CASE Len(t) = 1 /\ t[1] \notin InstanceKind
  <2>1. own = [kind |-> have, errors |-> {"type"} \X {n}]
    BY <1>1, <1>4, SMTT(30) DEF OwnKind
  <2>2. ~NamesType(n)
    BY <1>4 DEF NamesType
  <2>3. {"type"} \X {n} \subseteq Complaint /\ <<"type", n>> \in {"type"} \X {n}
    BY DEF Complaint
  <2>4. \A m : <<"contradiction", m>> \notin {"type"} \X {n}
    OBVIOUS
  <2> QED BY <2>1, <2>2, <2>3, <2>4 DEF Collected
<1>5. CASE Len(t) = 1 /\ t[1] \in InstanceKind
  <2>0. Legit(n) /\ t[1] # "any" /\ t # <<>> /\ \A d : TypesHold(n, d) <=> HasType(d, t[1])
    <3>1. t[1] # "any"
      BY <1>1, <1>5 DEF JsonType
    <3> QED BY <1>1, <1>5, <3>1 DEF Legit, TypesHold
  <2>1. CASE Narrows(t[1], have)
    <3>1. own = [kind |-> t[1], errors |-> {}]
      <4>1. {} \X {n} = {}
        OBVIOUS
      <4> QED BY <1>5, <2>0, <2>1, <4>1 DEF OwnKind
    <3> QED BY <1>5, <2>0, <3>1 DEF Collected, Known
  <2>2. CASE ~Narrows(t[1], have) /\ Implied(t[1], have)
    <3>1. own = [kind |-> have, errors |-> {}]
      <4>1. {} \X {n} = {}
        OBVIOUS
      <4> QED BY <1>5, <2>0, <2>2, <4>1 DEF OwnKind
    <3>2. have # "any"
      BY <2>2 DEF Implied
    <3> QED BY <1>5, <2>0, <3>1, <3>2 DEF Collected
  <2>3. CASE ~Narrows(t[1], have) /\ ~Implied(t[1], have)
    <3>1. own = [kind |-> have, errors |-> {"contradiction"} \X {n}]
      BY <1>5, <2>0, <2>3 DEF OwnKind
    <3>2. have # "any" /\ have # t[1]
      BY <2>3 DEF Narrows
    <3>3. {"contradiction"} \X {n} \subseteq Complaint /\ <<"contradiction", n>> \in {"contradiction"} \X {n}
      BY DEF Complaint
    <3>4. \A d \in JsonValue : ~(TypesHold(n, d) /\ Known(have, d))
      BY <1>5, <2>0, <2>3, <3>2 DEF Known, HasType, Narrows, Implied, InstanceKind
    <3> QED BY <3>1, <3>2, <3>3, <3>4 DEF Collected
  <2> QED BY <2>1, <2>2, <2>3
<1> QED BY <1>1, <1>2, <1>3, <1>4, <1>5

(* The branches of a node, one after the other.                            *)
Steps(h, g, n, have) ==
  /\ h \in [0..Len(schema[n].allOf) -> Collected]
  /\ h[0] = OwnKind(n, have)
  /\ \A k \in 1..Len(schema[n].allOf) : h[k] = Joined(g, h[k - 1], schema[n].allOf[k])

(* A branch more gathers a kind and complaints again.                      *)
LEMMA JoinedIs ==
  ASSUME NEW g, NEW f \in Collected, NEW b, g[b] \in [InstanceKind -> Collected]
  PROVE  Joined(g, f, b) \in Collected
<1>1. g[b][f.kind] \in Collected
  BY DEF Collected
<1> QED BY <1>1 DEF Joined, Collected

(* The inner recursion, over the branches, has a solution.                 *)
LEMMA AfterIs ==
  ASSUME schema \in Schemas, NEW n \in DOMAIN schema, NEW have \in InstanceKind, NEW g,
         \A k \in 1..Len(schema[n].allOf) : g[schema[n].allOf[k]] \in [InstanceKind -> Collected]
  PROVE  \E h : Steps(h, g, n, have) /\ After(g, n, have) = h[Len(schema[n].allOf)]
<1> DEFINE a == schema[n].allOf
           L == Len(a)
           D == 0..L
           own == OwnKind(n, have)
           Step(f, k) == IF k = 0 THEN own ELSE Joined(g, f[k - 1], a[k])
           G == [v \in D \X [D -> Collected] |-> Step(v[2], v[1])]
           rank == [k \in D |-> k]
<1>0. L \in Nat /\ own \in Collected
  BY ChildrenAre, OwnKindIs
<1>1. \A k \in 1..L : g[a[k]] \in [InstanceKind -> Collected]
  OBVIOUS
<1>2. \A f, h : IsAfter(h, g, n, have) <=> h = [k \in D |-> Step(h, k)]
  BY DEF IsAfter
<1>12. \A f : f = After(g, n, have) <=> f = (CHOOSE h : IsAfter(h, g, n, have))[L]
  BY DEF After
<1>13. \A h : Steps(h, g, n, have) <=> h \in [D -> Collected] /\ h[0] = own /\ \A k \in 1..L : h[k] = Joined(g, h[k - 1], a[k])
  BY DEF Steps
<1> HIDE DEF a, L, own
<1>3. \A k \in D, f \in [D -> Collected] : G[<<k, f>>] = Step(f, k) /\ Step(f, k) \in Collected
  <2> SUFFICES ASSUME NEW k \in D, NEW f \in [D -> Collected]
               PROVE  G[<<k, f>>] = Step(f, k) /\ Step(f, k) \in Collected
    OBVIOUS
  <2>1. CASE k = 0
    BY <1>0, <2>1
  <2>2. CASE k # 0
    <3>1. k \in 1..L /\ k - 1 \in D
      BY <1>0, <2>2
    <3>2. f[k - 1] \in Collected
      BY <3>1
    <3>3. Joined(g, f[k - 1], a[k]) \in Collected
      BY <1>1, <3>1, <3>2, JoinedIs
    <3> QED BY <2>2, <3>3
  <2> QED BY <2>1, <2>2
<1>4. G \in [D \X [D -> Collected] -> Collected]
  BY <1>3
<1>5. rank \in [D -> 0..L] /\ Collected # {}
  BY <1>0
<1> HIDE DEF G
<1>6. \A k \in D : \A f, h \in [D -> Collected] :
        (\A j \in D : rank[j] < rank[k] => f[j] = h[j]) => G[<<k, f>>] = G[<<k, h>>]
  <2> SUFFICES ASSUME NEW k \in D, NEW f \in [D -> Collected], NEW h \in [D -> Collected],
                      \A j \in D : rank[j] < rank[k] => f[j] = h[j]
               PROVE  G[<<k, f>>] = G[<<k, h>>]
    OBVIOUS
  <2>1. CASE k = 0
    BY <1>3, <2>1
  <2>2. CASE k # 0
    <3>1. k - 1 \in D /\ rank[k - 1] < rank[k]
      BY <1>0, <2>2
    <3>2. f[k - 1] = h[k - 1]
      BY <3>1
    <3>3. Step(f, k) = Step(h, k)
      BY <2>2, <3>2
    <3> HIDE DEF Step
    <3> QED BY <1>3, <3>3
  <2> QED BY <2>1, <2>2
<1> HIDE DEF rank
<1>7. Descends(G, D, Collected, rank, L)
  BY <1>0, <1>4, <1>5, <1>6 DEF Descends
<1>8. PICK f \in [D -> Collected] : Solves(f, G, D)
  BY <1>7, RecursionExists
<1>9. \A k \in D : f[k] = Step(f, k)
  BY <1>3, <1>8 DEF Solves
<1>10. IsAfter(f, g, n, have)
  <2>1. f = [k \in D |-> f[k]]
    OBVIOUS
  <2> QED BY <1>2, <1>9, <2>1
<1> DEFINE h == CHOOSE x : IsAfter(x, g, n, have)
<1>11. IsAfter(h, g, n, have) /\ After(g, n, have) = h[L]
  BY <1>10, <1>12
<1> HIDE DEF h
<1>14. h = [k \in D |-> Step(h, k)]
  BY <1>2, <1>11
<1>15. h[0] = own /\ \A k \in 1..L : h[k] = Joined(g, h[k - 1], a[k])
  <2>1. 0 \in D /\ \A k \in 1..L : k \in D /\ k # 0
    BY <1>0
  <2> QED BY <1>14, <2>1
<1>16. \A k \in D : h[k] \in Collected
  <2> DEFINE P == {k \in Nat : k \in D => h[k] \in Collected}
  <2>1. ASSUME NEW k \in Nat, \A j \in 0..k - 1 : j \in P
        PROVE  k \in P
    <3> SUFFICES ASSUME k \in D PROVE h[k] \in Collected
      OBVIOUS
    <3>1. CASE k = 0
      BY <1>0, <1>15, <3>1
    <3>2. CASE k # 0
      <4>1. k \in 1..L /\ k - 1 \in D /\ k - 1 \in 0..k - 1
        BY <1>0, <3>2
      <4>2. h[k - 1] \in Collected
        BY <2>1, <4>1
      <4>3. Joined(g, h[k - 1], a[k]) \in Collected
        BY <1>1, <4>1, <4>2, JoinedIs
      <4> QED BY <1>15, <4>1, <4>3
    <3> QED BY <3>1, <3>2
  <2> HIDE DEF P
  <2>2. Nat \subseteq P
    BY <2>1, Induction
  <2>3. \A k \in D : k \in Nat
    BY <1>0
  <2> QED BY <2>2, <2>3 DEF P
<1>17. h \in [D -> Collected]
  BY <1>14, <1>16
<1>18. Steps(h, g, n, have)
  BY <1>13, <1>15, <1>17
<1> QED BY <1>11, <1>18 DEF L, a

(* The step depends on what the branches give only.                        *)
LEMMA AfterSame ==
  ASSUME schema \in Schemas, NEW n \in DOMAIN schema, NEW have \in InstanceKind, NEW f, NEW g,
         \A k \in 1..Len(schema[n].allOf) :
           /\ f[schema[n].allOf[k]] \in [InstanceKind -> Collected]
           /\ f[schema[n].allOf[k]] = g[schema[n].allOf[k]]
  PROVE  After(f, n, have) = After(g, n, have) /\ After(f, n, have) \in Collected
<1> DEFINE a == schema[n].allOf
           L == Len(a)
<1>0. L \in Nat
  BY ChildrenAre
<1>1. PICK h : Steps(h, f, n, have) /\ After(f, n, have) = h[L]
  BY AfterIs
<1>2. PICK x : Steps(x, g, n, have) /\ After(g, n, have) = x[L]
  BY AfterIs
<1>3. /\ h \in [0..L -> Collected] /\ h[0] = x[0]
      /\ \A k \in 1..L : h[k] = Joined(f, h[k - 1], a[k]) /\ x[k] = Joined(g, x[k - 1], a[k])
  BY <1>1, <1>2 DEF Steps
<1>4. \A k \in 1..L : f[a[k]] = g[a[k]]
  OBVIOUS
<1> HIDE DEF L, a
<1> DEFINE P == {k \in Nat : k \in 0..L => h[k] = x[k]}
<1>5. ASSUME NEW k \in Nat, \A j \in 0..k - 1 : j \in P
      PROVE  k \in P
  <2> SUFFICES ASSUME k \in 0..L PROVE h[k] = x[k]
    OBVIOUS
  <2>1. CASE k = 0
    BY <1>3, <2>1
  <2>2. CASE k # 0
    <3>1. k \in 1..L /\ k - 1 \in 0..L /\ k - 1 \in 0..k - 1
      BY <1>0, <2>2
    <3>2. h[k - 1] = x[k - 1]
      BY <1>5, <3>1, SMTT(30)
    <3>3. Joined(f, h[k - 1], a[k]) = Joined(g, h[k - 1], a[k])
      BY <1>4, <3>1 DEF Joined
    <3> QED BY <1>3, <3>1, <3>2, <3>3
  <2> QED BY <2>1, <2>2
<1> HIDE DEF P
<1>6. Nat \subseteq P
  BY <1>5, Induction
<1>7. L \in 0..L
  BY <1>0
<1>8. h[L] = x[L]
  BY <1>0, <1>6, <1>7 DEF P
<1>9. h[L] \in Collected
  BY <1>3, <1>7
<1> QED BY <1>1, <1>2, <1>8, <1>9 DEF L, a

(* The recursion over the nodes has a solution: branches come later.       *)
LEMMA CollectExists ==
  ASSUME schema \in Schemas
  PROVE  \E f : IsCollect(f)
<1> DEFINE D == DOMAIN schema
           T == [InstanceKind -> Collected]
           B(f, n) == [have \in InstanceKind |-> After(f, n, have)]
           G == [v \in D \X [D -> T] |-> B(v[2], v[1])]
           N == Len(schema)
           rank == [n \in D |-> N - n]
<1>0. D = 1..N /\ N \in Nat
  <2>1. schema \in Seq(SchemaNode)
    BY NodeIs
  <2> QED BY <2>1
<1>1. \A n \in D, f \in [D -> T] : \A k \in 1..Len(schema[n].allOf) :
        schema[n].allOf[k] \in D /\ f[schema[n].allOf[k]] \in T /\ schema[n].allOf[k] > n
  BY ChildrenAre
<1>2. \A n \in D, f \in [D -> T] : B(f, n) \in T
  <2> SUFFICES ASSUME NEW n \in D, NEW f \in [D -> T] PROVE B(f, n) \in T
    OBVIOUS
  <2>1. \A have \in InstanceKind : After(f, n, have) \in Collected
    BY <1>1, AfterSame
  <2> QED BY <2>1
<1>11. \A f, n : B(f, n) = [have \in InstanceKind |-> After(f, n, have)]
  OBVIOUS
<1> HIDE DEF B
<1>12. \A n \in D, f \in [D -> T] : G[<<n, f>>] = B(f, n)
  <2> HIDE DEF T
  <2> QED OBVIOUS
<1>3. G \in [D \X [D -> T] -> T]
  <2> HIDE DEF T
  <2> QED BY <1>2
<1>4. rank \in [D -> 0..N] /\ T # {}
  <2>1. \A n \in D : N - n \in 0..N
    BY <1>0
  <2>2. [kind |-> "any", errors |-> {}] \in Collected
    BY DEF Collected, InstanceKind
  <2>3. [have \in InstanceKind |-> [kind |-> "any", errors |-> {}]] \in T
    BY <2>2
  <2> QED BY <2>1, <2>3
<1> HIDE DEF G
<1>5. \A n \in D : \A f, g \in [D -> T] :
        (\A m \in D : rank[m] < rank[n] => f[m] = g[m]) => G[<<n, f>>] = G[<<n, g>>]
  <2> SUFFICES ASSUME NEW n \in D, NEW f \in [D -> T], NEW g \in [D -> T],
                      \A m \in D : rank[m] < rank[n] => f[m] = g[m]
               PROVE  B(f, n) = B(g, n)
    <3> HIDE DEF T, rank
    <3> QED BY <1>12
  <2>1. \A k \in 1..Len(schema[n].allOf) : f[schema[n].allOf[k]] = g[schema[n].allOf[k]]
    <3> SUFFICES ASSUME NEW k \in 1..Len(schema[n].allOf)
                 PROVE  f[schema[n].allOf[k]] = g[schema[n].allOf[k]]
      OBVIOUS
    <3> DEFINE b == schema[n].allOf[k]
    <3>1. b \in D /\ b > n
      BY <1>1
    <3> HIDE DEF b
    <3>2. N - b < N - n
      BY <1>0, <3>1
    <3>3. f[b] = g[b]
      BY <3>1, <3>2
    <3> QED BY <3>3 DEF b
  <2>2. \A have \in InstanceKind : After(f, n, have) = After(g, n, have)
    BY <1>1, <2>1, AfterSame
  <2> QED BY <1>11, <2>2
<1> HIDE DEF rank, T
<1>6. Descends(G, D, T, rank, N)
  BY <1>0, <1>3, <1>4, <1>5 DEF Descends
<1>7. PICK f \in [D -> T] : Solves(f, G, D)
  BY <1>6, RecursionExists
<1>8. \A n \in D : f[n] = [have \in InstanceKind |-> After(f, n, have)]
  BY <1>7, <1>11, <1>12 DEF Solves
<1>9. f = [n \in D |-> f[n]]
  OBVIOUS
<1>10. f = [n \in D |-> [have \in InstanceKind |-> After(f, n, have)]]
  BY <1>8, <1>9
<1> QED BY <1>10 DEF IsCollect

(* Two solutions agree, and CollectKind is one of them.                    *)
Collecting == CHOOSE f : IsCollect(f)

(* CollectKind is the solution of the outer recursion, node by node.       *)
LEMMA CollectIs ==
  ASSUME schema \in Schemas
  PROVE  \A n \in DOMAIN schema, have \in InstanceKind :
           /\ CollectKind(n, have) = Collecting[n][have]
           /\ Collecting[n] \in [InstanceKind -> Collected]
           /\ \E h : Steps(h, Collecting, n, have) /\ CollectKind(n, have) = h[Len(schema[n].allOf)]
<1> DEFINE D == DOMAIN schema
           T == [InstanceKind -> Collected]
           N == Len(schema)
           c == Collecting
<1>0. D = 1..N /\ N \in Nat
  <2>1. schema \in Seq(SchemaNode)
    BY NodeIs
  <2> QED BY <2>1
<1>1. \A n, have : CollectKind(n, have) = Collecting[n][have]
  BY DEF CollectKind, Collecting, IsCollect, After, IsAfter, Joined
<1>2. IsCollect(Collecting)
  BY CollectExists DEF Collecting
<1>3. c = [n \in D |-> [have \in InstanceKind |-> After(c, n, have)]]
  BY <1>2 DEF IsCollect
<1> HIDE DEF c
<1>4. \A n \in D : c[n] = [have \in InstanceKind |-> After(c, n, have)]
  BY <1>3
<1> DEFINE P == {r \in Nat : \A n \in D : N - n = r => c[n] \in T}
<1>5. ASSUME NEW r \in Nat, \A j \in 0..r - 1 : j \in P
      PROVE  r \in P
  <2> SUFFICES ASSUME NEW n \in D, N - n = r PROVE c[n] \in T
    OBVIOUS
  <2>1. \A k \in 1..Len(schema[n].allOf) : c[schema[n].allOf[k]] \in T
    <3> SUFFICES ASSUME NEW k \in 1..Len(schema[n].allOf) PROVE c[schema[n].allOf[k]] \in T
      OBVIOUS
    <3> DEFINE b == schema[n].allOf[k]
    <3>1. b \in D /\ b > n
      BY ChildrenAre
    <3> HIDE DEF b
    <3>2. N - b \in 0..r - 1
      BY <1>0, <3>1
    <3>3. c[b] \in T
      BY <1>5, <3>1, <3>2
    <3> QED BY <3>3 DEF b
  <2>2. \A have \in InstanceKind : After(c, n, have) \in Collected
    BY <2>1, AfterSame
  <2> QED BY <1>4, <2>2
<1> HIDE DEF P
<1>6. Nat \subseteq P
  BY <1>5, Induction
<1>7. \A n \in D : c[n] \in T
  <2>1. \A n \in D : N - n \in Nat
    BY <1>0
  <2> QED BY <1>6, <2>1 DEF P
<1>8. ASSUME NEW n \in D, NEW have \in InstanceKind
      PROVE  \E h : Steps(h, c, n, have) /\ c[n][have] = h[Len(schema[n].allOf)]
  <2>1. \A k \in 1..Len(schema[n].allOf) : c[schema[n].allOf[k]] \in T
    BY <1>7, ChildrenAre
  <2>2. c[n][have] = After(c, n, have)
    BY <1>4
  <2> QED BY <2>1, <2>2, AfterIs
<1> QED BY <1>1, <1>7, <1>8 DEF c

(* Induction over the branches: what passes from the branches of a node to *)
(* the node holds of every node.                                           *)
LEMMA BranchInduction ==
  ASSUME schema \in Schemas, NEW R,
         \A n \in DOMAIN schema : (\A k \in 1..Len(schema[n].allOf) : schema[n].allOf[k] \in R) => n \in R
  PROVE  \A n \in DOMAIN schema : n \in R
<1> DEFINE D == DOMAIN schema
           N == Len(schema)
           P == {r \in Nat : \A n \in D : N - n = r => n \in R}
<1>0. D = 1..N /\ N \in Nat
  <2>1. schema \in Seq(SchemaNode)
    BY NodeIs
  <2> QED BY <2>1
<1>1. ASSUME NEW r \in Nat, \A j \in 0..r - 1 : j \in P
      PROVE  r \in P
  <2> SUFFICES ASSUME NEW n \in D, N - n = r PROVE n \in R
    OBVIOUS
  <2>1. \A k \in 1..Len(schema[n].allOf) : schema[n].allOf[k] \in R
    <3> SUFFICES ASSUME NEW k \in 1..Len(schema[n].allOf) PROVE schema[n].allOf[k] \in R
      OBVIOUS
    <3> DEFINE b == schema[n].allOf[k]
    <3>1. b \in D /\ b > n
      BY ChildrenAre
    <3> HIDE DEF b
    <3>2. N - b \in 0..r - 1
      BY <1>0, <3>1
    <3>3. b \in R
      BY <1>1, <3>1, <3>2
    <3> QED BY <3>3 DEF b
  <2> QED BY <2>1
<1> HIDE DEF P
<1>2. Nat \subseteq P
  BY <1>1, Induction
<1>3. \A n \in D : N - n \in Nat
  BY <1>0
<1> QED BY <1>2, <1>3 DEF P

(* The greatest set of nodes in Own whose branches are all in it.          *)
Throughout(Own) ==
  UNION {S \in SUBSET Own : \A n \in S : \A k \in 1..Len(schema[n].allOf) : schema[n].allOf[k] \in S}

(* It satisfies its own equation, and contains every set that does.        *)
LEMMA ThroughoutIs ==
  ASSUME NEW Own
  PROVE  /\ \A n : n \in Throughout(Own) <=>
                n \in Own /\ \A k \in 1..Len(schema[n].allOf) : schema[n].allOf[k] \in Throughout(Own)
         /\ \A S \in SUBSET Own :
              (\A n \in S : \A k \in 1..Len(schema[n].allOf) : schema[n].allOf[k] \in S)
              => S \subseteq Throughout(Own)
<1> DEFINE Closed(S) == \A n \in S : \A k \in 1..Len(schema[n].allOf) : schema[n].allOf[k] \in S
           T == Throughout(Own)
<1>1. \A S \in SUBSET Own : Closed(S) => S \subseteq T
  BY DEF Throughout
<1>2. \A n \in T : \E S \in SUBSET Own : Closed(S) /\ n \in S
  BY DEF Throughout
<1>3. T \in SUBSET Own /\ Closed(T)
  BY <1>1, <1>2
<1>4. ASSUME NEW n \in Own, \A k \in 1..Len(schema[n].allOf) : schema[n].allOf[k] \in T
      PROVE  n \in T
  <2> DEFINE S == T \cup {n}
  <2> HIDE DEF T
  <2>1. S \in SUBSET Own
    BY <1>3
  <2>2. Closed(S)
    BY <1>3, <1>4
  <2>3. S \subseteq T
    BY <1>1, <2>1, <2>2
  <2> QED BY <2>3
<1> QED BY <1>1, <1>3, <1>4

-----------------------------------------------------------------------------
(* The nodes whose types, and those of all branches, an instance has.      *)
Seen(e, n) == e.doc[Place[n]]

Agree(e) == Throughout({n \in DOMAIN schema : TypesHold(n, Seen(e, n))})

(* A node is agreed with when its types hold and its branches are agreed   *)
(* with.                                                                   *)
LEMMA AgreeIs ==
  ASSUME NEW e
  PROVE  /\ \A n : n \in Agree(e) <=> /\ n \in DOMAIN schema /\ TypesHold(n, Seen(e, n))
                                      /\ \A k \in 1..Len(schema[n].allOf) : schema[n].allOf[k] \in Agree(e)
         /\ \A S \in SUBSET DOMAIN schema :
              (\A n \in S : /\ TypesHold(n, Seen(e, n))
                            /\ \A k \in 1..Len(schema[n].allOf) : schema[n].allOf[k] \in S)
              => S \subseteq Agree(e)
<1> DEFINE Own == {n \in DOMAIN schema : TypesHold(n, Seen(e, n))}
<1>1. Agree(e) = Throughout(Own)
  BY DEF Agree
<1>2. \A S \in SUBSET DOMAIN schema : (\A n \in S : TypesHold(n, Seen(e, n))) => S \in SUBSET Own
  OBVIOUS
<1>3. \A n : n \in Own <=> n \in DOMAIN schema /\ TypesHold(n, Seen(e, n))
  OBVIOUS
<1> HIDE DEF Own
<1>4. \A n : n \in Agree(e) <=> n \in Own /\ \A k \in 1..Len(schema[n].allOf) : schema[n].allOf[k] \in Agree(e)
  BY <1>1, ThroughoutIs
<1>5. \A S \in SUBSET Own :
              (\A n \in S : \A k \in 1..Len(schema[n].allOf) : schema[n].allOf[k] \in S)
              => S \subseteq Agree(e)
  BY <1>1, ThroughoutIs
<1> QED BY <1>2, <1>3, <1>4, <1>5

(* What a prefix of the branches gives, one branch after the other.        *)
Gathers(h, n, have) ==
  /\ h \in [0..Len(schema[n].allOf) -> Collected] /\ h[0] = OwnKind(n, have)
  /\ CollectKind(n, have) = h[Len(schema[n].allOf)]
  /\ \A k \in 1..Len(schema[n].allOf) :
       /\ h[k - 1] \in Collected
       /\ h[k].kind = CollectKind(schema[n].allOf[k], h[k - 1].kind).kind
       /\ h[k].errors = h[k - 1].errors \cup CollectKind(schema[n].allOf[k], h[k - 1].kind).errors

(* CollectKind goes from the node itself through its branches in turn.     *)
LEMMA StepsAre ==
  ASSUME schema \in Schemas, NEW n \in DOMAIN schema, NEW have \in InstanceKind
  PROVE  \E h : Gathers(h, n, have)
<1> DEFINE L == Len(schema[n].allOf)
<1>0. L \in Nat
  BY ChildrenAre
<1>1. PICK h : Steps(h, Collecting, n, have) /\ CollectKind(n, have) = h[L]
  BY CollectIs
<1>2. /\ h \in [0..L -> Collected] /\ h[0] = OwnKind(n, have)
      /\ \A k \in 1..L : h[k] = Joined(Collecting, h[k - 1], schema[n].allOf[k])
  BY <1>1 DEF Steps
<1>3. ASSUME NEW k \in 1..L
      PROVE  /\ h[k - 1] \in Collected
             /\ h[k].kind = CollectKind(schema[n].allOf[k], h[k - 1].kind).kind
             /\ h[k].errors = h[k - 1].errors \cup CollectKind(schema[n].allOf[k], h[k - 1].kind).errors
  <2> DEFINE b == schema[n].allOf[k]
             f == h[k - 1]
  <2>1. b \in DOMAIN schema
    BY ChildrenAre
  <2>2. f \in Collected
    <3>1. k - 1 \in 0..L
      BY <1>0
    <3> QED BY <1>2, <3>1
  <2>3. h[k] = Joined(Collecting, f, b)
    BY <1>2
  <2> HIDE DEF b, f
  <2>4. f.kind \in InstanceKind
    BY <2>2 DEF Collected
  <2>5. CollectKind(b, f.kind) = Collecting[b][f.kind]
    BY <2>1, <2>4, CollectIs
  <2>6. h[k].kind = CollectKind(b, f.kind).kind /\ h[k].errors = f.errors \cup CollectKind(b, f.kind).errors
    BY <2>3, <2>5 DEF Joined
  <2> QED BY <2>2, <2>6 DEF b, f
<1>4. Gathers(h, n, have)
  BY <1>1, <1>2, <1>3 DEF Gathers
<1> QED BY <1>4

(* What CollectKind answers with.                                          *)
LEMMA CollectedIs ==
  ASSUME schema \in Schemas, NEW n \in DOMAIN schema, NEW have \in InstanceKind
  PROVE  CollectKind(n, have).kind \in InstanceKind /\ CollectKind(n, have).errors \subseteq Complaint
<1>1. CollectKind(n, have) \in Collected
  <2>1. CollectKind(n, have) = Collecting[n][have] /\ Collecting[n] \in [InstanceKind -> Collected]
    BY CollectIs
  <2> QED BY <2>1
<1> QED BY <1>1 DEF Collected

(* An instance that has all the types has the kind they give, and nothing  *)
(* contradicts them.                                                       *)
LEMMA AgreeKnows ==
  ASSUME schema \in Schemas, NEW e, \A n \in DOMAIN schema : Seen(e, n) \in JsonValue
  PROVE  \A n \in DOMAIN schema : \A have \in InstanceKind :
           n \in Agree(e) /\ Known(have, Seen(e, n))
           => /\ Known(CollectKind(n, have).kind, Seen(e, n))
              /\ \A m : <<"contradiction", m>> \notin CollectKind(n, have).errors
<1> DEFINE Good(g, d) == Known(g.kind, d) /\ \A m : <<"contradiction", m>> \notin g.errors
           Fits(n) == \A have \in InstanceKind :
             n \in Agree(e) /\ Known(have, Seen(e, n)) => Good(CollectKind(n, have), Seen(e, n))
           R == {n \in DOMAIN schema : Fits(n)}
<1>1. ASSUME NEW n \in DOMAIN schema, \A k \in 1..Len(schema[n].allOf) : schema[n].allOf[k] \in R
      PROVE  n \in R
  <2> SUFFICES ASSUME NEW have \in InstanceKind, n \in Agree(e), Known(have, Seen(e, n))
               PROVE  Good(CollectKind(n, have), Seen(e, n))
    OBVIOUS
  <2> DEFINE L == Len(schema[n].allOf)
             d == Seen(e, n)
  <2>0. L \in Nat
    BY ChildrenAre
  <2>1. PICK h : Gathers(h, n, have)
    BY StepsAre
  <2>20. /\ h[0] = OwnKind(n, have) /\ CollectKind(n, have) = h[L]
         /\ \A k \in 1..L :
              /\ h[k - 1] \in Collected
              /\ h[k].kind = CollectKind(schema[n].allOf[k], h[k - 1].kind).kind
              /\ h[k].errors = h[k - 1].errors \cup CollectKind(schema[n].allOf[k], h[k - 1].kind).errors
    BY <2>1 DEF Gathers
  <2>2. TypesHold(n, d) /\ \A k \in 1..L : schema[n].allOf[k] \in Agree(e)
    BY AgreeIs
  <2>3. Good(h[0], d)
    BY <2>20, <2>2, OwnKindIs
  <2>4. \A k \in 1..L : Seen(e, schema[n].allOf[k]) = d /\ Fits(schema[n].allOf[k])
    BY <1>1, PlaceIs DEF Seen
  <2> HIDE DEF Good
  <2>5. \A k \in 1..L : Good(h[k - 1], d) => Good(h[k], d)
    <3> SUFFICES ASSUME NEW k \in 1..L, Good(h[k - 1], d) PROVE Good(h[k], d)
      OBVIOUS
    <3> DEFINE b == schema[n].allOf[k]
               f == h[k - 1]
               g == CollectKind(b, f.kind)
    <3>1. f \in Collected /\ h[k].kind = g.kind /\ h[k].errors = f.errors \cup g.errors
      BY <2>20
    <3>2. f.kind \in InstanceKind
      BY <3>1 DEF Collected
    <3>3. b \in Agree(e) /\ Seen(e, b) = d /\ Known(f.kind, d)
      BY <2>2, <2>4 DEF Good
    <3>4. Fits(b)
      BY <2>4
    <3>5. Good(g, d)
      BY <3>2, <3>3, <3>4
    <3> HIDE DEF g, f
    <3> QED BY <3>1, <3>5 DEF Good, f
  <2> DEFINE P == {k \in Nat : k \in 0..L => Good(h[k], d)}
  <2> HIDE DEF L, d
  <2>6. ASSUME NEW k \in Nat, \A j \in 0..k - 1 : j \in P
        PROVE  k \in P
    <3> SUFFICES ASSUME k \in 0..L PROVE Good(h[k], d)
      OBVIOUS
    <3>1. CASE k = 0
      BY <2>3, <3>1
    <3>2. CASE k # 0
      <4>1. k \in 1..L /\ k - 1 \in 0..L /\ k - 1 \in 0..k - 1
        BY <2>0, <3>2
      <4>2. Good(h[k - 1], d)
        BY <2>6, <4>1
      <4> QED BY <2>5, <4>1, <4>2
    <3> QED BY <3>1, <3>2
  <2> HIDE DEF P
  <2>7. Nat \subseteq P
    BY <2>6, Induction
  <2>8. Good(h[L], d)
    <3>1. L \in 0..L
      BY <2>0
    <3> QED BY <2>0, <2>7, <3>1 DEF P
  <2> QED BY <2>20, <2>8 DEF d
<1> HIDE DEF R
<1>2. \A n \in DOMAIN schema : n \in R
  BY <1>1, BranchInduction
<1> QED BY <1>2 DEF R

(* A contradiction is reported at a schema of the same instance.           *)
LEMMA ContradictsAt ==
  ASSUME schema \in Schemas
  PROVE  \A n \in DOMAIN schema : \A have \in InstanceKind : \A m :
           <<"contradiction", m>> \in CollectKind(n, have).errors => Place[m] = Place[n]
<1> DEFINE Here(S, n) == \A m : <<"contradiction", m>> \in S => Place[m] = Place[n]
           R == {n \in DOMAIN schema : \A have \in InstanceKind : Here(CollectKind(n, have).errors, n)}
<1>1. ASSUME NEW n \in DOMAIN schema, \A k \in 1..Len(schema[n].allOf) : schema[n].allOf[k] \in R
      PROVE  n \in R
  <2> SUFFICES ASSUME NEW have \in InstanceKind
               PROVE  Here(CollectKind(n, have).errors, n)
    OBVIOUS
  <2> DEFINE L == Len(schema[n].allOf)
  <2>0. L \in Nat
    BY ChildrenAre
  <2>1. PICK h : Gathers(h, n, have)
    BY StepsAre
  <2>2. /\ h[0] = OwnKind(n, have) /\ CollectKind(n, have) = h[L]
        /\ \A k \in 1..L :
             /\ h[k - 1] \in Collected
             /\ h[k].errors = h[k - 1].errors \cup CollectKind(schema[n].allOf[k], h[k - 1].kind).errors
    BY <2>1 DEF Gathers
  <2>3. Here(h[0].errors, n)
    <3>1. \A S, m : <<"contradiction", m>> \in S \X {n} => m = n
      OBVIOUS
    <3>2. \A m : <<"contradiction", m>> \notin {}
      OBVIOUS
    <3>3. OwnKind(n, have).errors = {} \/ \E S : OwnKind(n, have).errors = S \X {n}
      BY ONLY DEF OwnKind
    <3>4. h[0].errors = {} \/ \E S : h[0].errors = S \X {n}
      BY <2>2, <3>3
    <3> QED BY <3>1, <3>2, <3>4
  <2>4. \A k \in 1..L : Place[schema[n].allOf[k]] = Place[n]
    BY PlaceIs
  <2>5. \A k \in 1..L : Here(h[k - 1].errors, n) => Here(h[k].errors, n)
    <3> SUFFICES ASSUME NEW k \in 1..L, Here(h[k - 1].errors, n) PROVE Here(h[k].errors, n)
      OBVIOUS
    <3> DEFINE b == schema[n].allOf[k]
               g == CollectKind(b, h[k - 1].kind)
    <3>1. h[k - 1].kind \in InstanceKind /\ h[k].errors = h[k - 1].errors \cup g.errors
      BY <2>2 DEF Collected
    <3>2. Here(g.errors, b)
      BY <1>1, <3>1
    <3>3. Place[b] = Place[n]
      BY <2>4
    <3> HIDE DEF b, g
    <3> QED BY <3>1, <3>2, <3>3
  <2> DEFINE P == {k \in Nat : k \in 0..L => Here(h[k].errors, n)}
  <2> HIDE DEF L, Here
  <2>6. ASSUME NEW k \in Nat, \A j \in 0..k - 1 : j \in P
        PROVE  k \in P
    <3> SUFFICES ASSUME k \in 0..L PROVE Here(h[k].errors, n)
      OBVIOUS
    <3>1. CASE k = 0
      BY <2>3, <3>1
    <3>2. CASE k # 0
      <4>1. k \in 1..L /\ k - 1 \in 0..L /\ k - 1 \in 0..k - 1
        BY <2>0, <3>2
      <4>2. Here(h[k - 1].errors, n)
        BY <2>6, <4>1
      <4> QED BY <2>5, <4>1, <4>2
    <3> QED BY <3>1, <3>2
  <2> HIDE DEF P
  <2>7. Nat \subseteq P
    BY <2>6, Induction
  <2>8. Here(h[L].errors, n)
    <3>1. L \in 0..L
      BY <2>0
    <3> QED BY <2>0, <2>7, <3>1 DEF P
  <2> QED BY <2>2, <2>8
<1>2. \A n \in R : n \in DOMAIN schema /\ \A have \in InstanceKind : Here(CollectKind(n, have).errors, n)
  OBVIOUS
<1> HIDE DEF R
<1>3. \A n \in DOMAIN schema : n \in R
  BY <1>1, BranchInduction
<1> QED BY <1>2, <1>3

(* A node that no complaint is made of, from some kind on, has one type or *)
(* none, and so have its branches.                                         *)
Clean(n) == \E have \in InstanceKind : CollectKind(n, have).errors = {}

(* Of a clean node the branches are clean.                                 *)
LEMMA CleanIs ==
  ASSUME schema \in Schemas, NEW n \in DOMAIN schema, Clean(n)
  PROVE  Legit(n) /\ \A k \in 1..Len(schema[n].allOf) : Clean(schema[n].allOf[k])
<1> DEFINE L == Len(schema[n].allOf)
<1>0. L \in Nat
  BY ChildrenAre
<1>1. PICK have \in InstanceKind : CollectKind(n, have).errors = {}
  BY DEF Clean
<1>20. PICK h : Gathers(h, n, have)
  BY StepsAre
<1>2. /\ h \in [0..L -> Collected] /\ h[0] = OwnKind(n, have) /\ CollectKind(n, have) = h[L]
      /\ \A k \in 1..L :
           /\ h[k - 1] \in Collected
           /\ h[k].kind = CollectKind(schema[n].allOf[k], h[k - 1].kind).kind
           /\ h[k].errors = h[k - 1].errors \cup CollectKind(schema[n].allOf[k], h[k - 1].kind).errors
  BY <1>20 DEF Gathers
<1>3. \A k \in 1..L :
        /\ h[k - 1].errors \subseteq h[k].errors
        /\ CollectKind(schema[n].allOf[k], h[k - 1].kind).errors \subseteq h[k].errors
        /\ h[k - 1].kind \in InstanceKind
  BY <1>2 DEF Collected
<1>4. h[L].errors = {}
  BY <1>1, <1>2
<1> HIDE DEF L
<1> DEFINE P == {r \in Nat : r \in 0..L => h[L - r].errors = {}}
<1>5. ASSUME NEW r \in Nat, \A j \in 0..r - 1 : j \in P
      PROVE  r \in P
  <2> SUFFICES ASSUME r \in 0..L PROVE h[L - r].errors = {}
    OBVIOUS
  <2>1. CASE r = 0
    <3>1. L - r = L
      BY <1>0, <2>1
    <3> QED BY <1>4, <3>1
  <2>2. CASE r # 0
    <3>1. r - 1 \in 0..r - 1 /\ r - 1 \in 0..L /\ L - (r - 1) \in 1..L /\ (L - (r - 1)) - 1 = L - r
      BY <1>0, <2>2
    <3>2. h[L - (r - 1)].errors = {}
      BY <1>5, <3>1
    <3>3. h[(L - (r - 1)) - 1].errors \subseteq h[L - (r - 1)].errors
      BY <1>3, <3>1
    <3> QED BY <3>1, <3>2, <3>3
  <2> QED BY <2>1, <2>2
<1> HIDE DEF P
<1>6. Nat \subseteq P
  BY <1>5, Induction
<1>7. \A k \in 0..L : h[k].errors = {}
  <2> SUFFICES ASSUME NEW k \in 0..L PROVE h[k].errors = {}
    OBVIOUS
  <2>1. L - k \in Nat /\ L - k \in 0..L /\ L - (L - k) = k
    BY <1>0
  <2>2. L - k \in P
    BY <1>6, <2>1
  <2>3. h[L - (L - k)].errors = {}
    BY <2>1, <2>2 DEF P
  <2> QED BY <2>1, <2>3
<1>8. Legit(n)
  <2>1. 0 \in 0..L
    BY <1>0
  <2>2. OwnKind(n, have).errors = {}
    BY <1>2, <1>7, <2>1
  <2> QED BY <2>2, OwnKindIs
<1>9. ASSUME NEW k \in 1..L PROVE Clean(schema[n].allOf[k])
  <2>1. k \in 0..L
    BY <1>0
  <2>2. CollectKind(schema[n].allOf[k], h[k - 1].kind).errors = {} /\ h[k - 1].kind \in InstanceKind
    BY <1>3, <1>7, <2>1
  <2> QED BY <2>2 DEF Clean
<1> QED BY <1>8, <1>9 DEF L

(* When all the branches together say nothing of the kind, none of them    *)
(* names a type.                                                           *)
Bare == Throughout({n \in DOMAIN schema : ~NamesType(n)})

(* No kind in the end means that no kind was known and no branch named a   *)
(* type.                                                                   *)
LEMMA AnyIsBare ==
  ASSUME schema \in Schemas
  PROVE  \A n \in DOMAIN schema : \A have \in InstanceKind :
           CollectKind(n, have).kind = "any" => have = "any" /\ n \in Bare
<1> DEFINE Fits(n) == \A have \in InstanceKind :
             CollectKind(n, have).kind = "any" => have = "any" /\ n \in Bare
           R == {n \in DOMAIN schema : Fits(n)}
<1>1. ASSUME NEW n \in DOMAIN schema, \A k \in 1..Len(schema[n].allOf) : schema[n].allOf[k] \in R
      PROVE  n \in R
  <2> SUFFICES ASSUME NEW have \in InstanceKind, CollectKind(n, have).kind = "any"
               PROVE  have = "any" /\ n \in Bare
    OBVIOUS
  <2> DEFINE L == Len(schema[n].allOf)
  <2>0. L \in Nat
    BY ChildrenAre
  <2>1. PICK h : Gathers(h, n, have)
    BY StepsAre
  <2>20. /\ h[0] = OwnKind(n, have) /\ CollectKind(n, have) = h[L]
         /\ \A k \in 1..L :
              /\ h[k - 1] \in Collected
              /\ h[k].kind = CollectKind(schema[n].allOf[k], h[k - 1].kind).kind
              /\ h[k].errors = h[k - 1].errors \cup CollectKind(schema[n].allOf[k], h[k - 1].kind).errors
    BY <2>1 DEF Gathers
  <2>2. h[L].kind = "any"
    BY <2>20
  <2>3. h[0].kind = "any" => have = "any" /\ ~NamesType(n)
    BY <2>20, OwnKindIs
  <2>4. \A k \in 1..L : h[k].kind = "any" => h[k - 1].kind = "any" /\ schema[n].allOf[k] \in Bare
    <3> SUFFICES ASSUME NEW k \in 1..L, h[k].kind = "any"
                 PROVE  h[k - 1].kind = "any" /\ schema[n].allOf[k] \in Bare
      OBVIOUS
    <3> DEFINE b == schema[n].allOf[k]
               f == h[k - 1]
    <3>1. f \in Collected /\ h[k].kind = CollectKind(b, f.kind).kind
      BY <2>20
    <3>2. f.kind \in InstanceKind
      BY <3>1 DEF Collected
    <3>3. Fits(b)
      BY <1>1
    <3> QED BY <3>1, <3>2, <3>3
  <2> DEFINE P == {r \in Nat : r \in 0..L => h[L - r].kind = "any"}
  <2> HIDE DEF L
  <2>5. ASSUME NEW r \in Nat, \A j \in 0..r - 1 : j \in P
        PROVE  r \in P
    <3> SUFFICES ASSUME r \in 0..L PROVE h[L - r].kind = "any"
      OBVIOUS
    <3>1. CASE r = 0
      <4>1. L - r = L
        BY <2>0, <3>1
      <4> QED BY <2>2, <4>1
    <3>2. CASE r # 0
      <4>1. r - 1 \in 0..r - 1 /\ r - 1 \in 0..L /\ L - (r - 1) \in 1..L /\ (L - (r - 1)) - 1 = L - r
        BY <2>0, <3>2
      <4>2. h[L - (r - 1)].kind = "any"
        BY <2>5, <4>1
      <4>3. h[(L - (r - 1)) - 1].kind = "any"
        BY <2>4, <4>1, <4>2
      <4> QED BY <4>1, <4>3
    <3> QED BY <3>1, <3>2
  <2> HIDE DEF P
  <2>6. Nat \subseteq P
    BY <2>5, Induction
  <2>7. \A k \in 0..L : h[k].kind = "any"
    <3> SUFFICES ASSUME NEW k \in 0..L PROVE h[k].kind = "any"
      OBVIOUS
    <3>1. L - k \in Nat /\ L - k \in 0..L /\ L - (L - k) = k
      BY <2>0
    <3>2. L - k \in P
      BY <2>6, <3>1
    <3>3. h[L - (L - k)].kind = "any"
      BY <3>1, <3>2 DEF P
    <3> QED BY <3>1, <3>3
  <2>8. 0 \in 0..L /\ \A k \in 1..L : k \in 0..L
    BY <2>0
  <2>9. have = "any" /\ ~NamesType(n) /\ \A k \in 1..L : schema[n].allOf[k] \in Bare
    BY <2>3, <2>4, <2>7, <2>8
  <2> DEFINE Own == {m \in DOMAIN schema : ~NamesType(m)}
  <2>10. n \in Own /\ Bare = Throughout(Own)
    BY <2>9 DEF Bare
  <2> HIDE DEF Own
  <2>11. n \in Throughout(Own)
    BY <2>9, <2>10, ThroughoutIs DEF L
  <2> QED BY <2>9, <2>10, <2>11
<1> HIDE DEF R
<1>2. \A n \in DOMAIN schema : n \in R
  BY <1>1, BranchInduction
<1> QED BY <1>2 DEF R

-----------------------------------------------------------------------------
(* A monotone function on the subsets of a set has a fixed point.          *)
Monotone(F, D) ==
  /\ F \in [SUBSET D -> SUBSET D]
  /\ \A S, T \in SUBSET D : S \subseteq T => F[S] \subseteq F[T]

(* A monotone function on the subsets of a set has a fixed point.          *)
LEMMA FixedPoint ==
  ASSUME NEW D, NEW F, Monotone(F, D)
  PROVE  \E S \in SUBSET D : F[S] = S
<1> DEFINE A == {S \in SUBSET D : S \subseteq F[S]}
           T == UNION A
<1>1. T \in SUBSET D
  OBVIOUS
<1>2. \A S \in A : S \subseteq T /\ S \in SUBSET D /\ S \subseteq F[S]
  OBVIOUS
<1>3. \A x \in T : \E S \in A : x \in S
  OBVIOUS
<1>4. \A S \in SUBSET D : S \subseteq F[S] => S \in A
  OBVIOUS
<1> HIDE DEF T, A
<1>5. T \subseteq F[T]
  BY <1>1, <1>2, <1>3 DEF Monotone
<1>6. F[T] \in SUBSET D /\ F[T] \subseteq F[F[T]]
  BY <1>1, <1>5 DEF Monotone
<1>7. F[T] \in A
  BY <1>4, <1>6
<1>8. F[T] \subseteq T
  BY <1>2, <1>7
<1>9. F[T] = T
  BY <1>5, <1>8
<1> QED BY <1>1, <1>9

-----------------------------------------------------------------------------
(* The nodes an instance satisfies.                                        *)
ObjectHolds(V, e, n) ==
  Seen(e, n).kind = "object" =>
    /\ \A r \in ToSet(Needs(n)) : Append(Place[n], r) \notin e.absent
    /\ \A p \in ToSet(Props(n)) : Append(Place[n], p.name) \in e.absent \/ p.schema \in V

OwnHolds(V, e, n) ==
  /\ TypesHold(n, Seen(e, n))
  /\ \A kw \in ToSet(schema[n].keywords) : KeywordHolds(kw, Seen(e, n))
  /\ ObjectHolds(V, e, n)

NodeHolds(V, e, n) == OwnHolds(V, e, n) /\ \A b \in ToSet(schema[n].allOf) : b \in V

IsValidity(V, e) == V \subseteq DOMAIN schema /\ \A n \in DOMAIN schema : n \in V <=> NodeHolds(V, e, n)

(* The recursion of Valid.                                                 *)
ValidStep(f, e, n) ==
  LET d == e.doc[Place[n]]
  IN /\ \A t  \in ToSet(schema[n].types) : HasType(d, t)
     /\ \A kw \in ToSet(schema[n].keywords) : KeywordHolds(kw, d)
     /\ d.kind = "object" =>
          /\ \A r \in ToSet(Needs(n)) : Append(Place[n], r) \notin e.absent
          /\ \A p \in ToSet(Props(n)) : Append(Place[n], p.name) \in e.absent \/ f[p.schema]
     /\ \A b \in ToSet(schema[n].allOf) : f[b]

IsValid(f, e) == f = [n \in DOMAIN schema |-> ValidStep(f, e, n)]

(* The branches and the properties of a node are nodes.                    *)
LEMMA KidsInside ==
  ASSUME schema \in Schemas, NEW n \in DOMAIN schema
  PROVE  /\ \A b \in ToSet(schema[n].allOf) : b \in DOMAIN schema
         /\ \A p \in ToSet(Props(n)) : p.schema \in DOMAIN schema
<1>1. schema[n].allOf \in Seq(Nat) /\ Props(n) \in Seq(Property)
  BY NodeIs DEF SchemaNode
<1>2. \A s \in Seq(Nat) : \A b \in ToSet(s) : \E k \in 1..Len(s) : b = s[k]
  BY DEF ToSet
<1>3. \A s \in Seq(Property) : \A b \in ToSet(s) : \E k \in 1..Len(s) : b = s[k]
  BY DEF ToSet
<1>4. \A b \in ToSet(schema[n].allOf) : \E k \in 1..Len(schema[n].allOf) : b = schema[n].allOf[k]
  BY <1>1, <1>2
<1>5. \A p \in ToSet(Props(n)) : \E k \in 1..Len(Props(n)) : p = Props(n)[k]
  BY <1>1, <1>3
<1> QED BY <1>4, <1>5, ChildrenAre

(* A function solves the recursion when the nodes it is true of satisfy    *)
(* the equation.                                                           *)
LEMMA ValidStepIs ==
  ASSUME schema \in Schemas, NEW n \in DOMAIN schema, NEW e, NEW f, NEW V,
         \A m \in DOMAIN schema : f[m] <=> m \in V
  PROVE  ValidStep(f, e, n) <=> NodeHolds(V, e, n)
<1>1. \A b \in ToSet(schema[n].allOf) : f[b] <=> b \in V
  BY KidsInside
<1>2. \A p \in ToSet(Props(n)) : f[p.schema] <=> p.schema \in V
  BY KidsInside
<1>3. ValidStep(f, e, n) <=>
        /\ TypesHold(n, Seen(e, n))
        /\ \A kw \in ToSet(schema[n].keywords) : KeywordHolds(kw, Seen(e, n))
        /\ Seen(e, n).kind = "object" =>
             /\ \A r \in ToSet(Needs(n)) : Append(Place[n], r) \notin e.absent
             /\ \A p \in ToSet(Props(n)) : Append(Place[n], p.name) \in e.absent \/ f[p.schema]
        /\ \A b \in ToSet(schema[n].allOf) : f[b]
  BY Zenon DEF ValidStep, TypesHold, Seen
<1> QED BY <1>1, <1>2, <1>3, Zenon DEF NodeHolds, OwnHolds, ObjectHolds

(* Some nodes are exactly those an instance satisfies.                     *)
LEMMA ValidityExists ==
  ASSUME schema \in Schemas, NEW e
  PROVE  \E V : IsValidity(V, e)
<1> DEFINE D == DOMAIN schema
           F == [S \in SUBSET D |-> {n \in D : NodeHolds(S, e, n)}]
<1>1. ASSUME NEW S \in SUBSET D, NEW T \in SUBSET D, S \subseteq T, NEW n \in D, NodeHolds(S, e, n)
      PROVE  NodeHolds(T, e, n)
  BY <1>1 DEF NodeHolds, OwnHolds, ObjectHolds
<1>2. Monotone(F, D)
  BY <1>1 DEF Monotone
<1>3. PICK S \in SUBSET D : F[S] = S
  BY <1>2, FixedPoint
<1>4. \A n \in D : n \in S <=> NodeHolds(S, e, n)
  BY <1>3
<1> QED BY <1>4 DEF IsValidity

(* Valid is the answer of such a set at the root.                          *)
LEMMA ValidIs ==
  ASSUME schema \in Schemas, NEW e
  PROVE  \E V : IsValidity(V, e) /\ (Valid(e) <=> 1 \in V)
<1> DEFINE D == DOMAIN schema
           f == CHOOSE g : IsValid(g, e)
<1>1. Valid(e) <=> f[1]
  BY DEF Valid, IsValid, ValidStep
<1>2. \E g : IsValid(g, e)
  <2>1. PICK V : IsValidity(V, e)
    BY ValidityExists
  <2> DEFINE g == [n \in D |-> n \in V]
  <2>2. \A n \in D : g[n] <=> n \in V
    OBVIOUS
  <2>3. \A n \in D : (n \in V) <=> ValidStep(g, e, n)
    <3> SUFFICES ASSUME NEW n \in D PROVE (n \in V) <=> ValidStep(g, e, n)
      OBVIOUS
    <3> HIDE DEF g
    <3>1. ValidStep(g, e, n) <=> NodeHolds(V, e, n)
      BY <2>2, ValidStepIs
    <3> QED BY <2>1, <3>1 DEF IsValidity
  <2>4. \A h, n : ValidStep(h, e, n) \in BOOLEAN
    BY DEF ValidStep
  <2>5. \A n \in D : (n \in V) = ValidStep(g, e, n)
    BY <2>3, <2>4
  <2>6. g = [n \in D |-> ValidStep(g, e, n)]
    BY <2>5
  <2> QED BY <2>6 DEF IsValid
<1>3. f = [n \in D |-> ValidStep(f, e, n)]
  BY <1>2 DEF IsValid
<1> HIDE DEF f
<1> DEFINE V == {n \in D : f[n]}
<1>4. \A n \in D : f[n] <=> n \in V
  OBVIOUS
<1>5. \A n \in D : f[n] <=> ValidStep(f, e, n)
  BY <1>3
<1> HIDE DEF V
<1>6. \A n \in D : ValidStep(f, e, n) <=> NodeHolds(V, e, n)
  BY <1>4, ValidStepIs
<1>7. \A n \in D : n \in V <=> NodeHolds(V, e, n)
  BY <1>4, <1>5, <1>6, Zenon
<1>8. V \subseteq D
  BY DEF V
<1>9. IsValidity(V, e)
  BY <1>7, <1>8 DEF IsValidity
<1>10. f[1] <=> 1 \in V
  BY <1>4, NodeIs
<1> QED BY <1>1, <1>9, <1>10, Zenon

(* An instance of the program gives every node a JSON value.               *)
LEMMA SeenIs ==
  ASSUME schema \in Schemas, NEW e \in Instance
  PROVE  \A n \in DOMAIN schema : Seen(e, n) \in JsonValue
<1>1. e.doc \in [Places -> Document] /\ Document \subseteq JsonValue
  BY DocumentAssumption DEF Instance
<1>2. \A n \in DOMAIN schema : Place[n] \in Places
  BY DEF Places
<1> QED BY <1>1, <1>2 DEF Seen

(* An instance that satisfies a node has all its types.                    *)
LEMMA ValidAgrees ==
  ASSUME schema \in Schemas, NEW e, NEW V, IsValidity(V, e)
  PROVE  V \subseteq Agree(e)
<1>1. \A n \in DOMAIN schema : schema[n].allOf \in Seq(Nat)
  BY ChildrenAre
<1>2. \A s \in Seq(Nat) : \A k \in 1..Len(s) : s[k] \in ToSet(s)
  BY DEF ToSet
<1>3. \A n \in V : /\ TypesHold(n, Seen(e, n))
                   /\ \A k \in 1..Len(schema[n].allOf) : schema[n].allOf[k] \in V
  BY <1>1, <1>2 DEF IsValidity, NodeHolds, OwnHolds
<1>4. V \in SUBSET DOMAIN schema
  BY DEF IsValidity
<1> QED BY <1>3, <1>4, AgreeIs

-----------------------------------------------------------------------------
(* A step of the innermost call: where it goes on, and what it complains   *)
(* of.                                                                     *)
GoesOn ==
  \E c : /\ Be(c) /\ Alike(c, Top)
         /\ c.at = "properties" => Top.at = "properties" \/ IsObject(Top.node) \/ Top.fact = "object"

Complains ==
  /\ \A m : <<"contradiction", m>> \in errors' => <<"contradiction", m>> \in errors
  /\ \A m : <<"needs type", m>> \in errors' =>
              <<"needs type", m>> \in errors \/ (m = Top.node /\ Top.fact = "any")

(* Errors that are neither contradictions nor about a missing type.        *)
LEMMA ErrorsAre ==
  ASSUME NEW S, NEW n, errors' = errors \cup (S \X {n}), "contradiction" \notin S,
         "needs type" \in S => n = Top.node /\ Top.fact = "any"
  PROVE  Complains
<1>1. \A x, m : <<x, m>> \in S \X {n} => x \in S /\ m = n
  OBVIOUS
<1> QED BY <1>1 DEF Complains

(* Every step of the innermost call alone is such a step.                  *)
LEMMA GoesOnIs ==
  ASSUME Tree,
         TypeGuard \/ RejectKeyword \/ DropKeyword \/ EmitKeyword \/ EndKeywords
         \/ RejectProperty \/ FinishObject
  PROVE  GoesOn /\ Complains
<1>0. stack # <<>>
  BY InPlace
<1>1. IsCall(Top) /\ NewOp \in Nat
  BY <1>0, TopShape
<1>2. /\ Alike(NextK(Top), Top) /\ (\A at : Alike(GoTo(Top, at), Top))
      /\ Alike(NextK(Conjoin(Top, NewOp)), Top) /\ (\A at : Alike(GoTo(Conjoin(Top, NewOp), at), Top))
  BY <1>1, SameCall
<1>3. /\ NextK(Top).at = Top.at /\ NextK(Conjoin(Top, NewOp)).at = Top.at
      /\ \A at : GoTo(Top, at).at = at /\ GoTo(Conjoin(Top, NewOp), at).at = at
  BY <1>1 DEF NextK, Conjoin, GoTo, IsCall, CallField
<1>4. CASE TypeGuard
  <2>1. Be(GoTo(Top, "keywords")) \/ Be(GoTo(Conjoin(Top, NewOp), "keywords"))
    BY <1>4 DEF TypeGuard
  <2>2. GoesOn
    BY <1>2, <1>3, <2>1 DEF GoesOn
  <2>3. errors' = errors \cup CheckBounds(Top.node)
    BY <1>4 DEF TypeGuard
  <2>4. CheckBounds(Top.node) \subseteq {"number bounds", "string bounds", "divisor"} \X {Top.node}
    BY DEF CheckBounds
  <2>5. \A m : /\ <<"contradiction", m>> \notin {"number bounds", "string bounds", "divisor"} \X {Top.node}
               /\ <<"needs type", m>> \notin {"number bounds", "string bounds", "divisor"} \X {Top.node}
    OBVIOUS
  <2>6. Complains
    BY <2>3, <2>4, <2>5 DEF Complains
  <2> QED BY <2>2, <2>6
<1>5. CASE RejectKeyword
  <2>1. /\ Be(NextK(Top))
        /\ errors' = errors \cup (KeywordErrors(TheKeyword) \X {Top.node})
    BY <1>5 DEF RejectKeyword
  <2>2. GoesOn
    BY <1>2, <1>3, <2>1 DEF GoesOn
  <2>3. /\ "contradiction" \notin KeywordErrors(TheKeyword)
        /\ "needs type" \in KeywordErrors(TheKeyword) => Top.fact = "any"
    BY DEF KeywordErrors
  <2> QED BY <2>1, <2>2, <2>3, ErrorsAre
<1>6. CASE DropKeyword \/ EmitKeyword
  <2>1. (Be(NextK(Top)) \/ Be(NextK(Conjoin(Top, NewOp)))) /\ errors' = errors
    BY <1>6 DEF DropKeyword, EmitKeyword
  <2> QED BY <1>2, <1>3, <2>1 DEF GoesOn, Complains
<1>7. CASE RejectProperty
  <2>1. Be(NextK(Top)) /\ errors' = errors \cup {<<"empty name", Top.node>>}
    BY <1>7 DEF RejectProperty
  <2> QED BY <1>2, <1>3, <2>1 DEF GoesOn, Complains
<1>8. CASE EndKeywords
  <2> DEFINE wants == IsObject(Top.node) \/ schema[Top.node].properties # {} \/ schema[Top.node].required # {}
             at == IF wants /\ (IsObject(Top.node) \/ Top.fact = "object") THEN "properties" ELSE "allOf"
  <2>1. /\ Be(GoTo(Top, at))
        /\ errors' = IF wants /\ ~IsObject(Top.node) /\ Top.fact = "any"
                     THEN errors \cup {<<"needs type", Top.node>>} ELSE errors
    BY <1>8 DEF EndKeywords
  <2>2. at = "properties" => IsObject(Top.node) \/ Top.fact = "object"
    OBVIOUS
  <2> HIDE DEF at
  <2>3. GoesOn
    BY <1>2, <1>3, <2>1, <2>2 DEF GoesOn
  <2>4. Complains
    BY <2>1 DEF Complains
  <2> QED BY <2>3, <2>4
<1>9. CASE FinishObject
  <2>1. /\ Be(GoTo(Conjoin(Top, NewOp), "allOf"))
        /\ \E S : S \subseteq {"undeclared"} \X {Top.node} /\ errors' = errors \cup S
    BY <1>9 DEF FinishObject
  <2>2. GoesOn
    BY <1>2, <1>3, <2>1 DEF GoesOn
  <2>3. \A m : /\ <<"contradiction", m>> \notin {"undeclared"} \X {Top.node}
               /\ <<"needs type", m>> \notin {"undeclared"} \X {Top.node}
    OBVIOUS
  <2>4. Complains
    BY <2>1, <2>3 DEF Complains
  <2> QED BY <2>2, <2>4
<1> QED BY <1>4, <1>5, <1>6, <1>7, <1>8, <1>9

(* What a call that starts leaves of the others, and a call that returns.  *)
LEMMA CallsAfter ==
  ASSUME Tree, stack # <<>>
  PROVE  /\ \A c, d : stack' = Front(stack) \o <<c, d>> =>
              /\ Len(stack') = Len(stack) + 1 /\ stack'[Len(stack) + 1] = d /\ stack'[Len(stack)] = c
              /\ \A f \in 1..Len(stack) - 1 : stack'[f] = stack[f]
              /\ \A f \in 1..Len(stack) + 1 : f = Len(stack) + 1 \/ f = Len(stack) \/ f \in 1..Len(stack) - 1
         /\ \A c : Be(c) =>
              /\ Len(stack') = Len(stack) /\ stack'[Len(stack)] = c
              /\ \A f \in 1..Len(stack) - 1 : stack'[f] = stack[f]
<1>1. Len(stack) \in Nat /\ Len(stack) > 0
  BY TopIs
<1>2. \A f \in 1..Len(stack) + 1 : f = Len(stack) + 1 \/ f = Len(stack) \/ f \in 1..Len(stack) - 1
  BY <1>1
<1> QED BY <1>2, PushShape, BeShape

(* A call that returns leaves the others, its caller where it was.         *)
LEMMA ReturnLeaves ==
  ASSUME Tree, Return
  PROVE  /\ UNCHANGED <<schema, errors>> /\ Follow
         /\ \A f \in 1..Len(stack') : stack'[f].at = stack[f].at
<1>1. stack # <<>> /\ UNCHANGED <<schema, errors>> /\ Follow
  BY ReturnGoes
<1>2. PICK v : HandsOver(v)
  BY ReturnFolds
<1> DEFINE M == Len(stack)
<1>3. /\ M \in Nat /\ M > 0 /\ \A f \in 1..M : IsCall(stack[f])
  BY <1>1, TopIs
<1>4. CASE M = 1
  <2>1. Len(stack') = 0
    BY <1>1, <1>2, <1>4, PopShape
  <2> QED BY <1>1, <2>1
<1>5. CASE M # 1
  <2>1. /\ Len(stack') = M - 1 /\ stack'[M - 1] = Returned(stack[M - 1], v)
        /\ \A f \in 1..M - 2 : stack'[f] = stack[f]
    BY <1>1, <1>2, <1>5, PopShape
  <2>2. M - 1 \in 1..M /\ \A f \in 1..M - 1 : f = M - 1 \/ f \in 1..M - 2
    BY <1>3, <1>5
  <2>3. Returned(stack[M - 1], v).at = stack[M - 1].at
    <3>1. IsCall(stack[M - 1])
      BY <1>3, <2>2
    <3> QED BY <3>1 DEF Returned, Conjoin, IsCall, CallField
  <2> HIDE DEF M
  <2> QED BY <1>1, <2>1, <2>2, <2>3
<1> QED BY <1>4, <1>5

-----------------------------------------------------------------------------
(* A contradiction is real.  While an instance satisfies the root, it      *)
(* satisfies every schema being imported that it has a value for, which is *)
(* of the kind the conjunction is known to be, so none is reported there.  *)
Bears(V, e, c) ==
  /\ c.node \in V /\ Known(c.fact, Seen(e, c.node))
  /\ c.at = "properties" => Seen(e, c.node).kind = "object"

Borne ==
  \A e \in Instance : \A V :
    IsValidity(V, e) /\ 1 \in V
    => /\ \A f \in 1..Len(stack) : HasValue(e, stack[f].node) => Bears(V, e, stack[f])
       /\ \A m : <<"contradiction", m>> \in errors => ~HasValue(e, m)

(* Schemas of one place have a value together.                             *)
LEMMA HasValueAt ==
  ASSUME NEW e, NEW m, NEW n, Place[m] = Place[n]
  PROVE  HasValue(e, m) <=> HasValue(e, n)
BY DEF HasValue

(* A property has a value when the object has one and does not leave it    *)
(* out.                                                                    *)
LEMMA HasValueBelow ==
  ASSUME schema \in Schemas, NEW e, NEW n \in DOMAIN schema, NEW m \in DOMAIN schema, NEW name,
         Place[m] = Append(Place[n], name), HasValue(e, m)
  PROVE  HasValue(e, n) /\ Append(Place[n], name) \notin e.absent
<1> DEFINE s == Place[n]
           t == Place[m]
           L == Len(s)
<1>1. s \in Seq(PropertyName) /\ t \in Seq(PropertyName) /\ L \in Nat
  BY PlaceIs
<1>2. t = Append(s, name) /\ \A k \in 1..Len(t) : SubSeq(t, 1, k) \notin e.absent
  BY DEF HasValue
<1> HIDE DEF s, t
<1>3. Len(t) = L + 1 /\ \A k \in 1..L : t[k] = s[k]
  BY <1>1, <1>2
<1>4. \A k \in 1..L : SubSeq(t, 1, k) = SubSeq(s, 1, k)
  <2> SUFFICES ASSUME NEW k \in 1..L PROVE SubSeq(t, 1, k) = SubSeq(s, 1, k)
    OBVIOUS
  <2>1. k \in Nat /\ k =< L /\ \A j \in 1..k : t[j] = s[j]
    BY <1>1, <1>3
  <2> QED BY <1>1, <1>3, <2>1
<1>5. SubSeq(t, 1, L + 1) = t
  BY <1>1, <1>3
<1>6. L + 1 \in 1..Len(t) /\ \A k \in 1..L : k \in 1..Len(t)
  BY <1>1, <1>3
<1>7. t \notin e.absent
  BY <1>2, <1>5, <1>6
<1>8. \A k \in 1..L : SubSeq(s, 1, k) \notin e.absent
  BY <1>2, <1>4, <1>6
<1> QED BY <1>2, <1>7, <1>8 DEF HasValue, s

(* What is said of an instance depends on the schema alone.                *)
LEMMA SameSchema ==
  ASSUME UNCHANGED schema
  PROVE  /\ Place' = Place /\ Instance' = Instance /\ Bare' = Bare
         /\ \A V, e : IsValidity(V, e)' <=> IsValidity(V, e)
         /\ \A e, n : HasValue(e, n)' <=> HasValue(e, n)
         /\ \A e, n : Seen(e, n)' = Seen(e, n)
<1>1. schema' = schema
  OBVIOUS
<1>2. Place' = Place
  BY DEF Place, Props
<1>3. Instance' = Instance
  BY ONLY <1>1, <1>2 DEF Instance, Places
<1>4. Bare' = Bare
  BY ONLY <1>1 DEF Bare, Throughout, NamesType
<1>5. \A e, n : Seen(e, n)' = Seen(e, n)
  BY ONLY <1>2 DEF Seen
<1>6. \A V, e : IsValidity(V, e)' <=> IsValidity(V, e)
  BY ONLY <1>1, <1>2 DEF IsValidity, NodeHolds, OwnHolds, ObjectHolds, Seen, TypesHold, Needs, Props
<1>7. \A e, n : HasValue(e, n)' <=> HasValue(e, n)
  BY ONLY <1>2 DEF HasValue
<1> QED BY <1>2, <1>3, <1>4, <1>5, <1>6, <1>7

(* What a step makes of the next state can be said of this schema.         *)
LEMMA BorneNext ==
  ASSUME UNCHANGED schema,
         \A e \in Instance : \A V :
           IsValidity(V, e) /\ 1 \in V
           => /\ \A f \in 1..Len(stack') : HasValue(e, stack'[f].node) => Bears(V, e, stack'[f])
              /\ \A m : <<"contradiction", m>> \in errors' => ~HasValue(e, m)
  PROVE  Borne'
<1>1. /\ Instance' = Instance /\ (\A V, e : IsValidity(V, e)' <=> IsValidity(V, e))
      /\ \A e, n : Seen(e, n)' = Seen(e, n)
      /\ \A e, n : HasValue(e, n)' <=> HasValue(e, n)
  BY SameSchema
<1>2. \A V, e : \A f \in 1..Len(stack') : Bears(V, e, stack[f])' <=> Bears(V, e, stack'[f])
  BY <1>1 DEF Bears
<1> QED BY <1>1, <1>2 DEF Borne

(* A step of the innermost call alone keeps it.                            *)
LEMMA InPlaceBorne ==
  ASSUME Tree, Borne, UNCHANGED schema, stack # <<>>, GoesOn, Complains
  PROVE  Borne'
<1>1. PICK c : /\ Be(c) /\ Alike(c, Top)
               /\ c.at = "properties" => Top.at = "properties" \/ IsObject(Top.node) \/ Top.fact = "object"
  BY DEF GoesOn
<1>2. /\ Len(stack) \in Nat /\ Len(stack) > 0 /\ Top = stack[Len(stack)] /\ Len(stack) \in 1..Len(stack)
      /\ \A f \in 1..Len(stack) : f = Len(stack) \/ f \in 1..Len(stack) - 1
  BY TopIs
<1>3. /\ Len(stack') = Len(stack) /\ stack'[Len(stack)] = c
      /\ \A f \in 1..Len(stack) - 1 : stack'[f] = stack[f]
  BY <1>1, CallsAfter
<1>4. ASSUME NEW e \in Instance, NEW V, IsValidity(V, e), 1 \in V
      PROVE  /\ \A f \in 1..Len(stack') : HasValue(e, stack'[f].node) => Bears(V, e, stack'[f])
             /\ \A m : <<"contradiction", m>> \in errors' => ~HasValue(e, m)
  <2>1. /\ \A f \in 1..Len(stack) : HasValue(e, stack[f].node) => Bears(V, e, stack[f])
        /\ \A m : <<"contradiction", m>> \in errors => ~HasValue(e, m)
    BY <1>4 DEF Borne
  <2>4. HasValue(e, c.node) => Bears(V, e, c)
    <3> SUFFICES ASSUME HasValue(e, c.node) PROVE Bears(V, e, c)
      OBVIOUS
    <3>1. Bears(V, e, Top)
      BY <1>1, <1>2, <2>1 DEF Alike
    <3>2. IsObject(Top.node) => Seen(e, Top.node).kind = "object"
      <4> SUFFICES ASSUME IsObject(Top.node) PROVE Seen(e, Top.node).kind = "object"
        OBVIOUS
      <4>1. TypesHold(Top.node, Seen(e, Top.node))
        BY <1>4, <3>1 DEF Bears, IsValidity, NodeHolds, OwnHolds
      <4>2. "object" \in ToSet(schema[Top.node].types)
        BY DEF IsObject, ToSet
      <4> QED BY <4>1, <4>2 DEF TypesHold, HasType
    <3> QED BY <1>1, <3>1, <3>2 DEF Bears, Alike, Known, HasType
  <2>5. \A f \in 1..Len(stack') : HasValue(e, stack'[f].node) => Bears(V, e, stack'[f])
    BY <1>2, <1>3, <2>1, <2>4
  <2> QED BY <2>1, <2>5 DEF Complains
<1> QED BY <1>4, BorneNext

(* A call that starts: its schema is satisfied too, when there is a value  *)
(* for it.                                                                 *)
LEMMA StartsBorne ==
  ASSUME Tree, Borne, UNCHANGED schema, stack # <<>>, NEW c, NEW d, stack' = Front(stack) \o <<c, d>>,
         Alike(c, Top), c.at = Top.at,
         \A e \in Instance : \A V :
           IsValidity(V, e) /\ (HasValue(e, Top.node) => Bears(V, e, Top))
           => /\ HasValue(e, d.node) => Bears(V, e, d)
              /\ \A m : <<"contradiction", m>> \in errors' /\ HasValue(e, m) => <<"contradiction", m>> \in errors
  PROVE  Borne'
<1>2. /\ Len(stack) \in Nat /\ Len(stack) > 0 /\ Top = stack[Len(stack)] /\ Len(stack) \in 1..Len(stack)
      /\ \A f \in 1..Len(stack) - 1 : f \in 1..Len(stack)
  BY TopIs
<1>3. /\ Len(stack') = Len(stack) + 1 /\ stack'[Len(stack) + 1] = d /\ stack'[Len(stack)] = c
      /\ \A f \in 1..Len(stack) - 1 : stack'[f] = stack[f]
      /\ \A f \in 1..Len(stack) + 1 : f = Len(stack) + 1 \/ f = Len(stack) \/ f \in 1..Len(stack) - 1
  BY CallsAfter
<1>4. ASSUME NEW e \in Instance, NEW V, IsValidity(V, e), 1 \in V
      PROVE  /\ \A f \in 1..Len(stack') : HasValue(e, stack'[f].node) => Bears(V, e, stack'[f])
             /\ \A m : <<"contradiction", m>> \in errors' => ~HasValue(e, m)
  <2>1. /\ \A f \in 1..Len(stack) : HasValue(e, stack[f].node) => Bears(V, e, stack[f])
        /\ \A m : <<"contradiction", m>> \in errors => ~HasValue(e, m)
    BY <1>4 DEF Borne
  <2>2. HasValue(e, Top.node) => Bears(V, e, Top)
    BY <1>2, <2>1
  <2>3. HasValue(e, c.node) => Bears(V, e, c)
    BY <2>2 DEF Bears, Alike
  <2>4. /\ HasValue(e, d.node) => Bears(V, e, d)
        /\ \A m : <<"contradiction", m>> \in errors' => ~HasValue(e, m)
    BY <1>4, <2>1, <2>2
  <2>5. \A f \in 1..Len(stack) + 1 : HasValue(e, stack'[f].node) => Bears(V, e, stack'[f])
    BY <1>2, <1>3, <2>1, <2>3, <2>4
  <2> QED BY <1>3, <2>4, <2>5
<1> QED BY <1>4, BorneNext

(* An instance that satisfies a node satisfies the branch that is entered. *)
LEMMA EnterBranchBorne == ASSUME Tree, Borne, EnterBranch PROVE Borne'
<1> DEFINE c == NextK(Top)
           d == Call(Branch, Top.input, Top.fact, Top.path, Top.type)
<1>1. /\ stack # <<>> /\ UNCHANGED <<schema, errors>>
      /\ Top.k \in 1..Len(schema[Top.node].allOf)
  BY EnterBranchStarts
<1>2. stack' = Front(stack) \o <<c, d>>
  BY DEF EnterBranch, Branch
<1>3. IsCall(Top) /\ schema \in Schemas /\ Top.node \in DOMAIN schema
  BY <1>1, TopShape DEF Tree, Shape, IsCall
<1>4. Alike(c, Top) /\ c.at = Top.at
  BY <1>3, SameCall DEF NextK, IsCall, CallField
<1>5. d.node = Branch /\ d.fact = Top.fact /\ d.at = "guard"
  BY DEF Call
<1> HIDE DEF c, d
<1>6. Branch \in ToSet(schema[Top.node].allOf) /\ Place[Branch] = Place[Top.node]
  <2>1. schema[Top.node].allOf \in Seq(Nat) /\ Place[Branch] = Place[Top.node]
    BY <1>1, <1>3, ChildrenAre, PlaceIs DEF Branch
  <2>2. \A s \in Seq(Nat) : \A k \in 1..Len(s) : s[k] \in ToSet(s)
    BY DEF ToSet
  <2> QED BY <1>1, <2>1, <2>2 DEF Branch
<1>7. ASSUME NEW e \in Instance, NEW V, IsValidity(V, e), HasValue(e, Top.node) => Bears(V, e, Top),
             HasValue(e, d.node)
      PROVE  Bears(V, e, d)
  <2>1. Bears(V, e, Top)
    BY <1>5, <1>6, <1>7, HasValueAt
  <2>2. Branch \in V
    BY <1>3, <1>6, <1>7, <2>1 DEF IsValidity, NodeHolds, Bears
  <2>3. Seen(e, Branch) = Seen(e, Top.node)
    BY <1>6 DEF Seen
  <2> QED BY <1>5, <2>1, <2>2, <2>3 DEF Bears
<1> QED BY <1>1, <1>2, <1>4, <1>7, StartsBorne

(* What an instance that satisfies a node makes of its types.              *)
LEMMA ValidKnows ==
  ASSUME schema \in Schemas, NEW n \in DOMAIN schema, NEW e \in Instance, NEW V, IsValidity(V, e), n \in V
  PROVE  /\ Known(CollectKind(n, "any").kind, Seen(e, n))
         /\ \A m : <<"contradiction", m>> \notin CollectKind(n, "any").errors
<1>1. n \in Agree(e)
  BY ValidAgrees
<1>2. \A m \in DOMAIN schema : Seen(e, m) \in JsonValue
  BY SeenIs
<1>3. "any" \in InstanceKind /\ Known("any", Seen(e, n))
  BY DEF InstanceKind, Known
<1> QED BY <1>1, <1>2, <1>3, AgreeKnows

(* A property entered is satisfied at its place, and its kind is known.    *)
LEMMA EnterPropertyBorne == ASSUME Tree, Borne, EnterProperty PROVE Borne'
<1> DEFINE child == TheProperty.schema
           known == {k \in DOMAIN args : args[k].path = PropertyPath}
           input == IF known = {} THEN Len(args) + 1 ELSE CHOOSE k \in known : TRUE
           c == NextK([Top EXCEPT !.fields = Append(@, TheProperty.name)])
           d == Call(child, input, CollectKind(child, "any").kind, PropertyPath,
                     Or(schema[child].title, TheProperty.name))
<1>1. /\ stack # <<>> /\ UNCHANGED schema
      /\ Top.at = "properties" /\ Top.k \in 1..Len(Props(Top.node))
      /\ errors' = errors \cup CollectKind(child, "any").errors
  BY EnterPropertyStarts
<1>2. stack' = Front(stack) \o <<c, d>>
  BY DEF EnterProperty, PropertyPath
<1>3. IsCall(Top) /\ schema \in Schemas /\ Top.node \in DOMAIN schema
  BY <1>1, TopShape DEF Tree, Shape, IsCall
<1>4. Alike(c, Top) /\ c.at = Top.at
  BY <1>3, SameCall DEF NextK, IsCall, CallField
<1>5. d.node = child /\ d.fact = CollectKind(child, "any").kind /\ d.at = "guard"
  BY DEF Call
<1> HIDE DEF c, d
<1>6. /\ TheProperty \in ToSet(Props(Top.node)) /\ child \in DOMAIN schema
      /\ Place[child] = Append(Place[Top.node], TheProperty.name)
  <2>1. /\ Props(Top.node) \in Seq(Property) /\ child \in DOMAIN schema
        /\ Place[child] = Append(Place[Top.node], TheProperty.name)
    BY <1>1, <1>3, NodeIs, ChildrenAre, PlaceIs DEF TheProperty
  <2>2. \A s \in Seq(Property) : \A k \in 1..Len(s) : s[k] \in ToSet(s)
    BY DEF ToSet
  <2> QED BY <1>1, <2>1, <2>2 DEF TheProperty
<1> HIDE DEF child
<1>7. ASSUME NEW e \in Instance, NEW V, IsValidity(V, e), HasValue(e, Top.node) => Bears(V, e, Top)
      PROVE  /\ HasValue(e, d.node) => Bears(V, e, d)
             /\ \A m : <<"contradiction", m>> \in errors' /\ HasValue(e, m) => <<"contradiction", m>> \in errors
  <2>1. ASSUME HasValue(e, child)
        PROVE  /\ child \in V /\ Known(CollectKind(child, "any").kind, Seen(e, child))
               /\ \A m : <<"contradiction", m>> \notin CollectKind(child, "any").errors
    <3>1. HasValue(e, Top.node) /\ Append(Place[Top.node], TheProperty.name) \notin e.absent
      BY <1>3, <1>6, <2>1, HasValueBelow
    <3>2. NodeHolds(V, e, Top.node) /\ Seen(e, Top.node).kind = "object"
      BY <1>1, <1>3, <1>7, <3>1 DEF Bears, IsValidity
    <3>3. child \in V
      BY <1>6, <3>1, <3>2 DEF NodeHolds, OwnHolds, ObjectHolds, child
    <3> QED BY <1>3, <1>6, <1>7, <3>3, ValidKnows
  <2>2. HasValue(e, d.node) => Bears(V, e, d)
    BY <1>5, <2>1 DEF Bears
  <2>3. ASSUME NEW m, <<"contradiction", m>> \in errors', HasValue(e, m)
        PROVE  <<"contradiction", m>> \in errors
    <3> SUFFICES ASSUME <<"contradiction", m>> \in CollectKind(child, "any").errors PROVE FALSE
      BY <1>1, <2>3
    <3>1. "any" \in InstanceKind
      BY DEF InstanceKind
    <3>2. Place[m] = Place[child]
      BY <1>3, <1>6, <3>1, ContradictsAt
    <3>3. HasValue(e, child)
      BY <2>3, <3>2, HasValueAt
    <3> QED BY <2>1, <3>3
  <2> QED BY <2>2, <2>3
<1> QED BY <1>1, <1>2, <1>4, <1>7, StartsBorne

(* At the root.                                                            *)
LEMMA BeginBorne == ASSUME Tree, Borne, Begin PROVE Borne'
<1> DEFINE c == Call(1, 1, CollectKind(1, "any").kind, <<>>, RootName)
<1>1. UNCHANGED schema /\ stack' = <<c>> /\ errors' = CollectKind(1, "any").errors
  BY DEF Begin
<1>2. schema \in Schemas /\ 1 \in DOMAIN schema
  BY NodeIs DEF Tree, Shape
<1>3. c.node = 1 /\ c.fact = CollectKind(1, "any").kind /\ c.at = "guard"
  BY DEF Call
<1> HIDE DEF c
<1>4. \A f \in 1..Len(stack') : stack'[f] = c
  <2>1. Len(<<c>>) = 1 /\ <<c>>[1] = c /\ \A f \in 1..1 : f = 1
    OBVIOUS
  <2> QED BY <1>1, <2>1
<1>5. ASSUME NEW e \in Instance, NEW V, IsValidity(V, e), 1 \in V
      PROVE  /\ \A f \in 1..Len(stack') : HasValue(e, stack'[f].node) => Bears(V, e, stack'[f])
             /\ \A m : <<"contradiction", m>> \in errors' => ~HasValue(e, m)
  <2>1. /\ Known(CollectKind(1, "any").kind, Seen(e, 1))
        /\ \A m : <<"contradiction", m>> \notin CollectKind(1, "any").errors
    BY <1>2, <1>5, ValidKnows
  <2>2. Bears(V, e, c)
    BY <1>3, <1>5, <2>1 DEF Bears
  <2> QED BY <1>1, <1>4, <2>1, <2>2
<1> QED BY <1>1, <1>5, BorneNext

(* Return ends a call and reports nothing.                                 *)
LEMMA ReturnBorne == ASSUME Tree, Borne, Return PROVE Borne'
<1>1. /\ UNCHANGED <<schema, errors>> /\ Follow
      /\ \A f \in 1..Len(stack') : stack'[f].at = stack[f].at
  BY ReturnLeaves
<1>2. ASSUME NEW e \in Instance, NEW V, IsValidity(V, e), 1 \in V
      PROVE  /\ \A f \in 1..Len(stack') : HasValue(e, stack'[f].node) => Bears(V, e, stack'[f])
             /\ \A m : <<"contradiction", m>> \in errors' => ~HasValue(e, m)
  <2>1. /\ \A f \in 1..Len(stack) : HasValue(e, stack[f].node) => Bears(V, e, stack[f])
        /\ \A m : <<"contradiction", m>> \in errors => ~HasValue(e, m)
    BY <1>2 DEF Borne
  <2>2. \A f \in 1..Len(stack') : f \in 1..Len(stack) /\ Alike(stack'[f], stack[f])
    BY <1>1 DEF Follow
  <2>3. \A f \in 1..Len(stack') : HasValue(e, stack'[f].node) => Bears(V, e, stack'[f])
    BY <1>1, <2>1, <2>2 DEF Bears, Alike
  <2> QED BY <1>1, <2>1, <2>3
<1> QED BY <1>1, <1>2, BorneNext

(* A stutter keeps it.                                                     *)
LEMMA StutterBorne ==
  ASSUME Borne, UNCHANGED <<schema, stack, errors>>
  PROVE  Borne'
BY BorneNext DEF Borne

(* Every step keeps it.                                                    *)
LEMMA NextBorne == ASSUME Tree, Borne, Next PROVE Borne'
<1>1. ASSUME TypeGuard \/ RejectKeyword \/ DropKeyword \/ EmitKeyword \/ EndKeywords
             \/ RejectProperty \/ FinishObject
      PROVE  Borne'
  BY <1>1, InPlace, GoesOnIs, InPlaceBorne
<1>2. Finish => Borne'
  BY StutterBorne DEF Finish
<1> QED BY <1>1, <1>2, BeginBorne, EnterBranchBorne, EnterPropertyBorne, ReturnBorne DEF Next

(* A contradiction between types is reported only at a schema no value     *)
(* satisfies: an instance that has a value there is refused.               *)
THEOREM ImporterContradictionReal == Spec => []ContradictionReal
<1>1. Init => Tree /\ Borne
  <2>1. Init => Borne
    <3> SUFFICES ASSUME Init PROVE Borne
      OBVIOUS
    <3>1. errors = {} /\ Len(stack) = 0
      BY DEF Init, Idle
    <3> QED BY <3>1 DEF Borne
  <2> QED BY <2>1, InitTree
<1>2. Tree /\ Borne /\ [Next]_vars => Tree' /\ Borne'
  <2>1. UNCHANGED vars => UNCHANGED <<schema, stack, errors>>
    BY DEF vars
  <2> QED BY <2>1, NextTree, StutterTree, NextBorne, StutterBorne
<1>3. Tree /\ Borne => ContradictionReal
  <2> SUFFICES ASSUME Tree, Borne, NEW n \in DOMAIN schema, <<"contradiction", n>> \in errors,
                      NEW e \in Instance, HasValue(e, n)
               PROVE  ~Valid(e)
    BY DEF ContradictionReal
  <2>1. PICK V : IsValidity(V, e) /\ (Valid(e) <=> 1 \in V)
    BY ValidIs DEF Tree, Shape
  <2>2. 1 \notin V
    BY <2>1 DEF Borne
  <2> QED BY <2>1, <2>2
<1> QED BY <1>1, <1>2, <1>3, PTL DEF Spec

-----------------------------------------------------------------------------
(* A missing type is missing.  The schemas a branch belongs to: itself, and*)
(* those whose branch it is, and so on.                                    *)
IsUp(f) == f = [m \in DOMAIN schema |-> {m} \cup UNION {f[k] : k \in InBranch(m)}]

Up == CHOOSE f : IsUp(f)

(* What every set that holds m and, with a branch, its schema also holds.  *)
Rises(S) == \A x \in S : InBranch(x) \subseteq S

Above(m) == {k \in DOMAIN schema : \A S \in SUBSET DOMAIN schema : m \in S /\ Rises(S) => k \in S}

(* They are the node and what is above one that has it as a branch.        *)
LEMMA AboveIs ==
  ASSUME NEW m \in DOMAIN schema
  PROVE  Above(m) = {m} \cup UNION {Above(k) : k \in InBranch(m)}
<1> DEFINE R == {m} \cup UNION {Above(k) : k \in InBranch(m)}
<1>1. \A k : InBranch(k) \subseteq DOMAIN schema
  BY DEF InBranch
<1>2. \A k \in DOMAIN schema : k \in Above(k)
  BY DEF Above
<1>3. \A k \in DOMAIN schema : Rises(Above(k)) /\ Above(k) \subseteq DOMAIN schema
  BY <1>1 DEF Above, Rises
<1>4. \A k \in DOMAIN schema : \A S \in SUBSET DOMAIN schema : k \in S /\ Rises(S) => Above(k) \subseteq S
  BY DEF Above
<1>5. \A x : x \in R <=> x = m \/ \E k \in InBranch(m) : x \in Above(k)
  OBVIOUS
<1> HIDE DEF R
<1>6. R \in SUBSET DOMAIN schema /\ m \in R
  BY <1>1, <1>3, <1>5
<1>7. Rises(R)
  BY <1>1, <1>2, <1>3, <1>5 DEF Rises
<1>8. Above(m) \subseteq R
  BY <1>4, <1>6, <1>7
<1>9. \A k \in InBranch(m) : Above(k) \subseteq Above(m)
  <2> SUFFICES ASSUME NEW k \in InBranch(m) PROVE Above(k) \subseteq Above(m)
    OBVIOUS
  <2>1. k \in Above(m)
    BY <1>2, <1>3 DEF Rises
  <2> QED BY <1>1, <1>3, <1>4, <2>1
<1>10. R \subseteq Above(m)
  BY <1>2, <1>5, <1>9
<1>11. Above(m) = R
  BY <1>8, <1>10
<1> QED BY <1>11 DEF R

(* The recursion of Conjoined has a solution: the nodes above a node.      *)
LEMMA UpIs ==
  /\ \A m \in DOMAIN schema : Up[m] = {m} \cup UNION {Up[k] : k \in InBranch(m)}
  /\ \A n : Conjoined(n) = {m \in DOMAIN schema : Up[m] \cap Up[n] # {}}
<1>1. \E f : IsUp(f)
  <2> DEFINE f == [m \in DOMAIN schema |-> Above(m)]
  <2>1. \A m : InBranch(m) \subseteq DOMAIN schema
    BY DEF InBranch
  <2>2. \A m \in DOMAIN schema : UNION {f[k] : k \in InBranch(m)} = UNION {Above(k) : k \in InBranch(m)}
    BY <2>1
  <2>3. \A m \in DOMAIN schema : f[m] = Above(m)
    OBVIOUS
  <2>4. \A m \in DOMAIN schema : f[m] = {m} \cup UNION {f[k] : k \in InBranch(m)}
    <3> HIDE DEF f
    <3> QED BY <2>2, <2>3, AboveIs
  <2>5. f = [m \in DOMAIN schema |-> {m} \cup UNION {f[k] : k \in InBranch(m)}]
    BY <2>4
  <2> QED BY <2>5 DEF IsUp
<1>2. IsUp(Up)
  BY <1>1 DEF Up
<1>3. \A n : Conjoined(n) = {m \in DOMAIN schema : Up[m] \cap Up[n] # {}}
  BY DEF Conjoined, Up, IsUp, InBranch
<1>4. \A m \in DOMAIN schema : Up[m] = {m} \cup UNION {Up[k] : k \in InBranch(m)}
  BY <1>2 DEF IsUp
<1> QED BY <1>3, <1>4

(* Under a schema that names no type, and whose branches name none, no     *)
(* branch names one.                                                       *)
LEMMA BareBelow ==
  ASSUME schema \in Schemas
  PROVE  \A m \in DOMAIN schema : \A x \in Bare : x \in Up[m] => m \in Bare
<1> DEFINE D == DOMAIN schema
           P == {r \in Nat : \A m \in D : m = r => \A x \in Bare : x \in Up[m] => m \in Bare}
<1>0. \A m \in D : m \in Nat
  <2>1. schema \in Seq(SchemaNode)
    BY NodeIs
  <2> QED BY <2>1
<1>1. ASSUME NEW r \in Nat, \A j \in 0..r - 1 : j \in P
      PROVE  r \in P
  <2> SUFFICES ASSUME NEW m \in D, m = r, NEW x \in Bare, x \in Up[m]
               PROVE  m \in Bare
    OBVIOUS
  <2>1. CASE x = m
    BY <2>1
  <2>2. CASE x # m
    <3>1. PICK k \in InBranch(m) : x \in Up[k]
      BY <2>2, UpIs
    <3>2. k \in D /\ m \in ToSet(schema[k].allOf) /\ schema[k].allOf \in Seq(Nat)
      BY <3>1, ChildrenAre DEF InBranch
    <3>3. PICK j \in 1..Len(schema[k].allOf) : m = schema[k].allOf[j]
      <4>1. \A s \in Seq(Nat) : \A b \in ToSet(s) : \E j \in 1..Len(s) : b = s[j]
        BY DEF ToSet
      <4> QED BY <3>2, <4>1
    <3>4. m > k
      BY <3>2, <3>3, ChildrenAre
    <3>5. k \in 0..r - 1
      BY <1>0, <3>2, <3>4
    <3>6. k \in Bare
      BY <1>1, <3>1, <3>2, <3>5
    <3>7. schema[k].allOf[j] \in Bare
      BY <3>3, <3>6, ThroughoutIs DEF Bare
    <3> QED BY <3>3, <3>7
  <2> QED BY <2>1, <2>2
<1> HIDE DEF P
<1>2. Nat \subseteq P
  BY <1>1, Induction
<1> QED BY <1>0, <1>2 DEF P

(* The invariant: where nothing is known of the instance, no schema of the *)
(* conjunction names a type.                                               *)
Untyped(n) == n \in DOMAIN schema /\ Up[n] \subseteq Bare

Open ==
  /\ \A f \in 1..Len(stack) : stack[f].fact = "any" => Untyped(stack[f].node)
  /\ \A m : <<"needs type", m>> \in errors => Untyped(m)

(* What a step makes of the next state can be said of this schema.         *)
LEMMA OpenNext ==
  ASSUME UNCHANGED schema,
         \A f \in 1..Len(stack') : stack'[f].fact = "any" => Untyped(stack'[f].node),
         \A m : <<"needs type", m>> \in errors' => Untyped(m)
  PROVE  Open'
<1>1. schema' = schema /\ Bare' = Bare
  BY SameSchema
<1>2. Up' = Up
  BY <1>1, ZenonT(40) DEF Up, IsUp, InBranch
<1>3. \A n : Untyped(n)' <=> Untyped(n)
  BY <1>1, <1>2 DEF Untyped
<1>4. \A f : Untyped(stack[f].node)' <=> Untyped(stack'[f].node)
  BY <1>1, <1>2 DEF Untyped
<1> QED BY <1>3, <1>4 DEF Open

(* A step that starts no call.                                             *)
LEMMA FollowOpen ==
  ASSUME Tree, Open, UNCHANGED schema, Follow, stack # <<>>, Complains
  PROVE  Open'
<1>1. /\ Len(stack) \in 1..Len(stack) /\ Top = stack[Len(stack)]
      /\ \A f \in 1..Len(stack) : IsCall(stack[f])
  BY TopIs
<1>2. Top.fact = "any" => Untyped(Top.node)
  BY <1>1 DEF Open
<1>3. \A m : <<"needs type", m>> \in errors' => Untyped(m)
  BY <1>2 DEF Open, Complains
<1>4. \A f \in 1..Len(stack') : stack'[f].fact = "any" => Untyped(stack'[f].node)
  <2> SUFFICES ASSUME NEW f \in 1..Len(stack'), stack'[f].fact = "any" PROVE Untyped(stack'[f].node)
    OBVIOUS
  <2>1. f \in 1..Len(stack) /\ stack'[f].fact = stack[f].fact /\ stack'[f].node = stack[f].node
    BY DEF Follow, Alike
  <2>2. Untyped(stack[f].node)
    BY <2>1 DEF Open
  <2> QED BY <2>1, <2>2
<1> QED BY <1>3, <1>4, OpenNext

(* A step that starts a call.                                              *)
LEMMA StartedOpen ==
  ASSUME Tree, Open, UNCHANGED schema, stack # <<>>, NEW c, Started(c),
         c.fact = "any" => Untyped(c.node),
         \A m : <<"needs type", m>> \in errors' => <<"needs type", m>> \in errors
  PROVE  Open'
<1>1. Len(stack) \in Nat /\ Len(stack) > 0
  BY TopIs
<1>2. \A f \in 1..Len(stack) + 1 : f = Len(stack) + 1 \/ f \in 1..Len(stack)
  BY ONLY <1>1
<1>3. \A f \in 1..Len(stack') : stack'[f].fact = "any" => Untyped(stack'[f].node)
  <2> SUFFICES ASSUME NEW f \in 1..Len(stack'), stack'[f].fact = "any" PROVE Untyped(stack'[f].node)
    OBVIOUS
  <2>1. CASE f = Len(stack) + 1
    <3>1. stack'[f] = c
      BY <2>1 DEF Started
    <3> QED BY <3>1
  <2>2. CASE f \in 1..Len(stack)
    <3>1. stack'[f].fact = stack[f].fact /\ stack'[f].node = stack[f].node
      BY <2>2 DEF Started, Alike
    <3>2. Untyped(stack[f].node)
      BY <2>2, <3>1 DEF Open
    <3> QED BY <3>1, <3>2
  <2>3. f \in 1..Len(stack) + 1
    BY DEF Started
  <2> QED BY <1>2, <2>1, <2>2, <2>3
<1>4. \A m : <<"needs type", m>> \in errors' => Untyped(m)
  BY DEF Open
<1> QED BY <1>3, <1>4, OpenNext

(* The root and the schema of a property are the branch of no schema.      *)
LEMMA AloneOpen ==
  ASSUME schema \in Schemas, NEW n \in DOMAIN schema, InBranch(n) = {}
  PROVE  /\ CollectKind(n, "any").kind = "any" => Untyped(n)
         /\ \A m : <<"needs type", m>> \notin CollectKind(n, "any").errors
<1>1. "any" \in InstanceKind
  BY DEF InstanceKind
<1>2. CollectKind(n, "any").errors \subseteq Complaint
  BY <1>1, CollectedIs
<1>3. \A m : <<"needs type", m>> \notin Complaint
  BY DEF Complaint
<1>4. Up[n] = {n}
  <2>1. {Up[k] : k \in {}} = {}
    OBVIOUS
  <2>2. Up[n] = {n} \cup UNION {Up[k] : k \in InBranch(n)}
    BY UpIs
  <2> QED BY <2>1, <2>2
<1>5. CollectKind(n, "any").kind = "any" => n \in Bare
  BY <1>1, AnyIsBare
<1> QED BY <1>2, <1>3, <1>4, <1>5 DEF Untyped


(* At the root.                                                            *)
LEMMA BeginOpen == ASSUME Tree, Begin PROVE Open'
<1> DEFINE c == Call(1, 1, CollectKind(1, "any").kind, <<>>, RootName)
<1>1. UNCHANGED schema /\ stack' = <<c>> /\ errors' = CollectKind(1, "any").errors
  BY DEF Begin
<1>2. schema \in Schemas /\ 1 \in DOMAIN schema
  BY NodeIs DEF Tree, Shape
<1>3. c.node = 1 /\ c.fact = CollectKind(1, "any").kind
  BY DEF Call
<1> HIDE DEF c
<1>4. \A f \in 1..Len(stack') : stack'[f] = c
  <2>1. Len(<<c>>) = 1 /\ <<c>>[1] = c /\ \A f \in 1..1 : f = 1
    OBVIOUS
  <2> QED BY <1>1, <2>1
<1>5. InBranch(1) = {}
  BY <1>2, OneParent
<1>6. /\ CollectKind(1, "any").kind = "any" => Untyped(1)
      /\ \A m : <<"needs type", m>> \notin CollectKind(1, "any").errors
  BY <1>2, <1>5, AloneOpen
<1>7. \A f \in 1..Len(stack') : stack'[f].fact = "any" => Untyped(stack'[f].node)
  BY <1>3, <1>4, <1>6
<1>8. \A m : <<"needs type", m>> \in errors' => Untyped(m)
  BY <1>1, <1>6
<1> QED BY <1>1, <1>7, <1>8, OpenNext

(* A branch entered without a known kind is as untyped as its schema.      *)
LEMMA EnterBranchOpen == ASSUME Tree, Open, EnterBranch PROVE Open'
<1> DEFINE c == Call(Branch, Top.input, Top.fact, Top.path, Top.type)
           n == Top.node
<1>1. /\ stack # <<>> /\ UNCHANGED <<schema, errors>> /\ Started(c)
      /\ Top.k \in 1..Len(schema[n].allOf)
  BY EnterBranchStarts
<1>2. schema \in Schemas /\ n \in DOMAIN schema
  BY <1>1, TopShape DEF Tree, Shape, IsCall
<1>3. c.node = Branch /\ c.fact = Top.fact
  BY DEF Call
<1> HIDE DEF c
<1>4. Branch \in DOMAIN schema /\ Branch > n /\ n \in InBranch(Branch)
  <2>1. Branch \in DOMAIN schema /\ Branch > n /\ schema[n].allOf \in Seq(Nat)
    BY <1>1, <1>2, ChildrenAre DEF Branch
  <2>2. \A s \in Seq(Nat) : \A k \in 1..Len(s) : s[k] \in ToSet(s)
    BY DEF ToSet
  <2>3. Branch \in ToSet(schema[n].allOf)
    BY <1>1, <2>1, <2>2 DEF Branch
  <2> QED BY <1>2, <2>1, <2>3 DEF InBranch
<1>5. InBranch(Branch) = {n}
  BY <1>2, <1>4, OneParent
<1>6. ASSUME Top.fact = "any" PROVE Untyped(Branch)
  <2>1. Untyped(n)
    <3>1. Len(stack) \in 1..Len(stack) /\ Top = stack[Len(stack)]
      BY <1>1, TopIs
    <3> QED BY <1>6, <3>1 DEF Open
  <2>2. n \in Up[n] /\ Up[Branch] = {Branch} \cup UNION {Up[k] : k \in InBranch(Branch)}
    BY <1>2, <1>4, UpIs
  <2>3. Up[Branch] = {Branch} \cup Up[n]
    BY <1>5, <2>2
  <2>4. n \in Bare
    BY <2>1, <2>2 DEF Untyped
  <2>5. Branch \in Bare
    BY <1>1, <2>4, ThroughoutIs DEF Bare, Branch
  <2> QED BY <1>4, <2>1, <2>3, <2>5 DEF Untyped
<1> QED BY <1>1, <1>3, <1>6, StartedOpen

(* A property whose kind is unknown has no typed schema beside it.         *)
LEMMA EnterPropertyOpen == ASSUME Tree, Open, EnterProperty PROVE Open'
<1> DEFINE child == TheProperty.schema
           known == {k \in DOMAIN args : args[k].path = PropertyPath}
           input == IF known = {} THEN Len(args) + 1 ELSE CHOOSE k \in known : TRUE
           c == Call(child, input, CollectKind(child, "any").kind, PropertyPath,
                     Or(schema[child].title, TheProperty.name))
           n == Top.node
<1>1. /\ stack # <<>> /\ UNCHANGED schema /\ Started(c)
      /\ Top.k \in 1..Len(Props(n))
      /\ errors' = errors \cup CollectKind(child, "any").errors
  BY EnterPropertyStarts
<1>2. schema \in Schemas /\ n \in DOMAIN schema
  BY <1>1, TopShape DEF Tree, Shape, IsCall
<1>3. c.node = child /\ c.fact = CollectKind(child, "any").kind
  BY DEF Call
<1> HIDE DEF c
<1>4. child \in DOMAIN schema /\ child > n
  BY <1>1, <1>2, ChildrenAre DEF TheProperty
<1>5. InBranch(child) = {}
  <2>1. Props(n) \in Seq(Property)
    BY <1>2, NodeIs
  <2>2. \A s \in Seq(Property) : \A k \in 1..Len(s) : s[k] \in ToSet(s)
    BY DEF ToSet
  <2>3. TheProperty \in ToSet(Props(n))
    BY <1>1, <2>1, <2>2 DEF TheProperty
  <2> DEFINE q == TheProperty
  <2>4. <<n, q.name>> \in AsMember(child)
    <3> HIDE DEF q
    <3>1. q \in ToSet(Props(n)) /\ child = q.schema
      BY <2>3 DEF q
    <3> QED BY <1>2, <3>1 DEF AsMember
  <2>5. child # 1
    BY <1>2, <1>4, <2>4, OneParent
  <2> HIDE DEF child
  <2> QED BY <1>2, <1>4, <2>4, <2>5, OneParent
<1>6. /\ CollectKind(child, "any").kind = "any" => Untyped(child)
      /\ \A m : <<"needs type", m>> \notin CollectKind(child, "any").errors
  BY <1>2, <1>4, <1>5, AloneOpen
<1> HIDE DEF child
<1>7. \A m : <<"needs type", m>> \in errors' => <<"needs type", m>> \in errors
  BY <1>1, <1>6
<1> QED BY <1>1, <1>3, <1>6, <1>7, StartedOpen

(* A stutter keeps it.                                                     *)
LEMMA StutterOpen ==
  ASSUME Open, UNCHANGED <<schema, stack, errors>>
  PROVE  Open'
BY OpenNext DEF Open

(* Every step keeps it.                                                    *)
LEMMA NextOpen == ASSUME Tree, Open, Next PROVE Open'
<1>1. ASSUME TypeGuard \/ RejectKeyword \/ DropKeyword \/ EmitKeyword \/ EndKeywords
             \/ RejectProperty \/ FinishObject
      PROVE  Open'
  BY <1>1, InPlace, GoesOnIs, FollowOpen
<1>2. Finish => Open'
  BY StutterOpen DEF Finish
<1>3. Return => Open'
  BY ReturnGoes, FollowOpen DEF Complains
<1> QED BY <1>1, <1>2, <1>3, BeginOpen, EnterBranchOpen, EnterPropertyOpen DEF Next

(* A keyword is refused for want of a type only when no schema of the      *)
(* conjunction it belongs to names exactly one type.                       *)
THEOREM ImporterNeedsTypeReal == Spec => []NeedsTypeReal
<1>1. Init => Tree /\ Open
  <2>1. Init => Open
    <3> SUFFICES ASSUME Init PROVE Open
      OBVIOUS
    <3>1. errors = {} /\ Len(stack) = 0
      BY DEF Init, Idle
    <3> QED BY <3>1 DEF Open
  <2> QED BY <2>1, InitTree
<1>2. Tree /\ Open /\ [Next]_vars => Tree' /\ Open'
  <2>1. UNCHANGED vars => UNCHANGED <<schema, stack, errors>>
    BY DEF vars
  <2> QED BY <2>1, NextTree, StutterTree, NextOpen, StutterOpen
<1>3. Tree /\ Open => NeedsTypeReal
  <2> SUFFICES ASSUME Tree, Open, NEW n \in DOMAIN schema, <<"needs type", n>> \in errors,
                      NEW m \in Conjoined(n), Len(schema[m].types) = 1
               PROVE  schema[m].types[1] \notin InstanceKind
    BY DEF NeedsTypeReal
  <2>1. schema \in Schemas /\ Untyped(n)
    BY DEF Open, Tree, Shape
  <2>2. m \in DOMAIN schema /\ \E x : x \in Up[m] /\ x \in Up[n]
    BY UpIs
  <2>3. m \in Bare
    BY <2>1, <2>2, BareBelow DEF Untyped
  <2> DEFINE Own == {k \in DOMAIN schema : ~NamesType(k)}
  <2>4. m \in Own
    <3>1. m \in Throughout(Own)
      BY <2>3 DEF Bare
    <3> HIDE DEF Own
    <3> QED BY <3>1, ThroughoutIs
  <2> QED BY <2>4 DEF NamesType
<1> QED BY <1>1, <1>2, <1>3, PTL DEF Spec

-----------------------------------------------------------------------------
(* The operations that hold of an instance.                                *)
OpHolds(Y, o, e) ==
  /\ o.op = "and" => o.args[1] \in Y /\ o.args[2] \in Y
  /\ o.op = "validate" => Accepts(o.lat, Seen(e, o.loc))
  /\ o.op = "struct" =>
       /\ Seen(e, o.loc).kind = "object"
       /\ \A r \in ToSet(o.required) : Append(Place[o.loc], r) \notin e.absent
       /\ \A k \in DOMAIN o.results :
            Append(Place[o.loc], o.fields[k]) \in e.absent \/ o.results[k] \in Y

IsAnswer(Y, o, e) == \A v \in 1..Len(o) : v \in Y <=> OpHolds(Y, o[v], e)

(* A conjunction joins two operations.                                     *)
JoinsTwo(o) == \A v \in 1..Len(o) : o[v].op = "and" => {1, 2} \subseteq DOMAIN o[v].args

(* The recursion of Verdict.                                               *)
VerdictStep(f, e, v) ==
  /\ ops[v].op = "and" => f[ops[v].args[1]] /\ f[ops[v].args[2]]
  /\ ops[v].op = "validate" => Accepts(ops[v].lat, e.doc[Place[args[ops[v].input].loc]])
  /\ ops[v].op = "struct" =>
       /\ e.doc[Place[args[ops[v].input].loc]].kind = "object"
       /\ \A r \in ToSet(ops[v].required) : Append(Place[args[ops[v].input].loc], r) \notin e.absent
       /\ \A k \in DOMAIN ops[v].results :
            \/ Append(Place[args[ops[v].input].loc], ops[v].fields[k]) \in e.absent
            \/ f[ops[v].results[k]]

IsVerdict(f, e) == f = [v \in DOMAIN ops |-> VerdictStep(f, e, v)]

(* An operation looks at what is at the place of the schema it comes from. *)
LEMMA AtPlace ==
  ASSUME Tree, Placed, NEW v \in 1..Len(ops), ops[v].op \in {"validate", "struct"}
  PROVE  Place[args[ops[v].input].loc] = Place[ops[v].loc]
<1>1. /\ ops[v].loc \in DOMAIN schema /\ ops[v].input \in 1..Len(args)
      /\ args[ops[v].input].path = PathOf(Place[ops[v].loc])
  BY DEF Placed, OpsRooted, Rooted
<1>2. /\ args[ops[v].input].loc \in DOMAIN schema
      /\ args[ops[v].input].path = PathOf(Place[args[ops[v].input].loc])
  BY <1>1 DEF Placed, Arguments
<1>3. \A n \in DOMAIN schema : Place[n] \in Seq(PropertyName)
  BY PlaceIs DEF Tree, Shape
<1> QED BY <1>1, <1>2, <1>3, PathInjective

(* An operand is an operation.                                             *)
LEMMA OperandsInside ==
  ASSUME Tree, NEW v \in 1..Len(ops)
  PROVE  \A k \in DOMAIN OperandsOf(ops[v]) : OperandsOf(ops[v])[k] \in 1..Len(ops)
<1>1. ToSet(Operands(v)) \subseteq 1..v - 1 /\ Len(ops) \in Nat
  BY DEF Tree, OneHolder, Uses
<1>2. Operands(v) = OperandsOf(ops[v])
  BY OperandsAre
<1>3. \A k \in DOMAIN Operands(v) : Operands(v)[k] \in ToSet(Operands(v))
  BY DEF ToSet
<1>4. \A k \in 1..v - 1 : k \in 1..Len(ops)
  BY <1>1
<1> QED BY <1>1, <1>2, <1>3, <1>4

(* One step of the recursion, of the operations that hold.                 *)
LEMMA VerdictStepIs ==
  ASSUME Tree, Placed, JoinsTwo(ops), NEW v \in 1..Len(ops), NEW e, NEW f, NEW Y,
         \A w \in 1..Len(ops) : f[w] <=> w \in Y
  PROVE  VerdictStep(f, e, v) \in BOOLEAN /\ (VerdictStep(f, e, v) <=> OpHolds(Y, ops[v], e))
<1>1. VerdictStep(f, e, v) \in BOOLEAN
  BY DEF VerdictStep
<1>2. ops[v].op = "and" => ((f[ops[v].args[1]] /\ f[ops[v].args[2]]) <=> (ops[v].args[1] \in Y /\ ops[v].args[2] \in Y))
  <2> SUFFICES ASSUME ops[v].op = "and"
               PROVE  (f[ops[v].args[1]] /\ f[ops[v].args[2]]) <=> (ops[v].args[1] \in Y /\ ops[v].args[2] \in Y)
    OBVIOUS
  <2>1. {1, 2} \subseteq DOMAIN ops[v].args
    BY DEF JoinsTwo
  <2>2. ops[v].args[1] \in 1..Len(ops) /\ ops[v].args[2] \in 1..Len(ops)
    BY <2>1, OperandsInside DEF OperandsOf
  <2> QED BY <2>2
<1>3. ops[v].op \in {"validate", "struct"} => Place[args[ops[v].input].loc] = Place[ops[v].loc]
  BY AtPlace
<1> DEFINE Out(k) == Append(Place[ops[v].loc], ops[v].fields[k]) \in e.absent
<1>4. ops[v].op = "struct" =>
        ((\A k \in DOMAIN ops[v].results : Out(k) \/ f[ops[v].results[k]])
         <=> (\A k \in DOMAIN ops[v].results : Out(k) \/ ops[v].results[k] \in Y))
  <2> SUFFICES ASSUME ops[v].op = "struct"
               PROVE  (\A k \in DOMAIN ops[v].results : Out(k) \/ f[ops[v].results[k]])
                      <=> (\A k \in DOMAIN ops[v].results : Out(k) \/ ops[v].results[k] \in Y)
    OBVIOUS
  <2>1. \A k \in DOMAIN ops[v].results : ops[v].results[k] \in 1..Len(ops)
    BY OperandsInside, SMTT(30) DEF OperandsOf
  <2> HIDE DEF Out
  <2> QED BY <2>1
<1>5. ops[v].op = "struct" =>
        ((/\ e.doc[Place[args[ops[v].input].loc]].kind = "object"
          /\ \A r \in ToSet(ops[v].required) : Append(Place[args[ops[v].input].loc], r) \notin e.absent
          /\ \A k \in DOMAIN ops[v].results :
               \/ Append(Place[args[ops[v].input].loc], ops[v].fields[k]) \in e.absent
               \/ f[ops[v].results[k]])
         <=> (/\ e.doc[Place[ops[v].loc]].kind = "object"
              /\ \A r \in ToSet(ops[v].required) : Append(Place[ops[v].loc], r) \notin e.absent
              /\ \A k \in DOMAIN ops[v].results :
                   Append(Place[ops[v].loc], ops[v].fields[k]) \in e.absent \/ ops[v].results[k] \in Y))
  BY <1>3, <1>4
<1>6. ops[v].op = "validate" =>
        (Accepts(ops[v].lat, e.doc[Place[args[ops[v].input].loc]]) <=> Accepts(ops[v].lat, e.doc[Place[ops[v].loc]]))
  BY <1>3
<1> QED BY <1>1, <1>2, <1>5, <1>6, Zenon DEF VerdictStep, OpHolds, Seen

(* Some operations hold together.                                          *)
LEMMA AnswerExists ==
  ASSUME NEW e
  PROVE  \E Y \in SUBSET (1..Len(ops)) : IsAnswer(Y, ops, e)
<1> DEFINE D == 1..Len(ops)
           F == [S \in SUBSET D |-> {v \in D : OpHolds(S, ops[v], e)}]
<1>1. ASSUME NEW S \in SUBSET D, NEW T \in SUBSET D, S \subseteq T, NEW v \in D, OpHolds(S, ops[v], e)
      PROVE  OpHolds(T, ops[v], e)
  BY <1>1, Zenon DEF OpHolds
<1>2. Monotone(F, D)
  BY <1>1 DEF Monotone
<1>3. PICK S \in SUBSET D : F[S] = S
  BY <1>2, FixedPoint
<1>4. \A v \in D : v \in S <=> OpHolds(S, ops[v], e)
  BY <1>3
<1> QED BY <1>4 DEF IsAnswer

(* Verdict is the answer of such a set at the returned operation.          *)
LEMMA VerdictIs ==
  ASSUME Tree, Placed, JoinsTwo(ops), ret \in 1..Len(ops), NEW e
  PROVE  \E Y : IsAnswer(Y, ops, e) /\ (Verdict(e) <=> ret \in Y)
<1> DEFINE D == 1..Len(ops)
           f == CHOOSE g : IsVerdict(g, e)
<1>0. DOMAIN ops = D
  BY RowLen DEF Tree, Shape, Made
<1>1. Verdict(e) = f[ret]
  BY Zenon DEF Verdict, IsVerdict, VerdictStep
<1>2. \E g : IsVerdict(g, e)
  <2>1. PICK Y : IsAnswer(Y, ops, e)
    BY AnswerExists
  <2> DEFINE g == [v \in D |-> v \in Y]
  <2>2. \A v \in D : g[v] <=> v \in Y
    OBVIOUS
  <2>3. \A v \in D : (v \in Y) = VerdictStep(g, e, v)
    <3> SUFFICES ASSUME NEW v \in D PROVE (v \in Y) = VerdictStep(g, e, v)
      OBVIOUS
    <3> HIDE DEF g
    <3>1. VerdictStep(g, e, v) \in BOOLEAN /\ (VerdictStep(g, e, v) <=> OpHolds(Y, ops[v], e))
      BY <2>2, VerdictStepIs
    <3>2. v \in Y <=> OpHolds(Y, ops[v], e)
      BY <2>1 DEF IsAnswer
    <3> QED BY <3>1, <3>2
  <2>4. g = [v \in D |-> VerdictStep(g, e, v)]
    BY <2>3
  <2> QED BY <1>0, <2>4 DEF IsVerdict
<1>3. f = [v \in D |-> VerdictStep(f, e, v)]
  BY <1>0, <1>2 DEF IsVerdict
<1> HIDE DEF f
<1> DEFINE Y == {v \in D : f[v]}
<1>4. \A v \in D : f[v] <=> v \in Y
  OBVIOUS
<1>5. \A v \in D : f[v] <=> VerdictStep(f, e, v)
  BY <1>3
<1> HIDE DEF Y
<1>6. \A v \in D : VerdictStep(f, e, v) <=> OpHolds(Y, ops[v], e)
  BY <1>4, VerdictStepIs
<1>7. IsAnswer(Y, ops, e)
  BY <1>4, <1>5, <1>6, Zenon DEF IsAnswer
<1>8. f[ret] <=> ret \in Y
  BY <1>4
<1> QED BY <1>1, <1>7, <1>8, Zenon

-----------------------------------------------------------------------------
(* A keyword that the front end knows is a number's or a string's.         *)
LEMMA KeywordNames ==
  ASSUME NEW kw \in Keyword, kw.name # "unknown"
  PROVE  kw.name \in NumberKeywords \cup LengthKeywords \cup StringKeywords
<1>1. "pattern" \in StringKeywords /\ "format" \in StringKeywords
  BY DEF StringKeywords
<1>2. \/ kw \in [name : NumberKeywords, value : Number]
      \/ kw \in [name : LengthKeywords, value : Nat]
      \/ kw \in [name : {"pattern"}, value : Pattern \cup Invalid \cup {""}]
      \/ kw \in [name : {"format"}, value : Format \cup {""}]
      \/ kw \in [name : {"unknown"}]
  BY DEF Keyword
<1>3. CASE kw \in [name : NumberKeywords, value : Number]
  BY <1>3
<1>4. CASE kw \in [name : LengthKeywords, value : Nat]
  BY <1>4
<1>5. CASE kw \in [name : {"pattern"}, value : Pattern \cup Invalid \cup {""}]
  BY <1>1, <1>5
<1>6. CASE kw \in [name : {"format"}, value : Format \cup {""}]
  BY <1>1, <1>6
<1>7. CASE kw \in [name : {"unknown"}]
  BY <1>7
<1> QED BY <1>2, <1>3, <1>4, <1>5, <1>6, <1>7

(* The operation of a type accepts what has the type.                      *)
LEMMA GuardAccepts ==
  ASSUME NEW t \in InstanceKind, t \notin {"any", "object"}, NEW c \in Guard(t), NEW d \in JsonValue
  PROVE  Accepts(c, d) <=> HasType(d, t)
<1>1. CASE t = "string"
  <2>1. Guard(t) = {AnyString}
    BY <1>1 DEF Guard
  <2>2. Accepts(AnyString, d) <=> d.kind = "string"
    BY DEF Accepts, StringAccepts, AnyString
  <2> QED BY <1>1, <2>1, <2>2 DEF HasType
<1>2. CASE t = "number"
  <2>1. Guard(t) = {AnyNumber}
    BY <1>2 DEF Guard
  <2>2. Accepts(AnyNumber, d) <=> d.kind = "number"
    BY DEF Accepts, NumberAccepts, AnyNumber
  <2> QED BY <1>2, <2>1, <2>2 DEF HasType
<1>3. CASE t = "integer"
  <2>1. Guard(t) = {[AnyNumber EXCEPT !.integral = TRUE]}
    BY <1>3 DEF Guard
  <2>2. Accepts([AnyNumber EXCEPT !.integral = TRUE], d) <=> d.kind = "number" /\ d.x \in Whole
    BY DEF Accepts, NumberAccepts, AnyNumber
  <2> QED BY <1>3, <2>1, <2>2 DEF HasType
<1> QED BY <1>1, <1>2, <1>3 DEF InstanceKind

(* The operation of a keyword for a type it has a say about decides it.    *)
LEMMA KeywordAccepts ==
  ASSUME NEW kw \in Keyword, kw.name # "unknown", NEW fact \in Accepted(kw), NEW d, HasType(d, fact),
         ~(kw.name = "pattern" /\ kw.value = "")
  PROVE  Accepts(KeywordLattice(kw), d) <=> KeywordHolds(kw, d)
<1>0. /\ kw.name \in NumberKeywords => d.kind = "number"
      /\ kw.name \notin NumberKeywords => d.kind = "string"
  BY DEF Accepted, HasType
<1> DEFINE c == KeywordLattice(kw)
<1>1. CASE kw.name = "minimum"
  <2>1. d.kind = "number"
    BY <1>0, <1>1 DEF NumberKeywords
  <2>2. c = [AnyNumber EXCEPT !.minimum = {kw.value}]
    BY <1>1 DEF KeywordLattice
  <2>3. /\ c.kind = "number" /\ c.minimum = {kw.value} /\ c.maximum = {} /\ c.multipleOf = {}
        /\ ~c.exclusiveMin /\ ~c.exclusiveMax /\ ~c.integral
    BY <2>2 DEF AnyNumber
  <2> HIDE DEF c
  <2>4. Accepts(c, d) <=> d.x >= kw.value
    BY ONLY <2>1, <2>3 DEF Accepts, NumberAccepts
  <2> QED BY <1>1, <2>1, <2>4 DEF KeywordHolds, c
<1>2. CASE kw.name = "maximum"
  <2>1. d.kind = "number"
    BY <1>0, <1>2 DEF NumberKeywords
  <2>2. c = [AnyNumber EXCEPT !.maximum = {kw.value}]
    BY <1>2 DEF KeywordLattice
  <2>3. /\ c.kind = "number" /\ c.minimum = {} /\ c.maximum = {kw.value} /\ c.multipleOf = {}
        /\ ~c.exclusiveMin /\ ~c.exclusiveMax /\ ~c.integral
    BY <2>2 DEF AnyNumber
  <2> HIDE DEF c
  <2>4. Accepts(c, d) <=> d.x =< kw.value
    BY ONLY <2>1, <2>3 DEF Accepts, NumberAccepts
  <2> QED BY <1>2, <2>1, <2>4 DEF KeywordHolds, c
<1>3. CASE kw.name = "exclusiveMinimum"
  <2>1. d.kind = "number"
    BY <1>0, <1>3 DEF NumberKeywords
  <2>2. c = [AnyNumber EXCEPT !.minimum = {kw.value}, !.exclusiveMin = TRUE]
    BY <1>3 DEF KeywordLattice
  <2>3. /\ c.kind = "number" /\ c.minimum = {kw.value} /\ c.maximum = {} /\ c.multipleOf = {}
        /\ c.exclusiveMin /\ ~c.exclusiveMax /\ ~c.integral
    BY <2>2 DEF AnyNumber
  <2> HIDE DEF c
  <2>4. Accepts(c, d) <=> d.x > kw.value
    BY ONLY <2>1, <2>3 DEF Accepts, NumberAccepts
  <2> QED BY <1>3, <2>1, <2>4 DEF KeywordHolds, c
<1>4. CASE kw.name = "exclusiveMaximum"
  <2>1. d.kind = "number"
    BY <1>0, <1>4 DEF NumberKeywords
  <2>2. c = [AnyNumber EXCEPT !.maximum = {kw.value}, !.exclusiveMax = TRUE]
    BY <1>4 DEF KeywordLattice
  <2>3. /\ c.kind = "number" /\ c.minimum = {} /\ c.maximum = {kw.value} /\ c.multipleOf = {}
        /\ ~c.exclusiveMin /\ c.exclusiveMax /\ ~c.integral
    BY <2>2 DEF AnyNumber
  <2> HIDE DEF c
  <2>4. Accepts(c, d) <=> d.x < kw.value
    BY ONLY <2>1, <2>3 DEF Accepts, NumberAccepts
  <2> QED BY <1>4, <2>1, <2>4 DEF KeywordHolds, c
<1>5. CASE kw.name = "multipleOf"
  <2>1. d.kind = "number"
    BY <1>0, <1>5 DEF NumberKeywords
  <2>2. c = [AnyNumber EXCEPT !.multipleOf = {kw.value}]
    BY <1>5 DEF KeywordLattice
  <2>3. /\ c.kind = "number" /\ c.minimum = {} /\ c.maximum = {} /\ c.multipleOf = {kw.value}
        /\ ~c.exclusiveMin /\ ~c.exclusiveMax /\ ~c.integral
    BY <2>2 DEF AnyNumber
  <2> HIDE DEF c
  <2>4. Accepts(c, d) <=> <<d.x, kw.value>> \in Integral
    BY ONLY <2>1, <2>3 DEF Accepts, NumberAccepts
  <2> QED BY <1>5, <2>1, <2>4 DEF KeywordHolds, c
<1>6. CASE kw.name = "minLength"
  <2>1. d.kind = "string"
    BY <1>0, <1>6 DEF NumberKeywords
  <2>2. c = [AnyString EXCEPT !.minLength = {kw.value}]
    BY <1>6 DEF KeywordLattice
  <2>3. /\ c.kind = "string" /\ c.minLength = {kw.value} /\ c.maxLength = {}
        /\ c.pattern = {} /\ c.format = {}
    BY <2>2 DEF AnyString
  <2> HIDE DEF c
  <2>4. Accepts(c, d) <=> d.length >= kw.value
    BY ONLY <2>1, <2>3 DEF Accepts, StringAccepts
  <2> QED BY <1>6, <2>1, <2>4 DEF KeywordHolds, c
<1>7. CASE kw.name = "maxLength"
  <2>1. d.kind = "string"
    BY <1>0, <1>7 DEF NumberKeywords
  <2>2. c = [AnyString EXCEPT !.maxLength = {kw.value}]
    BY <1>7 DEF KeywordLattice
  <2>3. /\ c.kind = "string" /\ c.minLength = {} /\ c.maxLength = {kw.value}
        /\ c.pattern = {} /\ c.format = {}
    BY <2>2 DEF AnyString
  <2> HIDE DEF c
  <2>4. Accepts(c, d) <=> d.length =< kw.value
    BY ONLY <2>1, <2>3 DEF Accepts, StringAccepts
  <2> QED BY <1>7, <2>1, <2>4 DEF KeywordHolds, c
<1>8. CASE kw.name = "pattern"
  <2>1. d.kind = "string"
    BY <1>0, <1>8 DEF NumberKeywords
  <2>2. c = [AnyString EXCEPT !.pattern = {kw.value}]
    BY <1>8 DEF KeywordLattice
  <2>3. /\ c.kind = "string" /\ c.minLength = {} /\ c.maxLength = {}
        /\ c.pattern = {kw.value} /\ c.format = {}
    BY <2>2 DEF AnyString
  <2> HIDE DEF c
  <2>4. Accepts(c, d) <=> kw.value \in d.matches
    BY ONLY <2>1, <2>3 DEF Accepts, StringAccepts
  <2>5. kw.value \in d.matches <=> kw.value \in d.matches \cup {""}
    BY <1>8
  <2> QED BY <1>8, <2>1, <2>4, <2>5 DEF KeywordHolds, c
<1>9. CASE kw.name = "format"
  <2>1. d.kind = "string"
    BY <1>0, <1>9 DEF NumberKeywords
  <2>2. c = [AnyString EXCEPT !.format = {kw.value}]
    BY <1>9 DEF KeywordLattice
  <2>3. /\ c.kind = "string" /\ c.minLength = {} /\ c.maxLength = {}
        /\ c.pattern = {} /\ c.format = {kw.value}
    BY <2>2 DEF AnyString
  <2> HIDE DEF c
  <2>4. Accepts(c, d) <=> kw.value \in d.formats
    BY ONLY <2>1, <2>3 DEF Accepts, StringAccepts
  <2> QED BY <1>9, <2>1, <2>4 DEF KeywordHolds, c
<1>10. kw.name \in NumberKeywords \cup LengthKeywords \cup StringKeywords
  BY KeywordNames
<1> QED BY <1>1, <1>2, <1>3, <1>4, <1>5, <1>6, <1>7, <1>8, <1>9, <1>10
        DEF NumberKeywords, LengthKeywords, StringKeywords

(* A keyword says nothing of a type it is not for, nor does the empty      *)
(* pattern.                                                                *)
LEMMA KeywordElsewhere ==
  ASSUME NEW kw \in Keyword, kw.name # "unknown", NEW fact \in InstanceKind, fact # "any",
         NEW d, HasType(d, fact), fact \notin Accepted(kw) \/ (kw.name = "pattern" /\ kw.value = "")
  PROVE  KeywordHolds(kw, d)
<1>1. kw.name \in NumberKeywords \cup LengthKeywords \cup StringKeywords
  BY KeywordNames
<1>2. CASE kw.name \in NumberKeywords
  <2>1. fact \notin {"number", "integer"}
    BY <1>2 DEF Accepted, NumberKeywords
  <2>2. d.kind # "number"
    BY <2>1 DEF HasType, InstanceKind
  <2> QED BY <1>2, <2>2 DEF KeywordHolds, NumberKeywords
<1>3. CASE kw.name \notin NumberKeywords /\ fact # "string"
  <2>1. d.kind # "string"
    BY <1>3 DEF HasType, InstanceKind
  <2>2. kw.name \notin {"minimum", "maximum", "exclusiveMinimum", "exclusiveMaximum", "multipleOf"}
    BY <1>3 DEF NumberKeywords
  <2> QED BY <2>1, <2>2 DEF KeywordHolds
<1>4. CASE kw.name = "pattern" /\ kw.value = ""
  <2>1. kw.value \in d.matches \cup {""}
    BY <1>4
  <2> QED BY <1>4, <2>1 DEF KeywordHolds
<1> QED BY <1>2, <1>3, <1>4 DEF Accepted

-----------------------------------------------------------------------------
(* What the conjuncts of a call mean.  m is 1 while a call it made is under*)
(* way, 0 otherwise.                                                       *)
Guarded(n, d) == ~IsObject(n) => TypesHold(n, d)

Meets(n, d, k) ==
  \A j \in 1..Len(schema[n].keywords) : j < k => KeywordHolds(schema[n].keywords[j], d)

Joint(c, Y) == \A j \in 1..Len(c.conjuncts) : c.conjuncts[j] \in Y

(* What they mean of every instance, and of one of the kind that is known. *)
AtLeast(e, c, m) ==
  /\ c.at # "guard" => Guarded(c.node, Seen(e, c.node))
  /\ c.at = "allOf" =>
       /\ TypesHold(c.node, Seen(e, c.node))
       /\ \A j \in 1..Len(schema[c.node].allOf) : j < c.k - m => schema[c.node].allOf[j] \in Agree(e)

Exactly(V, e, c, m) ==
  /\ c.at # "guard" => Guarded(c.node, Seen(e, c.node))
  /\ c.at = "keywords" => Meets(c.node, Seen(e, c.node), c.k)
  /\ c.at = "properties" => Meets(c.node, Seen(e, c.node), Len(schema[c.node].keywords) + 1)
  /\ c.at = "allOf" =>
       /\ OwnHolds(V, e, c.node)
       /\ \A j \in 1..Len(schema[c.node].allOf) : j < c.k - m => schema[c.node].allOf[j] \in V

Awaits(V, Y, c, m) ==
  /\ Len(c.verdicts) + m = c.k - 1 /\ c.k - 1 =< Len(Props(c.node))
  /\ \A j \in 1..Len(c.verdicts) : c.verdicts[j] \in Y <=> Props(c.node)[j].schema \in V

Means(V, e, Y, c, m) ==
  /\ Joint(c, Y) => AtLeast(e, c, m)
  /\ Known(c.fact, Seen(e, c.node)) => (Joint(c, Y) <=> Exactly(V, e, c, m))
  /\ c.at = "properties" => Awaits(V, Y, c, m)

(* The fields collected are the names of the properties seen.              *)
Tallied(c) ==
  /\ c.at \in {"guard", "keywords"} => c.fields = <<>>
  /\ c.at = "properties" =>
       /\ IsRow(c.fields) /\ Len(c.fields) = c.k - 1
       /\ \A j \in 1..Len(c.fields) : c.fields[j] = Props(c.node)[j].name

(* A call is for a schema without complaints; the next one is for a branch *)
(* or a property of its schema.                                            *)
Sure(c) ==
  /\ c.fact \in InstanceKind /\ Clean(c.node) /\ Tallied(c)
  /\ c.at = "properties" => IsObject(c.node) \/ c.fact = "object"

Linked(c, t) ==
  \/ /\ c.at = "allOf" /\ c.k - 1 \in 1..Len(schema[c.node].allOf)
     /\ t.node = schema[c.node].allOf[c.k - 1] /\ t.fact = c.fact
  \/ /\ c.at = "properties" /\ c.k - 1 \in 1..Len(Props(c.node))
     /\ t.node = Props(c.node)[c.k - 1].schema /\ t.fact = CollectKind(t.node, "any").kind

Chain(s) ==
  /\ \A f \in 1..Len(s) : Sure(s[f])
  /\ \A f \in 1..Len(s) - 1 : Linked(s[f], s[f + 1])
  /\ Len(s) > 0 => s[1].node = 1 /\ s[1].fact = CollectKind(1, "any").kind

AllMean(V, e, Y, s) == \A f \in 1..Len(s) : Means(V, e, Y, s[f], IF f = Len(s) THEN 0 ELSE 1)

(* Any solution of the recursion of Valid, and any of Verdict.             *)
Decides(s, o, r, over) ==
  /\ JoinsTwo(o) /\ Chain(s)
  /\ over => r \in 1..Len(o)
  /\ \A e \in Instance : \A V, Y :
       IsValidity(V, e) /\ IsAnswer(Y, o, e)
       => AllMean(V, e, Y, s) /\ (over => (r \in Y <=> 1 \in V))

Decided ==
  /\ errors = {} => Decides(stack, ops, ret, stack = <<>> /\ pc # "start")
  /\ pc = "start" => errors = {} /\ stack = <<>>
  /\ pc = "module" => errors = {} /\ stack = <<>>

-----------------------------------------------------------------------------
(* A step leaves the schema alone, so what it makes true of the next state *)
(* can be said of this schema.                                             *)
LEMMA DecidedNext ==
  ASSUME UNCHANGED schema,
         errors' = {} => Decides(stack', ops', ret', stack' = <<>> /\ pc' # "start"),
         pc' \in {"start", "module"} => errors' = {} /\ stack' = <<>>
  PROVE  Decided'
<1>1. /\ Place' = Place /\ Instance' = Instance
      /\ \A V, e : IsValidity(V, e)' <=> IsValidity(V, e)
      /\ \A e, n : Seen(e, n)' = Seen(e, n)
  BY SameSchema
<1>2. schema' = schema
  OBVIOUS
<1>3. \A e : Agree(e)' = Agree(e)
  BY ONLY <1>1, <1>2 DEF Agree, Throughout, TypesHold
<1>4. \A n, have : CollectKind(n, have)' = CollectKind(n, have)
  BY ONLY <1>2 DEF CollectKind, OwnKind
<1>50. \A Y, e : \A v \in 1..Len(ops') : OpHolds(Y, ops[v], e)' <=> OpHolds(Y, ops'[v], e)
  BY ONLY <1>1 DEF OpHolds, Seen
<1>5. \A Y, e : IsAnswer(Y, ops, e)' <=> IsAnswer(Y, ops', e)
  BY ONLY <1>50 DEF IsAnswer
<1>60. \A e : \A n, k : /\ Guarded(n, Seen(e, n))' <=> Guarded(n, Seen(e, n))
                        /\ Meets(n, Seen(e, n), k)' <=> Meets(n, Seen(e, n), k)
                        /\ TypesHold(n, Seen(e, n))' <=> TypesHold(n, Seen(e, n))
                        /\ Props(n)' = Props(n)
  BY ONLY <1>1, <1>2 DEF Guarded, Meets, TypesHold, IsObject, Props
<1>61. \A V, e, n : OwnHolds(V, e, n)' <=> OwnHolds(V, e, n)
  BY ONLY <1>1, <1>2 DEF OwnHolds, ObjectHolds, TypesHold, Needs, Props
<1>62. \A V, e, Y, m : \A f \in 1..Len(stack') : Means(V, e, Y, stack[f], m)' <=> Means(V, e, Y, stack'[f], m)
  BY ONLY <1>1, <1>2, <1>3, <1>60, <1>61 DEF Means, AtLeast, Exactly, Awaits, Joint, Known, HasType
<1>6. \A V, e, Y : AllMean(V, e, Y, stack)' <=> AllMean(V, e, Y, stack')
  BY ONLY <1>62 DEF AllMean
<1>7. Chain(stack)' <=> Chain(stack')
  BY ONLY <1>2, <1>4, Zenon DEF Chain, Sure, Tallied, Linked, Clean, Props, IsObject
<1>8. JoinsTwo(ops)' <=> JoinsTwo(ops')
  BY ONLY DEF JoinsTwo
<1>9. Decides(stack, ops, ret, stack = <<>> /\ pc # "start")'
      <=> Decides(stack', ops', ret', stack' = <<>> /\ pc' # "start")
  BY ONLY <1>1, <1>5, <1>6, <1>7, <1>8 DEF Decides
<1> QED BY <1>9 DEF Decided

(* What holds together afterwards did so before: operations are only added.*)
LEMMA AnswerKept ==
  ASSUME NEW c, MadeBy(c), NEW Y, NEW e, IsAnswer(Y, ops', e)
  PROVE  IsAnswer(Y, ops, e)
BY DEF MadeBy, IsAnswer

(* The conjuncts of two calls for the same schema, at the same place, are  *)
(* linked alike.                                                           *)
LEMMA LinkedAlike ==
  ASSUME NEW c, NEW t, NEW u, Linked(c, t), Alike(u, t)
  PROVE  Linked(c, u)
BY DEF Linked, Alike

(* A step of the innermost call alone.                                     *)
LEMMA BeDecides ==
  ASSUME Tree, stack # <<>>, UNCHANGED <<schema, ret, pc>>, NEW c, Be(c), Alike(c, Top), MadeBy(Top),
         Decides(stack, ops, ret, FALSE), JoinsTwo(ops'), Sure(c),
         \A e \in Instance : \A V, Y :
           IsValidity(V, e) /\ IsAnswer(Y, ops', e) /\ Means(V, e, Y, Top, 0) => Means(V, e, Y, c, 0)
  PROVE  Decides(stack', ops', ret', FALSE)
<1> DEFINE M == Len(stack)
<1>1. M \in Nat /\ M > 0 /\ Top = stack[M]
  BY TopIs
<1>2. Len(stack') = M /\ stack'[M] = c /\ \A f \in 1..M - 1 : stack'[f] = stack[f]
  BY BeShape
<1>3. Chain(stack')
  <2>1. \A f \in 1..M : Sure(stack[f])
    BY DEF Decides, Chain
  <2>2. \A f \in 1..M - 1 : Linked(stack[f], stack[f + 1])
    BY DEF Decides, Chain
  <2>3. stack[1].node = 1 /\ stack[1].fact = CollectKind(1, "any").kind
    BY <1>1 DEF Decides, Chain
  <2> HIDE DEF M
  <2>4. \A f \in 1..M : Sure(stack'[f])
    <3>1. \A f \in 1..M : f = M \/ f \in 1..M - 1
      BY <1>1
    <3> QED BY <1>2, <2>1, <3>1
  <2>5. \A f \in 1..M - 1 : Linked(stack'[f], stack'[f + 1])
    <3> SUFFICES ASSUME NEW f \in 1..M - 1 PROVE Linked(stack'[f], stack'[f + 1])
      OBVIOUS
    <3>1. CASE f + 1 = M
      <4>1. Linked(stack[f], Top)
        BY <1>1, <2>2, <3>1
      <4> QED BY <1>2, <3>1, <4>1, LinkedAlike
    <3>2. CASE f + 1 # M
      <4>1. f + 1 \in 1..M - 1
        BY <1>1, <3>2
      <4> QED BY <1>2, <2>2, <4>1
    <3> QED BY <3>1, <3>2
  <2>6. stack'[1].node = 1 /\ stack'[1].fact = CollectKind(1, "any").kind
    <3>1. CASE M = 1
      BY <1>1, <1>2, <2>3, <3>1 DEF Alike
    <3>2. CASE M # 1
      <4>1. 1 \in 1..M - 1
        BY <1>1, <3>2
      <4> QED BY <1>2, <2>3, <4>1
    <3> QED BY <3>1, <3>2
  <2> QED BY <1>2, <2>4, <2>5, <2>6 DEF Chain
<1>4. ASSUME NEW e \in Instance, NEW V, NEW Y, IsValidity(V, e), IsAnswer(Y, ops', e)
      PROVE  AllMean(V, e, Y, stack')
  <2>1. AllMean(V, e, Y, stack)
    BY <1>4, AnswerKept DEF Decides
  <2>2. \A f \in 1..M : Means(V, e, Y, stack[f], IF f = M THEN 0 ELSE 1)
    BY <2>1 DEF AllMean
  <2>3. M \in 1..M
    BY <1>1
  <2>4. Means(V, e, Y, c, 0)
    BY <1>1, <1>4, <2>2, <2>3
  <2> HIDE DEF M
  <2>5. \A f \in 1..M : Means(V, e, Y, stack'[f], IF f = M THEN 0 ELSE 1)
    <3>1. \A f \in 1..M : f = M \/ f \in 1..M - 1
      BY <1>1
    <3> QED BY <1>2, <2>2, <2>4, <3>1
  <2> QED BY <1>2, <2>5 DEF AllMean
<1> QED BY <1>3, <1>4 DEF Decides

(* A step that starts a call.                                              *)
LEMMA PushDecides ==
  ASSUME Tree, stack # <<>>, UNCHANGED <<schema, ops, ret, pc>>,
         NEW c, NEW d, stack' = Front(stack) \o <<c, d>>, Alike(c, Top),
         Decides(stack, ops, ret, FALSE), Sure(c), Sure(d), Linked(c, d),
         \A e \in Instance : \A V, Y :
           IsValidity(V, e) /\ Means(V, e, Y, Top, 0) => Means(V, e, Y, c, 1) /\ Means(V, e, Y, d, 0)
  PROVE  Decides(stack', ops', ret', FALSE)
<1> DEFINE M == Len(stack)
<1>1. M \in Nat /\ M > 0 /\ Top = stack[M]
  BY TopIs
<1>2. /\ Len(stack') = M + 1 /\ stack'[M + 1] = d /\ stack'[M] = c
      /\ \A f \in 1..M - 1 : stack'[f] = stack[f]
  BY PushShape
<1>3. Chain(stack')
  <2>1. \A f \in 1..M : Sure(stack[f])
    BY DEF Decides, Chain
  <2>2. \A f \in 1..M - 1 : Linked(stack[f], stack[f + 1])
    BY DEF Decides, Chain
  <2>3. stack[1].node = 1 /\ stack[1].fact = CollectKind(1, "any").kind
    BY <1>1 DEF Decides, Chain
  <2> HIDE DEF M
  <2>4. \A f \in 1..M + 1 : Sure(stack'[f])
    <3>1. \A f \in 1..M + 1 : f = M + 1 \/ f = M \/ f \in 1..M - 1
      BY <1>1
    <3>2. \A f \in 1..M - 1 : f \in 1..M
      BY <1>1
    <3> QED BY <1>2, <2>1, <3>1, <3>2
  <2>5. \A f \in 1..M : Linked(stack'[f], stack'[f + 1])
    <3> SUFFICES ASSUME NEW f \in 1..M PROVE Linked(stack'[f], stack'[f + 1])
      OBVIOUS
    <3>1. CASE f = M
      BY <1>2, <3>1
    <3>2. CASE f + 1 = M
      <4>1. f \in 1..M - 1
        BY <1>1, <3>2
      <4>2. Linked(stack[f], Top)
        BY <1>1, <2>2, <3>2, <4>1
      <4> QED BY <1>2, <3>2, <4>1, <4>2, LinkedAlike
    <3>3. CASE f # M /\ f + 1 # M
      <4>1. f \in 1..M - 1 /\ f + 1 \in 1..M - 1
        BY <1>1, <3>3
      <4> QED BY <1>2, <2>2, <4>1
    <3> QED BY <3>1, <3>2, <3>3
  <2>6. stack'[1].node = 1 /\ stack'[1].fact = CollectKind(1, "any").kind
    <3>1. CASE M = 1
      BY <1>1, <1>2, <2>3, <3>1 DEF Alike
    <3>2. CASE M # 1
      <4>1. 1 \in 1..M - 1
        BY <1>1, <3>2
      <4> QED BY <1>2, <2>3, <4>1
    <3> QED BY <3>1, <3>2
  <2>7. Len(stack') - 1 = M
    BY <1>1, <1>2
  <2>8. \A f \in 1..Len(stack') : Sure(stack'[f])
    BY <1>2, <2>4
  <2>9. \A f \in 1..Len(stack') - 1 : Linked(stack'[f], stack'[f + 1])
    BY <2>5, <2>7
  <2> QED BY ONLY <2>6, <2>8, <2>9 DEF Chain
<1>4. ASSUME NEW e \in Instance, NEW V, NEW Y, IsValidity(V, e), IsAnswer(Y, ops, e)
      PROVE  AllMean(V, e, Y, stack')
  <2>1. AllMean(V, e, Y, stack)
    BY <1>4 DEF Decides
  <2>2. \A f \in 1..M : Means(V, e, Y, stack[f], IF f = M THEN 0 ELSE 1)
    BY <2>1 DEF AllMean
  <2>3. M \in 1..M
    BY <1>1
  <2>4. Means(V, e, Y, c, 1) /\ Means(V, e, Y, d, 0)
    BY <1>1, <1>4, <2>2, <2>3
  <2> HIDE DEF M
  <2>5. \A f \in 1..M - 1 : Means(V, e, Y, stack[f], 1)
    <3>1. \A f \in 1..M - 1 : f \in 1..M /\ f # M
      BY <1>1
    <3> QED BY <2>2, <3>1
  <2>6. \A f \in 1..M + 1 : Means(V, e, Y, stack'[f], IF f = M + 1 THEN 0 ELSE 1)
    <3>1. \A f \in 1..M + 1 : f = M + 1 \/ (f = M /\ f # M + 1) \/ (f \in 1..M - 1 /\ f # M + 1)
      BY <1>1
    <3> QED BY <1>2, <2>4, <2>5, <3>1
  <2> QED BY <1>2, <2>6 DEF AllMean
<1>5. ops' = ops
  OBVIOUS
<1> QED BY <1>3, <1>4, <1>5 DEF Decides

-----------------------------------------------------------------------------
(* A call at its end: its conjuncts hold together only of what has all the *)
(* types of its schema, and, of what is of the kind that was known, exactly*)
(* of what satisfies the schema.                                           *)
AtEnd(t) ==
  /\ t.node \in DOMAIN schema /\ t.k \in Nat
  /\ t.at = "allOf" /\ t.k > Len(schema[t.node].allOf)

(* What the conjuncts mean when the last branch has been seen.             *)
LEMMA EndMeans ==
  ASSUME schema \in Schemas, NEW t, AtEnd(t), NEW e, NEW V, NEW Y,
         IsValidity(V, e), Means(V, e, Y, t, 0)
  PROVE  /\ Joint(t, Y) => t.node \in Agree(e)
         /\ Known(t.fact, Seen(e, t.node)) => (Joint(t, Y) <=> t.node \in V)
<1> DEFINE n == t.node
           L == Len(schema[n].allOf)
<1>1. L \in Nat /\ n \in DOMAIN schema /\ schema[n].allOf \in Seq(Nat)
  BY ChildrenAre DEF AtEnd
<1>2. \A j \in 1..L : j < t.k - 0
  BY <1>1 DEF AtEnd
<1>3. AtLeast(e, t, 0) => n \in Agree(e)
  <2>1. AtLeast(e, t, 0) =>
          TypesHold(n, Seen(e, n)) /\ \A j \in 1..L : schema[n].allOf[j] \in Agree(e)
    BY <1>2 DEF AtLeast, AtEnd
  <2> QED BY <1>1, <2>1, AgreeIs
<1>4. Exactly(V, e, t, 0) <=> n \in V
  <2>1. \A b \in ToSet(schema[n].allOf) : \E j \in 1..L : b = schema[n].allOf[j]
    <3>1. \A s \in Seq(Nat) : \A b \in ToSet(s) : \E j \in 1..Len(s) : b = s[j]
      BY DEF ToSet
    <3> QED BY <1>1, <3>1
  <2>2. \A j \in 1..L : schema[n].allOf[j] \in ToSet(schema[n].allOf)
    <3>1. \A s \in Seq(Nat) : \A j \in 1..Len(s) : s[j] \in ToSet(s)
      BY DEF ToSet
    <3> QED BY <1>1, <3>1
  <2>3. NodeHolds(V, e, n) <=> OwnHolds(V, e, n) /\ \A j \in 1..L : schema[n].allOf[j] \in V
    BY <2>1, <2>2, Zenon DEF NodeHolds
  <2>4. OwnHolds(V, e, n) => Guarded(n, Seen(e, n))
    BY DEF OwnHolds, Guarded
  <2>5. Exactly(V, e, t, 0) <=> OwnHolds(V, e, n) /\ \A j \in 1..L : schema[n].allOf[j] \in V
    BY <1>2, <2>4 DEF Exactly, AtEnd
  <2>6. n \in V <=> NodeHolds(V, e, n)
    BY <1>1 DEF IsValidity
  <2> QED BY <2>3, <2>5, <2>6
<1> QED BY <1>3, <1>4 DEF Means

(* When the kind is what the schema itself gives, the conjuncts decide it. *)
LEMMA EndDecides ==
  ASSUME schema \in Schemas, NEW t, AtEnd(t), t.fact = CollectKind(t.node, "any").kind,
         NEW e \in Instance, NEW V, NEW Y, IsValidity(V, e), Means(V, e, Y, t, 0)
  PROVE  Joint(t, Y) <=> t.node \in V
<1>1. /\ Joint(t, Y) => t.node \in Agree(e)
      /\ Known(t.fact, Seen(e, t.node)) => (Joint(t, Y) <=> t.node \in V)
  BY EndMeans
<1>2. t.node \in V => t.node \in Agree(e)
  BY ValidAgrees
<1>3. t.node \in Agree(e) => Known(t.fact, Seen(e, t.node))
  <2>1. "any" \in InstanceKind /\ Known("any", Seen(e, t.node))
    BY DEF InstanceKind, Known
  <2>2. \A m \in DOMAIN schema : Seen(e, m) \in JsonValue
    BY SeenIs
  <2>3. t.node \in DOMAIN schema
    BY DEF AtEnd
  <2> QED BY <2>1, <2>2, <2>3, AgreeKnows
<1> QED BY <1>1, <1>2, <1>3

(* What the caller makes of the verdict.                                   *)
LEMMA CallerMeans ==
  ASSUME schema \in Schemas, NEW c, IsCall(c), NEW t, AtEnd(t), Linked(c, t),
         NEW e \in Instance, NEW V, NEW Y, IsValidity(V, e),
         Means(V, e, Y, t, 0), Means(V, e, Y, c, 1), NEW v, v \in Y <=> Joint(t, Y)
  PROVE  Means(V, e, Y, Returned(c, v), 0)
<1>0. /\ c.node \in DOMAIN schema /\ c.k \in Nat /\ c.conjuncts \in Seq(Nat) /\ c.verdicts \in Seq(Nat)
      /\ DOMAIN c = CallField
  BY DEF IsCall
<1>1. CASE c.at = "allOf"
  <2> DEFINE n == c.node
             d == Conjoin(c, v)
             L == Len(schema[n].allOf)
  <2>1. /\ Returned(c, v) = d /\ d.node = n /\ d.at = "allOf" /\ d.k = c.k /\ d.fact = c.fact
        /\ d.conjuncts = Append(c.conjuncts, v)
    BY <1>0, <1>1 DEF Returned, Conjoin, CallField
  <2>2. c.k - 1 \in 1..L /\ t.node = schema[n].allOf[c.k - 1] /\ t.fact = c.fact
    BY <1>1 DEF Linked
  <2>3. Joint(d, Y) <=> Joint(c, Y) /\ v \in Y
    <3>1. \A s \in Seq(Nat) : (\A j \in 1..Len(Append(s, v)) : Append(s, v)[j] \in Y)
                              <=> (\A j \in 1..Len(s) : s[j] \in Y) /\ v \in Y
      <4> SUFFICES ASSUME NEW s \in Seq(Nat)
                   PROVE  (\A j \in 1..Len(Append(s, v)) : Append(s, v)[j] \in Y)
                          <=> (\A j \in 1..Len(s) : s[j] \in Y) /\ v \in Y
        OBVIOUS
      <4>1. /\ Len(Append(s, v)) = Len(s) + 1 /\ Append(s, v)[Len(s) + 1] = v
            /\ \A j \in 1..Len(s) : Append(s, v)[j] = s[j]
            /\ Len(s) \in Nat
        OBVIOUS
      <4>2. \A j \in 1..Len(s) + 1 : j \in 1..Len(s) \/ j = Len(s) + 1
        BY <4>1
      <4>3. \A j \in 1..Len(s) : j \in 1..Len(s) + 1
        BY <4>1
      <4>4. Len(s) + 1 \in 1..Len(s) + 1
        BY <4>1
      <4> QED BY <4>1, <4>2, <4>3, <4>4
    <3> QED BY <1>0, <2>1, <3>1 DEF Joint
  <2> HIDE DEF d, n
  <2>4. Seen(e, t.node) = Seen(e, n)
    BY <1>0, <2>2, PlaceIs DEF Seen, n
  <2>5. /\ Joint(t, Y) => t.node \in Agree(e)
        /\ Known(t.fact, Seen(e, t.node)) => (Joint(t, Y) <=> t.node \in V)
    BY EndMeans
  <2>6. \A j \in 1..L : j < c.k - 0 <=> (j < c.k - 1 \/ j = c.k - 1)
    BY <1>0
  <2>7. ASSUME Joint(d, Y) PROVE AtLeast(e, d, 0)
    <3>1. AtLeast(e, c, 1) /\ schema[n].allOf[c.k - 1] \in Agree(e)
      BY <2>2, <2>3, <2>5, <2>7 DEF Means
    <3> QED BY <1>1, <2>1, <2>6, <3>1 DEF AtLeast, n
  <2>8. ASSUME Known(d.fact, Seen(e, d.node)) PROVE Joint(d, Y) <=> Exactly(V, e, d, 0)
    <3>1. Joint(c, Y) <=> Exactly(V, e, c, 1)
      BY <2>1, <2>8 DEF Means, n
    <3>2. v \in Y <=> schema[n].allOf[c.k - 1] \in V
      BY <2>1, <2>2, <2>4, <2>5, <2>8
    <3>3. Exactly(V, e, d, 0) <=> Exactly(V, e, c, 1) /\ schema[n].allOf[c.k - 1] \in V
      BY <1>1, <2>1, <2>2, <2>6 DEF Exactly, n
    <3> QED BY <2>3, <3>1, <3>2, <3>3
  <2> QED BY <2>1, <2>7, <2>8 DEF Means
<1>2. CASE c.at = "properties"
  <2> DEFINE n == c.node
             d == [c EXCEPT !.verdicts = Append(@, v)]
  <2>1. /\ Returned(c, v) = d /\ d.node = n /\ d.at = "properties" /\ d.k = c.k /\ d.fact = c.fact
        /\ d.conjuncts = c.conjuncts /\ d.verdicts = Append(c.verdicts, v)
    BY <1>0, <1>2 DEF Returned, CallField
  <2>2. c.k - 1 \in 1..Len(Props(n)) /\ t.node = Props(n)[c.k - 1].schema /\ t.fact = CollectKind(t.node, "any").kind
    BY <1>2 DEF Linked
  <2>3. Joint(d, Y) <=> Joint(c, Y)
    BY <2>1 DEF Joint
  <2> HIDE DEF d, n
  <2>4. AtLeast(e, d, 0) <=> AtLeast(e, c, 1)
    BY <1>2, <2>1 DEF AtLeast, n
  <2>5. Exactly(V, e, d, 0) <=> Exactly(V, e, c, 1)
    BY <1>2, <2>1 DEF Exactly, n
  <2>6. v \in Y <=> Props(n)[c.k - 1].schema \in V
    BY <2>2, EndDecides
  <2>7. Awaits(V, Y, d, 0)
    <3>1. Awaits(V, Y, c, 1)
      BY <1>2 DEF Means
    <3>2. Len(c.verdicts) + 1 = c.k - 1 /\ Len(c.verdicts) \in Nat
      BY <1>0, <3>1 DEF Awaits
    <3>3. /\ Len(d.verdicts) = Len(c.verdicts) + 1 /\ d.verdicts[Len(c.verdicts) + 1] = v
          /\ \A j \in 1..Len(c.verdicts) : d.verdicts[j] = c.verdicts[j]
      BY <1>0, <2>1
    <3>4. \A j \in 1..Len(c.verdicts) + 1 : j \in 1..Len(c.verdicts) \/ j = Len(c.verdicts) + 1
      BY <3>2
    <3>5. \A j \in 1..Len(d.verdicts) : d.verdicts[j] \in Y <=> Props(n)[j].schema \in V
      BY <2>6, <3>1, <3>2, <3>3, <3>4 DEF Awaits, n
    <3>6. Len(d.verdicts) + 0 = d.k - 1
      BY <2>1, <3>2, <3>3
    <3> QED BY <2>1, <3>1, <3>5, <3>6 DEF Awaits, n
  <2> QED BY <2>1, <2>3, <2>4, <2>5, <2>7 DEF Means, n
<1> QED BY <1>1, <1>2 DEF Linked

-----------------------------------------------------------------------------
(* The conjunctions Return makes of some conjuncts, from the left.         *)
Conjoins(made, n, cs) ==
  /\ IsRow(made)
  /\ cs = <<>> => Len(made) = 1 /\ made[1] = [op |-> "true", loc |-> n]
  /\ cs # <<>> =>
       /\ Len(made) = Len(cs) - 1
       /\ \A k \in 1..Len(made) :
            made[k] = [op |-> "and", loc |-> n,
                       args |-> <<IF k = 1 THEN cs[1] ELSE Len(ops) + k - 1, cs[k + 1]>>]

(* It is what Conjunction makes.                                           *)
LEMMA ConjunctionConjoins ==
  ASSUME NEW n, NEW cs \in Seq(Nat)
  PROVE  Conjoins(Conjunction(n, cs), n, cs)
<1>1. /\ IsRow(Conjunction(n, cs))
      /\ Len(Conjunction(n, cs)) = IF cs = <<>> THEN 1 ELSE Len(cs) - 1
      /\ \A k \in 1..Len(Conjunction(n, cs)) :
           Conjunction(n, cs)[k] =
             IF cs = <<>> THEN [op |-> "true", loc |-> n]
             ELSE [op |-> "and", loc |-> n,
                   args |-> <<IF k = 1 THEN cs[1] ELSE Len(ops) + k - 1, cs[k + 1]>>]
  BY ConjunctionIs
<1> DEFINE made == Conjunction(n, cs)
<1> HIDE DEF made
<1>2. IsRow(made) /\ Len(made) = IF cs = <<>> THEN 1 ELSE Len(cs) - 1
  BY <1>1 DEF made
<1>3. \A k \in 1..Len(made) :
        /\ cs = <<>> => made[k] = [op |-> "true", loc |-> n]
        /\ cs # <<>> => made[k] = [op |-> "and", loc |-> n,
                                  args |-> <<IF k = 1 THEN cs[1] ELSE Len(ops) + k - 1, cs[k + 1]>>]
  BY <1>1, Zenon DEF made
<1>4. cs = <<>> => Len(made) = 1 /\ made[1] = [op |-> "true", loc |-> n]
  <2> SUFFICES ASSUME cs = <<>> PROVE Len(made) = 1 /\ made[1] = [op |-> "true", loc |-> n]
    OBVIOUS
  <2>1. Len(made) = 1
    BY <1>2
  <2>2. 1 \in 1..Len(made)
    BY ONLY <2>1
  <2> QED BY <1>3, <2>1, <2>2, Zenon
<1>5. cs # <<>> => Len(made) = Len(cs) - 1
  BY <1>2
<1> QED BY <1>2, <1>3, <1>4, <1>5, Zenon DEF Conjoins, made

(* They hold when all the conjuncts do.                                    *)
LEMMA ChainMeans ==
  ASSUME Tree, NEW n, NEW cs \in Seq(Nat), cs # <<>>, ops' = ops \o Conjunction(n, cs),
         NEW Y, NEW e, IsAnswer(Y, ops', e)
  PROVE  \A k \in 1..Len(cs) - 1 : Len(ops) + k \in Y <=> \A j \in 1..k + 1 : cs[j] \in Y
<1> DEFINE N == Len(ops)
           L == Len(cs)
           made == Conjunction(n, cs)
           first(k) == IF k = 1 THEN cs[1] ELSE N + k - 1
<1>1. IsRow(ops) /\ N \in Nat /\ L \in Nat /\ L > 0
  BY RowLen DEF Tree, Shape, Made
<1>10. Conjoins(made, n, cs) /\ ops' = ops \o made
  BY ConjunctionConjoins
<1> HIDE DEF made
<1>2. /\ IsRow(made) /\ Len(made) = L - 1
      /\ \A k \in 1..L - 1 : made[k] = [op |-> "and", loc |-> n, args |-> <<first(k), cs[k + 1]>>]
  BY <1>10 DEF Conjoins
<1>3. Len(ops') = N + (L - 1) /\ \A k \in 1..L - 1 : ops'[N + k] = made[k]
  <2>1. IsRow(made) /\ Len(made) = L - 1 /\ IsRow(ops) /\ ops' = ops \o made
    BY <1>1, <1>2, <1>10
  <2>2. Len(ops \o made) = Len(ops) + Len(made) /\ \A k \in 1..Len(made) : (ops \o made)[Len(ops) + k] = made[k]
    <3>1. IsRow(ops) /\ IsRow(made)
      BY ONLY <2>1, Zenon
    <3> QED BY ONLY <3>1, RowConcat
  <2>3. Len(made) = L - 1 /\ ops' = ops \o made
    BY <2>1
  <2> QED BY ONLY <2>2, <2>3
<1>4. \A k \in 1..L - 1 : N + k \in Y <=> first(k) \in Y /\ cs[k + 1] \in Y
  <2> SUFFICES ASSUME NEW k \in 1..L - 1 PROVE N + k \in Y <=> first(k) \in Y /\ cs[k + 1] \in Y
    OBVIOUS
  <2>1. N + k \in 1..Len(ops')
    BY <1>1, <1>3
  <2>2. N + k \in Y <=> OpHolds(Y, ops'[N + k], e)
    BY <2>1 DEF IsAnswer
  <2>3. ops'[N + k] = [op |-> "and", loc |-> n, args |-> <<first(k), cs[k + 1]>>]
    BY <1>2, <1>3
  <2> HIDE DEF first
  <2>4. /\ ops'[N + k].op = "and" /\ ops'[N + k].args[1] = first(k) /\ ops'[N + k].args[2] = cs[k + 1]
    BY <2>3
  <2> QED BY <2>2, <2>4 DEF OpHolds
<1> DEFINE P == {k \in Nat : k \in 1..L - 1 => (N + k \in Y <=> \A j \in 1..k + 1 : cs[j] \in Y)}
<1> HIDE DEF N, L
<1>5. ASSUME NEW k \in Nat, \A j \in 0..k - 1 : j \in P
      PROVE  k \in P
  <2> SUFFICES ASSUME k \in 1..L - 1 PROVE N + k \in Y <=> \A j \in 1..k + 1 : cs[j] \in Y
    OBVIOUS
  <2>1. CASE k = 1
    <3>1. N + k \in Y <=> cs[1] \in Y /\ cs[2] \in Y
      BY <1>4, <2>1
    <3>2. \A j \in 1..k + 1 : j = 1 \/ j = 2
      BY <2>1
    <3>3. 1 \in 1..k + 1 /\ 2 \in 1..k + 1
      BY <2>1
    <3> QED BY <3>1, <3>2, <3>3
  <2>2. CASE k # 1
    <3>1. k - 1 \in 0..k - 1 /\ k - 1 \in 1..L - 1 /\ N + (k - 1) = N + k - 1 /\ (k - 1) + 1 = k
      BY <1>1, <2>2
    <3>2. N + k - 1 \in Y <=> \A j \in 1..k : cs[j] \in Y
      BY <1>5, <3>1
    <3>3. N + k \in Y <=> N + k - 1 \in Y /\ cs[k + 1] \in Y
      BY <1>4, <2>2
    <3>4. /\ \A j \in 1..k + 1 : j \in 1..k \/ j = k + 1
          /\ k + 1 \in 1..k + 1 /\ \A j \in 1..k : j \in 1..k + 1
      OBVIOUS
    <3> QED BY <3>2, <3>3, <3>4
  <2> QED BY <2>1, <2>2
<1> HIDE DEF P
<1>6. Nat \subseteq P
  BY <1>5, Induction
<1>7. \A k \in 1..L - 1 : k \in Nat
  OBVIOUS
<1> QED BY <1>6, <1>7 DEF P, N, L

(* What importSchema returns to its caller.                                *)
GivenBack ==
  LET made == Conjunction(Top.node, Top.conjuncts)
  IN IF made = <<>> THEN Top.conjuncts[1] ELSE Len(ops) + Len(made)

(* What is given back holds exactly when all the conjuncts do.             *)
LEMMA ReturnAnswers ==
  ASSUME Tree, Return, JoinsTwo(ops)
  PROVE  /\ HandsOver(GivenBack) /\ GivenBack \in 1..Len(ops') /\ JoinsTwo(ops')
         /\ \A e, Y : IsAnswer(Y, ops', e) => (GivenBack \in Y <=> Joint(Top, Y))
<1> DEFINE n  == Top.node
           cs == Top.conjuncts
           made == Conjunction(n, cs)
           N == Len(ops)
           L == Len(cs)
<1>1. /\ stack # <<>> /\ Top.at = "allOf" /\ ops' = ops \o made
  BY DEF Return, At
<1>2. HandsOver(GivenBack)
  BY DEF Return, HandsOver, Returned, GivenBack
<1>3. cs \in Seq(Nat) /\ N \in Nat
  BY <1>1, TopShape DEF IsCall
<1>4. IsRow(ops) /\ L \in Nat /\ (cs = <<>> <=> L = 0)
  BY <1>3 DEF Tree, Shape, Made
<1>6. GivenBack = IF made = <<>> THEN cs[1] ELSE N + Len(made)
  BY DEF GivenBack
<1>50. Conjoins(made, n, cs)
  BY <1>3, ConjunctionConjoins
<1> HIDE DEF made, n
<1>5. /\ IsRow(made)
      /\ cs = <<>> => Len(made) = 1 /\ made[1] = [op |-> "true", loc |-> n]
      /\ cs # <<>> =>
           /\ Len(made) = L - 1
           /\ \A k \in 1..Len(made) :
                made[k] = [op |-> "and", loc |-> n,
                           args |-> <<IF k = 1 THEN cs[1] ELSE N + k - 1, cs[k + 1]>>]
  BY <1>50 DEF Conjoins
<1>51. cs = <<>> => Len(made) = 1 /\ made[1] = [op |-> "true", loc |-> n]
  BY <1>5
<1>54. cs = <<>> => Len(made) = 1
  BY <1>51, Zenon
<1>52. cs # <<>> => Len(made) = L - 1
  BY <1>5
<1>7. Len(made) \in Nat /\ (made = <<>> <=> Len(made) = 0)
  BY <1>5, RowLen DEF IsRow
<1>8. /\ Len(ops') = N + Len(made) /\ (\A v \in 1..N : ops'[v] = ops[v])
      /\ \A k \in 1..Len(made) : ops'[N + k] = made[k]
  BY <1>1, <1>4, <1>5, RowConcat
<1>9. GivenBack \in 1..Len(ops')
  <2>1. CASE made = <<>>
    <3>1. L = 1
      BY <1>4, <1>51, <1>52, <1>7, <2>1
    <3>2. cs[1] \in ToSet(cs)
      <4>1. \A s \in Seq(Nat) : Len(s) = 1 => s[1] \in ToSet(s)
        BY DEF ToSet
      <4> QED BY <1>3, <3>1, <4>1
    <3>3. ToSet(cs) \subseteq 1..N
      BY <1>1, TopShape DEF Holding
    <3>4. \A v \in 1..N : v \in 1..N + Len(made)
      BY <1>3, <1>7
    <3> QED BY <1>6, <1>8, <2>1, <3>2, <3>3, <3>4
  <2>2. CASE made # <<>>
    BY <1>3, <1>6, <1>7, <1>8, <2>2
  <2> QED BY <2>1, <2>2
<1>10. JoinsTwo(ops')
  <2> SUFFICES ASSUME NEW v \in 1..Len(ops'), ops'[v].op = "and" PROVE {1, 2} \subseteq DOMAIN ops'[v].args
    BY DEF JoinsTwo
  <2>1. CASE v \in 1..N
    BY <1>8, <2>1 DEF JoinsTwo
  <2>2. CASE v \notin 1..N
    <3>1. v - N \in 1..Len(made) /\ v = N + (v - N)
      BY <1>3, <1>7, <1>8, <2>2
    <3>2. ops'[v] = made[v - N]
      BY <1>8, <3>1
    <3>3. cs # <<>>
      <4> SUFFICES ASSUME cs = <<>> PROVE FALSE
        OBVIOUS
      <4>0. cs = <<>>
        OBVIOUS
      <4>1. v - N = 1
        <5>1. v - N \in 1..1
          BY <1>54, <3>1, <4>0
        <5>2. \A x \in 1..1 : x = 1
          OBVIOUS
        <5> QED BY <5>1, <5>2, Zenon
      <4>2. ops'[v].op = "true"
        BY <1>51, <3>2, <4>0, <4>1
      <4> QED BY <4>2
    <3> DEFINE a == IF v - N = 1 THEN cs[1] ELSE N + (v - N) - 1
               b == cs[(v - N) + 1]
    <3>4. ops'[v] = [op |-> "and", loc |-> n, args |-> <<a, b>>]
      BY <1>5, <3>1, <3>2, <3>3
    <3> HIDE DEF a, b
    <3> QED BY <3>4
  <2> QED BY <2>1, <2>2
<1>11. ASSUME NEW e, NEW Y, IsAnswer(Y, ops', e)
       PROVE  GivenBack \in Y <=> \A j \in 1..L : cs[j] \in Y
  <2>1. CASE cs = <<>>
    <3>1. GivenBack = N + 1 /\ Len(ops') = N + 1 /\ ops'[N + 1] = made[1] /\ made[1] = [op |-> "true", loc |-> n]
      <4>1. Len(made) = 1 /\ 1 \in 1..Len(made)
        BY ONLY <1>54, <2>1
      <4> QED BY <1>51, <1>6, <1>7, <1>8, <2>1, <4>1
    <3>2. N + 1 \in 1..Len(ops')
      BY <1>3, <3>1
    <3>3. OpHolds(Y, ops'[N + 1], e)
      BY <3>1 DEF OpHolds
    <3>4. \A j \in 1..L : FALSE
      BY <1>4, <2>1
    <3> QED BY <1>11, <3>1, <3>2, <3>3, <3>4 DEF IsAnswer
  <2>2. CASE L = 1
    <3>1. made = <<>>
      BY <1>4, <1>52, <1>7, <2>2
    <3>2. \A j \in 1..L : j = 1
      BY <2>2
    <3>3. 1 \in 1..L
      BY <2>2
    <3> QED BY <1>6, <3>1, <3>2, <3>3
  <2>3. CASE cs # <<>> /\ L # 1
    <3>1. Len(made) = L - 1 /\ made # <<>> /\ L - 1 \in 1..L - 1 /\ (L - 1) + 1 = L
      <4>1. L \in Nat /\ L # 0 /\ L # 1 /\ Len(made) = L - 1
        BY <1>4, <1>52, <2>3
      <4> HIDE DEF L
      <4> QED BY ONLY <1>7, <4>1
    <3>2. \A k \in 1..L - 1 : N + k \in Y <=> \A j \in 1..k + 1 : cs[j] \in Y
      <4>1. ops' = ops \o Conjunction(n, cs)
        BY <1>1 DEF made
      <4> QED BY <1>3, <1>11, <2>3, <4>1, ChainMeans
    <3>3. N + (L - 1) \in Y <=> \A j \in 1..(L - 1) + 1 : cs[j] \in Y
      <4> HIDE DEF L
      <4> QED BY <3>1, <3>2
    <3> QED BY <1>6, <3>1, <3>3
  <2> QED BY <2>1, <2>2, <2>3
<1> QED BY <1>2, <1>9, <1>10, <1>11 DEF Joint

(* A call that returns: the caller knows what the verdict means.           *)
LEMMA PopDecides ==
  ASSUME Tree, Return, Decides(stack, ops, ret, FALSE)
  PROVE  Decides(stack', ops', ret', stack' = <<>>)
<1> DEFINE M == Len(stack)
           v == GivenBack
<1>1. stack # <<>> /\ UNCHANGED <<schema, args, pc, errors>> /\ Follow /\ MadeBy(Top)
  BY ReturnGoes
<1>2. /\ HandsOver(v) /\ v \in 1..Len(ops') /\ JoinsTwo(ops')
      /\ \A e, Y : IsAnswer(Y, ops', e) => (v \in Y <=> Joint(Top, Y))
  BY ReturnAnswers DEF Decides
<1> HIDE DEF v
<1>3. M \in Nat /\ M > 0 /\ Top = stack[M] /\ \A f \in 1..M : IsCall(stack[f])
  BY <1>1, TopIs
<1>4. AtEnd(Top) /\ schema \in Schemas
  BY <1>1, TopShape DEF Return, At, AtEnd, IsCall, Tree, Shape
<1>5. /\ \A f \in 1..M : Sure(stack[f])
      /\ \A f \in 1..M - 1 : Linked(stack[f], stack[f + 1])
      /\ stack[1].node = 1 /\ stack[1].fact = CollectKind(1, "any").kind
  BY <1>3 DEF Decides, Chain
<1>6. ASSUME NEW e \in Instance, NEW V, NEW Y, IsValidity(V, e), IsAnswer(Y, ops', e)
      PROVE  \A f \in 1..M : Means(V, e, Y, stack[f], IF f = M THEN 0 ELSE 1)
  BY <1>1, <1>6, AnswerKept DEF Decides, AllMean
<1>7. CASE M = 1
  <2>1. stack' = <<>> /\ Len(stack') = 0 /\ ret' = v
    BY <1>1, <1>2, <1>7, PopShape
  <2>2. Chain(stack')
    BY <2>1 DEF Chain
  <2>3. ASSUME NEW e \in Instance, NEW V, NEW Y, IsValidity(V, e), IsAnswer(Y, ops', e)
        PROVE  AllMean(V, e, Y, stack') /\ (ret' \in Y <=> 1 \in V)
    <3>1. Means(V, e, Y, Top, 0)
      <4>1. M \in 1..M
        BY <1>3
      <4> QED BY <1>3, <1>6, <2>3, <4>1
    <3>2. Joint(Top, Y) <=> 1 \in V
      BY <1>3, <1>4, <1>5, <1>7, <2>3, <3>1, EndDecides
    <3> QED BY <1>2, <2>1, <2>3, <3>2 DEF AllMean
  <2> QED BY <1>2, <2>1, <2>2, <2>3 DEF Decides
<1>8. CASE M # 1
  <2> DEFINE K == M - 1
             c == stack[K]
             d == Returned(c, v)
  <2>0. K \in Nat /\ K > 0 /\ M = K + 1
    <3>1. M \in Nat /\ M > 0
      BY <1>3
    <3> HIDE DEF M
    <3> QED BY ONLY <1>8, <3>1
  <2>1. /\ K \in Nat /\ K > 0 /\ K \in 1..M /\ K \in 1..M - 1 /\ K + 1 = M /\ K # M
        /\ \A f \in 1..K : f = K \/ f \in 1..K - 1
        /\ \A f \in 1..K - 1 : f \in 1..M /\ f \in 1..M - 1 /\ f # M /\ f \in 1..K /\ f # K
    <3> HIDE DEF M, K
    <3> QED BY ONLY <2>0
  <2>2. /\ Len(stack') = K /\ stack'[K] = d /\ \A f \in 1..K - 1 : stack'[f] = stack[f]
    <3>1. /\ Len(stack') = M - 1 /\ stack'[M - 1] = Returned(stack[M - 1], v)
          /\ \A f \in 1..M - 2 : stack'[f] = stack[f]
      BY <1>1, <1>2, <1>8, PopShape
    <3>2. K - 1 = M - 2
      BY <1>3
    <3> QED BY <3>1, <3>2
  <2>3. stack' # <<>>
    <3>1. Len(stack') > 0
      BY <2>0, <2>2
    <3>2. Len(<<>>) = 0
      BY SMTT(30)
    <3> QED BY <3>1, <3>2
  <2>4. IsCall(c) /\ Sure(c) /\ Linked(c, Top)
    BY <1>3, <1>5, <2>1, Zenon
  <2>5. Alike(d, c) /\ d.at = c.at /\ d.k = c.k /\ d.fields = c.fields
    <3>1. Alike(d, c)
      BY <2>4, SameCall
    <3>2. d.at = c.at /\ d.k = c.k /\ d.fields = c.fields
      BY <2>4 DEF Returned, Conjoin, IsCall, CallField
    <3> QED BY <3>1, <3>2
  <2> HIDE DEF M, K, c, d
  <2>6. Chain(stack')
    <3>1. Sure(d)
      BY <2>4, <2>5 DEF Sure, Tallied, Alike
    <3>2. \A f \in 1..K : Sure(stack'[f])
      BY <1>5, <2>1, <2>2, <3>1
    <3>3. \A f \in 1..K - 1 : Linked(stack'[f], stack'[f + 1])
      <4> SUFFICES ASSUME NEW f \in 1..K - 1 PROVE Linked(stack'[f], stack'[f + 1])
        OBVIOUS
      <4>1. Linked(stack[f], stack[f + 1]) /\ stack'[f] = stack[f]
        BY <1>5, <2>1, <2>2
      <4>2. CASE f + 1 = K
        <5>1. stack[f + 1] = c /\ stack'[f + 1] = d
          BY <2>2, <4>2 DEF c
        <5> QED BY <2>5, <4>1, <5>1, LinkedAlike
      <4>3. CASE f + 1 # K
        <5>1. f + 1 \in 1..K - 1
          BY <2>1, <4>3
        <5> QED BY <2>2, <4>1, <5>1
      <4> QED BY <4>2, <4>3
    <3>4. stack'[1].node = 1 /\ stack'[1].fact = CollectKind(1, "any").kind
      <4>1. CASE K = 1
        BY <1>5, <2>2, <2>5, <4>1 DEF Alike, c
      <4>2. CASE K # 1
        <5>1. 1 \in 1..K - 1
          BY <2>1, <4>2
        <5> QED BY <1>5, <2>2, <5>1
      <4> QED BY <4>1, <4>2
    <3> QED BY <2>2, <3>2, <3>3, <3>4 DEF Chain
  <2>7. ASSUME NEW e \in Instance, NEW V, NEW Y, IsValidity(V, e), IsAnswer(Y, ops', e)
        PROVE  AllMean(V, e, Y, stack')
    <3>1. \A f \in 1..M : Means(V, e, Y, stack[f], IF f = M THEN 0 ELSE 1)
      BY <1>6, <2>7
    <3>2. M \in 1..M
      BY <1>3
    <3>3. Means(V, e, Y, Top, 0) /\ Means(V, e, Y, c, 1)
      BY <1>3, <2>1, <3>1, <3>2 DEF c
    <3>4. v \in Y <=> Joint(Top, Y)
      BY <1>2, <2>7
    <3>5. Means(V, e, Y, d, 0)
      BY <1>4, <2>4, <2>7, <3>3, <3>4, CallerMeans DEF d
    <3>6. \A f \in 1..K - 1 : Means(V, e, Y, stack'[f], 1)
      BY <2>1, <2>2, <3>1
    <3>7. \A f \in 1..K : Means(V, e, Y, stack'[f], IF f = K THEN 0 ELSE 1)
      BY <2>1, <2>2, <3>5, <3>6
    <3> QED BY <2>2, <3>7 DEF AllMean
  <2> QED BY <1>2, <2>3, <2>6, <2>7 DEF Decides
<1> QED BY <1>7, <1>8

-----------------------------------------------------------------------------
(* What is known of the innermost call.                                    *)
LEMMA TopSure ==
  ASSUME Tree, stack # <<>>, Decides(stack, ops, ret, FALSE)
  PROVE  /\ IsCall(Top) /\ Sure(Top) /\ schema \in Schemas /\ Top.node \in DOMAIN schema
         /\ Top.k \in Nat /\ Top.k > 0 /\ JoinsTwo(ops) /\ NewOp \in Nat
         /\ Legit(Top.node) /\ \A k \in 1..Len(schema[Top.node].allOf) : Clean(schema[Top.node].allOf[k])
<1>1. IsCall(Top) /\ schema \in Schemas /\ Top.node \in DOMAIN schema /\ Top.k \in Nat /\ Top.k > 0 /\ NewOp \in Nat
  BY TopShape DEF Tree, Shape, IsCall
<1>2. Sure(Top) /\ JoinsTwo(ops)
  <2>1. Top = stack[Len(stack)] /\ Len(stack) \in 1..Len(stack)
    BY TopIs
  <2> QED BY <2>1 DEF Decides, Chain
<1>3. Legit(Top.node) /\ \A k \in 1..Len(schema[Top.node].allOf) : Clean(schema[Top.node].allOf[k])
  BY <1>1, <1>2, CleanIs DEF Sure
<1> QED BY <1>1, <1>2, <1>3

(* The edits of a call.                                                    *)
LEMMA EditsAre ==
  ASSUME NEW c, IsCall(c)
  PROVE  /\ /\ NextK(c).k = c.k + 1 /\ NextK(c).at = c.at /\ NextK(c).fields = c.fields
            /\ NextK(c).conjuncts = c.conjuncts /\ NextK(c).verdicts = c.verdicts
         /\ \A v : /\ NextK(Conjoin(c, v)).k = c.k + 1 /\ NextK(Conjoin(c, v)).at = c.at
                   /\ NextK(Conjoin(c, v)).conjuncts = Append(c.conjuncts, v)
                   /\ NextK(Conjoin(c, v)).fields = c.fields
         /\ \A at : /\ GoTo(c, at).k = 1 /\ GoTo(c, at).at = at /\ GoTo(c, at).fields = c.fields
                    /\ GoTo(c, at).conjuncts = c.conjuncts /\ GoTo(c, at).verdicts = c.verdicts
         /\ \A v, at : /\ GoTo(Conjoin(c, v), at).k = 1 /\ GoTo(Conjoin(c, v), at).at = at
                       /\ GoTo(Conjoin(c, v), at).conjuncts = Append(c.conjuncts, v)
                       /\ GoTo(Conjoin(c, v), at).fields = c.fields
BY DEF NextK, Conjoin, GoTo, IsCall, CallField

(* One conjunct more.                                                      *)
LEMMA JointAppend ==
  ASSUME NEW c, c.conjuncts \in Seq(Nat), NEW d, NEW v, d.conjuncts = Append(c.conjuncts, v), NEW Y
  PROVE  Joint(d, Y) <=> Joint(c, Y) /\ v \in Y
<1> DEFINE s == c.conjuncts
<1>1. /\ Len(Append(s, v)) = Len(s) + 1 /\ Append(s, v)[Len(s) + 1] = v
      /\ \A j \in 1..Len(s) : Append(s, v)[j] = s[j]
      /\ Len(s) \in Nat
  OBVIOUS
<1>2. \A j \in 1..Len(s) + 1 : j \in 1..Len(s) \/ j = Len(s) + 1
  BY <1>1
<1>3. \A j \in 1..Len(s) : j \in 1..Len(s) + 1
  BY <1>1
<1>4. Len(s) + 1 \in 1..Len(s) + 1
  BY <1>1
<1> QED BY <1>1, <1>2, <1>3, <1>4 DEF Joint

(* One operation more.                                                     *)
LEMMA AppendAnswers ==
  ASSUME Tree, NEW o, ops' = Append(ops, o), o.op # "and", JoinsTwo(ops)
  PROVE  /\ JoinsTwo(ops')
         /\ \A e, Y : IsAnswer(Y, ops', e) => (NewOp \in Y <=> OpHolds(Y, o, e))
<1>1. IsRow(ops) /\ Len(ops) \in Nat
  BY RowLen DEF Tree, Shape, Made
<1>2. /\ Len(ops') = NewOp /\ ops'[NewOp] = o /\ \A v \in 1..Len(ops) : ops'[v] = ops[v]
  BY <1>1, RowAppend DEF NewOp
<1>3. \A v \in 1..NewOp : v = NewOp \/ v \in 1..Len(ops)
  BY <1>1 DEF NewOp
<1>4. NewOp \in 1..NewOp
  BY <1>1 DEF NewOp
<1> QED BY <1>2, <1>3, <1>4 DEF JoinsTwo, IsAnswer

-----------------------------------------------------------------------------
(* Guarded at the type guard.                                              *)
LEMMA TypeGuardDecides ==
  ASSUME Tree, TypeGuard, Decides(stack, ops, ret, FALSE)
  PROVE  Decides(stack', ops', ret', FALSE)
<1> DEFINE n == Top.node
           types == schema[n].types
           guard == IF Len(types) = 1 THEN Guard(types[1]) ELSE {}
<1>1. stack # <<>> /\ Top.at = "guard" /\ UNCHANGED <<schema, args, ret, pc>> /\ MadeBy(Top)
  BY InPlace DEF TypeGuard, At
<1>2. /\ IsCall(Top) /\ Sure(Top) /\ schema \in Schemas /\ n \in DOMAIN schema
      /\ JoinsTwo(ops) /\ Legit(n)
  BY <1>1, TopSure
<1>3. types = <<>> \/ \E t \in InstanceKind \ {"any"} : types = <<t>>
  BY <1>2 DEF Legit
<1>4. CASE guard = {} /\ Be(GoTo(Top, "keywords")) /\ UNCHANGED ops
  <2> DEFINE c == GoTo(Top, "keywords")
  <2>1. types = <<>> \/ IsObject(n)
    <3>1. \A t : types = <<t>> => Len(types) = 1 /\ types[1] = t
      OBVIOUS
    <3>2. \A t \in InstanceKind : Guard(t) = {} => t \in {"any", "object"}
      BY DEF InstanceKind, Guard
    <3> QED BY <1>3, <1>4, <3>1, <3>2 DEF IsObject
  <2>2. \A d : Guarded(n, d)
    <3>1. ToSet(<<>>) = {}
      BY DEF ToSet
    <3> QED BY <2>1, <3>1 DEF Guarded, TypesHold
  <2>3. /\ Alike(c, Top) /\ c.k = 1 /\ c.at = "keywords" /\ c.conjuncts = Top.conjuncts
        /\ c.fields = Top.fields
    BY <1>2, SameCall, EditsAre
  <2> HIDE DEF c, n
  <2>4. ASSUME NEW e, NEW V, NEW Y, Means(V, e, Y, Top, 0) PROVE Means(V, e, Y, c, 0)
    <3>1. c.node = n /\ c.fact = Top.fact
      BY <2>3 DEF Alike, n
    <3>2. Joint(c, Y) <=> Joint(Top, Y)
      BY <2>3 DEF Joint
    <3>3. Known(c.fact, Seen(e, n)) => Joint(Top, Y)
      BY <1>1, <2>4, <3>1 DEF Means, Exactly, n
    <3>4. AtLeast(e, c, 0)
      BY <2>2, <2>3, <3>1 DEF AtLeast
    <3>5. Meets(n, Seen(e, n), 1)
      BY DEF Meets
    <3>6. Exactly(V, e, c, 0)
      BY <2>2, <2>3, <3>1, <3>5 DEF Exactly
    <3> QED BY <2>3, <3>1, <3>2, <3>3, <3>4, <3>6 DEF Means
  <2>5. Sure(c)
    BY <1>1, <1>2, <2>3 DEF Sure, Tallied, Alike
  <2>6. Be(c) /\ JoinsTwo(ops')
    BY <1>2, <1>4 DEF c
  <2> QED BY <1>1, <2>3, <2>4, <2>5, <2>6, BeDecides
<1>5. CASE \E a \in guard : /\ ops' = Append(ops, Validate(n, Top.input, a))
                            /\ Be(GoTo(Conjoin(Top, NewOp), "keywords"))
  <2>1. PICK a \in guard : /\ ops' = Append(ops, Validate(n, Top.input, a))
                           /\ Be(GoTo(Conjoin(Top, NewOp), "keywords"))
    BY <1>5
  <2> DEFINE c == GoTo(Conjoin(Top, NewOp), "keywords")
             o == Validate(n, Top.input, a)
  <2>2. PICK t \in InstanceKind \ {"any", "object"} : types = <<t>> /\ a \in Guard(t)
    <3>1. \A t : types = <<t>> => Len(types) = 1 /\ types[1] = t
      OBVIOUS
    <3>2. Len(<<>>) = 0
      OBVIOUS
    <3>3. Guard("object") = {}
      BY DEF Guard
    <3>4. Len(types) = 1 /\ a \in Guard(types[1])
      BY <2>1
    <3> QED BY <1>3, <3>1, <3>2, <3>3, <3>4
  <2>3. \A d \in JsonValue : Guarded(n, d) <=> Accepts(a, d)
    <3>1. ToSet(<<t>>) = {t} /\ <<t>> # <<"object">>
      BY <2>2 DEF ToSet
    <3>2. \A d \in JsonValue : Accepts(a, d) <=> HasType(d, t)
      BY <2>2, GuardAccepts
    <3> QED BY <2>2, <3>1, <3>2 DEF Guarded, TypesHold, IsObject
  <2>4. /\ Alike(c, Top) /\ c.k = 1 /\ c.at = "keywords" /\ c.fields = Top.fields
        /\ c.conjuncts = Append(Top.conjuncts, NewOp)
    BY <1>2, SameCall, EditsAre
  <2>5. o.op = "validate" /\ o.lat = a /\ o.loc = n
    BY DEF Validate
  <2> HIDE DEF c, n, o
  <2>6. JoinsTwo(ops') /\ \A e, Y : IsAnswer(Y, ops', e) => (NewOp \in Y <=> OpHolds(Y, o, e))
    BY <1>2, <2>1, <2>5, AppendAnswers DEF o
  <2>7. ASSUME NEW e \in Instance, NEW V, NEW Y, IsAnswer(Y, ops', e), Means(V, e, Y, Top, 0)
        PROVE  Means(V, e, Y, c, 0)
    <3>1. c.node = n /\ c.fact = Top.fact
      BY <2>4 DEF Alike, n
    <3>2. Joint(c, Y) <=> Joint(Top, Y) /\ NewOp \in Y
      BY <1>2, <2>4, JointAppend DEF IsCall
    <3>3. Known(c.fact, Seen(e, n)) => Joint(Top, Y)
      BY <1>1, <2>7, <3>1 DEF Means, Exactly, n
    <3>4. Seen(e, n) \in JsonValue
      BY <1>2, SeenIs DEF n
    <3>5. OpHolds(Y, o, e) <=> Accepts(a, Seen(e, n))
      BY <2>5 DEF OpHolds
    <3>6. NewOp \in Y <=> Guarded(n, Seen(e, n))
      BY <2>3, <2>6, <2>7, <3>4, <3>5
    <3>7. AtLeast(e, c, 0) <=> Guarded(n, Seen(e, n))
      BY <2>4, <3>1 DEF AtLeast
    <3>8. Meets(n, Seen(e, n), 1)
      BY DEF Meets
    <3>9. Exactly(V, e, c, 0) <=> Guarded(n, Seen(e, n))
      BY <2>4, <3>1, <3>8 DEF Exactly
    <3> QED BY <2>4, <3>1, <3>2, <3>3, <3>6, <3>7, <3>9 DEF Means
  <2>8. Sure(c)
    BY <1>1, <1>2, <2>4 DEF Sure, Tallied, Alike
  <2>9. Be(c)
    BY <2>1 DEF c
  <2> QED BY <1>1, <2>4, <2>6, <2>7, <2>8, <2>9, BeDecides
<1> QED BY <1>4, <1>5 DEF TypeGuard

-----------------------------------------------------------------------------
(* The keyword a step looks at.                                            *)
LEMMA KeywordIs ==
  ASSUME Tree, AtKeyword, KeywordErrors(TheKeyword) = {}, Decides(stack, ops, ret, FALSE)
  PROVE  /\ stack # <<>> /\ Top.at = "keywords" /\ Top.k \in 1..Len(schema[Top.node].keywords)
         /\ TheKeyword = schema[Top.node].keywords[Top.k] /\ TheKeyword \in Keyword
         /\ TheKeyword.name # "unknown" /\ Top.fact \in InstanceKind /\ Top.fact # "any"
         /\ \A d : Meets(Top.node, d, Top.k + 1) <=> Meets(Top.node, d, Top.k) /\ KeywordHolds(TheKeyword, d)
<1>1. stack # <<>> /\ Top.at = "keywords" /\ Top.k =< Len(schema[Top.node].keywords)
  BY DEF AtKeyword, At
<1>2. /\ Sure(Top) /\ schema \in Schemas /\ Top.node \in DOMAIN schema /\ Top.k \in Nat /\ Top.k > 0
  BY <1>1, TopSure
<1> DEFINE kws == schema[Top.node].keywords
<1>3. kws \in Seq(Keyword) /\ Len(kws) \in Nat
  BY <1>2, NodeIs, SMTT(30) DEF SchemaNode
<1>4. Top.k \in 1..Len(kws) /\ TheKeyword = kws[Top.k]
  BY <1>1, <1>2, <1>3 DEF TheKeyword
<1>5. TheKeyword \in Keyword
  BY <1>3, <1>4
<1>6. TheKeyword.name # "unknown" /\ Top.fact # "any"
  BY DEF KeywordErrors
<1>7. ASSUME NEW d PROVE Meets(Top.node, d, Top.k + 1) <=> Meets(Top.node, d, Top.k) /\ KeywordHolds(TheKeyword, d)
  <2>1. \A j \in 1..Len(kws) : j < Top.k + 1 <=> j < Top.k \/ j = Top.k
    BY <1>2
  <2>2. Top.k < Top.k + 1
    BY <1>2
  <2> HIDE DEF kws
  <2>3. Meets(Top.node, d, Top.k + 1) <=> \A j \in 1..Len(kws) : j < Top.k + 1 => KeywordHolds(kws[j], d)
    BY DEF Meets, kws
  <2>4. Meets(Top.node, d, Top.k) <=> \A j \in 1..Len(kws) : j < Top.k => KeywordHolds(kws[j], d)
    BY DEF Meets, kws
  <2> QED BY <1>4, <2>1, <2>3, <2>4, Zenon
<1> QED BY <1>1, <1>2, <1>4, <1>5, <1>6, <1>7 DEF Sure

(* A keyword that is dropped says nothing of an instance of that kind.     *)
LEMMA DropKeywordDecides ==
  ASSUME Tree, DropKeyword, Decides(stack, ops, ret, FALSE)
  PROVE  Decides(stack', ops', ret', FALSE)
<1> DEFINE n == Top.node
           c == NextK(Top)
           kw == TheKeyword
<1>1. /\ UNCHANGED <<schema, args, ret, pc, ops>> /\ MadeBy(Top) /\ Be(c)
      /\ AtKeyword /\ KeywordErrors(kw) = {} /\ Vacuous(kw)
  BY InPlace DEF DropKeyword
<1>2. /\ stack # <<>> /\ Top.at = "keywords" /\ kw \in Keyword
      /\ kw.name # "unknown" /\ Top.fact \in InstanceKind /\ Top.fact # "any"
      /\ \A d : Meets(n, d, Top.k + 1) <=> Meets(n, d, Top.k) /\ KeywordHolds(kw, d)
  BY <1>1, KeywordIs
<1>3. IsCall(Top) /\ Sure(Top) /\ JoinsTwo(ops)
  BY <1>2, TopSure
<1>4. /\ Alike(c, Top) /\ c.k = Top.k + 1 /\ c.at = "keywords" /\ c.conjuncts = Top.conjuncts
      /\ c.fields = Top.fields
  BY <1>2, <1>3, SameCall, EditsAre
<1> HIDE DEF c, n, kw
<1>5. \A d : Known(Top.fact, d) => KeywordHolds(kw, d)
  BY <1>1, <1>2, KeywordElsewhere DEF Known, Vacuous
<1>6. ASSUME NEW e, NEW V, NEW Y, Means(V, e, Y, Top, 0) PROVE Means(V, e, Y, c, 0)
  <2>1. c.node = n /\ c.fact = Top.fact
    BY <1>4 DEF Alike, n
  <2>2. Joint(c, Y) <=> Joint(Top, Y)
    BY <1>4 DEF Joint
  <2>3. AtLeast(e, c, 0) <=> AtLeast(e, Top, 0)
    BY <1>2, <1>4, <2>1 DEF AtLeast, n
  <2>4. Known(c.fact, Seen(e, n)) => (Exactly(V, e, c, 0) <=> Exactly(V, e, Top, 0))
    BY <1>2, <1>4, <1>5, <2>1 DEF Exactly, n
  <2> QED BY <1>4, <1>6, <2>1, <2>2, <2>3, <2>4 DEF Means, n
<1>7. Sure(c)
  BY <1>2, <1>3, <1>4 DEF Sure, Tallied, Alike
<1> QED BY <1>1, <1>2, <1>3, <1>4, <1>6, <1>7, BeDecides

(* A keyword that is not is decided by its operation.                      *)
LEMMA EmitKeywordDecides ==
  ASSUME Tree, EmitKeyword, Decides(stack, ops, ret, FALSE)
  PROVE  Decides(stack', ops', ret', FALSE)
<1> DEFINE n == Top.node
           c == NextK(Conjoin(Top, NewOp))
           kw == TheKeyword
           o == Validate(Top.node, Top.input, KeywordLattice(kw))
<1>1. /\ UNCHANGED <<schema, args, ret, pc>> /\ MadeBy(Top) /\ Be(c) /\ ops' = Append(ops, o)
      /\ AtKeyword /\ KeywordErrors(kw) = {} /\ ~Vacuous(kw)
  BY InPlace DEF EmitKeyword
<1>2. /\ stack # <<>> /\ Top.at = "keywords" /\ kw \in Keyword
      /\ kw.name # "unknown" /\ Top.fact \in InstanceKind /\ Top.fact # "any"
      /\ \A d : Meets(n, d, Top.k + 1) <=> Meets(n, d, Top.k) /\ KeywordHolds(kw, d)
  BY <1>1, KeywordIs
<1>3. IsCall(Top) /\ Sure(Top) /\ JoinsTwo(ops)
  BY <1>2, TopSure
<1>4. /\ Alike(c, Top) /\ c.k = Top.k + 1 /\ c.at = "keywords" /\ c.fields = Top.fields
      /\ c.conjuncts = Append(Top.conjuncts, NewOp)
  BY <1>2, <1>3, SameCall, EditsAre
<1>5. o.op = "validate" /\ o.lat = KeywordLattice(kw) /\ o.loc = n
  BY DEF Validate
<1> HIDE DEF c, n, kw, o
<1>6. JoinsTwo(ops') /\ \A e, Y : IsAnswer(Y, ops', e) => (NewOp \in Y <=> OpHolds(Y, o, e))
  BY <1>1, <1>3, <1>5, AppendAnswers
<1>7. \A d : Known(Top.fact, d) => (Accepts(KeywordLattice(kw), d) <=> KeywordHolds(kw, d))
  BY <1>1, <1>2, KeywordAccepts DEF Known, Vacuous
<1>8. ASSUME NEW e, NEW V, NEW Y, IsAnswer(Y, ops', e), Means(V, e, Y, Top, 0) PROVE Means(V, e, Y, c, 0)
  <2>1. c.node = n /\ c.fact = Top.fact
    BY <1>4 DEF Alike, n
  <2>2. Joint(c, Y) <=> Joint(Top, Y) /\ NewOp \in Y
    BY <1>3, <1>4, JointAppend DEF IsCall
  <2>3. AtLeast(e, c, 0) <=> AtLeast(e, Top, 0)
    BY <1>2, <1>4, <2>1 DEF AtLeast, n
  <2>4. NewOp \in Y <=> Accepts(KeywordLattice(kw), Seen(e, n))
    BY <1>5, <1>6, <1>8 DEF OpHolds
  <2>5. Exactly(V, e, c, 0) <=> Exactly(V, e, Top, 0) /\ KeywordHolds(kw, Seen(e, n))
    BY <1>2, <1>4, <2>1 DEF Exactly, n
  <2>6. Known(c.fact, Seen(e, n)) => (NewOp \in Y <=> KeywordHolds(kw, Seen(e, n)))
    BY <1>7, <2>1, <2>4
  <2> QED BY <1>4, <1>8, <2>1, <2>2, <2>3, <2>5, <2>6 DEF Means, n
<1>9. Sure(c)
  BY <1>2, <1>3, <1>4 DEF Sure, Tallied, Alike
<1> QED BY <1>1, <1>2, <1>4, <1>6, <1>8, <1>9, BeDecides

-----------------------------------------------------------------------------
(* What an optional list holds when it is not there.                       *)
LEMMA AbsentIs ==
  ASSUME NEW n
  PROVE  /\ schema[n].properties = {} => ToSet(Props(n)) = {}
         /\ schema[n].required = {} => ToSet(Needs(n)) = {}
<1>1. ToSet(<<>>) = {}
  BY DEF ToSet
<1> QED BY <1>1 DEF Props, Needs, Or

(* All the keywords, one by one.                                           *)
LEMMA AllMet ==
  ASSUME schema \in Schemas, NEW n \in DOMAIN schema, NEW d, NEW k \in Nat, k > Len(schema[n].keywords)
  PROVE  Meets(n, d, k) <=> \A kw \in ToSet(schema[n].keywords) : KeywordHolds(kw, d)
<1> DEFINE kws == schema[n].keywords
<1>1. kws \in Seq(Keyword) /\ Len(kws) \in Nat
  BY NodeIs DEF SchemaNode
<1>2. \A j \in 1..Len(kws) : j < k
  BY <1>1
<1>3. \A s \in Seq(Keyword) : /\ \A b \in ToSet(s) : \E j \in 1..Len(s) : b = s[j]
                              /\ \A j \in 1..Len(s) : s[j] \in ToSet(s)
  BY DEF ToSet
<1>4. /\ \A b \in ToSet(kws) : \E j \in 1..Len(kws) : b = kws[j]
      /\ \A j \in 1..Len(kws) : kws[j] \in ToSet(kws)
  BY <1>1, <1>3
<1>5. Meets(n, d, k) <=> \A j \in 1..Len(kws) : j < k => KeywordHolds(kws[j], d)
  BY DEF Meets
<1> HIDE DEF kws
<1>6. Meets(n, d, k) <=> \A kw \in ToSet(kws) : KeywordHolds(kw, d)
  BY <1>2, <1>4, <1>5, Zenon
<1> QED BY <1>6 DEF kws

(* After the keywords: the properties and the required ones count only for *)
(* an object.                                                              *)
LEMMA EndKeywordsDecides ==
  ASSUME Tree, EndKeywords, Decides(stack, ops, ret, FALSE), errors' = {}
  PROVE  Decides(stack', ops', ret', FALSE)
<1> DEFINE n == Top.node
           L == Len(schema[n].keywords)
           wants == IsObject(n) \/ schema[n].properties # {} \/ schema[n].required # {}
           object == wants /\ (IsObject(n) \/ Top.fact = "object")
           c == GoTo(Top, IF object THEN "properties" ELSE "allOf")
<1>1. /\ stack # <<>> /\ Top.at = "keywords" /\ Top.k > L
      /\ UNCHANGED <<schema, args, ret, pc, ops>> /\ MadeBy(Top) /\ Be(c)
  BY InPlace DEF EndKeywords, At
<1>2. ~(wants /\ ~IsObject(n) /\ Top.fact = "any")
  <2> SUFFICES ASSUME wants /\ ~IsObject(n) /\ Top.fact = "any" PROVE FALSE
    OBVIOUS
  <2>1. errors' = errors \cup {<<"needs type", n>>}
    BY DEF EndKeywords
  <2> QED BY <2>1
<1>3. /\ IsCall(Top) /\ Sure(Top) /\ JoinsTwo(ops) /\ schema \in Schemas /\ n \in DOMAIN schema
      /\ Top.k \in Nat /\ L \in Nat /\ Top.verdicts = <<>>
  <2>1. IsCall(Top) /\ Sure(Top) /\ JoinsTwo(ops) /\ schema \in Schemas /\ n \in DOMAIN schema
    BY <1>1, TopSure
  <2>2. Top.k \in Nat /\ Top.verdicts = <<>>
    BY <1>1, <2>1 DEF IsCall
  <2>3. L \in Nat
    BY <2>1, NodeIs DEF SchemaNode
  <2> QED BY <2>1, <2>2, <2>3
<1>4. /\ Alike(c, Top) /\ c.k = 1 /\ c.conjuncts = Top.conjuncts /\ c.verdicts = <<>>
      /\ c.fields = Top.fields /\ c.at = IF object THEN "properties" ELSE "allOf"
  BY <1>3, SameCall, EditsAre
<1>5. /\ \A d : Meets(n, d, Top.k) <=> \A kw \in ToSet(schema[n].keywords) : KeywordHolds(kw, d)
      /\ \A d : Meets(n, d, L + 1) <=> \A kw \in ToSet(schema[n].keywords) : KeywordHolds(kw, d)
  <2>1. L + 1 \in Nat /\ L + 1 > L
    BY <1>3
  <2> QED BY <1>1, <1>3, <2>1, AllMet
<1>6. ~object => ~IsObject(n)
  OBVIOUS
<1>7. ~object => \A e, V : Known(Top.fact, Seen(e, n)) => ObjectHolds(V, e, n)
  <2> SUFFICES ASSUME ~object, NEW e, NEW V, Known(Top.fact, Seen(e, n)), Seen(e, n).kind = "object"
               PROVE  /\ \A r \in ToSet(Needs(n)) : Append(Place[n], r) \notin e.absent
                      /\ \A p \in ToSet(Props(n)) : p.schema \in V
    BY DEF ObjectHolds
  <2>1. CASE ~wants
    BY <2>1, AbsentIs
  <2>2. CASE wants
    <3>1. Top.fact \notin {"any", "object"}
      BY <1>2, <2>2
    <3>2. Top.fact \in {"string", "number", "integer"}
      BY <1>3, <3>1, SMTT(30) DEF Sure, InstanceKind
    <3> QED BY <3>1, <3>2 DEF Known, HasType
  <2> QED BY <2>1, <2>2
<1>8. Sure(c)
  <2>1. IsRow(c.fields) /\ Len(c.fields) = c.k - 1 /\ \A j \in 1..Len(c.fields) : FALSE
    <3>1. c.fields = <<>> /\ c.k - 1 = 0
      BY <1>1, <1>3, <1>4 DEF Sure, Tallied
    <3>2. <<>> \in Seq({}) /\ Len(<<>>) = 0 /\ \A j \in 1..Len(<<>>) : FALSE
      BY SMTT(30)
    <3> QED BY <3>1, <3>2 DEF IsRow
  <2>2. c.at \in {"properties", "allOf"}
    BY <1>4, SMTT(30)
  <2>3. Tallied(c)
    BY <2>1, <2>2 DEF Tallied
  <2> QED BY <1>3, <1>4, <2>3 DEF Sure, Alike
<1> HIDE DEF c, n, L, object
<1>9. ASSUME NEW e, NEW V, NEW Y, Means(V, e, Y, Top, 0) PROVE Means(V, e, Y, c, 0)
  <2>1. c.node = n /\ c.fact = Top.fact
    BY <1>4 DEF Alike, n
  <2>2. Joint(c, Y) <=> Joint(Top, Y)
    BY <1>4 DEF Joint
  <2>3. /\ AtLeast(e, Top, 0) <=> Guarded(n, Seen(e, n))
        /\ Exactly(V, e, Top, 0) <=> Guarded(n, Seen(e, n)) /\ Meets(n, Seen(e, n), Top.k)
    BY <1>1 DEF AtLeast, Exactly, n
  <2>4. CASE object
    <3>1. /\ AtLeast(e, c, 0) <=> Guarded(n, Seen(e, n))
          /\ Exactly(V, e, c, 0) <=> Guarded(n, Seen(e, n)) /\ Meets(n, Seen(e, n), L + 1)
      BY <1>4, <2>1, <2>4 DEF AtLeast, Exactly, L
    <3>2. Awaits(V, Y, c, 0)
      <4>1. Len(Props(n)) \in Nat
        BY <1>3, NodeIs DEF n
      <4>2. Len(<<>>) + 0 = 1 - 1 /\ 1 - 1 =< Len(Props(n)) /\ \A j \in 1..Len(<<>>) : FALSE
        BY <4>1
      <4> QED BY <1>4, <2>1, <4>2 DEF Awaits
    <3> QED BY <1>5, <1>9, <2>1, <2>2, <2>3, <3>1, <3>2 DEF Means, n
  <2>5. CASE ~object
    <3>1. \A j \in 1..Len(schema[n].allOf) : ~(j < 1 - 0)
      OBVIOUS
    <3>2. Guarded(n, Seen(e, n)) <=> TypesHold(n, Seen(e, n))
      BY <1>6, <2>5 DEF Guarded
    <3>3. AtLeast(e, c, 0) <=> Guarded(n, Seen(e, n))
      BY <1>4, <2>1, <2>5, <3>1, <3>2 DEF AtLeast
    <3>4. Exactly(V, e, c, 0) <=> Guarded(n, Seen(e, n)) /\ OwnHolds(V, e, n)
      BY <1>4, <2>1, <2>5, <3>1 DEF Exactly
    <3>5. Known(c.fact, Seen(e, n)) => (OwnHolds(V, e, n) <=> Guarded(n, Seen(e, n)) /\ Meets(n, Seen(e, n), Top.k))
      BY <1>5, <1>7, <2>1, <2>5, <3>2 DEF OwnHolds
    <3>6. c.at # "properties"
      BY <1>4, <2>5
    <3> QED BY <1>9, <2>1, <2>2, <2>3, <3>3, <3>4, <3>5, <3>6 DEF Means, n
  <2> QED BY <2>4, <2>5
<1> QED BY <1>1, <1>3, <1>4, <1>8, <1>9, BeDecides

(* A keyword or a property that is rejected leaves an error.               *)
LEMMA RejectsComplain ==
  ASSUME RejectKeyword \/ RejectProperty
  PROVE  errors' # {}
<1>1. CASE RejectKeyword
  <2>1. KeywordErrors(TheKeyword) # {} /\ errors' = errors \cup (KeywordErrors(TheKeyword) \X {Top.node})
    BY <1>1 DEF RejectKeyword
  <2>2. PICK x : x \in KeywordErrors(TheKeyword)
    BY <2>1
  <2>3. <<x, Top.node>> \in errors'
    BY <2>1, <2>2
  <2> QED BY <2>3
<1>2. CASE RejectProperty
  BY <1>2 DEF RejectProperty
<1> QED BY <1>1, <1>2

(* The struct holds of an object whose properties have their schemas and   *)
(* whose required properties are there.                                    *)
LEMMA FinishObjectDecides ==
  ASSUME Tree, FinishObject, Decides(stack, ops, ret, FALSE), errors' = {}
  PROVE  Decides(stack', ops', ret', FALSE)
<1> DEFINE n == Top.node
           L == Len(schema[n].keywords)
           known == {k \in DOMAIN Needs(n) : Needs(n)[k] \in ToSet(Top.fields)}
           R == Selected(Needs(n), known)
           o == [op |-> "struct", loc |-> n, input |-> Top.input,
                 type |-> Or(schema[n].title, Top.type), fields |-> Top.fields,
                 results |-> Top.verdicts, required |-> R]
           c == GoTo(Conjoin(Top, NewOp), "allOf")
<1>1. /\ stack # <<>> /\ Top.at = "properties" /\ Top.k > Len(Props(n))
      /\ UNCHANGED <<schema, args, ret, pc>> /\ MadeBy(Top) /\ Be(c)
  BY InPlace DEF FinishObject, At
<1>2. ops' = Append(ops, o)
  BY DEF FinishObject
<1>3. /\ IsCall(Top) /\ Sure(Top) /\ JoinsTwo(ops) /\ schema \in Schemas /\ n \in DOMAIN schema
      /\ Top.k \in Nat /\ Top.conjuncts \in Seq(Nat) /\ Top.verdicts \in Seq(Nat)
  BY <1>1, TopSure DEF IsCall
<1>4. ToSet(R) = ToSet(Needs(n))
  <2>1. ToSet(Needs(n)) \subseteq ToSet(Top.fields)
    <3> SUFFICES ASSUME ~(ToSet(Needs(n)) \subseteq ToSet(Top.fields)) PROVE FALSE
      OBVIOUS
    <3>1. errors' = errors \cup {x \in {"undeclared"} \X {n} : ~(ToSet(Needs(n)) \subseteq ToSet(Top.fields))}
      BY DEF FinishObject
    <3>2. errors' = errors \cup ({"undeclared"} \X {n})
      BY <3>1
    <3>3. <<"undeclared", n>> \in {"undeclared"} \X {n}
      OBVIOUS
    <3> QED BY <3>2, <3>3
  <2>2. known = DOMAIN Needs(n)
    BY <2>1 DEF ToSet
  <2>3. Needs(n) \in Seq(PropertyName) /\ IsInjective(Needs(n))
    <3>1. schema[n] \in SchemaNode /\ WellFormedSchema(schema)
      BY <1>3, NodeIs, SchemasAssumption
    <3>2. \A r \in schema[n].required : IsInjective(r)
      BY <1>3, <3>1, Zenon DEF WellFormedSchema
    <3>3. schema[n].required \in Opt(Seq(PropertyName))
      BY <3>1 DEF SchemaNode
    <3>4. \/ Needs(n) = <<>>
          \/ Needs(n) \in Seq(PropertyName) /\ schema[n].required = {Needs(n)}
      BY <3>3, OrIs DEF Needs
    <3>5. <<>> \in Seq(PropertyName) /\ IsInjective(<<>>)
      BY DEF IsInjective
    <3> QED BY <3>2, <3>4, <3>5
  <2> HIDE DEF known
  <2>4. KeepsOrder(R, Needs(n), known)
    BY <2>3, SelectedOrder
  <2>5. ToSet(R) = {Needs(n)[k] : k \in DOMAIN Needs(n) \cap known}
    BY <2>4 DEF KeepsOrder
  <2> HIDE DEF R
  <2> QED BY <2>2, <2>5 DEF ToSet
<1>5. Alike(c, Top) /\ c.k = 1 /\ c.at = "allOf" /\ c.conjuncts = Append(Top.conjuncts, NewOp)
  BY <1>3, SameCall, EditsAre
<1>6. /\ o.op = "struct" /\ o.loc = n /\ o.results = Top.verdicts /\ o.required = R
      /\ o.fields = Top.fields
  OBVIOUS
<1> HIDE DEF R, o
<1>7. JoinsTwo(ops') /\ \A e, Y : IsAnswer(Y, ops', e) => (NewOp \in Y <=> OpHolds(Y, o, e))
  BY <1>2, <1>3, <1>6, AppendAnswers
<1>8. \A d : Meets(n, d, L + 1) <=> \A kw \in ToSet(schema[n].keywords) : KeywordHolds(kw, d)
  <2>1. L + 1 \in Nat /\ L + 1 > L
    <3>1. L \in Nat
      BY <1>3, NodeIs, SMTT(30) DEF SchemaNode
    <3> QED BY <3>1
  <2> QED BY <1>3, <2>1, AllMet
<1>9. IsObject(n) \/ Top.fact = "object"
  BY <1>1, <1>3 DEF Sure
<1>10. Sure(c)
  BY <1>3, <1>5, <1>9 DEF Sure, Tallied, Alike
<1> HIDE DEF c, n, L
<1>11. ASSUME NEW e, NEW V, NEW Y, IsAnswer(Y, ops', e), Means(V, e, Y, Top, 0) PROVE Means(V, e, Y, c, 0)
  <2> DEFINE d == Seen(e, n)
  <2>1. c.node = n /\ c.fact = Top.fact
    BY <1>5 DEF Alike, n
  <2>2. Joint(c, Y) <=> Joint(Top, Y) /\ NewOp \in Y
    BY <1>3, <1>5, JointAppend
  <2>3. (\A k \in DOMAIN Top.verdicts :
           Append(Place[n], Top.fields[k]) \in e.absent \/ Top.verdicts[k] \in Y)
        <=> \A p \in ToSet(Props(n)) : Append(Place[n], p.name) \in e.absent \/ p.schema \in V
    <3>1. Awaits(V, Y, Top, 0)
      BY <1>1, <1>11 DEF Means
    <3>2. Props(n) \in Seq(Property) /\ Len(Props(n)) \in Nat
      BY <1>3, NodeIs
    <3>3. Len(Top.verdicts) + 0 = Top.k - 1 /\ Top.k - 1 =< Len(Props(n))
      BY <3>1 DEF Awaits, n
    <3>4. Len(Top.verdicts) = Len(Props(n)) /\ DOMAIN Top.verdicts = 1..Len(Top.verdicts)
      <4>1. Len(Top.verdicts) \in Nat /\ DOMAIN Top.verdicts = 1..Len(Top.verdicts)
        BY <1>3
      <4> QED BY <1>1, <1>3, <3>2, <3>3, <4>1
    <3>5. \A s \in Seq(Property) : /\ \A b \in ToSet(s) : \E j \in 1..Len(s) : b = s[j]
                                   /\ \A j \in 1..Len(s) : s[j] \in ToSet(s)
      BY DEF ToSet
    <3>6. /\ \A b \in ToSet(Props(n)) : \E j \in 1..Len(Props(n)) : b = Props(n)[j]
          /\ \A j \in 1..Len(Props(n)) : Props(n)[j] \in ToSet(Props(n))
      BY <3>2, <3>5
    <3>7. \A j \in 1..Len(Props(n)) : Top.verdicts[j] \in Y <=> Props(n)[j].schema \in V
      BY <3>1, <3>4 DEF Awaits, n
    <3>8. \A j \in 1..Len(Props(n)) : Top.fields[j] = Props(n)[j].name
      <4>1. Len(Top.fields) = Len(Props(n))
        <5>1. Len(Top.fields) = Top.k - 1
          BY <1>1, <1>3 DEF Sure, Tallied
        <5>2. Len(Top.verdicts) \in Nat
          BY <1>3
        <5> QED BY <3>3, <3>4, <5>1, <5>2
      <4> QED BY <1>1, <1>3, <4>1 DEF Sure, Tallied, n
    <3> QED BY <3>4, <3>6, <3>7, <3>8, Zenon
  <2>4. OpHolds(Y, o, e) <=> d.kind = "object" /\ ObjectHolds(V, e, n)
    BY <1>4, <1>6, <2>3 DEF OpHolds, ObjectHolds
  <2>5. NewOp \in Y <=> d.kind = "object" /\ ObjectHolds(V, e, n)
    BY <1>7, <1>11, <2>4
  <2>6. /\ AtLeast(e, Top, 0) <=> Guarded(n, d)
        /\ Exactly(V, e, Top, 0) <=> Guarded(n, d) /\ Meets(n, d, L + 1)
    BY <1>1 DEF AtLeast, Exactly, n, L
  <2>7. \A j \in 1..Len(schema[n].allOf) : ~(j < 1 - 0)
    OBVIOUS
  <2>8. AtLeast(e, c, 0) <=> Guarded(n, d) /\ TypesHold(n, d)
    BY <1>5, <2>1, <2>7 DEF AtLeast
  <2>9. Exactly(V, e, c, 0) <=> Guarded(n, d) /\ OwnHolds(V, e, n)
    BY <1>5, <2>1, <2>7 DEF Exactly
  <2>10. Guarded(n, d) /\ d.kind = "object" => TypesHold(n, d)
    <3>1. IsObject(n) => (TypesHold(n, d) <=> d.kind = "object")
      <4>1. ToSet(<<"object">>) = {"object"}
        BY DEF ToSet
      <4> QED BY <4>1 DEF TypesHold, IsObject, HasType
    <3> QED BY <3>1 DEF Guarded
  <2>11. Known(c.fact, d) /\ TypesHold(n, d) => d.kind = "object"
    <3>1. IsObject(n) /\ TypesHold(n, d) => d.kind = "object"
      <4>1. ToSet(<<"object">>) = {"object"}
        BY DEF ToSet
      <4> QED BY <4>1 DEF TypesHold, IsObject, HasType
    <3>2. Top.fact = "object" /\ Known(Top.fact, d) => d.kind = "object"
      BY DEF Known, HasType
    <3> QED BY <1>9, <2>1, <3>1, <3>2
  <2>12. TypesHold(n, d) => Guarded(n, d)
    BY DEF Guarded
  <2>13. OwnHolds(V, e, n) <=> TypesHold(n, d) /\ Meets(n, d, L + 1) /\ ObjectHolds(V, e, n)
    BY <1>8 DEF OwnHolds
  <2>14. (Joint(Top, Y) => Guarded(n, d)) /\ (Known(c.fact, d) => (Joint(Top, Y) <=> Guarded(n, d) /\ Meets(n, d, L + 1)))
    BY <1>11, <2>1, <2>6 DEF Means, n
  <2>15. Joint(c, Y) => AtLeast(e, c, 0)
    BY <2>2, <2>5, <2>8, <2>10, <2>14
  <2>16. Known(c.fact, d) => (Joint(c, Y) <=> Exactly(V, e, c, 0))
    BY <2>2, <2>5, <2>9, <2>10, <2>11, <2>12, <2>13, <2>14
  <2> QED BY <1>5, <2>1, <2>15, <2>16 DEF Means
<1> QED BY <1>1, <1>3, <1>5, <1>7, <1>10, <1>11, BeDecides

-----------------------------------------------------------------------------
(* A call that has just started has no conjuncts: nothing is asked yet.    *)
LEMMA StartMeans ==
  ASSUME NEW d, d.at = "guard", d.conjuncts = <<>>, NEW e, NEW V, NEW Y
  PROVE  Means(V, e, Y, d, 0)
BY DEF Means, AtLeast, Exactly, Joint

(* The branch of an allOf is under way: it is not among those seen.        *)
LEMMA EnterBranchDecides ==
  ASSUME Tree, EnterBranch, Decides(stack, ops, ret, FALSE)
  PROVE  Decides(stack', ops', ret', FALSE)
<1> DEFINE n == Top.node
           c == NextK(Top)
           d == Call(Branch, Top.input, Top.fact, Top.path, Top.type)
<1>1. /\ stack # <<>> /\ UNCHANGED <<schema, ops, ret, pc>> /\ Top.at = "allOf"
      /\ Top.k \in 1..Len(schema[n].allOf)
  BY EnterBranchStarts
<1>2. stack' = Front(stack) \o <<c, d>>
  BY DEF EnterBranch, Branch
<1>3. /\ IsCall(Top) /\ Sure(Top) /\ Top.k \in Nat
      /\ \A k \in 1..Len(schema[n].allOf) : Clean(schema[n].allOf[k])
  BY <1>1, TopSure
<1>4. Alike(c, Top) /\ c.k = Top.k + 1 /\ c.at = "allOf" /\ c.conjuncts = Top.conjuncts
  BY <1>1, <1>3, SameCall, EditsAre
<1>5. /\ d.node = schema[n].allOf[Top.k] /\ d.fact = Top.fact /\ d.at = "guard"
      /\ d.conjuncts = <<>> /\ d.fields = <<>>
  BY DEF Call, Branch
<1> HIDE DEF c, d
<1>6. Sure(c) /\ Sure(d)
  BY <1>1, <1>3, <1>4, <1>5 DEF Sure, Tallied, Alike
<1>7. c.k - 1 = Top.k /\ c.k - 1 = Top.k - 0
  BY <1>3, <1>4
<1>8. Linked(c, d)
  BY <1>1, <1>4, <1>5, <1>7 DEF Linked, Alike
<1> HIDE DEF n
<1>9. ASSUME NEW e, NEW V, NEW Y, Means(V, e, Y, Top, 0) PROVE Means(V, e, Y, c, 1)
  <2>1. c.node = Top.node /\ c.fact = Top.fact
    BY <1>4 DEF Alike
  <2>2. Joint(c, Y) <=> Joint(Top, Y)
    BY <1>4 DEF Joint
  <2>3. AtLeast(e, c, 1) <=> AtLeast(e, Top, 0)
    BY <1>1, <1>4, <1>7, <2>1 DEF AtLeast
  <2>4. Exactly(V, e, c, 1) <=> Exactly(V, e, Top, 0)
    BY <1>1, <1>4, <1>7, <2>1 DEF Exactly
  <2> QED BY <1>4, <1>9, <2>1, <2>2, <2>3, <2>4 DEF Means
<1>10. \A e, V, Y : Means(V, e, Y, d, 0)
  BY <1>5, StartMeans
<1> QED BY <1>1, <1>2, <1>4, <1>6, <1>8, <1>9, <1>10, PushDecides

(* A property's call starts from what its own schema says of the kind; the *)
(* struct waits for its verdict.                                           *)
LEMMA EnterPropertyDecides ==
  ASSUME Tree, EnterProperty, Decides(stack, ops, ret, FALSE), errors' = {}
  PROVE  Decides(stack', ops', ret', FALSE)
<1> DEFINE child == TheProperty.schema
           known == {k \in DOMAIN args : args[k].path = PropertyPath}
           input == IF known = {} THEN Len(args) + 1 ELSE CHOOSE k \in known : TRUE
           c == NextK([Top EXCEPT !.fields = Append(@, TheProperty.name)])
           d == Call(child, input, CollectKind(child, "any").kind, PropertyPath,
                     Or(schema[child].title, TheProperty.name))
<1>1. /\ stack # <<>> /\ UNCHANGED <<schema, ops, ret, pc>>
      /\ Top.at = "properties" /\ Top.k \in 1..Len(Props(Top.node))
      /\ errors' = errors \cup CollectKind(child, "any").errors
  BY EnterPropertyStarts
<1>2. stack' = Front(stack) \o <<c, d>>
  BY DEF EnterProperty, PropertyPath
<1>3. IsCall(Top) /\ Sure(Top) /\ schema \in Schemas /\ Top.node \in DOMAIN schema /\ Top.k \in Nat
  BY <1>1, TopSure
<1>4. /\ Alike(c, Top) /\ c.k = Top.k + 1 /\ c.at = "properties"
      /\ c.conjuncts = Top.conjuncts /\ c.verdicts = Top.verdicts
      /\ c.fields = Append(Top.fields, TheProperty.name)
  <2>1. /\ c.k = Top.k + 1 /\ c.at = Top.at /\ c.conjuncts = Top.conjuncts
        /\ c.verdicts = Top.verdicts /\ c.fields = Append(Top.fields, TheProperty.name)
    BY <1>3 DEF NextK, IsCall, CallField
  <2> QED BY <1>1, <1>3, <2>1, SameCall
<1>5. /\ d.node = child /\ d.fact = CollectKind(child, "any").kind
      /\ d.at = "guard" /\ d.conjuncts = <<>> /\ d.fields = <<>>
  BY DEF Call
<1> HIDE DEF c, d
<1>6. child \in DOMAIN schema /\ Props(Top.node) \in Seq(Property) /\ Len(Props(Top.node)) \in Nat
  BY <1>1, <1>3, NodeIs, ChildrenAre DEF TheProperty
<1>7. child = Props(Top.node)[Top.k].schema
  BY DEF TheProperty
<1> HIDE DEF child
<1>8. Sure(c) /\ Sure(d)
  <2>1. "any" \in InstanceKind
    BY DEF InstanceKind
  <2>2. CollectKind(child, "any").errors = {}
    BY <1>1
  <2>3. Clean(child) /\ CollectKind(child, "any").kind \in InstanceKind
    BY <1>3, <1>6, <2>1, <2>2, CollectedIs DEF Clean
  <2>4. Tallied(c)
    <3>1. /\ IsRow(Top.fields) /\ Len(Top.fields) = Top.k - 1
          /\ \A j \in 1..Len(Top.fields) : Top.fields[j] = Props(Top.node)[j].name
      BY <1>1, <1>3 DEF Sure, Tallied
    <3>2. /\ IsRow(c.fields) /\ Len(c.fields) = Top.k /\ c.fields[Top.k] = TheProperty.name
          /\ \A j \in 1..Top.k - 1 : c.fields[j] = Top.fields[j]
      <4>1. Top.k - 1 + 1 = Top.k
        BY <1>3
      <4> QED BY <1>4, <3>1, <4>1, RowAppend
    <3>3. \A j \in 1..Top.k : j = Top.k \/ j \in 1..Top.k - 1
      BY <1>3
    <3>4. \A j \in 1..Top.k : c.fields[j] = Props(Top.node)[j].name
      BY <3>1, <3>2, <3>3 DEF TheProperty
    <3>5. c.k - 1 = Top.k /\ c.node = Top.node
      BY <1>3, <1>4 DEF Alike
    <3> QED BY <1>4, <3>2, <3>4, <3>5 DEF Tallied
  <2>5. Sure(c)
    BY <1>1, <1>3, <1>4, <2>4 DEF Sure, Alike
  <2> QED BY <1>5, <2>3, <2>5 DEF Sure, Tallied
<1>9. c.k - 1 = Top.k
  BY <1>3, <1>4
<1>10. Linked(c, d)
  BY <1>1, <1>4, <1>5, <1>7, <1>9 DEF Linked, Alike
<1>11. ASSUME NEW e, NEW V, NEW Y, Means(V, e, Y, Top, 0) PROVE Means(V, e, Y, c, 1)
  <2>1. c.node = Top.node /\ c.fact = Top.fact
    BY <1>4 DEF Alike
  <2>2. Joint(c, Y) <=> Joint(Top, Y)
    BY <1>4 DEF Joint
  <2>3. AtLeast(e, c, 1) <=> AtLeast(e, Top, 0)
    BY <1>1, <1>4, <2>1 DEF AtLeast
  <2>4. Exactly(V, e, c, 1) <=> Exactly(V, e, Top, 0)
    BY <1>1, <1>4, <2>1 DEF Exactly
  <2>5. Awaits(V, Y, c, 1)
    <3>1. Awaits(V, Y, Top, 0)
      BY <1>1, <1>11 DEF Means
    <3>2. Len(Top.verdicts) \in Nat
      BY <1>3 DEF IsCall
    <3>3. Len(c.verdicts) + 1 = c.k - 1 /\ c.k - 1 =< Len(Props(c.node))
      <4>1. Len(Top.verdicts) + 0 = Top.k - 1
        BY <3>1 DEF Awaits
      <4>2. Len(Top.verdicts) + 1 = Top.k
        BY <1>3, <3>2, <4>1
      <4>3. Top.k =< Len(Props(Top.node))
        BY <1>1, <1>6
      <4> QED BY <1>4, <1>9, <2>1, <4>2, <4>3
    <3> QED BY <1>4, <2>1, <3>1, <3>3 DEF Awaits
  <2> QED BY <1>4, <1>11, <2>1, <2>2, <2>3, <2>4, <2>5 DEF Means
<1>12. \A e, V, Y : Means(V, e, Y, d, 0)
  BY <1>5, StartMeans
<1> QED BY <1>1, <1>2, <1>4, <1>8, <1>10, <1>11, <1>12, PushDecides

(* The import starts with what the root says of its own kind.              *)
LEMMA BeginDecides ==
  ASSUME Tree, Begin, Decides(stack, ops, ret, FALSE), errors' = {}
  PROVE  Decides(stack', ops', ret', FALSE)
<1> DEFINE c == Call(1, 1, CollectKind(1, "any").kind, <<>>, RootName)
<1>1. UNCHANGED <<schema, ops, ret>> /\ stack' = <<c>> /\ CollectKind(1, "any").errors = {}
  BY DEF Begin
<1>2. schema \in Schemas /\ 1 \in DOMAIN schema
  BY NodeIs DEF Tree, Shape
<1>3. /\ c.node = 1 /\ c.fact = CollectKind(1, "any").kind /\ c.at = "guard"
      /\ c.conjuncts = <<>> /\ c.fields = <<>>
  BY DEF Call
<1> HIDE DEF c
<1>4. Sure(c)
  <2>1. "any" \in InstanceKind
    BY DEF InstanceKind
  <2>2. Clean(1) /\ CollectKind(1, "any").kind \in InstanceKind
    BY <1>1, <1>2, <2>1, CollectedIs DEF Clean
  <2> QED BY <1>3, <2>2 DEF Sure, Tallied
<1>5. Len(stack') = 1 /\ stack'[1] = c
  BY <1>1
<1>6. Chain(stack')
  <2>1. \A f \in 1..1 : f = 1
    OBVIOUS
  <2>2. 1..(1 - 1) = {}
    OBVIOUS
  <2>3. \A f \in 1..Len(stack') : Sure(stack'[f])
    BY <1>4, <1>5, <2>1
  <2>4. \A f \in 1..Len(stack') - 1 : Linked(stack'[f], stack'[f + 1])
    BY <1>5, <2>2
  <2> QED BY <1>3, <1>5, <2>3, <2>4 DEF Chain
<1>7. \A V, e, Y : AllMean(V, e, Y, stack')
  <2>1. \A f \in 1..1 : f = 1
    OBVIOUS
  <2>2. \A V, e, Y : Means(V, e, Y, c, 0)
    BY <1>3, StartMeans
  <2> QED BY <1>5, <2>1, <2>2 DEF AllMean
<1>8. JoinsTwo(ops')
  BY <1>1 DEF Decides
<1> QED BY <1>6, <1>7, <1>8, Zenon DEF Decides

-----------------------------------------------------------------------------
(* Nothing is over while a call is under way.                              *)
LEMMA StepDecides ==
  ASSUME Tree, Decided, Next, ~Finish, errors = {}, errors' = {}, pc' = "import"
  PROVE  Decides(stack', ops', ret', stack' = <<>> /\ pc' # "start")
<1>1. Decides(stack, ops, ret, stack = <<>> /\ pc # "start")
  BY DEF Decided
<1>2. Decides(stack, ops, ret, FALSE)
  BY <1>1 DEF Decides
<1>3. CASE Return
  BY <1>2, <1>3, PopDecides
<1>4. CASE ~Return
  <2>1. ~RejectKeyword /\ ~RejectProperty
    BY RejectsComplain
  <2>2. Decides(stack', ops', ret', FALSE)
    BY <1>2, <1>4, <2>1, BeginDecides, TypeGuardDecides, DropKeywordDecides, EmitKeywordDecides,
       EndKeywordsDecides, EnterPropertyDecides, FinishObjectDecides, EnterBranchDecides DEF Next
  <2>3. stack' # <<>>
    <3>1. CASE Begin
      BY <3>1 DEF Begin
    <3>2. CASE EnterBranch
      <4>1. PICK c, d : stack' = Front(stack) \o <<c, d>>
        BY <3>2 DEF EnterBranch
      <4>2. stack # <<>>
        BY <3>2 DEF EnterBranch, At
      <4>3. Len(stack') = Len(stack) + 1 /\ Len(stack) \in Nat
        BY <4>1, <4>2, PushShape, TopIs
      <4> QED BY <4>3
    <3>3. CASE EnterProperty
      <4>1. PICK c, d : stack' = Front(stack) \o <<c, d>>
        BY <3>3 DEF EnterProperty
      <4>2. stack # <<>>
        BY <3>3 DEF EnterProperty, AtProperty, At
      <4>3. Len(stack') = Len(stack) + 1 /\ Len(stack) \in Nat
        BY <4>1, <4>2, PushShape, TopIs
      <4> QED BY <4>3
    <3>4. CASE TypeGuard \/ DropKeyword \/ EmitKeyword \/ EndKeywords \/ FinishObject
      <4>1. PICK c : Be(c)
        BY <3>4 DEF TypeGuard, DropKeyword, EmitKeyword, EndKeywords, FinishObject
      <4>2. stack # <<>>
        BY <3>4, InPlace
      <4>3. Len(stack') = Len(stack) /\ Len(stack) \in Nat /\ Len(stack) > 0
        BY <4>1, <4>2, BeShape, TopIs
      <4> QED BY <4>3
    <3> QED BY <1>4, <2>1, <3>1, <3>2, <3>3, <3>4 DEF Next
  <2>4. (stack' = <<>> /\ pc' # "start") <=> FALSE
    BY <2>3
  <2> QED BY <2>2, <2>4 DEF Decides
<1> QED BY <1>3, <1>4

(* Every step keeps it.                                                    *)
LEMMA NextDecided == ASSUME Tree, Decided, Next PROVE Decided'
<1>1. pc = "start" => errors = {}
  BY DEF Decided
<1>2. CASE Finish
  <2>1. /\ UNCHANGED <<schema, stack, ops, ret, errors>> /\ pc = "import" /\ stack = <<>>
        /\ pc' \in {"module", "none"} /\ (pc' = "module" => errors = {})
    BY <1>2 DEF Finish
  <2>2. errors' = {} => Decides(stack', ops', ret', stack' = <<>> /\ pc' # "start")
    <3> SUFFICES ASSUME errors = {} PROVE Decides(stack', ops', ret', stack' = <<>> /\ pc' # "start")
      BY <2>1
    <3>1. Decides(stack, ops, ret, stack = <<>> /\ pc # "start")
      BY DEF Decided
    <3> QED BY <2>1, <3>1 DEF Decides
  <2>3. pc' \in {"start", "module"} => errors' = {} /\ stack' = <<>>
    BY <2>1
  <2> QED BY <2>1, <2>2, <2>3, DecidedNext
<1>3. CASE ~Finish
  <2>1. (errors' = {} => errors = {}) /\ schema' = schema /\ pc' = "import"
    BY <1>1, <1>3, StepErrors
  <2>2. errors' = {} => Decides(stack', ops', ret', stack' = <<>> /\ pc' # "start")
    BY <1>3, <2>1, StepDecides
  <2> QED BY <2>1, <2>2, DecidedNext
<1> QED BY <1>2, <1>3

(* A stutter keeps it.                                                     *)
LEMMA StutterDecided == ASSUME Decided, UNCHANGED vars PROVE Decided'
<1>1. UNCHANGED <<schema, stack, ops, ret, errors, pc>>
  BY DEF vars
<1>2. errors' = {} => Decides(stack', ops', ret', stack' = <<>> /\ pc' # "start")
  <2> SUFFICES ASSUME errors = {} PROVE Decides(stack', ops', ret', stack' = <<>> /\ pc' # "start")
    BY <1>1
  <2>1. Decides(stack, ops, ret, stack = <<>> /\ pc # "start")
    BY DEF Decided
  <2> QED BY <1>1, <2>1 DEF Decides
<1> QED BY <1>1, <1>2, DecidedNext DEF Decided

(* The function an import hands out answers, of every instance, what JSON  *)
(* Schema says.                                                            *)
THEOREM ImporterDecidesSchema == Spec => []DecidesSchema
<1>1. Init => Tree /\ Placed /\ Decided
  <2>1. Init => Decided
    <3> SUFFICES ASSUME Init PROVE Decided
      OBVIOUS
    <3>1. stack = <<>> /\ ops = <<>> /\ errors = {} /\ pc = "start"
      BY DEF Init, Idle
    <3>2. Len(stack) = 0 /\ Len(ops) = 0
      BY <3>1
    <3>3. 1..0 = {} /\ 1..(0 - 1) = {}
      OBVIOUS
    <3>4. JoinsTwo(ops) /\ Chain(stack) /\ \A V, e, Y : AllMean(V, e, Y, stack)
      BY <3>2, <3>3 DEF JoinsTwo, Chain, AllMean
    <3>5. Decides(stack, ops, ret, stack = <<>> /\ pc # "start")
      BY <3>1, <3>4 DEF Decides
    <3> QED BY <3>1, <3>5 DEF Decided
  <2> QED BY <2>1, InitTree, InitPlaced
<1>2. Tree /\ Placed /\ Decided /\ [Next]_vars => Tree' /\ Placed' /\ Decided'
  BY NextTree, StutterTree, NextPlaced, StutterPlaced, NextDecided, StutterDecided DEF vars
<1>3. Tree /\ Placed /\ Decided => DecidesSchema
  <2> SUFFICES ASSUME Tree, Placed, Decided, pc = "module", NEW e \in Instance
               PROVE  Verdict(e) <=> Valid(e)
    BY DEF DecidesSchema
  <2>1. JoinsTwo(ops) /\ ret \in 1..Len(ops)
        /\ \A V, Y : IsValidity(V, e) /\ IsAnswer(Y, ops, e) => (ret \in Y <=> 1 \in V)
    BY DEF Decided, Decides
  <2>2. PICK V : IsValidity(V, e) /\ (Valid(e) <=> 1 \in V)
    BY ValidIs DEF Tree, Shape
  <2>3. PICK Y : IsAnswer(Y, ops, e) /\ (Verdict(e) <=> ret \in Y)
    BY <2>1, VerdictIs
  <2> QED BY <2>1, <2>2, <2>3
<1> QED BY <1>1, <1>2, <1>3, PTL DEF Spec

=============================================================================
