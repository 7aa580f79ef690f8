--------------------------- MODULE LoweringProofs ---------------------------
(***************************************************************************)
(* Theorems about lower-schema-to-std, for every module, every runtime and *)
(* every set of documents; what is said of the attribute between two runs  *)
(* is for the modules whose late functions need no literal.                *)
(***************************************************************************)
EXTENDS Lowering, SequenceTheorems, FiniteSetTheorems, TLAPS

(* Entry id of tab is l.                                                   *)
Points(id, l, tab) == id + 1 \in 1..Len(tab) /\ tab[id + 1] = l

Longer(q, p) == /\ Len(p) =< Len(q)
                /\ \A k \in 1..Len(p) : q[k] = p[k]

Distinct(p) == \A a, b \in 1..Len(p) : p[a] = p[b] => a = b

(* What operation o becomes when g gives the ids of its literals.          *)
HasFields(o, g, m) == {<<"has_field", g[o.required[k]]>> : k \in 1..m}
Operands(o) == {<<"andi", o.results[k]>> : k \in 1..Len(o.results)}

StringShape(c, g) ==
  {<<"sge", b>> : b \in c.minLength} \cup {<<"sle", b>> : b \in c.maxLength}
  \cup {<<"matches", g[l]>> : l \in c.pattern}
  \cup {<<"format", g[l]>> : l \in c.format}

Shape(o, g) ==
  IF o.op = "struct"
  THEN [kind |-> "object", checks |-> HasFields(o, g, Len(o.required)) \cup Operands(o)]
  ELSE IF o.lat.kind = "number"
  THEN [kind |-> "number", checks |-> NumberChecks(o.lat)]
  ELSE [kind |-> "string", checks |-> StringShape(o.lat, g)]

(* s is o lowered, with ids that are right in tab.                         *)
Ids == [Literal -> Int]
Right(o, s, tab) ==
  \E g \in Ids : /\ s = Shape(o, g)
                 /\ \A l \in Literals(o) : Points(g[l], l, tab)

(* The types, and no literal twice in the pool: this much holds whatever   *)
(* joins the module between two runs.                                      *)
Typed == TypeOK /\ Distinct(pool)

(* The attribute, if the run ended now.                                    *)
Pending == IF pc = "idle" \/ pool = <<>> THEN table ELSE pool

(* The struct being lowered has its fields so far.                         *)
Partial ==
  \E g \in Ids :
    /\ checks = HasFields(ops[cur], g, n - 1)
    /\ \A k \in 1..n - 1 : Points(g[ops[cur].required[k]], ops[cur].required[k], pool)

(* Every lowered operation is right in the attribute the run is going to   *)
(* leave, and once there is an attribute nothing that is still to be       *)
(* lowered needs a literal, so that no run replaces it.                    *)
IInv ==
  /\ Typed
  /\ \A v \in Value : \A s \in std[v] : Right(ops[v], s, Pending)
  /\ \A v \in Value \ present : Literals(ops[v]) = {}
  /\ table # <<>> => \A v \in Value : std[v] = {} => Literals(ops[v]) = {}
  /\ table # <<>> /\ pc # "idle" => pool = <<>>
  /\ pc = "struct" => Partial

LateNeedNoLiteral ==
  \A m \in Modules : \A v \in m.late : Literals(m.ops[v]) = {}

-----------------------------------------------------------------------------
(* Interning makes the pool longer, keeps its entries distinct and adds    *)
(* the literal; the id of a literal in the pool points at it.              *)
LEMMA InternLonger ==
  ASSUME NEW p \in Seq(Literal), NEW lits \in Opt(Literal), Distinct(p)
  PROVE  LET q == Intern(p, lits)
         IN /\ q \in Seq(Literal) /\ Longer(q, p) /\ Distinct(q)
            /\ lits \subseteq Entries(q) /\ (lits = {} => q = p)
<1>1. CASE lits \subseteq Entries(p)
  BY <1>1 DEF Intern, Longer
<1>2. CASE ~(lits \subseteq Entries(p))
  <2>1. PICK l \in lits : l \notin Entries(p)
    BY <1>2
  <2>2. lits = {l} /\ l \in Literal
    BY <2>1 DEF Opt
  <2> DEFINE q == Append(p, l)
  <2>3. Intern(p, lits) = q
    <3>1. (CHOOSE x \in lits : TRUE) = l
      BY <2>2
    <3> QED BY <3>1, <1>2 DEF Intern
  <2>4. /\ q \in Seq(Literal) /\ Len(q) = Len(p) + 1 /\ q[Len(p) + 1] = l
        /\ \A k \in 1..Len(p) : q[k] = p[k]
        /\ Len(p) \in Nat
    BY <2>2
  <2>5. \A k \in 1..Len(p) : p[k] # l
    BY <2>1 DEF Entries
  <2>6. Distinct(q)
    BY <2>4, <2>5 DEF Distinct
  <2>7. lits \subseteq Entries(q)
    BY <2>2, <2>4 DEF Entries
  <2> HIDE DEF q
  <2> QED BY <2>3, <2>4, <2>6, <2>7, <2>2 DEF Longer
<1> QED BY <1>1, <1>2

LEMMA IdPoints ==
  ASSUME NEW p \in Seq(Literal), NEW l \in Entries(p)
  PROVE  Id(p, l) \in Int /\ Points(Id(p, l), l, p)
<1>1. \E k \in 1..Len(p) : p[k] = l
  BY DEF Entries
<1>2. Len(p) \in Nat
  OBVIOUS
<1> DEFINE k == CHOOSE k \in 1..Len(p) : p[k] = l
<1>3. k \in 1..Len(p) /\ p[k] = l
  BY <1>1
<1>4. Id(p, l) = k - 1
  BY DEF Id
<1> HIDE DEF k
<1> QED BY <1>2, <1>3, <1>4 DEF Points

(* An id keeps its meaning when the table grows.                           *)
LEMMA PointsLonger ==
  ASSUME NEW p \in Seq(Literal), NEW q \in Seq(Literal), Longer(q, p),
         NEW id \in Int, NEW l, Points(id, l, p)
  PROVE  Points(id, l, q)
BY DEF Points, Longer

LEMMA RightLonger ==
  ASSUME NEW p \in Seq(Literal), NEW q \in Seq(Literal), Longer(q, p),
         NEW o, NEW s, Literals(o) \subseteq Literal, Right(o, s, p)
  PROVE  Right(o, s, q)
<1>1. PICK g \in Ids : s = Shape(o, g) /\ \A l \in Literals(o) : Points(g[l], l, p)
  BY DEF Right
<1>2. \A l \in Literals(o) : g[l] \in Int
  BY DEF Ids
<1>3. \A l \in Literals(o) : Points(g[l], l, q)
  BY <1>1, <1>2, PointsLonger
<1> QED BY <1>1, <1>3 DEF Right

LEMMA LiteralsType ==
  ASSUME NEW o \in ValidateOp \cup StructOp
  PROVE  Literals(o) \subseteq Literal
<1>1. CASE o \in StructOp
  <2>1. o.op = "struct" /\ o.required \in Seq(Name)
    BY <1>1 DEF StructOp
  <2> QED BY <2>1 DEF Literals, Literal, Entries
<1>2. CASE o \in ValidateOp
  <2>1. o.op = "validate" /\ o.lat \in Lattice
    BY <1>2 DEF ValidateOp
  <2> QED BY <2>1 DEF Literals, Literal, Lattice, StringLattice, NumberLattice, Opt
<1> QED BY <1>1, <1>2

-----------------------------------------------------------------------------
(* An operation that is lowered right answers what the schema operation    *)
(* answers.                                                                *)
LEMMA NumberAgrees ==
  ASSUME NEW c \in NumberLattice, NEW x \in NumberValue,
         NEW fields, NEW bit, NEW tab
  PROVE  (\A ch \in NumberChecks(c) : CheckHolds(ch, x, fields, bit, tab))
           <=> NumberAccepts(c, x)
<1>1. \A b \in c.minimum :
        CheckHolds(<<IF c.exclusiveMin THEN "ogt" ELSE "oge", b>>, x, fields, bit, tab)
          <=> (IF c.exclusiveMin THEN x.x > b ELSE x.x >= b)
  BY DEF CheckHolds
<1>2. \A b \in c.maximum :
        CheckHolds(<<IF c.exclusiveMax THEN "olt" ELSE "ole", b>>, x, fields, bit, tab)
          <=> (IF c.exclusiveMax THEN x.x < b ELSE x.x =< b)
  BY DEF CheckHolds
<1>3. \A m \in c.multipleOf :
        CheckHolds(<<"roundeven", m>>, x, fields, bit, tab) <=> <<x.x, m>> \in Integral
  BY DEF CheckHolds
<1>4. \A t \in {c.integral} \cap {TRUE} :
        CheckHolds(<<"trunc", t>>, x, fields, bit, tab) <=> x.x \in Whole
  BY DEF CheckHolds
<1>5. c.integral <=> {c.integral} \cap {TRUE} # {}
  <2>1. c.integral \in BOOLEAN
    BY DEF NumberLattice
  <2> QED BY <2>1
<1> DEFINE All(S) == \A ch \in S : CheckHolds(ch, x, fields, bit, tab)
           S1 == {<<IF c.exclusiveMin THEN "ogt" ELSE "oge", b>> : b \in c.minimum}
           S2 == {<<IF c.exclusiveMax THEN "olt" ELSE "ole", b>> : b \in c.maximum}
           S3 == {<<"roundeven", m>> : m \in c.multipleOf}
           S4 == {<<"trunc", t>> : t \in {c.integral} \cap {TRUE}}
<1>6. All(S1) <=> \A b \in c.minimum : IF c.exclusiveMin THEN x.x > b ELSE x.x >= b
  BY <1>1
<1>7. All(S2) <=> \A b \in c.maximum : IF c.exclusiveMax THEN x.x < b ELSE x.x =< b
  BY <1>2
<1>8. All(S3) <=> \A m \in c.multipleOf : <<x.x, m>> \in Integral
  BY <1>3
<1>9. All(S4) <=> (c.integral => x.x \in Whole)
  BY <1>4, <1>5
<1>10. NumberChecks(c) = S1 \cup S2 \cup S3 \cup S4
  BY DEF NumberChecks
<1>11. All(NumberChecks(c)) <=> All(S1) /\ All(S2) /\ All(S3) /\ All(S4)
  BY <1>10
<1> QED BY <1>6, <1>7, <1>8, <1>9, <1>11 DEF NumberAccepts

LEMMA StringAgrees ==
  ASSUME NEW c \in StringLattice, NEW x \in StringValue,
         NEW fields, NEW bit, NEW tab, NEW g \in Ids,
         \A l \in c.pattern \cup c.format : Points(g[l], l, tab)
  PROVE  (\A ch \in StringShape(c, g) : CheckHolds(ch, x, fields, bit, tab))
           <=> StringAccepts(c, x)
<1>1. \A b \in c.minLength :
        CheckHolds(<<"sge", b>>, x, fields, bit, tab) <=> x.length >= b
  BY DEF CheckHolds
<1>2. \A b \in c.maxLength :
        CheckHolds(<<"sle", b>>, x, fields, bit, tab) <=> x.length =< b
  BY DEF CheckHolds
<1>3. \A l \in c.pattern :
        CheckHolds(<<"matches", g[l]>>, x, fields, bit, tab) <=> l \in x.matches
  BY DEF CheckHolds, Points, Resolves
<1>4. \A l \in c.format :
        CheckHolds(<<"format", g[l]>>, x, fields, bit, tab) <=> l \in x.formats
  BY DEF CheckHolds, Points, Resolves
<1> DEFINE All(S) == \A ch \in S : CheckHolds(ch, x, fields, bit, tab)
           S1 == {<<"sge", b>> : b \in c.minLength}
           S2 == {<<"sle", b>> : b \in c.maxLength}
           S3 == {<<"matches", g[l]>> : l \in c.pattern}
           S4 == {<<"format", g[l]>> : l \in c.format}
<1>6. All(S1) <=> \A b \in c.minLength : x.length >= b
  BY <1>1
<1>7. All(S2) <=> \A b \in c.maxLength : x.length =< b
  BY <1>2
<1>8. All(S3) <=> c.pattern \subseteq x.matches
  BY <1>3
<1>9. All(S4) <=> c.format \subseteq x.formats
  BY <1>4
<1>10. StringShape(c, g) = S1 \cup S2 \cup S3 \cup S4
  BY DEF StringShape
<1>11. All(StringShape(c, g)) <=> All(S1) /\ All(S2) /\ All(S3) /\ All(S4)
  BY <1>10
<1> QED BY <1>6, <1>7, <1>8, <1>9, <1>11 DEF StringAccepts

LEMMA StructAgrees ==
  ASSUME NEW o \in StructOp, NEW x, x.kind = "object",
         NEW fields, NEW bit, NEW tab, NEW g \in Ids,
         \A l \in Literals(o) : Points(g[l], l, tab)
  PROVE  (\A ch \in HasFields(o, g, Len(o.required)) \cup Operands(o) :
            CheckHolds(ch, x, fields, bit, tab))
           <=> SchemaVerdict(o, x, fields, bit)
<1>1. o.op = "struct"
  BY DEF StructOp
<1>2. \A k \in 1..Len(o.required) : Points(g[o.required[k]], o.required[k], tab)
  BY <1>1 DEF Literals, Entries
<1>3. \A k \in 1..Len(o.required) :
        CheckHolds(<<"has_field", g[o.required[k]]>>, x, fields, bit, tab)
          <=> o.required[k] \in fields
  BY <1>2 DEF CheckHolds, Points, Resolves
<1>4. \A k \in 1..Len(o.results) :
        CheckHolds(<<"andi", o.results[k]>>, x, fields, bit, tab) <=> bit[o.results[k]]
  BY DEF CheckHolds
<1>5. (\A ch \in HasFields(o, g, Len(o.required)) : CheckHolds(ch, x, fields, bit, tab))
        <=> \A k \in 1..Len(o.required) : o.required[k] \in fields
  BY <1>3 DEF HasFields
<1>6. (\A ch \in Operands(o) : CheckHolds(ch, x, fields, bit, tab))
        <=> \A k \in 1..Len(o.results) : bit[o.results[k]]
  BY <1>4 DEF Operands
<1> QED BY <1>1, <1>5, <1>6 DEF SchemaVerdict

LEMMA RightAgrees ==
  ASSUME NEW o \in ValidateOp \cup StructOp, NEW s, NEW tab, Right(o, s, tab),
         NEW x \in JsonValue, NEW fields, NEW bit
  PROVE  StdVerdict(s, x, fields, bit, tab) <=> SchemaVerdict(o, x, fields, bit)
<1>1. PICK g \in Ids : s = Shape(o, g) /\ \A l \in Literals(o) : Points(g[l], l, tab)
  BY DEF Right
<1>2. CASE o \in StructOp
  <2>1. o.op = "struct"
    BY <1>2 DEF StructOp
  <2>2. s = [kind |-> "object", checks |-> HasFields(o, g, Len(o.required)) \cup Operands(o)]
    BY <1>1, <2>1 DEF Shape
  <2>3. CASE x.kind = "object"
    BY <1>1, <1>2, <2>2, <2>3, StructAgrees DEF StdVerdict
  <2>4. CASE x.kind # "object"
    BY <2>1, <2>2, <2>4 DEF StdVerdict, SchemaVerdict
  <2> QED BY <2>3, <2>4
<1>3. CASE o \in ValidateOp /\ o.lat \in NumberLattice
  <2>1. o.op = "validate" /\ o.lat.kind = "number"
    BY <1>3 DEF ValidateOp, NumberLattice
  <2>2. s = [kind |-> "number", checks |-> NumberChecks(o.lat)]
    BY <1>1, <2>1 DEF Shape
  <2>3. CASE x.kind = "number"
    <3>1. x \in NumberValue
      BY <2>3 DEF JsonValue, StringValue, NumberValue, OtherValue
    <3>2. (\A ch \in NumberChecks(o.lat) : CheckHolds(ch, x, fields, bit, tab))
            <=> NumberAccepts(o.lat, x)
      BY <3>1, <1>3, NumberAgrees
    <3> QED BY <2>1, <2>2, <2>3, <3>2 DEF StdVerdict, SchemaVerdict, Accepts
  <2>4. CASE x.kind # "number"
    BY <2>1, <2>2, <2>4 DEF StdVerdict, SchemaVerdict, Accepts
  <2> QED BY <2>3, <2>4
<1>4. CASE o \in ValidateOp /\ o.lat \in StringLattice
  <2>1. o.op = "validate" /\ o.lat.kind = "string"
    BY <1>4 DEF ValidateOp, StringLattice
  <2>2. /\ s = [kind |-> "string", checks |-> StringShape(o.lat, g)]
        /\ Literals(o) = o.lat.pattern \cup o.lat.format
    BY <1>1, <2>1 DEF Shape, Literals
  <2>3. CASE x.kind = "string"
    <3>1. x \in StringValue
      BY <2>3 DEF JsonValue, StringValue, NumberValue, OtherValue
    <3>2. (\A ch \in StringShape(o.lat, g) : CheckHolds(ch, x, fields, bit, tab))
            <=> StringAccepts(o.lat, x)
      BY <3>1, <1>1, <1>4, <2>2, StringAgrees
    <3> QED BY <2>1, <2>2, <2>3, <3>2 DEF StdVerdict, SchemaVerdict, Accepts
  <2>4. CASE x.kind # "string"
    BY <2>1, <2>2, <2>4 DEF StdVerdict, SchemaVerdict, Accepts
  <2> QED BY <2>3, <2>4
<1> QED BY <1>2, <1>3, <1>4 DEF ValidateOp, Lattice

-----------------------------------------------------------------------------
(* The checks an operation is lowered to have their types.                 *)
LEMMA NumberChecksType ==
  ASSUME NEW c \in NumberLattice PROVE NumberChecks(c) \subseteq Check
<1>1. c.minimum \subseteq Number /\ c.maximum \subseteq Number /\ c.multipleOf \subseteq Number
  BY DEF NumberLattice, Opt
<1> DEFINE Bounds == {"oge", "ogt", "ole", "olt", "roundeven"} \X Number
<1>2. Bounds \subseteq Check /\ {"trunc"} \X {TRUE} \subseteq Check
  BY DEF Check
<1>3. {<<IF c.exclusiveMin THEN "ogt" ELSE "oge", b>> : b \in c.minimum} \subseteq Bounds
  BY <1>1
<1>4. {<<IF c.exclusiveMax THEN "olt" ELSE "ole", b>> : b \in c.maximum} \subseteq Bounds
  BY <1>1
<1>5. {<<"roundeven", m>> : m \in c.multipleOf} \subseteq Bounds
  BY <1>1
<1>6. {<<"trunc", t>> : t \in {c.integral} \cap {TRUE}} \subseteq {"trunc"} \X {TRUE}
  OBVIOUS
<1> HIDE DEF Bounds
<1> QED BY <1>2, <1>3, <1>4, <1>5, <1>6 DEF NumberChecks

LEMMA StringChecksShape ==
  ASSUME NEW c \in StringLattice, NEW p \in Seq(Literal),
         c.pattern \cup c.format \subseteq Entries(p)
  PROVE  \E g \in Ids : /\ StringChecks(c, p) = StringShape(c, g)
                        /\ \A l \in c.pattern \cup c.format : Points(g[l], l, p)
                        /\ StringChecks(c, p) \subseteq Check
<1> DEFINE g == [l \in Literal |-> IF l \in Entries(p) THEN Id(p, l) ELSE 0]
<1>1. g \in Ids
  BY IdPoints DEF Ids
<1>2. c.pattern \cup c.format \subseteq Literal
  BY DEF StringLattice, Opt, Literal
<1>3. \A l \in c.pattern \cup c.format : g[l] = Id(p, l)
  BY <1>2
<1>4. \A l \in c.pattern \cup c.format : Points(g[l], l, p) /\ g[l] \in Int
  BY <1>3, IdPoints
<1> HIDE DEF g
<1>5. {<<"matches", Id(p, l)>> : l \in c.pattern} = {<<"matches", g[l]>> : l \in c.pattern}
  BY <1>3
<1>6. {<<"format", Id(p, l)>> : l \in c.format} = {<<"format", g[l]>> : l \in c.format}
  BY <1>3
<1>7. StringChecks(c, p) = StringShape(c, g)
  BY <1>5, <1>6 DEF StringChecks, StringShape
<1>8. StringShape(c, g) \subseteq Check
  <2>1. c.minLength \subseteq Int /\ c.maxLength \subseteq Int
    BY DEF StringLattice, Opt
  <2> DEFINE WithInt == {"sge", "sle", "matches", "format", "has_field"} \X Int
  <2>2. WithInt \subseteq Check
    BY DEF Check
  <2>3. /\ {<<"sge", b>> : b \in c.minLength} \subseteq WithInt
        /\ {<<"sle", b>> : b \in c.maxLength} \subseteq WithInt
    BY <2>1
  <2>4. /\ {<<"matches", g[l]>> : l \in c.pattern} \subseteq WithInt
        /\ {<<"format", g[l]>> : l \in c.format} \subseteq WithInt
    BY <1>4
  <2> HIDE DEF WithInt
  <2> QED BY <2>2, <2>3, <2>4 DEF StringShape
<1> QED BY <1>1, <1>4, <1>7, <1>8

-----------------------------------------------------------------------------
(* The first state and every step of the pass are well typed, and a step   *)
(* of a run leaves the pool as it is or makes it longer.                   *)
LEMMA InitTyped == ASSUME Init PROVE Typed
<1>1. PICK m \in Modules : ops = m.ops /\ present = Value \ m.late
  BY DEF Init
<1>2. /\ std = [v \in Value |-> {}] /\ declared = {} /\ pool = <<>> /\ table = <<>>
      /\ n = 1 /\ checks = {} /\ pc = "idle"
  BY DEF Init
<1>3. pool \in Seq(Literal) /\ table \in Seq(Literal) /\ Len(pool) = 0
  BY <1>2
<1>4. ops \in [Value -> ValidateOp \cup StructOp]
  BY <1>1, ModulesAssumption
<1>5. std \in [Value -> Opt(StdOp)]
  BY <1>2 DEF Opt
<1>6. TypeOK
  BY <1>1, <1>2, <1>3, <1>4, <1>5 DEF TypeOK
<1> QED BY <1>3, <1>6 DEF Typed, Distinct

LEMMA LowerNumberTyped ==
  ASSUME Typed, NEW v \in Value, LowerNumber(v) PROVE Typed'
<1>1. /\ pc = "convert" /\ ops[v].lat.kind = "number" /\ ops[v].op = "validate"
      /\ std' = [std EXCEPT ![v] = {[kind |-> "number", checks |-> NumberChecks(ops[v].lat)]}]
      /\ UNCHANGED <<ops, present, declared, pool, table, cur, n, checks, pc>>
  BY DEF LowerNumber, Replace
<1>2. ops[v].lat \in NumberLattice
  <2>1. ops[v] \in ValidateOp \cup StructOp
    BY DEF Typed, TypeOK
  <2> QED BY <1>1, <2>1 DEF ValidateOp, StructOp, Lattice, StringLattice
<1>3. [kind |-> "number", checks |-> NumberChecks(ops[v].lat)] \in StdOp
  BY <1>2, NumberChecksType DEF StdOp
<1>4. std' \in [Value -> Opt(StdOp)]
  BY <1>1, <1>3 DEF Typed, TypeOK, Opt
<1> QED BY <1>1, <1>4 DEF Typed, TypeOK, Distinct

(* The checks of a string have ids in the pool that point at its literals. *)
LEMMA LowerStringTyped ==
  ASSUME Typed, NEW v \in Value, LowerString(v)
  PROVE  LET c == ops[v].lat
         IN /\ Typed' /\ Longer(pool', pool)
            /\ c \in StringLattice /\ Literals(ops[v]) = c.pattern \cup c.format
            /\ c.pattern \cup c.format \subseteq Entries(pool')
            /\ Literals(ops[v]) = {} => pool' = pool
            /\ \E g \in Ids : /\ StringChecks(c, pool') = StringShape(c, g)
                              /\ \A l \in c.pattern \cup c.format : Points(g[l], l, pool')
<1> DEFINE c == ops[v].lat
           p1 == Intern(pool, c.pattern)
           p == Intern(p1, c.format)
           s == [kind |-> "string", checks |-> StringChecks(c, p)]
<1>1. /\ pc = "convert" /\ c.kind = "string" /\ ops[v].op = "validate"
      /\ pool' = p
      /\ std' = [std EXCEPT ![v] = {s}]
      /\ UNCHANGED <<ops, present, declared, table, cur, n, checks, pc>>
  BY DEF LowerString, Replace
<1>2. c \in StringLattice /\ Literals(ops[v]) = c.pattern \cup c.format
  <2>1. ops[v] \in ValidateOp \cup StructOp
    BY DEF Typed, TypeOK
  <2> QED BY <1>1, <2>1 DEF ValidateOp, StructOp, Lattice, NumberLattice, Literals
<1>3. c.pattern \in Opt(Literal) /\ c.format \in Opt(Literal)
  BY <1>2 DEF StringLattice, Opt, Literal
<1>4. pool \in Seq(Literal) /\ Distinct(pool)
  BY DEF Typed, TypeOK
<1>5. /\ p1 \in Seq(Literal) /\ Longer(p1, pool) /\ Distinct(p1)
      /\ c.pattern \subseteq Entries(p1) /\ (c.pattern = {} => p1 = pool)
  BY <1>3, <1>4, InternLonger
<1> HIDE DEF p1
<1>6. /\ p \in Seq(Literal) /\ Longer(p, p1) /\ Distinct(p)
      /\ c.format \subseteq Entries(p) /\ (c.format = {} => p = p1)
  BY <1>3, <1>5, InternLonger
<1> HIDE DEF p
<1>7. Longer(p, pool)
  BY <1>4, <1>5, <1>6 DEF Longer
<1>8. c.pattern \cup c.format \subseteq Entries(p)
  BY <1>5, <1>6 DEF Longer, Entries
<1>9. Literals(ops[v]) = {} => p = pool
  BY <1>2, <1>5, <1>6
<1>10. PICK g \in Ids : /\ StringChecks(c, p) = StringShape(c, g)
                        /\ \A l \in c.pattern \cup c.format : Points(g[l], l, p)
                        /\ StringChecks(c, p) \subseteq Check
  BY <1>2, <1>6, <1>8, StringChecksShape
<1>11. s \in StdOp
  BY <1>10 DEF StdOp
<1> HIDE DEF s
<1>12. Typed'
  <2>1. std' \in [Value -> Opt(StdOp)]
    BY <1>1, <1>11 DEF Typed, TypeOK, Opt
  <2> QED BY <1>1, <1>6, <2>1 DEF Typed, TypeOK
<1> QED BY <1>1, <1>2, <1>7, <1>8, <1>9, <1>10, <1>12

LEMMA StartStructTyped ==
  ASSUME Typed, NEW v \in Value, StartStruct(v) PROVE Typed'
<1>1. /\ pc = "convert" /\ v \in Illegal /\ ops[v].op = "struct"
      /\ cur' = v /\ n' = 1 /\ checks' = {} /\ pc' = "struct"
      /\ UNCHANGED <<ops, present, std, declared, pool, table>>
  BY DEF StartStruct
<1>2. ops[v].required \in Seq(Name)
  <2>1. ops[v] \in ValidateOp \cup StructOp
    BY DEF Typed, TypeOK
  <2> QED BY <1>1, <2>1 DEF ValidateOp, StructOp
<1>3. n' =< Len(ops[v].required) + 1
  BY <1>1, <1>2
<1>4. Illegal' = Illegal
  BY <1>1 DEF Illegal
<1> QED BY <1>1, <1>3, <1>4 DEF Typed, TypeOK, Distinct

LEMMA RequireFieldTyped ==
  ASSUME Typed, RequireField
  PROVE  LET l == ops[cur].required[n]
         IN /\ Typed' /\ Longer(pool', pool)
            /\ l \in Literals(ops[cur]) /\ l \in Literal /\ l \in Entries(pool')
<1> DEFINE o == ops[cur]
           l == o.required[n]
           p == Intern(pool, {l})
<1>1. /\ pc = "struct" /\ n =< Len(o.required)
      /\ pool' = p
      /\ checks' = checks \cup {<<"has_field", Id(p, l)>>}
      /\ n' = n + 1
      /\ UNCHANGED <<ops, present, std, declared, table, cur, pc>>
  BY DEF RequireField, Required
<1>2. /\ cur \in Value /\ cur \in Illegal /\ o.op = "struct" /\ n \in Nat \ {0}
      /\ o.required \in Seq(Name) /\ Literals(o) = Entries(o.required)
  <2>1. /\ cur \in Illegal /\ cur \in Value /\ o.op = "struct" /\ n \in Nat \ {0}
        /\ o \in ValidateOp \cup StructOp
    BY <1>1 DEF Typed, TypeOK, Illegal
  <2> QED BY <2>1 DEF ValidateOp, StructOp, Literals
<1>3. l \in Name /\ l \in Literal /\ l \in Literals(o) /\ {l} \in Opt(Literal)
  BY <1>1, <1>2 DEF Literal, Entries, Opt
<1> HIDE DEF l
<1>4. pool \in Seq(Literal) /\ Distinct(pool)
  BY DEF Typed, TypeOK
<1>5. p \in Seq(Literal) /\ Longer(p, pool) /\ Distinct(p) /\ l \in Entries(p)
  BY <1>3, <1>4, InternLonger
<1> HIDE DEF p
<1>6. checks' \subseteq Check
  <2>1. checks \subseteq Check
    BY DEF Typed, TypeOK
  <2>2. Id(p, l) \in Int
    BY <1>5, IdPoints
  <2>3. <<"has_field", Id(p, l)>> \in {"sge", "sle", "matches", "format", "has_field"} \X Int
    BY <2>2
  <2>4. <<"has_field", Id(p, l)>> \in Check
    BY <2>3 DEF Check
  <2> QED BY <2>1, <2>4, <1>1
<1>7. n' \in Nat \ {0} /\ n' =< Len(ops'[cur'].required) + 1
  BY <1>1, <1>2
<1>8. Illegal' = Illegal
  BY <1>1 DEF Illegal
<1> HIDE DEF o
<1>9. Typed'
  BY <1>1, <1>5, <1>6, <1>7, <1>8 DEF Typed, TypeOK
<1> QED BY <1>1, <1>3, <1>5, <1>9 DEF o, l

LEMMA FinishStructTyped == ASSUME Typed, FinishStruct PROVE Typed'
<1> DEFINE o == ops[cur]
           s == [kind |-> "object", checks |-> checks \cup Operands(o)]
<1>1. /\ pc = "struct" /\ std' = [std EXCEPT ![cur] = {s}]
      /\ checks' = {} /\ n' = 1 /\ pc' = "convert"
      /\ UNCHANGED <<ops, present, declared, pool, table>>
  BY DEF FinishStruct, Replace, Required, Operands
<1>2. cur \in Value /\ o \in StructOp
  <2>1. /\ cur \in Value /\ o.op = "struct" /\ o \in ValidateOp \cup StructOp
    BY <1>1 DEF Typed, TypeOK, Illegal
  <2> QED BY <2>1 DEF ValidateOp, StructOp
<1>3. s \in StdOp
  <2>1. Operands(o) \subseteq {"andi"} \X Value
    BY <1>2 DEF Operands, StructOp
  <2>2. {"andi"} \X Value \subseteq Check
    BY DEF Check
  <2> QED BY <2>1, <2>2 DEF Typed, TypeOK, StdOp
<1> HIDE DEF s
<1>4. std' \in [Value -> Opt(StdOp)]
  <2>1. {s} \in Opt(StdOp)
    BY <1>3 DEF Opt
  <2> QED BY <2>1, <1>1 DEF Typed, TypeOK
<1> QED BY <1>1, <1>4 DEF Typed, TypeOK, Distinct

LEMMA NextTyped == ASSUME Typed, [Next]_vars PROVE Typed'
<1>1. CASE UNCHANGED vars
  BY <1>1 DEF vars, Typed, TypeOK, Illegal, Distinct
<1>2. CASE Start
  <2>1. pool' = <<>> /\ pool' \in Seq(Literal) /\ Len(pool') = 0
    BY <1>2 DEF Start
  <2> QED BY <1>2, <2>1 DEF Start, Typed, TypeOK, Distinct
<1>3. CASE Finish
  BY <1>3 DEF Finish, Typed, TypeOK, Distinct
<1>4. CASE Link
  BY <1>4 DEF Link, Typed, TypeOK, Distinct
<1> QED BY <1>1, <1>2, <1>3, <1>4, LowerNumberTyped, LowerStringTyped, StartStructTyped,
           RequireFieldTyped, FinishStructTyped DEF Next

(* The types hold and the pool has no literal twice, whatever joins the     *)
(* module between two runs.                                                *)
THEOREM LoweringTyped == Spec => []Typed
<1> QED BY InitTyped, NextTyped, PTL DEF Spec

(* The variables of the pass have their types, whatever joins the module   *)
(* between two runs.                                                       *)
THEOREM LoweringTypeOK == Spec => []TypeOK
<1>1. Typed => TypeOK
  BY DEF Typed
<1> QED BY <1>1, LoweringTyped, PTL

(* An id that was given out in a run keeps its meaning to the end of it,   *)
(* whatever joins the module between two runs.                             *)
THEOREM LoweringPoolGrows == Spec => PoolGrows
<1> DEFINE Grows == pc # "idle" => Longer(pool', pool)
<1>1. Typed /\ [Next]_vars => [Grows]_vars
  <2> SUFFICES ASSUME Typed, Next, pc # "idle" PROVE Longer(pool', pool)
    OBVIOUS
  <2>1. Len(pool) \in Nat
    BY DEF Typed, TypeOK
  <2>2. CASE pool' = pool
    BY <2>1, <2>2 DEF Longer
  <2>3. CASE RequireField \/ \E v \in Value : LowerString(v)
    BY <2>3, RequireFieldTyped, LowerStringTyped
  <2> QED BY <2>2, <2>3 DEF Next, Start, Finish, Link, LowerNumber, StartStruct, FinishStruct
<1> HIDE DEF Grows
<1>2. [][Grows]_vars => PoolGrows
  BY DEF Grows, PoolGrows, Longer
<1> QED BY <1>1, <1>2, LoweringTyped, PTL DEF Spec

-----------------------------------------------------------------------------
(* What is lowered stays right.                                            *)
LEMMA InitIInv == ASSUME LateNeedNoLiteral, Init PROVE IInv
<1>1. PICK m \in Modules : ops = m.ops /\ present = Value \ m.late
  BY DEF Init
<1>2. std = [v \in Value |-> {}] /\ pool = <<>> /\ table = <<>> /\ pc = "idle"
  BY DEF Init
<1>3. \A v \in Value \ present : Literals(ops[v]) = {}
  BY <1>1 DEF LateNeedNoLiteral
<1> QED BY <1>2, <1>3, InitTyped DEF IInv

(* One more operation lowered, in a run whose pool became p: what was      *)
(* right stays right, because p is no shorter than the pool was, and a     *)
(* pool that is not empty is only ever built when there is no attribute.   *)
LEMMA StayRight ==
  ASSUME IInv, pc # "idle", NEW p \in Seq(Literal), Longer(p, pool),
         table # <<>> => p = pool,
         NEW v \in Value, NEW s \in std[v]
  PROVE  Right(ops[v], s, IF p = <<>> THEN table ELSE p)
<1>1. Right(ops[v], s, Pending) /\ ops[v] \in ValidateOp \cup StructOp
  BY DEF IInv, Typed, TypeOK
<1>2. CASE table # <<>>
  BY <1>1, <1>2 DEF IInv, Pending
<1>3. CASE table = <<>>
  <2>1. Pending = pool
    BY <1>3 DEF Pending
  <2>2. pool \in Seq(Literal) /\ Literals(ops[v]) \subseteq Literal
    BY <1>1, LiteralsType DEF IInv, Typed, TypeOK
  <2>3. Right(ops[v], s, p)
    BY <1>1, <2>1, <2>2, RightLonger
  <2> QED BY <2>3, <1>3
<1> QED BY <1>2, <1>3

LEMMA LowerNumberIInv ==
  ASSUME IInv, NEW v \in Value, LowerNumber(v) PROVE IInv'
<1>1. /\ pc = "convert" /\ v \in Illegal /\ ops[v].lat.kind = "number"
      /\ ops[v].op = "validate"
      /\ std' = [std EXCEPT ![v] = {[kind |-> "number", checks |-> NumberChecks(ops[v].lat)]}]
      /\ UNCHANGED <<ops, present, declared, pool, table, cur, n, checks, pc>>
  BY DEF LowerNumber, Replace
<1> DEFINE s == [kind |-> "number", checks |-> NumberChecks(ops[v].lat)]
<1>4. Typed'
  BY LowerNumberTyped DEF IInv
<1>5. Right(ops[v], s, Pending)
  <2> DEFINE g == [l \in Literal |-> 0]
  <2>1. g \in Ids
    BY DEF Ids
  <2>2. s = Shape(ops[v], g)
    BY <1>1 DEF Shape
  <2>3. Literals(ops[v]) = {}
    BY <1>1 DEF Literals
  <2> QED BY <2>1, <2>2, <2>3 DEF Right
<1>6. Pending' = Pending /\ std' \in [Value -> Opt(StdOp)]
  BY <1>1, <1>4 DEF Pending, Typed, TypeOK
<1>7. std'[v] = {s} /\ \A w \in Value \ {v} : std'[w] = std[w]
  BY <1>1 DEF IInv, Typed, TypeOK
<1> HIDE DEF s
<1>8. \A w \in Value : \A t \in std'[w] : Right(ops'[w], t, Pending')
  <2> SUFFICES ASSUME NEW w \in Value, NEW t \in std'[w] PROVE Right(ops[w], t, Pending)
    BY <1>1, <1>6
  <2>1. CASE w = v
    BY <2>1, <1>5, <1>7
  <2>2. CASE w # v
    BY <2>2, <1>7 DEF IInv
  <2> QED BY <2>1, <2>2
<1>9. \A w \in Value : std'[w] = {} => std[w] = {}
  BY <1>7
<1>10. /\ \A w \in Value \ present' : Literals(ops'[w]) = {}
       /\ table' # <<>> => \A w \in Value : std'[w] = {} => Literals(ops'[w]) = {}
       /\ table' # <<>> /\ pc' # "idle" => pool' = <<>>
       /\ pc' # "struct"
  BY <1>1, <1>9 DEF IInv
<1> QED BY <1>4, <1>8, <1>10 DEF IInv

LEMMA LowerStringIInv ==
  ASSUME IInv, NEW v \in Value, LowerString(v) PROVE IInv'
<1> DEFINE c == ops[v].lat
           s == [kind |-> "string", checks |-> StringChecks(c, pool')]
<1>1. /\ pc = "convert" /\ v \in Illegal /\ c.kind = "string" /\ ops[v].op = "validate"
      /\ std' = [std EXCEPT ![v] = {s}]
      /\ UNCHANGED <<ops, present, declared, table, cur, n, checks, pc>>
  BY DEF LowerString, Replace
<1>2. /\ Typed' /\ Longer(pool', pool) /\ Literals(ops[v]) = c.pattern \cup c.format
      /\ c.pattern \cup c.format \subseteq Entries(pool')
      /\ Literals(ops[v]) = {} => pool' = pool
  BY LowerStringTyped DEF IInv
<1>3. PICK g \in Ids : /\ StringChecks(c, pool') = StringShape(c, g)
                       /\ \A l \in c.pattern \cup c.format : Points(g[l], l, pool')
  BY LowerStringTyped DEF IInv
<1>4. table # <<>> => pool' = pool
  BY <1>1, <1>2 DEF IInv, Illegal
<1>5. s = Shape(ops[v], g)
  BY <1>1, <1>3 DEF Shape
<1> HIDE DEF s
<1>6. Pending' = (IF pool' = <<>> THEN table ELSE pool')
  BY <1>1 DEF Pending
<1>7. Right(ops[v], s, Pending')
  <2>1. CASE Literals(ops[v]) = {}
    BY <2>1, <1>5 DEF Right
  <2>2. CASE Literals(ops[v]) # {}
    <3>1. pool' # <<>>
      <4>1. Entries(pool') # {}
        BY <2>2, <1>2
      <4> QED BY <4>1 DEF Entries
    <3> QED BY <3>1, <1>2, <1>3, <1>5, <1>6 DEF Right
  <2> QED BY <2>1, <2>2
<1>8. std'[v] = {s} /\ \A w \in Value \ {v} : std'[w] = std[w]
  BY <1>1 DEF IInv, Typed, TypeOK
<1>9. \A w \in Value : \A t \in std'[w] : Right(ops'[w], t, Pending')
  <2> SUFFICES ASSUME NEW w \in Value, NEW t \in std'[w] PROVE Right(ops[w], t, Pending')
    BY <1>1
  <2>1. CASE w = v
    BY <2>1, <1>7, <1>8
  <2>2. CASE w # v
    <3>1. t \in std[w]
      BY <2>2, <1>8
    <3>2. pool' \in Seq(Literal)
      BY <1>2 DEF Typed, TypeOK
    <3> QED BY <3>1, <3>2, <1>1, <1>2, <1>4, <1>6, StayRight
  <2> QED BY <2>1, <2>2
<1>10. \A w \in Value : std'[w] = {} => std[w] = {}
  BY <1>8
<1>11. table' # <<>> /\ pc' # "idle" => pool' = <<>>
  BY <1>1, <1>4 DEF IInv
<1>12. /\ \A w \in Value \ present' : Literals(ops'[w]) = {}
       /\ table' # <<>> => \A w \in Value : std'[w] = {} => Literals(ops'[w]) = {}
       /\ pc' # "struct"
  BY <1>1, <1>10 DEF IInv
<1> QED BY <1>2, <1>9, <1>11, <1>12 DEF IInv

LEMMA StartStructIInv ==
  ASSUME IInv, NEW v \in Value, StartStruct(v) PROVE IInv'
<1>1. /\ pc = "convert" /\ v \in Illegal /\ ops[v].op = "struct"
      /\ cur' = v /\ n' = 1 /\ checks' = {} /\ pc' = "struct"
      /\ UNCHANGED <<ops, present, std, declared, pool, table>>
  BY DEF StartStruct
<1>3. Typed'
  BY StartStructTyped DEF IInv
<1>4. Partial'
  <2> DEFINE g == [l \in Literal |-> 0]
  <2>1. g \in Ids
    BY DEF Ids
  <2>2. 1..(n - 1)' = {}
    BY <1>1
  <2>3. HasFields(ops'[cur'], g, n' - 1) = {}
    BY <1>1 DEF HasFields
  <2> QED BY <1>1, <2>1, <2>2, <2>3 DEF Partial
<1>5. Pending' = Pending
  BY <1>1 DEF Pending
<1> QED BY <1>1, <1>3, <1>4, <1>5, ZenonT(40) DEF IInv

LEMMA RequireFieldIInv ==
  ASSUME IInv, RequireField PROVE IInv'
<1> DEFINE o == ops[cur]
           l == o.required[n]
           p == Intern(pool, {l})
<1>1. /\ pc = "struct" /\ n =< Len(o.required)
      /\ pool' = p
      /\ checks' = checks \cup {<<"has_field", Id(p, l)>>}
      /\ n' = n + 1
      /\ UNCHANGED <<ops, present, std, declared, table, cur, pc>>
  BY DEF RequireField, Required
<1>2. /\ cur \in Value /\ cur \in Illegal /\ o.op = "struct" /\ n \in Nat \ {0}
      /\ o.required \in Seq(Name) /\ Literals(o) = Entries(o.required)
  <2>1. /\ cur \in Illegal /\ cur \in Value /\ o.op = "struct" /\ n \in Nat \ {0}
        /\ o \in ValidateOp \cup StructOp
    BY <1>1 DEF IInv, Typed, TypeOK, Illegal
  <2> QED BY <2>1 DEF ValidateOp, StructOp, Literals
<1>3. /\ Typed' /\ Longer(p, pool) /\ l \in Entries(p)
      /\ l \in Literal /\ l \in Literals(o)
  BY <1>1, RequireFieldTyped DEF IInv
<1>4. pool \in Seq(Literal) /\ table = <<>>
  BY <1>2, <1>3 DEF IInv, Typed, TypeOK, Illegal
<1> HIDE DEF l
<1>5. p \in Seq(Literal) /\ Distinct(p)
  BY <1>1, <1>3 DEF Typed, TypeOK
<1> HIDE DEF p
<1>6. Id(p, l) \in Int /\ Points(Id(p, l), l, p)
  BY <1>3, <1>5, IdPoints
<1>7. PICK g \in Ids : /\ checks = HasFields(o, g, n - 1)
                       /\ \A k \in 1..n - 1 : Points(g[o.required[k]], o.required[k], pool)
  BY <1>1 DEF IInv, Partial
<1> DEFINE h == [g EXCEPT ![l] = Id(p, l)]
<1>8. h \in Ids /\ h[l] = Id(p, l) /\ \A m \in Literal \ {l} : h[m] = g[m]
  BY <1>3, <1>6, <1>7 DEF Ids
<1>9. \A k \in 1..n - 1 : o.required[k] \in Literal
  BY <1>1, <1>2 DEF Literal
<1> HIDE DEF h, o
<1>10. \A k \in 1..n - 1 : /\ Points(g[o.required[k]], o.required[k], p)
                           /\ h[o.required[k]] = g[o.required[k]]
  <2> SUFFICES ASSUME NEW k \in 1..n - 1
               PROVE  /\ Points(g[o.required[k]], o.required[k], p)
                      /\ h[o.required[k]] = g[o.required[k]]
    OBVIOUS
  <2>1. g[o.required[k]] \in Int
    BY <1>7, <1>9 DEF Ids
  <2>2. Points(g[o.required[k]], o.required[k], p)
    BY <1>3, <1>4, <1>5, <1>7, <2>1, PointsLonger
  <2>3. CASE o.required[k] # l
    BY <2>2, <2>3, <1>8, <1>9
  <2>4. CASE o.required[k] = l
    <3>1. g[l] + 1 = Id(p, l) + 1
      BY <2>2, <2>4, <1>5, <1>6 DEF Points, Distinct
    <3>2. g[l] = Id(p, l)
      BY <3>1, <2>1, <2>4, <1>6
    <3> QED BY <2>2, <2>4, <3>2, <1>8
  <2> QED BY <2>3, <2>4
<1>11. Partial'
  <2>1. n' - 1 = n /\ 1..n = (1..n - 1) \cup {n}
    BY <1>1, <1>2
  <2>2. o.required[n] = l
    BY DEF l, o
  <2>3. HasFields(o, h, n) = HasFields(o, g, n - 1) \cup {<<"has_field", h[l]>>}
    BY <2>1, <2>2, <1>10 DEF HasFields
  <2>4. \A k \in 1..n : Points(h[o.required[k]], o.required[k], p)
    BY <2>1, <2>2, <1>6, <1>8, <1>10
  <2>5. o = ops'[cur']
    BY <1>1 DEF o
  <2>6. checks' = HasFields(ops'[cur'], h, n' - 1)
    BY <2>1, <2>3, <2>5, <1>1, <1>7, <1>8
  <2>7. \A k \in 1..n' - 1 : Points(h[ops'[cur'].required[k]], ops'[cur'].required[k], pool')
    BY <2>1, <2>4, <2>5, <1>1
  <2> QED BY <2>6, <2>7, <1>8 DEF Partial
<1>13. Pending' = (IF p = <<>> THEN table ELSE p)
  BY <1>1 DEF Pending
<1>14. \A w \in Value : \A t \in std'[w] : Right(ops'[w], t, Pending')
  <2> SUFFICES ASSUME NEW w \in Value, NEW t \in std[w] PROVE Right(ops[w], t, Pending')
    BY <1>1
  <2> QED BY <1>1, <1>3, <1>4, <1>5, <1>13, StayRight
<1> QED BY <1>1, <1>3, <1>4, <1>11, <1>14 DEF IInv

LEMMA FinishStructIInv == ASSUME IInv, FinishStruct PROVE IInv'
<1> DEFINE o == ops[cur]
           s == [kind |-> "object", checks |-> checks \cup Operands(o)]
<1>1. /\ pc = "struct" /\ n > Len(o.required)
      /\ std' = [std EXCEPT ![cur] = {s}]
      /\ checks' = {} /\ n' = 1 /\ pc' = "convert"
      /\ UNCHANGED <<ops, present, declared, pool, table>>
  BY DEF FinishStruct, Replace, Required, Operands
<1>2. /\ cur \in Value /\ o.op = "struct" /\ o \in StructOp
      /\ o.required \in Seq(Name) /\ n = Len(o.required) + 1
      /\ Literals(o) = Entries(o.required)
  <2>1. /\ cur \in Value /\ o.op = "struct" /\ n \in Nat \ {0}
        /\ n =< Len(o.required) + 1 /\ o \in ValidateOp \cup StructOp
    BY <1>1 DEF IInv, Typed, TypeOK, Illegal
  <2>2. o.required \in Seq(Name) /\ o \in StructOp
    BY <2>1 DEF ValidateOp, StructOp
  <2>3. Len(o.required) \in Nat
    BY <2>2
  <2> QED BY <2>1, <2>2, <2>3, <1>1 DEF Literals
<1>3. PICK g \in Ids : /\ checks = HasFields(o, g, n - 1)
                       /\ \A k \in 1..n - 1 : Points(g[o.required[k]], o.required[k], pool)
  BY <1>1 DEF IInv, Partial
<1>4. n - 1 = Len(o.required)
  <2>1. Len(o.required) \in Nat
    BY <1>2
  <2> QED BY <2>1, <1>2
<1>5. s = Shape(o, g)
  BY <1>2, <1>3, <1>4 DEF Shape
<1>6. \A l \in Literals(o) : Points(g[l], l, pool)
  BY <1>2, <1>3, <1>4 DEF Entries
<1>8. Right(o, s, Pending')
  <2>1. CASE Literals(o) = {}
    BY <2>1, <1>5 DEF Right
  <2>2. CASE Literals(o) # {}
    <3>1. PICK l \in Literals(o) : Points(g[l], l, pool)
      BY <2>2, <1>6
    <3>2. pool # <<>>
      BY <3>1 DEF Points
    <3>3. Pending' = pool
      BY <3>2, <1>1 DEF Pending
    <3> QED BY <3>3, <1>5, <1>6 DEF Right
  <2> QED BY <2>1, <2>2
<1> HIDE DEF s
<1>9. std'[cur] = {s} /\ \A w \in Value \ {cur} : std'[w] = std[w]
  BY <1>1, <1>2 DEF IInv, Typed, TypeOK
<1>10. Pending' = Pending
  BY <1>1 DEF Pending
<1>11. \A w \in Value : \A t \in std'[w] : Right(ops'[w], t, Pending')
  <2> SUFFICES ASSUME NEW w \in Value, NEW t \in std'[w] PROVE Right(ops[w], t, Pending')
    BY <1>1
  <2>1. CASE w = cur
    BY <2>1, <1>8, <1>9
  <2>2. CASE w # cur
    BY <2>2, <1>9, <1>10 DEF IInv
  <2> QED BY <2>1, <2>2
<1>12. Typed'
  BY FinishStructTyped DEF IInv
<1>13. \A w \in Value : std'[w] = {} => std[w] = {}
  BY <1>9
<1>14. /\ \A w \in Value \ present' : Literals(ops'[w]) = {}
       /\ table' # <<>> => \A w \in Value : std'[w] = {} => Literals(ops'[w]) = {}
       /\ table' # <<>> /\ pc' # "idle" => pool' = <<>>
       /\ pc' # "struct"
  BY <1>1, <1>13, ZenonT(40) DEF IInv
<1> QED BY <1>11, <1>12, <1>14 DEF IInv

LEMMA StartIInv == ASSUME IInv, Start PROVE IInv'
<1>1. /\ pc = "idle" /\ declared' = declared \cup Runtime /\ pool' = <<>> /\ pc' = "convert"
      /\ UNCHANGED <<ops, present, std, table, cur, n, checks>>
  BY DEF Start
<1>2. Pending = table /\ Pending' = table
  BY <1>1 DEF Pending
<1>4. Typed'
  BY NextTyped DEF IInv, Next
<1> QED BY <1>1, <1>2, <1>4 DEF IInv

(* At the end the attribute is the pool only when there was no attribute,  *)
(* and then nothing that needs a literal is left.                          *)
LEMMA FinishIInv == ASSUME IInv, Finish PROVE IInv'
<1>1. /\ pc = "convert" /\ Illegal = {}
      /\ table' = (IF pool = <<>> THEN table ELSE pool) /\ pc' = "idle"
      /\ UNCHANGED <<ops, present, std, declared, pool, cur, n, checks>>
  BY DEF Finish
<1>2. Pending' = Pending
  BY <1>1 DEF Pending
<1>3. Typed'
  BY NextTyped DEF IInv, Next
<1>4. \A v \in Value : std'[v] = {} => Literals(ops'[v]) = {}
  BY <1>1 DEF IInv, Illegal
<1> QED BY <1>1, <1>2, <1>3, <1>4, ZenonT(40) DEF IInv

LEMMA LinkIInv == ASSUME IInv, Link PROVE IInv'
<1>1. /\ pc = "idle" /\ present' = Value
      /\ UNCHANGED <<ops, std, declared, pool, table, cur, n, checks, pc>>
  BY DEF Link
<1>2. Pending' = Pending /\ Typed'
  BY <1>1, NextTyped DEF IInv, Next, Pending
<1> QED BY <1>1, <1>2 DEF IInv

LEMMA NextIInv == ASSUME IInv, [Next]_vars PROVE IInv'
<1>1. CASE UNCHANGED vars
  <2>1. /\ UNCHANGED <<ops, present, std, declared, pool, table, cur, n, checks, pc>>
    BY <1>1 DEF vars
  <2>2. Typed'
    BY <1>1, NextTyped DEF IInv
  <2>3. Pending' = Pending /\ (Partial <=> Partial')
    BY <2>1 DEF Pending, Partial
  <2> QED BY <2>1, <2>2, <2>3 DEF IInv
<1>2. CASE Next
  BY <1>2, StartIInv, FinishIInv, LinkIInv, LowerNumberIInv, LowerStringIInv,
     StartStructIInv, RequireFieldIInv, FinishStructIInv DEF Next
<1> QED BY <1>1, <1>2

-----------------------------------------------------------------------------
(* The invariant holds of every module whose late functions need no        *)
(* literal.                                                                *)
THEOREM LoweringInvariant == ASSUME LateNeedNoLiteral PROVE Spec => []IInv
<1>1. Init => IInv
  BY InitIInv
<1>2. IInv /\ [Next]_vars => IInv'
  BY NextIInv
<1> QED BY <1>1, <1>2, PTL DEF Spec

(* Between two runs every lowered operation answers what its schema        *)
(* operation answered, on every document and for every truth value of the  *)
(* operands of a struct.                                                   *)
THEOREM LoweringVerdictsAgree == ASSUME LateNeedNoLiteral PROVE Spec => []VerdictsAgree
<1>1. IInv => VerdictsAgree
  <2> SUFFICES ASSUME IInv, pc = "idle", NEW v \in Value, NEW s \in std[v],
                      NEW x \in Document, NEW fields \in SUBSET Name,
                      NEW bit \in [Value -> BOOLEAN]
               PROVE  StdVerdict(s, x, fields, bit, table)
                        <=> SchemaVerdict(ops[v], x, fields, bit)
    BY DEF VerdictsAgree
  <2>1. Right(ops[v], s, table)
    BY DEF IInv, Pending
  <2>2. ops[v] \in ValidateOp \cup StructOp /\ x \in JsonValue
    BY LoweringAssumption DEF IInv, Typed, TypeOK
  <2> QED BY <2>1, <2>2, RightAgrees
<1> QED BY <1>1, LoweringInvariant, PTL

-----------------------------------------------------------------------------
(* Nothing is in the attribute the run will leave that no operation asks   *)
(* about.                                                                  *)
Asked(l) ==
  \/ \E v \in Value : std[v] # {} /\ l \in Literals(ops[v])
  \/ pc = "struct" /\ \E k \in 1..n - 1 : l = ops[cur].required[k]

TInv == Distinct(table) /\ \A l \in Entries(Pending) : Asked(l)

LEMMA InternEntries ==
  ASSUME NEW p \in Seq(Literal), NEW lits \in Opt(Literal), Distinct(p)
  PROVE  Entries(Intern(p, lits)) = Entries(p) \cup lits
<1>1. CASE lits \subseteq Entries(p)
  BY <1>1 DEF Intern
<1>2. CASE ~(lits \subseteq Entries(p))
  <2>1. PICK l \in lits : lits = {l} /\ l \in Literal
    BY <1>2 DEF Opt
  <2>2. Intern(p, lits) = Append(p, l)
    <3>1. (CHOOSE x \in lits : TRUE) = l
      BY <2>1
    <3> QED BY <3>1, <1>2 DEF Intern
  <2>3. /\ Len(Append(p, l)) = Len(p) + 1 /\ Append(p, l)[Len(p) + 1] = l
        /\ \A k \in 1..Len(p) : Append(p, l)[k] = p[k]
        /\ Len(p) \in Nat
    BY <2>1, AppendProperties
  <2>4. 1..Len(Append(p, l)) = (1..Len(p)) \cup {Len(p) + 1}
    BY <2>3
  <2> DEFINE q == Append(p, l)
  <2>5. Entries(q) = Entries(p) \cup {l}
    <3>1. /\ Len(q) = Len(p) + 1 /\ q[Len(p) + 1] = l
          /\ \A k \in 1..Len(p) : q[k] = p[k]
          /\ 1..Len(q) = (1..Len(p)) \cup {Len(p) + 1}
      BY <2>3, <2>4
    <3> HIDE DEF q
    <3> QED BY <3>1 DEF Entries
  <2> QED BY <2>1, <2>2, <2>5
<1> QED BY <1>1, <1>2

(* A run whose pool became p, with the entries of the pool and more.       *)
LEMMA PendingEntries ==
  ASSUME IInv, pc # "idle", pc' # "idle", table' = table,
         NEW more, Entries(pool') = Entries(pool) \cup more, pool' = <<>> => pool = <<>>
  PROVE  Entries(Pending') \subseteq Entries(Pending) \cup more
<1>1. CASE pool' = <<>>
  BY <1>1 DEF Pending
<1>2. CASE pool' # <<>>
  <2>1. Pending' = pool'
    BY <1>2 DEF Pending
  <2>2. Entries(pool) \subseteq Entries(Pending)
    <3>1. CASE pool = <<>>
      BY <3>1 DEF Entries
    <3>2. CASE pool # <<>>
      BY <3>2 DEF Pending
    <3> QED BY <3>1, <3>2
  <2> QED BY <2>1, <2>2
<1> QED BY <1>1, <1>2

LEMMA LongerEmpty ==
  ASSUME NEW p \in Seq(Literal), NEW q, Longer(q, p), q = <<>>
  PROVE  p = <<>>
BY EmptySeq DEF Longer

LEMMA TInvStep ==
  ASSUME IInv, TInv, [Next]_vars
  PROVE  TInv'
<1>0. Typed /\ TypeOK /\ pool \in Seq(Literal) /\ Distinct(pool)
  BY DEF IInv, Typed, TypeOK
<1>1. CASE UNCHANGED vars
  BY <1>1 DEF vars, TInv, Asked, Pending, Distinct
<1>2. CASE Start \/ Link
  BY <1>2 DEF Start, Link, TInv, Asked, Pending, Distinct
<1>3. CASE Finish
  <2>1. Pending' = Pending /\ pc = "convert" /\ pc' = "idle" /\ UNCHANGED <<ops, std>>
        /\ (table' = table \/ table' = pool)
    BY <1>3 DEF Finish, Pending
  <2> QED BY <1>0, <2>1 DEF TInv, Asked, Distinct
<1>4. ASSUME NEW v \in Value, LowerNumber(v) PROVE TInv'
  <2>1. /\ pc = "convert" /\ UNCHANGED <<ops, pool, table, pc>> /\ Pending' = Pending
        /\ \A w \in Value : std[w] # {} => std'[w] # {}
    BY <1>0, <1>4 DEF LowerNumber, Replace, Pending, TypeOK
  <2> QED BY <2>1 DEF TInv, Asked, Distinct
<1>5. ASSUME NEW v \in Value, LowerString(v) PROVE TInv'
  <2> DEFINE c == ops[v].lat
  <2>1. /\ pc = "convert" /\ UNCHANGED <<ops, table, pc>> /\ c.kind = "string"
        /\ ops[v].op = "validate" /\ pool' = Intern(Intern(pool, c.pattern), c.format)
        /\ std'[v] # {} /\ \A w \in Value : std[w] # {} => std'[w] # {}
    BY <1>0, <1>5 DEF LowerString, Replace, TypeOK
  <2>2. c \in StringLattice /\ Literals(ops[v]) = c.pattern \cup c.format
    <3>1. ops[v] \in ValidateOp \cup StructOp
      BY <1>0 DEF TypeOK
    <3> QED BY <2>1, <3>1 DEF ValidateOp, StructOp, Lattice, NumberLattice, Literals
  <2>3. c.pattern \in Opt(Literal) /\ c.format \in Opt(Literal)
    BY <2>2 DEF StringLattice, Opt, Literal
  <2>4. Entries(pool') = Entries(pool) \cup Literals(ops[v])
    <3> DEFINE p1 == Intern(pool, c.pattern)
    <3>1. /\ p1 \in Seq(Literal) /\ Distinct(p1)
          /\ Entries(p1) = Entries(pool) \cup c.pattern
      BY <1>0, <2>3, InternLonger, InternEntries
    <3>2. pool' = Intern(p1, c.format)
      BY <2>1
    <3> HIDE DEF p1, c
    <3>3. Entries(Intern(p1, c.format)) = Entries(p1) \cup c.format
      BY <2>3, <3>1, InternEntries
    <3> QED BY <2>2, <3>1, <3>2, <3>3
  <2>5. Longer(pool', pool)
    BY <1>0, <1>5, LowerStringTyped
  <2>6. Entries(Pending') \subseteq Entries(Pending) \cup Literals(ops[v])
    BY <1>0, <2>1, <2>4, <2>5, PendingEntries, LongerEmpty
  <2> QED BY <2>1, <2>6 DEF TInv, Asked, Distinct
<1>6. ASSUME NEW v \in Value, StartStruct(v) PROVE TInv'
  <2>1. /\ pc = "convert" /\ UNCHANGED <<ops, std, table>> /\ Pending' = Pending
    BY <1>6 DEF StartStruct, Pending
  <2> QED BY <2>1 DEF TInv, Asked, Distinct
<1>7. CASE RequireField
  <2>0. PICK l : l = ops[cur].required[n]
    OBVIOUS
  <2>1. /\ pc = "struct" /\ n =< Len(ops[cur].required) /\ n' = n + 1 /\ n \in Nat \ {0}
        /\ UNCHANGED <<ops, std, table, cur, pc>> /\ pool' = Intern(pool, {l})
        /\ cur \in Value /\ ops[cur].op = "struct"
    BY <1>0, <1>7, <2>0 DEF RequireField, Required, TypeOK, Illegal
  <2>2. {l} \in Opt(Literal)
    <3>1. ops[cur] \in ValidateOp \cup StructOp
      BY <1>0, <2>1 DEF TypeOK
    <3>2. ops[cur].required \in Seq(Name)
      BY <2>1, <3>1 DEF ValidateOp, StructOp
    <3>3. l \in Name
      BY <2>0, <2>1, <3>2
    <3> QED BY <3>3 DEF Opt, Literal
  <2>3. Entries(pool') = Entries(pool) \cup {l}
    BY <1>0, <2>1, <2>2, InternEntries
  <2>4. Longer(pool', pool)
    BY <1>0, <1>7, RequireFieldTyped
  <2>5. Entries(Pending') \subseteq Entries(Pending) \cup {l}
    BY <1>0, <2>1, <2>3, <2>4, PendingEntries, LongerEmpty
  <2>6. 1..n' - 1 = (1..n - 1) \cup {n}
    BY <2>1
  <2>7. \A x : Asked(x) => Asked(x)'
    BY <2>1, <2>6 DEF Asked
  <2>8. Asked(l)'
    BY <2>0, <2>1, <2>6 DEF Asked
  <2> QED BY <2>1, <2>5, <2>7, <2>8 DEF TInv, Distinct
<1>8. CASE FinishStruct
  <2>1. /\ pc = "struct" /\ pc' = "convert" /\ UNCHANGED <<ops, table, pool>> /\ Pending' = Pending
        /\ cur \in Value /\ ops[cur].op = "struct" /\ n \in Nat \ {0}
        /\ n =< Len(ops[cur].required) + 1
        /\ std'[cur] # {} /\ \A w \in Value : std[w] # {} => std'[w] # {}
    BY <1>0, <1>8 DEF FinishStruct, Replace, Pending, TypeOK, Illegal
  <2>2. \A k \in 1..n - 1 : ops[cur].required[k] \in Literals(ops[cur])
    <3>1. ops[cur] \in ValidateOp \cup StructOp
      BY <1>0, <2>1 DEF TypeOK
    <3>2. Len(ops[cur].required) \in Nat
      BY <2>1, <3>1 DEF ValidateOp, StructOp
    <3> QED BY <2>1, <3>2 DEF Literals, Entries
  <2> QED BY <2>1, <2>2 DEF TInv, Asked, Distinct
<1> QED BY <1>1, <1>2, <1>3, <1>4, <1>5, <1>6, <1>7, <1>8 DEF Next

LEMMA DistinctLen ==
  ASSUME NEW p \in Seq(Literal), Distinct(p)
  PROVE  Len(p) = Cardinality(Entries(p))
<1>1. Len(p) \in Nat /\ DOMAIN p = 1..Len(p)
  OBVIOUS
<1>2. IsFiniteSet(1..Len(p)) /\ Cardinality(1..Len(p)) = Len(p)
  BY <1>1, FS_Interval, SMTT(30)
<1>3. p \in Bijection(1..Len(p), Entries(p))
  <2>1. \A k \in 1..Len(p) : p[k] \in Entries(p)
    BY DEF Entries
  <2>2. p \in [1..Len(p) -> Entries(p)]
    BY <1>1, <2>1
  <2>3. \A t \in Entries(p) : \E k \in 1..Len(p) : p[k] = t
    BY DEF Entries
  <2>4. \A a, b \in DOMAIN p : p[a] = p[b] => a = b
    BY <1>1 DEF Distinct
  <2> QED BY <2>2, <2>3, <2>4 DEF Bijection, Injection, Surjection, IsInjective
<1>4. ExistsBijection(1..Len(p), Entries(p))
  BY <1>3 DEF ExistsBijection
<1> QED BY <1>2, <1>4, FS_Bijection

(* The attribute is the literals of what was lowered, each once: what is   *)
(* right is in it, and what is in it was asked about.                      *)
THEOREM LoweringTableExact == ASSUME LateNeedNoLiteral PROVE Spec => []TableExact
<1>1. Init => TInv
  <2> SUFFICES ASSUME Init PROVE TInv
    OBVIOUS
  <2>1. table = <<>> /\ pc = "idle" /\ Len(table) = 0
    BY DEF Init
  <2> QED BY <2>1 DEF TInv, Distinct, Pending, Entries
<1>2. IInv /\ TInv /\ [Next]_vars => TInv'
  BY TInvStep
<1>3. IInv /\ TInv => TableExact
  <2> SUFFICES ASSUME IInv, TInv, pc = "idle"
               PROVE  /\ Entries(table) = UNION {Literals(ops[v]) : v \in {w \in Value : std[w] # {}}}
                      /\ Len(table) = Cardinality(Entries(table))
    BY DEF TableExact
  <2>1. Pending = table /\ table \in Seq(Literal)
    BY DEF Pending, IInv, Typed, TypeOK
  <2>2. \A l \in Entries(table) : \E v \in Value : std[v] # {} /\ l \in Literals(ops[v])
    BY <2>1 DEF TInv, Asked
  <2>3. ASSUME NEW v \in Value, std[v] # {}, NEW l \in Literals(ops[v])
        PROVE  l \in Entries(table)
    <3>1. PICK s \in std[v] : Right(ops[v], s, table)
      BY <2>1, <2>3 DEF IInv
    <3>2. PICK g \in Ids : Points(g[l], l, table)
      BY <3>1 DEF Right
    <3> QED BY <3>2 DEF Points, Entries
  <2>4. Len(table) = Cardinality(Entries(table))
    BY <2>1, DistinctLen DEF TInv
  <2> QED BY <2>2, <2>3, <2>4
<1> QED BY <1>1, <1>2, <1>3, LoweringInvariant, PTL DEF Spec

=============================================================================
