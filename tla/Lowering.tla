------------------------------ MODULE Lowering ------------------------------
(***************************************************************************)
(* lower-schema-to-std on one module: every schema operation is replaced   *)
(* by a guarded conjunction of runtime checks, and the literals the checks *)
(* need are interned in a pool the pass leaves on the module as the        *)
(* attribute schema.string_pool.  The pass may run again on its own        *)
(* result, and functions still to be lowered may join the module between   *)
(* two runs.                                                               *)
(*                                                                         *)
(* The conversion visits the operations in any order.  A verdict is        *)
(* evaluated operation by operation: the verdicts of the operands of a     *)
(* struct are arbitrary truth values.                                      *)
(***************************************************************************)
EXTENDS SchemaOps, Sequences, FiniteSets

CONSTANTS Value,      \* i1 SSA values
          Name,       \* property names
          Document,   \* the JSON values a handle may stand for
          Runtime,    \* the symbols of libschema_runtime
          Modules     \* the modules given to the pass

Literal == Pattern \cup Format \cup Name

(* The schema operations; fields and results of a struct are parallel.     *)
ValidateOp == [op : {"validate"}, lat : Lattice]
StructOp   == [op : {"struct"}, fields : Seq(Name), results : Seq(Value),
               required : Seq(Name)]

(* A module: its schema operations, and those of them that join it late.   *)
ASSUME ModulesAssumption ==
  \A m \in Modules :
    /\ m.ops \in [Value -> ValidateOp \cup StructOp]
    /\ m.late \subseteq Value
    /\ \A v \in Value : m.ops[v].op = "struct" =>
         /\ Len(m.ops[v].fields) = Len(m.ops[v].results)
         /\ \A n \in 1..Len(m.ops[v].required) :
              \E k \in 1..Len(m.ops[v].fields) : m.ops[v].fields[k] = m.ops[v].required[n]

ASSUME LoweringAssumption == Document \subseteq JsonValue

VARIABLES
  ops,       \* what the schema operations are, or were
  present,   \* the operations in the module
  std,       \* what each was lowered to: a guard and checks, or {}
  declared,  \* the runtime symbols the module declares
  pool,      \* the string pool of the run, an index being an id less 1
  table,     \* the attribute schema.string_pool, <<>> when there is none
  cur, n,    \* the struct being lowered and its next required field
  checks,    \* its checks so far
  pc         \* "idle", "convert" or "struct"

vars == <<ops, present, std, declared, pool, table, cur, n, checks, pc>>

-----------------------------------------------------------------------------
(* StringPool.  An optional literal is interned when there is one.         *)

Entries(p) == {p[k] : k \in 1..Len(p)}

(* Bug: a new literal goes first. *)
Intern_First(p, lits) ==
  IF lits \subseteq Entries(p) THEN p ELSE <<CHOOSE l \in lits : TRUE>> \o p

Intern(p, lits) ==
  IF lits \subseteq Entries(p) THEN p ELSE Append(p, CHOOSE l \in lits : TRUE)

Id(p, lit) == (CHOOSE k \in 1..Len(p) : p[k] = lit) - 1

-----------------------------------------------------------------------------
(* The checks a validation becomes, with the ids a pool gives its literals. *)

NumberChecks(c) ==
  {<<IF c.exclusiveMin THEN "ogt" ELSE "oge", b>> : b \in c.minimum}
  \cup {<<IF c.exclusiveMax THEN "olt" ELSE "ole", b>> : b \in c.maximum}
  \cup {<<"roundeven", m>> : m \in c.multipleOf}
  \cup {<<"trunc", t>> : t \in {c.integral} \cap {TRUE}}

StringChecks(c, p) ==
  {<<"sge", b>> : b \in c.minLength} \cup {<<"sle", b>> : b \in c.maxLength}
  \cup {<<"matches", Id(p, l)>> : l \in c.pattern}
  \cup {<<"format", Id(p, l)>> : l \in c.format}

-----------------------------------------------------------------------------
(* The pass.                                                               *)

NoStruct == CHOOSE v \in Value : TRUE   \* cur means nothing outside "struct"

Init ==
  /\ \E m \in Modules : ops = m.ops /\ present = Value \ m.late
  /\ std = [v \in Value |-> {}] /\ declared = {} /\ pool = <<>> /\ table = <<>>
  /\ cur = NoStruct /\ n = 1 /\ checks = {} /\ pc = "idle"

Start ==
  /\ pc = "idle"
  /\ declared' = declared \cup Runtime
  /\ pool' = <<>>
  /\ pc' = "convert"
  /\ UNCHANGED <<ops, present, std, table, cur, n, checks>>

Illegal == {v \in present : std[v] = {}}

Replace(v, kind, cs) == std' = [std EXCEPT ![v] = {[kind |-> kind, checks |-> cs]}]

LowerNumber(v) ==
  /\ pc = "convert" /\ v \in Illegal
  /\ ops[v].op = "validate" /\ ops[v].lat.kind = "number"
  /\ Replace(v, "number", NumberChecks(ops[v].lat))
  /\ UNCHANGED <<ops, present, declared, pool, table, cur, n, checks, pc>>

LowerString(v) ==
  LET c == ops[v].lat
      p == Intern(Intern(pool, c.pattern), c.format)
  IN /\ pc = "convert" /\ v \in Illegal
     /\ ops[v].op = "validate" /\ c.kind = "string"
     /\ pool' = p
     /\ Replace(v, "string", StringChecks(c, p))
     /\ UNCHANGED <<ops, present, declared, table, cur, n, checks, pc>>

(* Bug: the loop over the required fields starts before the first. *)
StartStruct_FromZero(v) ==
  /\ pc = "convert" /\ v \in Illegal /\ ops[v].op = "struct"
  /\ cur' = v /\ n' = 0 /\ checks' = {} /\ pc' = "struct"
  /\ UNCHANGED <<ops, present, std, declared, pool, table>>

StartStruct(v) ==
  /\ pc = "convert" /\ v \in Illegal /\ ops[v].op = "struct"
  /\ cur' = v /\ n' = 1 /\ checks' = {} /\ pc' = "struct"
  /\ UNCHANGED <<ops, present, std, declared, pool, table>>

Required == ops[cur].required

(* Bug: the last required field is not looked at. *)
RequireField_NotLast ==
  LET p == Intern(pool, {Required[n]})
  IN /\ pc = "struct" /\ n =< Len(Required)
     /\ pool' = p
     /\ checks' = IF n = Len(Required) THEN checks
                  ELSE checks \cup {<<"has_field", Id(p, Required[n])>>}
     /\ n' = n + 1
     /\ UNCHANGED <<ops, present, std, declared, table, cur, pc>>

RequireField ==
  LET p == Intern(pool, {Required[n]})
  IN /\ pc = "struct" /\ n =< Len(Required)
     /\ pool' = p
     /\ checks' = checks \cup {<<"has_field", Id(p, Required[n])>>}
     /\ n' = n + 1
     /\ UNCHANGED <<ops, present, std, declared, table, cur, pc>>

FinishStruct ==
  LET r == ops[cur].results
  IN /\ pc = "struct" /\ n > Len(Required)
     /\ Replace(cur, "object", checks \cup {<<"andi", r[k]>> : k \in 1..Len(r)})
     /\ cur' = NoStruct /\ n' = 1 /\ checks' = {} /\ pc' = "convert"
     /\ UNCHANGED <<ops, present, declared, pool, table>>

(* Bug: the attribute is set even when nothing was interned. *)
Finish_SetAlways ==
  /\ pc = "convert" /\ Illegal = {}
  /\ table' = pool
  /\ pc' = "idle"
  /\ UNCHANGED <<ops, present, std, declared, pool, cur, n, checks>>

(* The conversion succeeds when no schema operation is left; a pool that   *)
(* is not empty then becomes the attribute, whatever the attribute was.    *)
Finish ==
  /\ pc = "convert" /\ Illegal = {}
  /\ table' = IF pool = <<>> THEN table ELSE pool
  /\ pc' = "idle"
  /\ UNCHANGED <<ops, present, std, declared, pool, cur, n, checks>>

(* Functions that are still to be lowered join the module.                 *)
Link ==
  /\ pc = "idle" /\ present # Value
  /\ present' = Value
  /\ UNCHANGED <<ops, std, declared, pool, table, cur, n, checks, pc>>

Next ==
  \/ Start \/ Finish \/ Link
  \/ \E v \in Value : LowerNumber(v) \/ LowerString(v) \/ StartStruct(v)
  \/ RequireField \/ FinishStruct

Spec     == Init /\ [][Next]_vars
FairSpec == Spec /\ WF_vars(Next)

-----------------------------------------------------------------------------
(* What a lowered operation answers at run time on a document x that has   *)
(* the given fields, when bit holds the verdicts of a struct's operands    *)
(* and tab is the string table.                                            *)

Resolves(id, lits, tab) == id + 1 \in 1..Len(tab) /\ tab[id + 1] \in lits

CheckHolds(ch, x, fields, bit, tab) ==
  /\ ch[1] = "oge" => x.x >= ch[2]
  /\ ch[1] = "ogt" => x.x > ch[2]
  /\ ch[1] = "ole" => x.x =< ch[2]
  /\ ch[1] = "olt" => x.x < ch[2]
  /\ ch[1] = "roundeven" => <<x.x, ch[2]>> \in Integral
  /\ ch[1] = "trunc"     => x.x \in Whole
  /\ ch[1] = "sge" => x.length >= ch[2]
  /\ ch[1] = "sle" => x.length =< ch[2]
  /\ ch[1] = "matches"   => Resolves(ch[2], x.matches, tab)
  /\ ch[1] = "format"    => Resolves(ch[2], x.formats, tab)
  /\ ch[1] = "has_field" => Resolves(ch[2], fields, tab)
  /\ ch[1] = "andi"      => bit[ch[2]]

StdVerdict(s, x, fields, bit, tab) ==
  /\ x.kind = s.kind
  /\ \A ch \in s.checks : CheckHolds(ch, x, fields, bit, tab)

(* The verdict of a schema operation o.                                    *)
SchemaVerdict(o, x, fields, bit) ==
  IF o.op = "validate" THEN Accepts(o.lat, x)
  ELSE /\ x.kind = "object"
       /\ \A k \in 1..Len(o.required) : o.required[k] \in fields
       /\ \A k \in 1..Len(o.results) : bit[o.results[k]]

(* The literals operation o has the runtime asked about.                   *)
Literals(o) ==
  IF o.op = "struct" THEN Entries(o.required)
  ELSE IF o.lat.kind = "string" THEN o.lat.pattern \cup o.lat.format
  ELSE {}

-----------------------------------------------------------------------------
(* The variables have their types.                                         *)
Check ==
  {"oge", "ogt", "ole", "olt", "roundeven"} \X Number
  \cup {"trunc"} \X {TRUE}
  \cup {"sge", "sle", "matches", "format", "has_field"} \X Int
  \cup {"andi"} \X Value

StdOp == [kind : {"number", "string", "object"}, checks : SUBSET Check]

TypeOK ==
  /\ ops \in [Value -> ValidateOp \cup StructOp]
  /\ present \subseteq Value
  /\ std \in [Value -> Opt(StdOp)]
  /\ declared \subseteq Runtime
  /\ pool \in Seq(Literal) /\ table \in Seq(Literal)
  /\ pc \in {"idle", "convert", "struct"}
  /\ checks \subseteq Check /\ n \in Nat \ {0}
  /\ pc = "struct" => /\ cur \in Illegal /\ ops[cur].op = "struct"
                      /\ n =< Len(ops[cur].required) + 1

(* Between two runs of the pass, every lowered operation answers at run    *)
(* time what the schema operation it replaced answers, on every document:  *)
(* its ids mean in the attribute what they meant in the pool of the run    *)
(* that made them.                                                         *)
VerdictsAgree ==
  pc = "idle" =>
    \A v \in Value : \A s \in std[v] :
      \A x \in Document, fields \in SUBSET Name, bit \in [Value -> BOOLEAN] :
        StdVerdict(s, x, fields, bit, table) <=> SchemaVerdict(ops[v], x, fields, bit)

(* Between two runs of the pass "the lowered IR refers to entries by their *)
(* i64 index" (SchemaPasses.h): every id of a lowered operation is the     *)
(* index of an entry, and that entry is a literal of the operation.        *)
IdsResolve ==
  pc = "idle" =>
    \A v \in Value : \A s \in std[v] : \A ch \in s.checks :
      ch[1] \in {"matches", "format", "has_field"} => Resolves(ch[2], Literals(ops[v]), table)

(* The attribute lists the literals the lowered operations ask about, each *)
(* once, and nothing else; running the pass again does not take them away. *)
TableExact ==
  pc = "idle" =>
    /\ Entries(table) = UNION {Literals(ops[v]) : v \in {w \in Value : std[w] # {}}}
    /\ Len(table) = Cardinality(Entries(table))

(* While the pass runs, an id that was given out keeps its meaning: the    *)
(* pool only grows, and only at its end.                                   *)
PoolGrows ==
  [][pc # "idle" => /\ Len(pool) =< Len(pool')
                    /\ \A k \in 1..Len(pool) : pool'[k] = pool[k]]_vars

(* "a missing property that is not required is vacuously valid"            *)
(* (SchemaOps.td): an object that has the required fields, and whose       *)
(* fields, as far as it has them, are valid, is valid.                     *)
OptionalMayBeMissing ==
  pc = "idle" =>
    \A v \in Value : \A s \in std[v] :
      \A fields \in SUBSET Name, bit \in [Value -> BOOLEAN] :
        /\ ops[v].op = "struct"
        /\ Entries(ops[v].required) \subseteq fields
        /\ \A k \in 1..Len(ops[v].fields) :
             ops[v].fields[k] \in fields => bit[ops[v].results[k]]
        => StdVerdict(s, [kind |-> "object"], fields, bit, table)

=============================================================================
