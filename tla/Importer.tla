------------------------------ MODULE Importer ------------------------------
(***************************************************************************)
(* The importer: one JSON Schema, parsed into a tree of schema nodes,      *)
(* becomes one function of the schema dialect, with one operation per      *)
(* keyword, one argument per instance path and arith.andi between the      *)
(* conjuncts of a schema.                                                  *)
(*                                                                         *)
(* importSchema and importObject call each other; the stack holds one      *)
(* frame per schema node being imported.  Nodes are numbered, 1 being the  *)
(* root, and name where an operation or an argument comes from.  A string  *)
(* is a sequence of characters only where it becomes part of a path.       *)
(***************************************************************************)
EXTENDS SchemaAST, Selection

CONSTANTS Stem,         \* the name of the file, up to the first dot
          Document,     \* the JSON values an instance path may hold
          Schemas       \* the parsed schemas: sequences of nodes

ASSUME StemAssumption == Stem \in Seq(Char)

ASSUME DocumentAssumption == Document \subseteq JsonValue

ASSUME SchemasAssumption == \A s \in Schemas : WellFormedSchema(s)

VARIABLES
  schema,   \* the parsed schema (never changed here)
  stack,    \* the calls of importSchema under way, the innermost last
  ops,      \* the operations made so far, in block order
  args,     \* the function's arguments: a path, and the node that asked first
  ret,      \* the operation the function returns, 0 while there is none
  errors,   \* the errors reported: <<what, node>>
  pc        \* "start", "import", "module" or "none"

vars == <<schema, stack, ops, args, ret, errors, pc>>

Props(n) == Or(schema[n].properties, <<>>)
Needs(n) == Or(schema[n].required, <<>>)

-----------------------------------------------------------------------------
(* What the conjunction a schema belongs to says of its instance.          *)

InstanceKind == {"any", "string", "number", "integer", "object"}

Narrows(own, have) ==
  own = have \/ have = "any" \/ (have = "number" /\ own = "integer")

(* Bug: a number among integers is taken for a contradiction. *)
Implied_Never(own, have) == FALSE

Implied(own, have) == have = "integer" /\ own = "number"

(* The kind after the type keyword of n, when have was known before.       *)
OwnKind(n, have) ==
  LET types == schema[n].types
      wrong == IF Len(types) # 1 THEN {"union"}
               ELSE IF types[1] \notin InstanceKind THEN {"type"}
               ELSE IF Narrows(types[1], have) \/ Implied(types[1], have) THEN {}
               ELSE {"contradiction"}
  IN IF types = <<>> THEN [kind |-> have, errors |-> {}]
     ELSE [kind   |-> IF wrong = {} /\ Narrows(types[1], have) THEN types[1] ELSE have,
           errors |-> wrong \X {n}]

(* Bug: a branch starts from what the schema itself says, not from what    *)
(* the branches before it said.                                            *)
CollectKind_LastBranch(node, fact) ==
  LET collect[n \in DOMAIN schema] ==
        [have \in InstanceKind |->
           LET after[k \in 0..Len(schema[n].allOf)] ==
                 IF k = 0 THEN OwnKind(n, have)
                 ELSE LET f == after[k - 1]
                          g == collect[schema[n].allOf[k]][OwnKind(n, have).kind]
                      IN [kind |-> g.kind, errors |-> f.errors \cup g.errors]
           IN after[Len(schema[n].allOf)]]
  IN collect[node][fact]

(* A type any branch asserts holds for the instance as a whole.            *)
CollectKind(node, fact) ==
  LET collect[n \in DOMAIN schema] ==
        [have \in InstanceKind |->
           LET after[k \in 0..Len(schema[n].allOf)] ==
                 IF k = 0 THEN OwnKind(n, have)
                 ELSE LET f == after[k - 1]
                          g == collect[schema[n].allOf[k]][f.kind]
                      IN [kind |-> g.kind, errors |-> f.errors \cup g.errors]
           IN after[Len(schema[n].allOf)]]
  IN collect[node][fact]

(* The kinds of instance a keyword applies to.                             *)

(* Bug: integer is forgotten. *)
Accepted_NoInteger(kw) ==
  IF kw.name \in NumberKeywords THEN {"number"} ELSE {"string"}

Accepted(kw) ==
  IF kw.name \in NumberKeywords THEN {"number", "integer"} ELSE {"string"}

-----------------------------------------------------------------------------
(* Constraints no value satisfies.                                         *)

Find(n, name) == {kw.value : kw \in {k \in ToSet(schema[n].keywords) : k.name = name}}

NoNumber(n) ==
  \E lo \in {"minimum", "exclusiveMinimum"}, hi \in {"maximum", "exclusiveMaximum"} :
    \E x \in Find(n, lo), y \in Find(n, hi) :
      ~(x < y \/ (x = y /\ lo = "minimum" /\ hi = "maximum"))

NoString(n) == \E x \in Find(n, "minLength"), y \in Find(n, "maxLength") : x > y

(* Bug: zero is let through. *)
NoDivisor_Negative(n) == \E m \in Find(n, "multipleOf") : m < Zero

NoDivisor(n) == \E m \in Find(n, "multipleOf") : ~(m > Zero)

CheckBounds(n) ==
  {e \in {"number bounds", "string bounds", "divisor"} \X {n} :
     \/ e[1] = "number bounds" /\ NoNumber(n)
     \/ e[1] = "string bounds" /\ NoString(n)
     \/ e[1] = "divisor"       /\ NoDivisor(n)}

-----------------------------------------------------------------------------
(* The operations of the dialect an import makes.                          *)

AnyString ==
  [kind |-> "string", minLength |-> {}, maxLength |-> {}, pattern |-> {}, format |-> {}]
AnyNumber ==
  [kind |-> "number", minimum |-> {}, maximum |-> {}, multipleOf |-> {},
   exclusiveMin |-> FALSE, exclusiveMax |-> FALSE, integral |-> FALSE]

Guard(type) ==
  CASE type = "string"  -> {AnyString}
    [] type = "number"  -> {AnyNumber}
    [] type = "integer" -> {[AnyNumber EXCEPT !.integral = TRUE]}
    [] OTHER            -> {}

KeywordLattice(kw) ==
  CASE kw.name = "minimum"    -> [AnyNumber EXCEPT !.minimum = {kw.value}]
    [] kw.name = "maximum"    -> [AnyNumber EXCEPT !.maximum = {kw.value}]
    [] kw.name = "multipleOf" -> [AnyNumber EXCEPT !.multipleOf = {kw.value}]
    [] kw.name = "exclusiveMinimum" ->
         [AnyNumber EXCEPT !.minimum = {kw.value}, !.exclusiveMin = TRUE]
    [] kw.name = "exclusiveMaximum" ->
         [AnyNumber EXCEPT !.maximum = {kw.value}, !.exclusiveMax = TRUE]
    [] kw.name = "minLength" -> [AnyString EXCEPT !.minLength = {kw.value}]
    [] kw.name = "maxLength" -> [AnyString EXCEPT !.maxLength = {kw.value}]
    [] kw.name = "pattern"   -> [AnyString EXCEPT !.pattern = {kw.value}]
    [] kw.name = "format"    -> [AnyString EXCEPT !.format = {kw.value}]

Validate(n, input, lattice) ==
  [op |-> "validate", loc |-> n, input |-> input, lat |-> lattice]

(* Paths are JSON pointers: ~ and / are escaped in a property name.        *)

(* Bug: only the separator is escaped. *)
EscapePointerToken_NoTilde(name) ==
  FlattenSeq([k \in DOMAIN name |->
    IF name[k] = "/" THEN <<"~", "1">> ELSE <<name[k]>>])

EscapePointerToken(name) ==
  FlattenSeq([k \in DOMAIN name |->
    CASE name[k] = "~" -> <<"~", "0">>
      [] name[k] = "/" -> <<"~", "1">>
      [] OTHER         -> <<name[k]>>])

-----------------------------------------------------------------------------
(* The calls under way.  at says where importSchema is: at the type guard, *)
(* the scalar keywords, the properties of importObject, or allOf; k is the *)
(* next keyword, property or branch there.                                 *)

Call(node, input, fact, path, type) ==
  [node |-> node, input |-> input, fact |-> fact, path |-> path, type |-> type,
   at |-> "guard", k |-> 1, conjuncts |-> <<>>, fields |-> <<>>, verdicts |-> <<>>]

Top == Last(stack)
At(at) == pc = "import" /\ stack # <<>> /\ Top.at = at
Be(call) == stack' = Append(Front(stack), call)

GoTo(call, at) == [call EXCEPT !.at = at, !.k = 1]

NextK(call) == [call EXCEPT !.k = @ + 1]
Conjoin(call, v) == [call EXCEPT !.conjuncts = Append(@, v)]

NewOp == Len(ops) + 1

TypeGuard ==
  /\ At("guard")
  /\ LET n     == Top.node
         guard == IF Len(schema[n].types) = 1 THEN Guard(schema[n].types[1]) ELSE {}
     IN /\ \/ /\ guard = {}
              /\ Be(GoTo(Top, "keywords"))
              /\ UNCHANGED ops
           \/ \E c \in guard :
              /\ ops' = Append(ops, Validate(n, Top.input, c))
              /\ Be(GoTo(Conjoin(Top, NewOp), "keywords"))
        /\ errors' = errors \cup CheckBounds(n)
  /\ UNCHANGED <<schema, args, ret, pc>>

AtKeyword == At("keywords") /\ Top.k =< Len(schema[Top.node].keywords)
TheKeyword == schema[Top.node].keywords[Top.k]

(* An error at a keyword: it is not supported, it needs a type the         *)
(* conjunction does not give, or its value is wrong.                       *)
KeywordErrors(kw) ==
  IF kw.name = "unknown" THEN {"unsupported"}
  ELSE IF Top.fact = "any" THEN {"needs type"}
  ELSE IF Top.fact \notin Accepted(kw) THEN {}
  ELSE IF kw.name = "pattern" /\ kw.value \in Invalid THEN {"regex"}
  ELSE IF kw.name = "format" /\ kw.value = "" THEN {"format"}
  ELSE {}

RejectKeyword ==
  /\ AtKeyword
  /\ KeywordErrors(TheKeyword) # {}
  /\ errors' = errors \cup (KeywordErrors(TheKeyword) \X {Top.node})
  /\ Be(NextK(Top))
  /\ UNCHANGED <<schema, ops, args, ret, pc>>

(* A keyword for another type (with a warning), and the empty pattern.     *)
Vacuous(kw) == Top.fact \notin Accepted(kw) \/ (kw.name = "pattern" /\ kw.value = "")

DropKeyword ==
  /\ AtKeyword
  /\ KeywordErrors(TheKeyword) = {} /\ Vacuous(TheKeyword)
  /\ Be(NextK(Top))
  /\ UNCHANGED <<schema, ops, args, ret, errors, pc>>

EmitKeyword ==
  /\ AtKeyword
  /\ KeywordErrors(TheKeyword) = {} /\ ~Vacuous(TheKeyword)
  /\ ops' = Append(ops, Validate(Top.node, Top.input, KeywordLattice(TheKeyword)))
  /\ Be(NextK(Conjoin(Top, NewOp)))
  /\ UNCHANGED <<schema, args, ret, errors, pc>>

IsObject(n) == schema[n].types = <<"object">>

(* After the keywords: importObject, or an error or a warning when the     *)
(* conjunction is not known to be an object, or nothing.                   *)
EndKeywords ==
  /\ At("keywords") /\ Top.k > Len(schema[Top.node].keywords)
  /\ LET n     == Top.node
         wants == IsObject(n) \/ schema[n].properties # {} \/ schema[n].required # {}
     IN /\ Be(GoTo(Top, IF wants /\ (IsObject(n) \/ Top.fact = "object")
                        THEN "properties" ELSE "allOf"))
        /\ errors' = IF wants /\ ~IsObject(n) /\ Top.fact = "any"
                     THEN errors \cup {<<"needs type", n>>} ELSE errors
  /\ UNCHANGED <<schema, ops, args, ret, pc>>

AtProperty == At("properties") /\ Top.k =< Len(Props(Top.node))
TheProperty == Props(Top.node)[Top.k]

RejectProperty ==
  /\ AtProperty /\ TheProperty.name = <<>>
  /\ errors' = errors \cup {<<"empty name", Top.node>>}
  /\ Be(NextK(Top))
  /\ UNCHANGED <<schema, ops, args, ret, pc>>

(* A property has the argument of its path, made when the path is new.     *)
EnterProperty ==
  /\ AtProperty /\ TheProperty.name # <<>>
  /\ LET child == TheProperty.schema
         path  == Top.path \o <<"/">> \o EscapePointerToken(TheProperty.name)
         known == {k \in DOMAIN args : args[k].path = path}
         input == IF known = {} THEN Len(args) + 1 ELSE CHOOSE k \in known : TRUE
         fact  == CollectKind(child, "any")
     IN /\ args' = IF known = {} THEN Append(args, [path |-> path, loc |-> child]) ELSE args
        /\ errors' = errors \cup fact.errors
        /\ stack' = Front(stack)
                    \o <<NextK([Top EXCEPT !.fields = Append(@, TheProperty.name)]),
                        Call(child, input, fact.kind, path,
                             Or(schema[child].title, TheProperty.name))>>
  /\ UNCHANGED <<schema, ops, ret, pc>>

(* The struct over the verdicts of the properties.                         *)
FinishObject ==
  /\ At("properties") /\ Top.k > Len(Props(Top.node))
  /\ LET n        == Top.node
         declared == ToSet(Top.fields)
         known    == {k \in DOMAIN Needs(n) : Needs(n)[k] \in declared}
     IN /\ ops' = Append(ops, [op |-> "struct", loc |-> n, input |-> Top.input,
                               type |-> Or(schema[n].title, Top.type),
                               fields |-> Top.fields, results |-> Top.verdicts,
                               required |-> Selected(Needs(n), known)])
        /\ errors' = errors \cup {e \in {"undeclared"} \X {n} : ~(ToSet(Needs(n)) \subseteq declared)}
        /\ Be(GoTo(Conjoin(Top, NewOp), "allOf"))
  /\ UNCHANGED <<schema, args, ret, pc>>

(* A branch of allOf shares the instance, and all that is known of it.     *)
EnterBranch ==
  /\ At("allOf") /\ Top.k =< Len(schema[Top.node].allOf)
  /\ stack' = Front(stack)
              \o <<NextK(Top), Call(schema[Top.node].allOf[Top.k], Top.input, Top.fact,
                                   Top.path, Top.type)>>
  /\ UNCHANGED <<schema, ops, args, ret, errors, pc>>

(* Bug: the fold over the conjuncts starts with the first one twice. *)
Conjunction_FirstTwice(n, conjuncts) ==
  IF conjuncts = <<>> THEN <<[op |-> "true", loc |-> n]>>
  ELSE [k \in 1..Len(conjuncts) |->
          [op |-> "and", loc |-> n,
           args |-> <<IF k = 1 THEN conjuncts[1] ELSE Len(ops) + k - 1, conjuncts[k]>>]]

(* The conjuncts of a schema joined from the left: none make true.         *)
Conjunction(n, conjuncts) ==
  IF conjuncts = <<>> THEN <<[op |-> "true", loc |-> n]>>
  ELSE [k \in 1..Len(conjuncts) - 1 |->
          [op |-> "and", loc |-> n,
           args |-> <<IF k = 1 THEN conjuncts[1] ELSE Len(ops) + k - 1, conjuncts[k + 1]>>]]

(* importSchema returns its verdict to the caller.                         *)
Return ==
  /\ At("allOf") /\ Top.k > Len(schema[Top.node].allOf)
  /\ LET made    == Conjunction(Top.node, Top.conjuncts)
         verdict == IF made = <<>> THEN Top.conjuncts[1] ELSE Len(ops) + Len(made)
         caller  == Last(Front(stack))
     IN /\ ops' = ops \o made
        /\ IF Len(stack) = 1
           THEN /\ stack' = <<>>
                /\ ret' = verdict
           ELSE /\ stack' = Append(Front(Front(stack)),
                     IF caller.at = "properties"
                     THEN [caller EXCEPT !.verdicts = Append(@, verdict)]
                     ELSE Conjoin(caller, verdict))
                /\ UNCHANGED ret
  /\ UNCHANGED <<schema, args, errors, pc>>

-----------------------------------------------------------------------------
(* The module is handed out when there was no error and it verifies.       *)

StructVerifies(o) ==
  /\ o.type # <<>>
  /\ Len(o.fields) = Len(o.results)
  /\ <<>> \notin ToSet(o.fields) /\ IsInjective(o.fields)
  /\ ToSet(o.required) \subseteq ToSet(o.fields) /\ IsInjective(o.required)

ModuleVerifies ==
  \A v \in DOMAIN ops : /\ ops[v].op = "validate" => Verifies(ops[v].lat)
                        /\ ops[v].op = "struct"   => StructVerifies(ops[v])

Finish ==
  /\ pc = "import" /\ stack = <<>>
  /\ pc' = IF errors = {} /\ ModuleVerifies THEN "module" ELSE "none"
  /\ UNCHANGED <<schema, stack, ops, args, ret, errors>>

RootName ==
  LET name == Or(schema[1].title, Stem) IN IF name = <<>> THEN <<"schema">> ELSE name

(* run: the function with the argument for the whole instance. *)
Begin ==
  /\ pc = "start"
  /\ LET fact == CollectKind(1, "any")
     IN /\ stack'  = <<Call(1, 1, fact.kind, <<>>, RootName)>>
        /\ errors' = fact.errors
  /\ args' = <<[path |-> <<>>, loc |-> 1]>>
  /\ pc' = "import"
  /\ UNCHANGED <<schema, ops, ret>>

Idle ==
  stack = <<>> /\ ops = <<>> /\ args = <<>> /\ ret = 0 /\ errors = {} /\ pc = "start"

Init == schema \in Schemas /\ Idle

Next ==
  \/ Begin
  \/ TypeGuard
  \/ RejectKeyword \/ DropKeyword \/ EmitKeyword \/ EndKeywords
  \/ RejectProperty \/ EnterProperty \/ FinishObject
  \/ EnterBranch \/ Return \/ Finish

Spec == Init /\ [][Next]_vars

-----------------------------------------------------------------------------
(* What JSON Schema says.  An instance gives the instance locations,       *)
(* sequences of property names, JSON values, and leaves out any set of     *)
(* properties, required ones or not; what is said of a location under one  *)
(* that is left out does not count.                                        *)

Over == pc \in {"module", "none"}

(* The location of each node's instance. *)
Place ==
  LET place[n \in DOMAIN schema] ==
        LET inBranch == {m \in DOMAIN schema : n \in ToSet(schema[m].allOf)}
            asMember == UNION {{<<m, p.name>> : p \in {q \in ToSet(Props(m)) : q.schema = n}}
                                : m \in DOMAIN schema}
        IN (UNION {place[m] : m \in inBranch})
           \cup (UNION {{Append(at, m[2]) : at \in place[m[1]]} : m \in asMember})
           \cup {<<>> : root \in {1} \cap {n}}
  IN [n \in DOMAIN schema |-> CHOOSE at \in place[n] : TRUE]

Places == {Place[n] : n \in DOMAIN schema}

Instance == [doc : [Places -> Document], absent : SUBSET (Places \ {<<>>})]

(* The instance has a value for the schema n to look at. *)
HasValue(e, n) == \A k \in 1..Len(Place[n]) : SubSeq(Place[n], 1, k) \notin e.absent

HasType(d, type) ==
  IF type = "integer" THEN d.kind = "number" /\ d.x \in Whole ELSE d.kind = type

KeywordHolds(kw, d) ==
  /\ d.kind = "number" =>
       /\ kw.name = "minimum"          => d.x >= kw.value
       /\ kw.name = "maximum"          => d.x =< kw.value
       /\ kw.name = "exclusiveMinimum" => d.x > kw.value
       /\ kw.name = "exclusiveMaximum" => d.x < kw.value
       /\ kw.name = "multipleOf"       => <<d.x, kw.value>> \in Integral
  /\ d.kind = "string" =>
       /\ kw.name = "minLength" => d.length >= kw.value
       /\ kw.name = "maxLength" => d.length =< kw.value
       /\ kw.name = "pattern"   => kw.value \in d.matches \cup {""}
       /\ kw.name = "format"    => kw.value \in d.formats

Valid(e) ==
  LET place == Place
      valid[n \in DOMAIN schema] ==
        LET d == e.doc[place[n]]
        IN /\ \A t  \in ToSet(schema[n].types) : HasType(d, t)
           /\ \A kw \in ToSet(schema[n].keywords) : KeywordHolds(kw, d)
           /\ d.kind = "object" =>
                /\ \A r \in ToSet(Needs(n)) : Append(place[n], r) \notin e.absent
                /\ \A p \in ToSet(Props(n)) :
                     Append(place[n], p.name) \in e.absent \/ valid[p.schema]
           /\ \A b \in ToSet(schema[n].allOf) : valid[b]
  IN valid[1]

(* What the function answers: an argument stands for what is at its place, *)
(* and a missing property that is not required is vacuously valid, as the  *)
(* dialect says of validate_struct.                                        *)
Verdict(e) ==
  LET place == Place
      at(v) == place[args[ops[v].input].loc]
      holds[v \in DOMAIN ops] ==
        /\ ops[v].op = "and" => holds[ops[v].args[1]] /\ holds[ops[v].args[2]]
        /\ ops[v].op = "validate" => Accepts(ops[v].lat, e.doc[at(v)])
        /\ ops[v].op = "struct" =>
             /\ e.doc[at(v)].kind = "object"
             /\ \A r \in ToSet(ops[v].required) : Append(at(v), r) \notin e.absent
             /\ \A k \in DOMAIN ops[v].results :
                  Append(at(v), ops[v].fields[k]) \in e.absent \/ holds[ops[v].results[k]]
  IN holds[ret]

-----------------------------------------------------------------------------
(* The variables have their types, and every call is where it can be.      *)
TypeOK ==
  /\ \A v \in DOMAIN ops : /\ ops[v].loc \in DOMAIN schema
                           /\ ops[v].op \in {"validate", "struct"} => ops[v].input \in DOMAIN args
                           /\ ops[v].op = "validate" => ops[v].lat \in Lattice
  /\ \A k \in DOMAIN stack :
       LET c == stack[k]
       IN /\ c.node \in DOMAIN schema /\ c.input \in DOMAIN args /\ c.fact \in InstanceKind
          /\ ToSet(c.conjuncts) \cup ToSet(c.verdicts) \subseteq DOMAIN ops
          /\ c.k \in 1..1 + (CASE c.at = "guard"      -> 0
                              [] c.at = "keywords"   -> Len(schema[c.node].keywords)
                              [] c.at = "properties" -> Len(Props(c.node))
                              [] c.at = "allOf"      -> Len(schema[c.node].allOf))
  /\ ret \in {0} \cup DOMAIN ops
  /\ pc \in {"start", "import", "module", "none"}

(* The function decides the schema: on every instance, whichever of its    *)
(* properties are there, it answers what JSON Schema says, whatever was    *)
(* dropped with a warning, taken from another branch or shared between     *)
(* branches.                                                               *)
DecidesSchema == pc = "module" => \A e \in Instance : Verdict(e) <=> Valid(e)

(* Two operations look at the same argument exactly when they come from    *)
(* schemas of the same instance location.                                  *)
OneArgumentPerPlace ==
  Over => \A v, w \in {u \in DOMAIN ops : ops[u].op \in {"validate", "struct"}} :
            (ops[v].input = ops[w].input) <=> (Place[ops[v].loc] = Place[ops[w].loc])

(* The operations form a tree under the returned one, each made before its *)
(* user.  So no conjunction of an imported function has a second user, and *)
(* the canonicalizer folds each of them as a whole.                        *)
Operands(v) ==
  CASE ops[v].op = "and"    -> ops[v].args
    [] ops[v].op = "struct" -> ops[v].results
    [] OTHER                -> <<>>

TreeShaped ==
  Over => \A v \in DOMAIN ops :
            LET uses == UNION {{<<w, k>> : k \in {l \in DOMAIN Operands(w) : Operands(w)[l] = v}}
                                : w \in DOMAIN ops}
            IN /\ Cardinality(uses) = IF v = ret THEN 0 ELSE 1
               /\ \A u \in uses : v < u[1]

(* A module the verifier would reject is refused with an error at the      *)
(* keyword first; only an empty title gets past the importer's own checks. *)
DiagnosedFirst ==
  pc = "none" => errors # {} \/ \E n \in DOMAIN schema : schema[n].title = {<<>>}

(* "no value satisfies both": a contradiction between types is reported    *)
(* only at a schema no value satisfies, so that every instance that has a  *)
(* value there is refused; every instance at all, when it is at the root.  *)
ContradictionReal ==
  Over => \A n \in DOMAIN schema :
            <<"contradiction", n>> \in errors =>
              \A e \in Instance : HasValue(e, n) => ~Valid(e)

(* A keyword is refused for want of a type only when no schema of the      *)
(* conjunction it belongs to names exactly one type.                       *)
Conjoined(n) ==
  LET up[m \in DOMAIN schema] ==
        {m} \cup UNION {up[k] : k \in {l \in DOMAIN schema : m \in ToSet(schema[l].allOf)}}
  IN {m \in DOMAIN schema : up[m] \cap up[n] # {}}

NeedsTypeReal ==
  Over => \A n \in DOMAIN schema :
            <<"needs type", n>> \in errors =>
              \A m \in Conjoined(n) : Len(schema[m].types) = 1
                                      => schema[m].types[1] \notin InstanceKind

(* A keyword for another type "has no effect in JSON Schema; the importer  *)
(* drops it with a warning" (README): when all that is wrong with a schema *)
(* is its bounds, nothing satisfies it.                                    *)
BoundsErrorReal ==
  Over /\ errors # {} /\ (\A e \in errors : e[1] \in {"number bounds", "string bounds"})
    => \A e \in Instance : ~Valid(e)

=============================================================================
