----------------------------- MODULE SchemaAST -----------------------------
(***************************************************************************)
(* The syntax tree of a schema as the importer reads it: the schema nodes, *)
(* numbered in source order, 1 being the root.  A name is a sequence of    *)
(* characters, because it becomes part of a path.                          *)
(***************************************************************************)
EXTENDS SchemaOps, SequencesExt

CONSTANTS Char,      \* characters of property names
          Invalid    \* patterns that are no regular expressions

Or(o, default) == IF o = {} THEN default ELSE CHOOSE v \in o : TRUE

NumberKeywords ==
  {"minimum", "maximum", "exclusiveMinimum", "exclusiveMaximum", "multipleOf"}
LengthKeywords == {"minLength", "maxLength"}
StringKeywords == {"pattern", "format"}
JsonType == {"null", "boolean", "object", "array", "number", "string", "integer"}

(* A schema node: the entries of type (none when there is no such keyword),*)
(* the scalar keywords in source order, and the rest.  An "unknown" keyword*)
(* is one the front end does not support, or a $schema of another draft.   *)
Keyword ==
  [name : NumberKeywords, value : Number] \cup [name : LengthKeywords, value : Nat]
  \cup [name : {"pattern"}, value : Pattern \cup Invalid \cup {""}]
  \cup [name : {"format"}, value : Format \cup {""}]
  \cup [name : {"unknown"}]

PropertyName == Seq(Char)
Property == [name : PropertyName, schema : Nat]

SchemaNode ==
  [types : Seq(JsonType), keywords : Seq(Keyword), properties : Opt(Seq(Property)),
   required : Opt(Seq(PropertyName)), allOf : Seq(Nat), title : Opt(PropertyName)]

(* What the parser guarantees of a tree: children come later, each has one *)
(* parent, and nothing is listed twice but keywords that are not supported.*)
WellFormedSchema(s) ==
  /\ s \in Seq(SchemaNode) \ {<<>>}
  /\ \A n \in DOMAIN s :
       LET props    == Or(s[n].properties, <<>>)
           children == s[n].allOf \o [k \in DOMAIN props |-> props[k].schema]
           known    == SelectSeq(s[n].keywords, LAMBDA kw : kw.name # "unknown")
       IN /\ IsInjective(children) /\ ToSet(children) \subseteq {m \in DOMAIN s : m > n}
          /\ IsInjective(s[n].types)
          /\ IsInjective([k \in DOMAIN props |-> props[k].name])
          /\ IsInjective([k \in DOMAIN known |-> known[k].name])
          /\ \A r \in s[n].required : IsInjective(r)
  /\ \A m \in DOMAIN s \ {1} :
       Cardinality({n \in DOMAIN s :
         m \in ToSet(s[n].allOf) \cup {p.schema : p \in ToSet(Or(s[n].properties, <<>>))}}) = 1

=============================================================================
