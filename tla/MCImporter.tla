----------------------------- MODULE MCImporter -----------------------------
(***************************************************************************)
(* Small schemas for Importer.  Numbers are counted in halves (2 is the    *)
(* double 1.0), and their division is exact.                               *)
(***************************************************************************)
EXTENDS Importer

MCNumber    == -1..9
MCIntegral  == {p \in MCNumber \X MCNumber : p[2] > 0 /\ p[1] % p[2] = 0}
MCVanishing == {p \in MCIntegral : p[1] = 0}
MCWhole     == {n \in MCNumber : n % 2 = 0}
MCStem      == <<"a">>

Kw(name, value) == [name |-> name, value |-> value]

Node(types, keywords, branches) ==
  [types |-> types, keywords |-> keywords, properties |-> {}, required |-> {},
   allOf |-> branches, title |-> {}]

Object(props, required, branches, title) ==
  [types |-> <<"object">>, keywords |-> <<>>, properties |-> {props},
   required |-> required, allOf |-> branches, title |-> title]

Member(name, child) == [name |-> name, schema |-> child]

-----------------------------------------------------------------------------
(* One schema, its types and at most two keywords. *)
SomeKeywords ==
  {Kw("minimum", 2), Kw("maximum", 2), Kw("exclusiveMinimum", 2), Kw("exclusiveMaximum", 4),
   Kw("multipleOf", 3), Kw("multipleOf", 0), Kw("minLength", 3), Kw("maxLength", 1),
   Kw("pattern", "p"), Kw("pattern", ""), Kw("pattern", "("), Kw("format", "f"),
   Kw("format", ""), [name |-> "unknown"]}

Scalar == {<<>>, <<"string">>, <<"number">>, <<"integer">>}
Refused == {<<"array">>, <<"string", "null">>}

Scalars ==
  {<<Node(t, <<>>, <<>>)>> : t \in Scalar \cup Refused}
  \cup {<<Node(t, <<k, l>>, <<>>)>> :
          t \in Scalar \cup Refused,
          k \in {m \in SomeKeywords : m.name # "unknown"},
          l \in {m \in SomeKeywords : m.name = "unknown"}}
  \cup {<<Node(t, ks, <<>>)>> :
          t \in Scalar, ks \in {p \in SomeKeywords \X SomeKeywords : p[1].name # p[2].name}}

(* allOf with two branches, and with a branch in a branch. *)
Assertions == {<<>>, <<Kw("minimum", 2)>>, <<Kw("minLength", 3)>>}

Conjunctions ==
  {<<Node(t, k, <<2, 3>>), Node(u, l, <<>>), Node(v, <<>>, <<>>)>> :
     t, u, v \in Scalar, k, l \in Assertions}
  \cup {<<Node(<<>>, k, <<2, 4>>), Node(<<>>, <<>>, <<3>>), Node(t, <<>>, <<>>), Node(u, l, <<>>)>> :
     t, u \in Scalar, k, l \in Assertions}

(* Two properties whose names are hard to keep apart, required or not; the *)
(* same location reached through a branch; and a conjunction known to be   *)
(* an object only by its branch.                                           *)
Leaf == {Node(<<"string">>, <<Kw("minLength", 3)>>, <<>>), Node(<<"integer">>, <<>>, <<>>),
         Node(<<>>, <<Kw("minimum", 2)>>, <<>>)}

TwoNames == {<<<<"/">>, <<"~", "1">>>>, <<<<"/">>, <<>>>>, <<<<"~", "1">>, <<"/">>>>}

Objects ==
  {<<Object(<<Member(p[1], 2), Member(p[2], 3)>>, r, <<>>, t), a, b>> :
     p \in TwoNames, a, b \in Leaf, t \in {{}, {<<>>}},
     r \in {{}, {<<<<"/">>>>}, {<<<<"a">>>>}}}
  \cup {<<Object(<<Member(<<"a">>, 2)>>, {}, <<3>>, {}), a,
          Object(<<Member(<<"a">>, 4)>>, r, <<>>, {}), b>> :
          a, b \in Leaf, r \in {{}, {<<<<"a">>>>}}}
  \cup {<<Object(<<Member(<<"a">>, 2), Member(<<"a", "/", "a">>, 4)>>, {}, <<>>, {}),
          Object(<<Member(<<"a">>, 3)>>, r, <<>>, {}), a, b>> :
          a, b \in Leaf, r \in {{}, {<<<<"a">>>>}}}
  \cup {<<[Node(<<>>, <<>>, <<3>>) EXCEPT !.properties = {<<Member(<<"a">>, 2)>>}], a,
          Node(t, <<>>, <<>>)>> :
          a \in Leaf, t \in {<<>>, <<"object">>, <<"string">>}}

(* A property whose schema is a conjunction, required or not: types that   *)
(* contradict each other are no contradiction of the object.               *)
Deep ==
  {<<Object(<<Member(<<"a">>, 2)>>, r, <<>>, {}), Node(t, k, <<3>>), Node(u, <<>>, <<>>)>> :
     t, u \in Scalar, k \in Assertions, r \in {{}, {<<<<"a">>>>}}}
  \cup {<<Object(<<Member(<<"a">>, 2)>>, {}, <<>>, {}),
          Object(<<Member(<<"/">>, 3)>>, r, <<>>, {}), Node(t, <<>>, <<4>>), Node(u, <<>>, <<>>)>> :
     t, u \in Scalar, r \in {{}, {<<<<"/">>>>}}}

SomeSchemas == Scalars \cup Conjunctions \cup Objects \cup Deep

(* Bounds of one kind under a type of the other. *)
Bounded ==
  {<<Node(t, <<Kw("minimum", lo), Kw("maximum", hi)>>, <<>>)>> :
     t \in Scalar, lo, hi \in {0, 2, 4}}
  \cup {<<Node(t, <<Kw("minLength", lo), Kw("maxLength", hi)>>, <<>>)>> :
     t \in Scalar, lo, hi \in {0, 1, 2}}

Docs ==
  {[kind |-> "string", length |-> 1, matches |-> {}, formats |-> {"f"}],
   [kind |-> "string", length |-> 3, matches |-> {"p"}, formats |-> {}]}
  \cup [kind : {"number"}, x : {1, 2, 3, 4}] \cup [kind : {"object", "null"}]

=============================================================================
