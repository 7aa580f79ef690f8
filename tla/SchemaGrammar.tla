--------------------------- MODULE SchemaGrammar ---------------------------
(***************************************************************************)
(* What the parser promises: the schema documents as a grammar of token    *)
(* spans, without a parse, and the tree a document means.                  *)
(***************************************************************************)
EXTENDS Parser

-----------------------------------------------------------------------------
(* The grammar, of spans of tokens: i is the first and j one past the last.*)

(* The parts of a bracketed span, between its own commas. *)
Items(i, j) ==
  LET commas == {k \in i + 1..j - 2 : Is(k, {"comma"}) /\ Balance(i + 1, k) = 0}
      cuts   == SetToSortSeq({i, j - 1} \cup commas, <)
  IN IF j = i + 2 THEN <<>>
     ELSE [k \in 1..Len(cuts) - 1 |-> [first |-> cuts[k] + 1, last |-> cuts[k + 1]]]

IsMember(m) == Is(m.first, {"string"}) /\ Is(m.first + 1, {"colon"})
Name(m)     == tokens[m.first].value

Values ==
  LET value[i \in DOMAIN tokens, j \in DOMAIN tokens] ==
        \/ j = i + 1 /\ Is(i, Literal)
        \/ j > i + 1 /\ \/ /\ Is(i, {"l_square"}) /\ Is(j - 1, {"r_square"})
                           /\ \A m \in ToSet(Items(i, j)) : value[m.first, m.last]
                        \/ /\ Is(i, {"l_brace"}) /\ Is(j - 1, {"r_brace"})
                           /\ \A m \in ToSet(Items(i, j)) :
                                IsMember(m) /\ m.last > m.first + 2 /\ value[m.first + 2, m.last]
  IN value

Distinct(items) == IsInjective([k \in DOMAIN items |-> Name(items[k])])
IsOne(m, kinds) == m.last = m.first + 1 /\ Is(m.first, kinds)
Nesting(i, j)   == Max({Balance(i, k) : k \in i..j})

(* A schema at a depth; v is the span of a keyword's value.                *)
IsSchema(i, j, depth) ==
  LET schema[a \in DOMAIN tokens, b \in DOMAIN tokens, d \in 0..MaxDepth] ==
        LET items  == Items(a, b)
            listed(v) == Items(v.first, v.last)
            names(v) == Is(v.first, {"l_square"}) /\ Distinct(listed(v))
                        /\ \A m \in ToSet(listed(v)) : IsOne(m, {"string"})
            number(v) == IsOne(v, {"number"}) /\ AsDouble[Name(v)] \in Number
            fits(kind, v) ==
              CASE kind = "type"       -> IF IsOne(v, {"string"}) THEN Text(Name(v)) \in JsonType
                                          ELSE /\ names(v) /\ listed(v) # <<>>
                                               /\ \A m \in ToSet(listed(v)) : Text(Name(m)) \in JsonType
                [] kind = "required"   -> names(v)
                [] kind = "properties" -> /\ Is(v.first, {"l_brace"}) /\ Distinct(listed(v))
                                          /\ \A m \in ToSet(listed(v)) : schema[m.first + 2, m.last, d + 1]
                [] kind = "allOf"      -> /\ Is(v.first, {"l_square"}) /\ listed(v) # <<>>
                                          /\ \A m \in ToSet(listed(v)) : schema[m.first, m.last, d + 1]
                [] kind = "number"     -> number(v)
                [] kind = "length"     -> number(v) /\ AsDouble[Name(v)] \in Whole \cap Zero..MaxExactInteger
                [] kind = "text"       -> IsOne(v, {"string"})
                [] OTHER               -> d + Nesting(v.first, v.last) =< MaxDepth
        IN /\ d < MaxDepth /\ Is(a, {"l_brace"}) /\ Distinct(items)
           /\ \A m \in ToSet(items) :
                fits(KeywordKind(Text(Name(m))), [first |-> m.first + 2, last |-> m.last])
  IN Values[i, j] /\ schema[i, j, depth]

IsDocument == IsSchema(1, Len(tokens), 0)

(* The tree the importer should see, read off the tokens of a document. *)
Meaning ==
  LET values(a, b, name) ==
        {[first |-> m.first + 2, last |-> m.last] : m \in {k \in ToSet(Items(a, b)) : Text(Name(k)) = name}}
      inside[a \in DOMAIN tokens, b \in DOMAIN tokens] ==
        {[first |-> a, last |-> b]}
        \cup UNION {UNION {inside[m.first + 2, m.last] : m \in ToSet(Items(v.first, v.last))}
                     : v \in values(a, b, "properties")}
        \cup UNION {UNION {inside[m.first, m.last] : m \in ToSet(Items(v.first, v.last))}
                     : v \in values(a, b, "allOf")}
      spans == SetToSortSeq(inside[1, Len(tokens)], LAMBDA v, w : v.first < w.first)
      at(i) == CHOOSE k \in DOMAIN spans : spans[k].first = i
      list(v) == IF Is(v.first, {"string"}) THEN <<Name(v)>>
                 ELSE LET ms == Items(v.first, v.last) IN [k \in DOMAIN ms |-> Name(ms[k])]
      scalar(m) ==
        LET name == Text(Name(m))  v == Name([first |-> m.first + 2])
        IN IF KeywordKind(name) \in {"unknown", "annotation"} THEN [name |-> "unknown"]
           ELSE [name  |-> name,
                 value |-> CASE KeywordKind(name) = "number" -> AsDouble[v]
                             [] KeywordKind(name) = "length" -> AsInteger[AsDouble[v]]
                             [] OTHER -> Text(v)]
      said(m) == LET kind == KeywordKind(Text(Name(m)))
                 IN \/ kind \in {"number", "length", "text", "unknown"}
                    \/ /\ Text(Name(m)) = "$schema" /\ Is(m.first + 2, {"string"})
                       /\ Text(tokens[m.first + 2].value) \notin Drafts
  IN [k \in DOMAIN spans |->
       LET a == spans[k].first  b == spans[k].last
           scalars == SelectSeq(Items(a, b), said)
       IN [types      |-> LET t == Or({list(v) : v \in values(a, b, "type")}, <<>>)
                          IN [l \in DOMAIN t |-> Text(t[l])],
           keywords   |-> [l \in DOMAIN scalars |-> scalar(scalars[l])],
           properties |-> {LET ms == Items(v.first, v.last)
                           IN [l \in DOMAIN ms |-> [name |-> Name(ms[l]), schema |-> at(ms[l].first + 2)]]
                            : v \in values(a, b, "properties")},
           required   |-> {list(v) : v \in values(a, b, "required")},
           allOf      |-> Or({LET ms == Items(v.first, v.last) IN [l \in DOMAIN ms |-> at(ms[l].first)]
                               : v \in values(a, b, "allOf")}, <<>>),
           title      |-> {tokens[v.first].value : v \in {w \in values(a, b, "title") : Is(w.first, {"string"})}}]]

-----------------------------------------------------------------------------
(* The parser accepts exactly the schema documents: whatever it skips or   *)
(* suppresses on the way, it fails when the tokens are not one, and only   *)
(* then (document and schema of the grammar at the top of Parser.cpp, with *)
(* the shapes and the depth limit of its keywords).                        *)
DecidesGrammar == Done => (failed <=> ~IsDocument)

(* The tree of an accepted document says what its tokens say, in order,    *)
(* and is one the importer may assume (ids, titles, first keywords).       *)
TreeOfText == Done /\ ~failed => Schema = Meaning /\ WellFormedSchema(Schema)

(* Recovery stays in its bracket: when the brackets of a document match,   *)
(* the calls under way are for exactly the brackets the current token is   *)
(* in, whatever else is wrong (at nesting the depth limit does not cut).   *)
MatchingBrackets ==
  /\ \A i \in DOMAIN tokens : Balance(1, i) >= 0
  /\ Balance(1, Len(tokens)) = 0
  /\ \A i, j \in DOMAIN tokens :
       Is(i, Opening) /\ i < j /\ Balance(i, j + 1) = 0 /\ (\A k \in i + 1..j : Balance(i, k) > 0)
         => Is(j, {IF Is(i, {"l_brace"}) THEN "r_brace" ELSE "r_square"})

Enclosing(i) == {k \in 1..i - 1 : Is(k, Opening) /\ \A j \in k + 1..i : Balance(k, j) > 0}

Recovered == {f.open : f \in ToSet(stack)} = Enclosing(index)

RecoversInBracket ==
  stack # <<>> => Recovered \/ ~MatchingBrackets \/ Nesting(1, Len(tokens)) >= 2 * MaxDepth

=============================================================================
