------------------------------- MODULE Parser -------------------------------
(***************************************************************************)
(* The recursive-descent parser: a stream of tokens becomes a tree of      *)
(* schema nodes.  It reports an error, skips to the next separator of the  *)
(* bracket it is in, and goes on, so that one run finds several errors.    *)
(*                                                                         *)
(* The stack holds one frame per bracket being parsed (parseObject and     *)
(* parseArray and the function that called them); call says which function *)
(* looks at the current token next, and at which depth.  lastEnd and       *)
(* lastErrorOffset follow from index and errors.                           *)
(***************************************************************************)
EXTENDS SchemaAST, Tokens

CONSTANTS
  MaxDepth,          \* kMaxDepth
  MaxExactInteger,   \* kMaxExactInteger, the double 2^53
  AsDouble,          \* what a number spelling is read as; no Number: out of range
  AsInteger,         \* the integer a whole double converts to
  Drafts             \* the $schema names the front end supports

ASSUME MaxDepthAssumption == MaxDepth \in Nat \ {0}

VARIABLES
  index,    \* the current token
  errors,   \* the diagnostics: what, and where
  failed,
  nodes,    \* every node made, at its id + 1, dropped ones included
  root,     \* the root schema, 0 while there is none
  stack,
  call      \* [at, depth]

parserVars == <<index, errors, failed, nodes, root, stack, call>>

Opening == {"l_brace", "l_square"}
Closing == {"r_brace", "r_square"}
Literal == {"string", "number", "true", "false", "null"}

Tok      == tokens[index]
TokIs(k) == Tok.kind = k

-----------------------------------------------------------------------------
(* Diagnostics.                                                            *)

LastEnd(i) == IF i = 1 THEN Start ELSE tokens[i - 1].end

(* Bug: the offset of the last error starts at zero. *)
IsLastError_Zero(pos) == (IF errors = <<>> THEN 0 ELSE Last(errors).at.offset) = pos.offset

IsLastError(pos) == errors # <<>> /\ Last(errors).at.offset = pos.offset

Error(pos, what) ==
  failed' = TRUE /\ errors' = Append(errors, [what |-> what, at |-> pos])

Suppressed == failed' = TRUE /\ UNCHANGED errors
NoError    == UNCHANGED <<failed, errors>>

(* Error tokens were reported by the lexer, and one report a token is enough. *)
ErrorAtToken(i, what) ==
  IF tokens[i].kind = "error" \/ IsLastError(tokens[i].begin) THEN Suppressed
  ELSE Error(tokens[i].begin, what)

ErrorUnclosed ==
  IF IsLastError(Tok.begin) THEN Suppressed ELSE Error(LastEnd(index), "unclosed")

-----------------------------------------------------------------------------
(* Skipping.                                                               *)

(* Bug: the level is not kept. *)
SkipToSeparator_Flat(i, close) ==
  Min({j \in i..Len(tokens) : Is(j, {"eof", "comma", close})})

(* Bug: any closing bracket is stopped at. *)
SkipToSeparator_AnyClose(i, close) ==
  Min({j \in i..Len(tokens) : Is(j, {"eof", "comma"} \cup Closing)})

(* The next comma or close at the level of token i, or the end.            *)
SkipToSeparator(i, close) ==
  LET level[j \in i..Len(tokens)] ==
        IF j = i THEN 0
        ELSE IF Is(j - 1, Opening) THEN level[j - 1] + 1
        ELSE IF Is(j - 1, Closing) /\ level[j - 1] > 0 THEN level[j - 1] - 1 ELSE level[j - 1]
  IN Min({j \in i..Len(tokens) :
            Is(j, {"eof"}) \/ (Is(j, {"comma", close}) /\ level[j] = 0)})

(* The brackets opened but not closed in tokens i to j - 1.                *)
Balance(i, j) ==
  Cardinality({k \in i..j - 1 : Is(k, Opening)}) - Cardinality({k \in i..j - 1 : Is(k, Closing)})

(* The end of a bracketed value.  The count is unsigned: a closing bracket *)
(* first leaves it above zero, as every surplus one does.                  *)
SkipNested(i) ==
  IF Is(i, {"eof"}) THEN i
  ELSE Min({j \in i + 1..Len(tokens) : Balance(i, j) = 0 \/ Is(j, {"eof"})})

-----------------------------------------------------------------------------
(* Nodes, and the calls under way.                                         *)

Node(kind, name, begin) ==
  [kind |-> kind, name |-> name, begin |-> begin, end |-> begin,
   children |-> <<>>, value |-> <<>>]

New == Len(nodes) + 1
Ended(ns, n, i) == IF n = 0 THEN ns ELSE [ns EXCEPT ![n].end = LastEnd(i)]

(* Bug: the children are kept in reverse. *)
Adopt_Front(ns, parent, n) ==
  IF n = 0 THEN ns ELSE [ns EXCEPT ![parent].children = <<n>> \o @]

Adopt(ns, parent, n) ==
  IF n = 0 THEN ns ELSE [ns EXCEPT ![parent].children = Append(@, n)]

(* of: the function the bracket is parsed for; open: its first token;      *)
(* pending: the keyword or property whose value is parsed, if it is kept.  *)
Frame(of, depth, node) ==
  [of |-> of, open |-> index, depth |-> depth, node |-> node, seen |-> {}, pending |-> 0]

Top   == Last(stack)
Close == IF Top.of \in {"schema", "properties", "object"} THEN "r_brace" ELSE "r_square"
Be(at, depth) == call' = [at |-> at, depth |-> depth]
At(at) == call.at = at

(* Bug: the keyword before is still awaited when this one is dropped. *)
Await_Stale(n) == IF n = 0 THEN stack ELSE [stack EXCEPT ![Len(stack)].pending = n]

Await(n) == [stack EXCEPT ![Len(stack)].pending = n]

(* A nested value is one level deeper than the frame it is in.             *)

(* Bug: the depth is handed on as it is. *)
Inner_Same(f) == f.depth

Inner(f) == f.depth + 1

Open(frames, frame) ==
  /\ stack' = Append(frames, frame) /\ index' = index + 1 /\ Be("open", 0)
  /\ UNCHANGED <<tokens, root>>

(* A value ended before token i.  Its caller, the last of frames, keeps    *)
(* the node it awaits: a keyword, a property with the schema n, a branch n.*)
Return(ns, frames, n, i) ==
  /\ index' = i /\ stack' = frames
  /\ IF frames = <<>> THEN /\ nodes' = ns /\ root' = n
                           /\ Be("end", 0)
     ELSE LET f == Last(frames)
              named == IF f.of = "properties" /\ f.pending # 0 THEN Adopt(ns, f.pending, n) ELSE ns
          IN /\ nodes' = IF f.of = "allOf" THEN Adopt(ns, f.node, n)
                         ELSE Adopt(Ended(named, f.pending, i), f.node, f.pending)
             /\ Be("separator", 0)
             /\ UNCHANGED root
  /\ UNCHANGED tokens

(* The innermost bracket ended before token i. *)
Leave(i) ==
  LET n == IF Top.of = "schema" THEN Top.node ELSE 0
  IN Return(Ended(nodes, n, i), Front(stack), n, i)

SkipTo(i) == Return(nodes, stack, 0, i)

-----------------------------------------------------------------------------
(* parseSchema.                                                            *)

BeginDocument ==
  /\ At("document")
  /\ IF TokIs("eof") THEN Error(Tok.begin, "empty") /\ Be("done", 0)
                     ELSE NoError /\ Be("schema", 0)
  /\ UNCHANGED <<tokens, index, nodes, root, stack>>

SchemaTooDeep ==
  /\ At("schema") /\ call.depth >= MaxDepth
  /\ ErrorAtToken(index, "depth")
  /\ SkipTo(SkipNested(index))

AtSchema == At("schema") /\ call.depth < MaxDepth

BooleanSchema ==
  /\ AtSchema /\ Tok.kind \in {"true", "false"}
  /\ ErrorAtToken(index, "boolean schema")
  /\ SkipTo(index + 1)

NotASchema ==
  /\ AtSchema /\ Tok.kind \notin {"true", "false", "l_brace"}
  /\ ErrorAtToken(index, "schema expected")
  /\ Be("skip", call.depth)
  /\ UNCHANGED <<tokens, index, nodes, root, stack>>

OpenSchema ==
  /\ AtSchema /\ TokIs("l_brace")
  /\ nodes' = Append(nodes, Node("schema", <<>>, Tok.begin))
  /\ Open(stack, Frame("schema", call.depth, New))
  /\ NoError

-----------------------------------------------------------------------------
(* parseObject and parseArray.                                             *)

EmptyBrackets ==
  /\ At("open") /\ TokIs(Close)
  /\ IF Top.of \in {"type", "allOf"} THEN Error(tokens[Top.open].begin, "nothing listed") ELSE NoError
  /\ Leave(index + 1)

AtElement == (At("open") /\ ~TokIs(Close)) \/ At("element")

ElementMissing ==
  /\ AtElement /\ TokIs("eof")
  /\ ErrorUnclosed
  /\ Leave(index)

(* A member without a key or without a colon. *)
BadMember ==
  /\ AtElement /\ ~TokIs("eof") /\ Close = "r_brace"
  /\ LET bad == IF TokIs("string") THEN index + 1 ELSE index
     IN /\ ~TokIs("string") \/ ~Is(bad, {"colon"})
        /\ ErrorAtToken(bad, "member")
        /\ index' = SkipToSeparator(bad, "r_brace")
  /\ Be("separator", 0)
  /\ UNCHANGED <<tokens, nodes, root, stack>>

AtMember == AtElement /\ Close = "r_brace" /\ TokIs("string") /\ Is(index + 1, {"colon"})
ToValue  == index' = index + 2 /\ UNCHANGED <<tokens, root>>
Seen     == Tok.value \in Top.seen
See(n)   == [stack EXCEPT ![Len(stack)].seen = @ \cup {Tok.value}, ![Len(stack)].pending = n]

DuplicateKey ==
  /\ AtMember /\ Top.of \in {"schema", "properties"} /\ Seen
  /\ Error(Tok.begin, "duplicate")
  /\ stack' = Await(0) /\ Be("skip", Top.depth)
  /\ ToValue /\ UNCHANGED nodes

SchemaMember ==
  /\ AtMember /\ Top.of = "schema" /\ ~Seen
  /\ stack' = See(0) /\ Be("keyword", Top.depth)
  /\ ToValue /\ NoError /\ UNCHANGED nodes

PropertyMember ==
  /\ AtMember /\ Top.of = "properties" /\ ~Seen
  /\ nodes' = Append(nodes, Node("property", Tok.value, Tok.begin))
  /\ stack' = See(New) /\ Be("schema", Inner(Top))
  /\ ToValue /\ NoError

SkippedMember ==
  /\ AtMember /\ Top.of = "object"
  /\ Be("skip", Inner(Top))
  /\ ToValue /\ NoError /\ UNCHANGED <<nodes, stack>>

AtArrayElement == AtElement /\ ~TokIs("eof") /\ Close = "r_square"

NestedElement ==
  /\ AtArrayElement /\ Top.of \in {"allOf", "array"}
  /\ Be(IF Top.of = "allOf" THEN "schema" ELSE "skip", Inner(Top))
  /\ NoError
  /\ UNCHANGED <<tokens, index, nodes, root, stack>>

(* What the name at the current token adds to those listed: nothing when   *)
(* it is no type or is there already.                                      *)
ListError(of, listed) ==
  IF of = "type" /\ Text(Tok.value) \notin JsonType THEN {"unknown type"}
  ELSE IF Tok.value \in ToSet(listed) THEN {"listed twice"} ELSE {}

AddName(of, listed) == IF ListError(of, listed) = {} THEN Append(listed, Tok.value) ELSE listed

ReportName(of, listed) ==
  IF ListError(of, listed) = {} THEN NoError
  ELSE \E what \in ListError(of, listed) : Error(Tok.begin, what)

ListElement ==
  /\ AtArrayElement /\ Top.of \in {"type", "required"} /\ TokIs("string")
  /\ LET listed == nodes[Top.node].value
     IN /\ ReportName(Top.of, listed)
        /\ Return([nodes EXCEPT ![Top.node].value = AddName(Top.of, listed)],
                  stack, 0, index + 1)

BadElement ==
  /\ AtArrayElement /\ Top.of \in {"type", "required"} /\ ~TokIs("string")
  /\ ErrorAtToken(index, "bad value")
  /\ Be("skip", Inner(Top))
  /\ UNCHANGED <<tokens, index, nodes, root, stack>>

-----------------------------------------------------------------------------
(* parseKeyword: the current token begins the value.                       *)

Annotations ==
  {"$schema", "$id", "$comment", "title", "description", "default", "examples",
   "deprecated", "readOnly", "writeOnly"}
Brackets ==
  [type |-> "l_square", required |-> "l_square", allOf |-> "l_square", properties |-> "l_brace"]

Key     == tokens[index - 2]
KeyName == Text(Key.value)
KeywordKind(name) ==
  IF name \in DOMAIN Brackets THEN name
  ELSE IF name \in NumberKeywords THEN "number"
  ELSE IF name \in LengthKeywords THEN "length"
  ELSE IF name \in StringKeywords THEN "text"
  ELSE IF name \in Annotations THEN "annotation" ELSE "unknown"

Kind        == KeywordKind(KeyName)
KeywordNode == Node(Kind, Key.value, Key.begin)
AtKeyword(kinds) == At("keyword") /\ Kind \in kinds

(* The value is the current token: the keyword is kept with it, or dropped.*)
Keep(value) == Return(Append(nodes, [KeywordNode EXCEPT !.value = value]), Await(New), 0, index + 1)
Drop        == Return(Append(nodes, KeywordNode), Await(0), 0, index + 1)

OpenKeyword ==
  /\ AtKeyword(DOMAIN Brackets) /\ TokIs(Brackets[Kind])
  /\ nodes' = Append(nodes, KeywordNode)
  /\ Open(Await(New), Frame(Kind, Top.depth, New))
  /\ NoError

TypeName ==
  /\ AtKeyword({"type"}) /\ TokIs("string")
  /\ ReportName("type", <<>>)
  /\ Keep(AddName("type", <<>>))

(* What is wrong with the number at the current token.                     *)

(* Bug: the largest length is taken for too large. *)
NumberError_AtMost(kind) ==
  LET value == AsDouble[Tok.value]
  IN IF value \notin Number THEN {"range"}
     ELSE IF kind = "length" /\ (value < Zero \/ value \notin Whole \/ value >= MaxExactInteger)
     THEN {"length"} ELSE {}

NumberError(kind) ==
  LET value == AsDouble[Tok.value]
  IN IF value \notin Number THEN {"range"}
     ELSE IF kind = "length" /\ (value < Zero \/ value \notin Whole \/ value > MaxExactInteger)
     THEN {"length"} ELSE {}

ParseNumber ==
  /\ AtKeyword({"number", "length"}) /\ TokIs("number")
  /\ \/ /\ NumberError(Kind) = {}
        /\ LET value == AsDouble[Tok.value]
           IN Keep(IF Kind = "length" THEN AsInteger[value] ELSE value)
        /\ NoError
     \/ \E what \in NumberError(Kind) : Error(Tok.begin, what) /\ Drop

TextValue ==
  /\ AtKeyword({"text", "annotation"}) /\ TokIs("string")
  /\ Keep(IF Kind = "annotation" THEN {Tok.value} ELSE Tok.value)
  /\ NoError

(* Any other value of an annotation, and whatever an unknown key has.      *)
IgnoredValue ==
  /\ AtKeyword({"annotation", "unknown"}) /\ (Kind = "annotation" => ~TokIs("string"))
  /\ nodes' = Append(nodes, [KeywordNode EXCEPT !.value = {}])
  /\ stack' = Await(New) /\ Be("skip", Top.depth)
  /\ NoError
  /\ UNCHANGED <<tokens, index, root>>

(* A value of the wrong shape; properties, required and allOf have made no *)
(* node yet.                                                               *)
BadValue ==
  /\ \/ AtKeyword({"type"}) /\ Tok.kind \notin {"string", "l_square"}
     \/ AtKeyword({"properties", "required", "allOf"}) /\ ~TokIs(Brackets[Kind])
     \/ AtKeyword({"number", "length"}) /\ ~TokIs("number")
     \/ AtKeyword({"text"}) /\ ~TokIs("string")
  /\ ErrorAtToken(index, "bad value")
  /\ nodes' = IF Kind \in {"properties", "required", "allOf"} THEN nodes
              ELSE Append(nodes, KeywordNode)
  /\ stack' = Await(0) /\ Be("skip", Top.depth)
  /\ UNCHANGED <<tokens, index, root>>

-----------------------------------------------------------------------------
(* skipValue.                                                              *)

SkipScalar ==
  /\ At("skip") /\ Tok.kind \in Literal \cup {"error"}
  /\ IF TokIs("error") THEN Suppressed ELSE NoError
  /\ SkipTo(index + 1)

SkipTooDeep ==
  /\ At("skip") /\ Tok.kind \in Opening /\ call.depth >= MaxDepth
  /\ ErrorAtToken(index, "depth")
  /\ SkipTo(SkipNested(index))

(* Bug: one level more. *)
SkipOpen_OneMore ==
  /\ At("skip") /\ Tok.kind \in Opening /\ call.depth =< MaxDepth
  /\ Open(stack, Frame(IF TokIs("l_brace") THEN "object" ELSE "array", call.depth, 0))
  /\ NoError /\ UNCHANGED nodes

SkipOpen ==
  /\ At("skip") /\ Tok.kind \in Opening /\ call.depth < MaxDepth
  /\ Open(stack, Frame(IF TokIs("l_brace") THEN "object" ELSE "array", call.depth, 0))
  /\ NoError /\ UNCHANGED nodes

SkipMissing ==
  /\ At("skip") /\ Tok.kind \in Closing \cup {"comma", "colon", "eof"}
  /\ ErrorAtToken(index, "value expected")
  /\ SkipTo(IF TokIs("colon") THEN index + 1 ELSE index)

-----------------------------------------------------------------------------
(* parseSeparator.                                                         *)

NextElement ==
  /\ At("separator") /\ TokIs("comma") /\ ~Is(index + 1, {Close})
  /\ index' = index + 1 /\ Be("element", 0)
  /\ NoError
  /\ UNCHANGED <<tokens, nodes, root, stack>>

TrailingComma ==
  /\ At("separator") /\ TokIs("comma") /\ Is(index + 1, {Close})
  /\ Error(Tok.begin, "trailing comma")
  /\ Leave(index + 2)

CloseBracket ==
  /\ At("separator") /\ TokIs(Close)
  /\ NoError
  /\ Leave(index + 1)

SeparatorMissing ==
  /\ At("separator") /\ TokIs("eof")
  /\ ErrorUnclosed
  /\ Leave(index)

Resynchronize ==
  /\ At("separator") /\ Tok.kind \notin {"comma", "eof", Close}
  /\ ErrorAtToken(index, "separator expected")
  /\ index' = SkipToSeparator(index, Close)
  /\ UNCHANGED <<tokens, nodes, root, stack, call>>

EndDocument ==
  /\ At("end")
  /\ IF TokIs("eof") THEN NoError ELSE ErrorAtToken(index, "after the schema")
  /\ Be("done", 0)
  /\ UNCHANGED <<tokens, index, nodes, root, stack>>

ParserStarts ==
  /\ index = 1 /\ errors = <<>> /\ failed = FALSE
  /\ nodes = <<>> /\ root = 0 /\ stack = <<>> /\ call = [at |-> "document", depth |-> 0]

ParserNext ==
  \/ BeginDocument \/ EndDocument
  \/ SchemaTooDeep \/ BooleanSchema \/ NotASchema \/ OpenSchema
  \/ EmptyBrackets \/ ElementMissing \/ BadMember
  \/ DuplicateKey \/ SchemaMember \/ PropertyMember \/ SkippedMember
  \/ NestedElement \/ ListElement \/ BadElement
  \/ OpenKeyword \/ TypeName \/ ParseNumber \/ TextValue \/ IgnoredValue \/ BadValue
  \/ SkipScalar \/ SkipTooDeep \/ SkipOpen \/ SkipMissing
  \/ NextElement \/ TrailingComma \/ CloseBracket \/ SeparatorMissing \/ Resynchronize

ParserSpec == ParserStarts /\ [][ParserNext]_<<tokens, parserVars>>

-----------------------------------------------------------------------------
(* What the importer reads of the tree.                                    *)

(* The name of the first title that is a string. *)
Title(ks) ==
  LET titles == SelectSeq(ks, LAMBDA k : k.kind = "annotation" /\ Text(k.name) = "title" /\ k.value # {})
  IN IF titles = <<>> THEN {} ELSE titles[1].value

ForeignDraft(k) ==
  k.kind = "annotation" /\ Text(k.name) = "$schema" /\ \E uri \in k.value : Text(uri) \notin Drafts

KeywordOf(k) ==
  IF k.kind \in {"unknown", "annotation"} THEN [name |-> "unknown"]
  ELSE [name |-> Text(k.name), value |-> IF k.kind = "text" THEN Text(k.value) ELSE k.value]

SchemaNodes == SetToSortSeq({n \in DOMAIN nodes : nodes[n].kind = "schema"}, <)

Schema ==
  LET ids == SchemaNodes
      at(n) == CHOOSE k \in DOMAIN ids : ids[k] = n
      under(m) == [k \in DOMAIN nodes[m].children |-> nodes[nodes[m].children[k]]]
      of(n, kind) == {under(n)[k] : k \in {l \in DOMAIN under(n) : under(n)[l].kind = kind}}
      schemas(ms) == [k \in DOMAIN ms |-> at(ms[k])]
  IN [k \in DOMAIN ids |->
       LET n == ids[k]
           scalars == SelectSeq(under(n), LAMBDA m : \/ m.kind \in {"number", "length", "text", "unknown"}
                                                    \/ ForeignDraft(m))
       IN [types      |-> LET t == Or({m.value : m \in of(n, "type")}, <<>>) IN [l \in DOMAIN t |-> Text(t[l])],
           keywords   |-> [l \in DOMAIN scalars |-> KeywordOf(scalars[l])],
           properties |-> {[l \in DOMAIN m.children |->
                              [name   |-> nodes[m.children[l]].name,
                               schema |-> at(nodes[m.children[l]].children[1])]] : m \in of(n, "properties")},
           required   |-> {m.value : m \in of(n, "required")},
           allOf      |-> Or({schemas(m.children) : m \in of(n, "allOf")}, <<>>),
           title      |-> Title(under(n))]]

-----------------------------------------------------------------------------
Done == At("done")

(* The variables have their types: frames and calls are of nodes and       *)
(* tokens that exist, and only a schema's or a property's frame awaits.    *)
ParserTypeOK ==
  /\ index \in {1} \cup DOMAIN tokens /\ failed \in BOOLEAN
  /\ \A e \in ToSet(errors) : e.at.offset \in Nat
  /\ root \in {0} \cup DOMAIN nodes
  /\ \A n \in DOMAIN nodes : \A k \in ToSet(nodes[n].children) : k \in n + 1..Len(nodes)
  /\ \A k \in DOMAIN stack :
       LET f == stack[k]
       IN /\ f.open \in 1..index - 1 /\ f.depth \in 0..MaxDepth - 1
          /\ f.node \in {0} \cup DOMAIN nodes /\ f.pending \in {0} \cup f.node + 1..Len(nodes)
          /\ f.of \in {"schema", "properties", "allOf", "type", "required", "object", "array"}
  /\ call.at \in {"document", "schema", "open", "element", "keyword", "skip", "separator", "end", "done"}
  /\ call.at \in {"open", "element", "keyword", "separator"} => stack # <<>>

(* Who is told the parse failed is told why: an error that is suppressed   *)
(* follows one that was reported, by the parser or by the lexer.           *)
FailureReported == failed => errors # <<>> \/ \E t \in ToSet(tokens) : t.kind = "error"

(* "Ids are assigned in pre-order" (Parser.h) and "no two nodes start at   *)
(* the same position" (Trace.cpp), also in the partial tree of a document  *)
(* with errors: nodes are made in the order of the text, a child lies in   *)
(* its parent, and the children of a node follow each other.               *)
NodesNest ==
  /\ \A m, n \in DOMAIN nodes : m < n => nodes[m].begin.offset < nodes[n].begin.offset
  /\ Done => \A n \in DOMAIN nodes :
       LET kids == nodes[n].children
       IN /\ \A k \in DOMAIN kids : n < kids[k] /\ nodes[kids[k]].end.offset =< nodes[n].end.offset
          /\ \A k \in 2..Len(kids) : nodes[kids[k - 1]].end.offset =< nodes[kids[k]].begin.offset

(* "Deeper nesting is rejected so that hostile input cannot exhaust the    *)
(* stack" (Parser.cpp, at kMaxDepth): however the brackets nest, and       *)
(* whether or not they are a document, the calls are no more than twice    *)
(* kMaxDepth and one deep.  A schema and its keyword's bracket are one     *)
(* level; what a property given twice has is skipped at the level of the   *)
(* keyword around it, hence the one.                                       *)
StackBounded == Len(stack) =< 2 * MaxDepth + 1

=============================================================================
