---------------------------- MODULE ParserProofs ----------------------------
(***************************************************************************)
(* Theorems about the parser, for every stream of tokens, whatever it is *)
(* made of, and every depth limit.                                       *)
(***************************************************************************)
EXTENDS Parser, DataLemmas

(* A bracket parsed at depth d is the (2d + 1)-th when it is a schema's, *)
(* the next when it is a keyword's.  A value that is skipped keeps the   *)
(* depth of the keyword, or of the property that has it a second time.   *)
Room(of) == IF of = "schema" THEN 1 ELSE IF of \in {"object", "array"} THEN 3 ELSE 2

FrameOK(f, k) ==
  /\ DOMAIN f = {"of", "open", "depth", "node", "seen", "pending"}
  /\ f.of \in {"schema", "properties", "allOf", "type", "required", "object", "array"}
  /\ f.depth \in 0..MaxDepth - 1
  /\ k =< 2 * f.depth + Room(f.of)

Frames(s) ==
  /\ \E F : s \in Seq(F)
  /\ \A k \in 1..Len(s) : FrameOK(s[k], k)

(* The calls: how deep the stack is when a value is looked at.           *)
Calls ==
  /\ call.depth \in Nat
  /\ call.at \in {"document", "end", "done"} => stack = <<>>
  /\ call.at = "schema" => Len(stack) =< 2 * call.depth
  /\ call.at = "skip" => Len(stack) =< 2 * call.depth + 2
  /\ call.at = "keyword" => stack # <<>> /\ Top.of = "schema" /\ call.depth = Top.depth
  /\ call.at \in {"open", "element", "separator"} => stack # <<>>

IInv == Frames(stack) /\ Calls

-----------------------------------------------------------------------------
(* What may be done to the stack.                                        *)

LEMMA FramesAppend ==
  ASSUME NEW s, NEW f, Frames(s), FrameOK(f, Len(s) + 1)
  PROVE  Frames(Append(s, f)) /\ Append(s, f) # <<>>
<1>1. PICK F : s \in Seq(F)
  BY DEF Frames
<1>2. s \in Seq(F \cup {f}) /\ f \in F \cup {f}
  BY <1>1
<1>3. /\ Append(s, f) \in Seq(F \cup {f}) /\ Len(Append(s, f)) = Len(s) + 1
      /\ \A k \in 1..Len(s) : Append(s, f)[k] = s[k]
      /\ Append(s, f)[Len(s) + 1] = f
  BY <1>2, AppendProperties
<1>4. Len(s) \in Nat
  BY <1>1
<1>5. \A k \in 1..Len(Append(s, f)) : k \in 1..Len(s) \/ k = Len(s) + 1
  BY <1>3, <1>4
<1>6. \A k \in 1..Len(Append(s, f)) : FrameOK(Append(s, f)[k], k)
  BY <1>3, <1>5 DEF Frames
<1>7. Append(s, f) # <<>>
  BY <1>3, <1>4
<1> QED BY <1>3, <1>6, <1>7 DEF Frames

LEMMA FramesFront ==
  ASSUME NEW s, Frames(s), s # <<>>
  PROVE  Frames(Front(s))
<1>1. PICK F : s \in Seq(F)
  BY DEF Frames
<1>2. Len(s) \in Nat \ {0}
  BY <1>1, EmptySeq
<1>3. /\ Front(s) \in Seq(F) /\ Len(Front(s)) = Len(s) - 1
      /\ \A k \in 1..Len(s) - 1 : Front(s)[k] = s[k]
  <2>1. \A k \in 1..Len(s) - 1 : s[k] \in F
    BY <1>1, <1>2, ElementOfSeq
  <2>2. Len(s) - 1 \in Int /\ (1 =< Len(s) - 1 \/ Len(s) - 1 = 0)
    BY <1>2
  <2> QED BY <2>1, <2>2, SubSeqProperties DEF Front
<1>4. \A k \in 1..Len(Front(s)) : k \in 1..Len(s) /\ Front(s)[k] = s[k]
  BY <1>2, <1>3
<1> QED BY <1>3, <1>4 DEF Frames

(* A frame that keeps its function and its depth may be put for the last.*)
WithLast(s, f) == [s EXCEPT ![Len(s)] = f]
Alike(f, g)    == DOMAIN f = DOMAIN g /\ f.of = g.of /\ f.depth = g.depth
Kept(s, t)     == Frames(t) /\ t # <<>> /\ Len(t) = Len(s) /\ Alike(Last(t), Last(s))

LEMMA FramesUpdate ==
  ASSUME NEW s, NEW f, Frames(s), s # <<>>, Alike(f, Last(s))
  PROVE  Kept(s, WithLast(s, f))
<1> DEFINE t == WithLast(s, f)
<1>1. PICK F : s \in Seq(F)
  BY DEF Frames
<1>2. Len(s) \in Nat \ {0}
  BY <1>1, EmptySeq
<1>3. s \in Seq(F \cup {f}) /\ f \in F \cup {f} /\ Len(s) \in 1..Len(s)
  BY <1>1, <1>2
<1>4. /\ t \in Seq(F \cup {f}) /\ Len(t) = Len(s) /\ t[Len(s)] = f
      /\ \A k \in 1..Len(s) : k # Len(s) => t[k] = s[k]
  BY <1>3, ExceptSeq DEF WithLast
<1>5. FrameOK(f, Len(s))
  BY <1>2 DEF Frames, FrameOK, Last, Alike
<1>6. \A k \in 1..Len(t) : FrameOK(t[k], k)
  BY <1>4, <1>5 DEF Frames
<1>7. t # <<>>
  BY <1>2, <1>4
<1> HIDE DEF t
<1>8. Alike(Last(t), Last(s))
  BY <1>4 DEF Last, Alike
<1>9. Frames(t)
  BY <1>4, <1>6 DEF Frames
<1> QED BY <1>4, <1>7, <1>8, <1>9 DEF Kept, t

LEMMA FramesAwait ==
  ASSUME NEW n, Frames(stack), stack # <<>>
  PROVE  Kept(stack, Await(n))
<1> DEFINE f == [Last(stack) EXCEPT !.pending = n]
<1>1. FrameOK(Last(stack), Len(stack))
  BY EmptySeq DEF Frames, Last
<1>2. Alike(f, Last(stack))
  BY <1>1 DEF FrameOK, Alike
<1>3. Await(n) = WithLast(stack, f)
  BY DEF Await, Last, WithLast
<1> HIDE DEF f
<1> QED BY <1>2, <1>3, FramesUpdate

LEMMA FramesSee ==
  ASSUME NEW n, Frames(stack), stack # <<>>
  PROVE  Kept(stack, See(n))
<1> DEFINE g == [Last(stack) EXCEPT !.seen = @ \cup {Tok.value}]
           f == [g EXCEPT !.pending = n]
<1>1. FrameOK(Last(stack), Len(stack)) /\ Len(stack) \in DOMAIN stack
  BY EmptySeq DEF Frames, Last
<1>2. Alike(f, Last(stack))
  BY <1>1 DEF FrameOK, Alike
<1>3. See(n) = WithLast(stack, f)
  BY <1>1 DEF See, Last, WithLast
<1> HIDE DEF f
<1> QED BY <1>2, <1>3, FramesUpdate

(* What the bracket being parsed is.                                     *)
LEMMA TopOK ==
  ASSUME Frames(stack), stack # <<>>
  PROVE  /\ Len(stack) \in Nat \ {0} /\ Top.depth \in 0..MaxDepth - 1
         /\ Top.of \in {"schema", "properties", "allOf", "type", "required", "object", "array"}
         /\ Len(stack) =< 2 * Top.depth + Room(Top.of)
  BY EmptySeq DEF Frames, FrameOK, Top, Last

(* A function returns to the bracket its value is in.                    *)
LEMMA ReturnOK ==
  ASSUME NEW ns, NEW frames, NEW n, NEW i, Frames(frames), Return(ns, frames, n, i)
  PROVE  IInv'
<1>1. stack' = frames
  BY DEF Return
<1>2. CASE frames = <<>>
  BY <1>1, <1>2 DEF Return, Be, IInv, Calls
<1>3. CASE frames # <<>>
  <2>1. call' = [at |-> "separator", depth |-> 0]
    BY <1>3 DEF Return, Be
  <2> QED BY <1>1, <1>3, <2>1 DEF IInv, Calls
<1> QED BY <1>2, <1>3

LEMMA LeaveOK ==
  ASSUME NEW i, Frames(stack), stack # <<>>, Leave(i)
  PROVE  IInv'
  BY FramesFront, ReturnOK DEF Leave

(* A bracket is opened.                                                  *)
LEMMA OpenOK ==
  ASSUME NEW frames, NEW of, NEW depth, NEW node,
         Frames(frames), Open(frames, Frame(of, depth, node)),
         of \in {"schema", "properties", "allOf", "type", "required", "object", "array"},
         depth \in 0..MaxDepth - 1, Len(frames) + 1 =< 2 * depth + Room(of)
  PROVE  IInv'
<1>1. FrameOK(Frame(of, depth, node), Len(frames) + 1)
  BY DEF FrameOK, Frame
<1>2. stack' = Append(frames, Frame(of, depth, node)) /\ call' = [at |-> "open", depth |-> 0]
  BY DEF Open, Be
<1>3. Frames(stack') /\ stack' # <<>>
  BY <1>1, <1>2, FramesAppend
<1> QED BY <1>2, <1>3 DEF IInv, Calls

(* A function is called, or goes on, without a bracket.                  *)
LEMMA BeOK ==
  ASSUME NEW at, NEW depth \in Nat, Frames(stack'), Be(at, depth),
         at \in {"document", "end", "done"} => stack' = <<>>,
         at = "schema" => Len(stack') =< 2 * depth,
         at = "skip" => Len(stack') =< 2 * depth + 2,
         at = "keyword" => stack' # <<>> /\ Last(stack').of = "schema" /\ depth = Last(stack').depth,
         at \in {"open", "element", "separator"} => stack' # <<>>
  PROVE  IInv'
  BY DEF Be, IInv, Calls, Top

-----------------------------------------------------------------------------
(* The invariant is kept by every action, one lemma for each function.   *)

LEMMA SchemaKeeps ==
  ASSUME IInv, SchemaTooDeep \/ BooleanSchema \/ NotASchema \/ OpenSchema
  PROVE  IInv'
<1>1. Frames(stack) /\ call.depth \in Nat /\ (call.at = "schema" => Len(stack) =< 2 * call.depth)
  BY DEF IInv, Calls
<1>2. Len(stack) \in Nat
  BY <1>1, LenProperties DEF Frames
<1>3. CASE SchemaTooDeep
  BY <1>1, <1>3, ReturnOK DEF SchemaTooDeep, SkipTo
<1>4. CASE BooleanSchema
  BY <1>1, <1>4, ReturnOK DEF BooleanSchema, SkipTo
<1>5. CASE NotASchema
  <2>1. stack' = stack /\ Be("skip", call.depth) /\ call.at = "schema"
    BY <1>5 DEF NotASchema, AtSchema, At
  <2>2. Frames(stack') /\ Len(stack') =< 2 * call.depth + 2
    BY <1>1, <1>2, <2>1
  <2> QED BY <1>1, <2>1, <2>2, BeOK
<1>6. CASE OpenSchema
  <2>1. call.depth \in 0..MaxDepth - 1 /\ Len(stack) + 1 =< 2 * call.depth + Room("schema")
    BY <1>1, <1>2, <1>6, MaxDepthAssumption DEF OpenSchema, AtSchema, At, Room
  <2>2. Open(stack, Frame("schema", call.depth, New))
    BY <1>6 DEF OpenSchema
  <2> QED BY <1>1, <2>1, <2>2, OpenOK
<1> QED BY <1>3, <1>4, <1>5, <1>6

LEMMA BracketKeeps ==
  ASSUME IInv, EmptyBrackets \/ ElementMissing \/ BadMember \/ NextElement \/ TrailingComma
               \/ CloseBracket \/ SeparatorMissing \/ Resynchronize
  PROVE  IInv'
<1>1. Frames(stack) /\ stack # <<>>
  BY DEF IInv, Calls, EmptyBrackets, ElementMissing, BadMember, NextElement, TrailingComma,
         CloseBracket, SeparatorMissing, Resynchronize, AtElement, At
<1>2. CASE EmptyBrackets \/ ElementMissing \/ TrailingComma \/ CloseBracket \/ SeparatorMissing
  BY <1>1, <1>2, LeaveOK
     DEF EmptyBrackets, ElementMissing, TrailingComma, CloseBracket, SeparatorMissing
<1>3. CASE BadMember
  BY <1>1, <1>3, BeOK DEF BadMember
<1>4. CASE NextElement
  BY <1>1, <1>4, BeOK DEF NextElement
<1>5. CASE Resynchronize
  BY <1>5 DEF Resynchronize, IInv, Calls, Top
<1> QED BY <1>2, <1>3, <1>4, <1>5

LEMMA MemberKeeps ==
  ASSUME IInv, DuplicateKey \/ SchemaMember \/ PropertyMember \/ SkippedMember
  PROVE  IInv'
<1>1. Frames(stack) /\ stack # <<>>
  BY DEF IInv, Calls, DuplicateKey, SchemaMember, PropertyMember, SkippedMember, AtMember, AtElement, At
<1>2. /\ Len(stack) \in Nat /\ Top.depth \in Nat /\ Inner(Top) = Top.depth + 1 /\ Inner(Top) \in Nat
      /\ Len(stack) =< 2 * Top.depth + Room(Top.of)
  BY <1>1, TopOK, MaxDepthAssumption DEF Inner
<1>3. CASE DuplicateKey
  <2>1. Kept(stack, stack') /\ Be("skip", Top.depth) /\ Room(Top.of) =< 2
    BY <1>1, <1>3, FramesAwait DEF DuplicateKey, Room
  <2>2. Frames(stack') /\ Len(stack') = Len(stack)
    BY <2>1 DEF Kept
  <2>3. Len(stack') =< 2 * Top.depth + 2
    <3>1. Room(Top.of) = 1 \/ Room(Top.of) = 2 \/ Room(Top.of) = 3
      BY DEF Room
    <3> QED BY <1>2, <2>1, <2>2, <3>1
  <2> QED BY <1>2, <2>1, <2>2, <2>3, BeOK
<1>4. CASE SchemaMember
  <2>1. Kept(stack, stack') /\ Be("keyword", Top.depth) /\ Top.of = "schema"
    BY <1>1, <1>4, FramesSee DEF SchemaMember
  <2> QED BY <1>2, <2>1, BeOK DEF Kept, Alike, Top
<1>5. CASE PropertyMember
  <2>1. Kept(stack, stack') /\ Be("schema", Inner(Top)) /\ Room(Top.of) = 2
    BY <1>1, <1>5, FramesSee DEF PropertyMember, Room
  <2>2. Frames(stack') /\ Len(stack') =< 2 * Inner(Top)
    BY <1>2, <2>1 DEF Kept
  <2> QED BY <1>2, <2>1, <2>2, BeOK
<1>6. CASE SkippedMember
  <2>1. stack' = stack /\ Be("skip", Inner(Top)) /\ Room(Top.of) = 3
    BY <1>6 DEF SkippedMember, Room
  <2>2. Frames(stack') /\ Len(stack') =< 2 * Inner(Top) + 2
    BY <1>1, <1>2, <2>1
  <2> QED BY <1>2, <2>1, <2>2, BeOK
<1> QED BY <1>3, <1>4, <1>5, <1>6

LEMMA ElementKeeps ==
  ASSUME IInv, NestedElement \/ ListElement \/ BadElement
  PROVE  IInv'
<1>1. Frames(stack) /\ stack # <<>>
  BY DEF IInv, Calls, NestedElement, ListElement, BadElement, AtArrayElement, AtElement, At
<1>2. /\ Len(stack) \in Nat /\ Top.depth \in Nat /\ Inner(Top) = Top.depth + 1 /\ Inner(Top) \in Nat
      /\ Len(stack) =< 2 * Top.depth + Room(Top.of)
  BY <1>1, TopOK, MaxDepthAssumption DEF Inner
<1>3. CASE NestedElement
  <2>1. /\ stack' = stack
        /\ \/ Be("schema", Inner(Top)) /\ Room(Top.of) = 2
           \/ Be("skip", Inner(Top)) /\ Room(Top.of) = 3
    BY <1>3 DEF NestedElement, Room
  <2>2. CASE Be("schema", Inner(Top)) /\ Room(Top.of) = 2
    <3>1. Frames(stack') /\ Len(stack') =< 2 * Inner(Top)
      BY <1>1, <1>2, <2>1, <2>2
    <3> QED BY <1>2, <2>2, <3>1, BeOK
  <2>3. CASE Be("skip", Inner(Top)) /\ Room(Top.of) = 3
    <3>1. Frames(stack') /\ Len(stack') =< 2 * Inner(Top) + 2
      BY <1>1, <1>2, <2>1, <2>3
    <3> QED BY <1>2, <2>3, <3>1, BeOK
  <2> QED BY <2>1, <2>2, <2>3
<1>4. CASE ListElement
  BY <1>1, <1>4, ReturnOK DEF ListElement
<1>5. CASE BadElement
  <2>1. stack' = stack /\ Be("skip", Inner(Top)) /\ Room(Top.of) = 2
    BY <1>5 DEF BadElement, Room
  <2>2. Frames(stack') /\ Len(stack') =< 2 * Inner(Top) + 2
    BY <1>1, <1>2, <2>1
  <2> QED BY <1>2, <2>1, <2>2, BeOK
<1> QED BY <1>3, <1>4, <1>5

LEMMA KeywordKeeps ==
  ASSUME IInv, OpenKeyword \/ TypeName \/ ParseNumber \/ TextValue \/ IgnoredValue \/ BadValue
  PROVE  IInv'
<1>1. Frames(stack) /\ stack # <<>> /\ Top.of = "schema"
  BY DEF IInv, Calls, OpenKeyword, TypeName, ParseNumber, TextValue, IgnoredValue, BadValue,
         AtKeyword, At
<1>2. /\ Len(stack) \in Nat /\ Top.depth \in 0..MaxDepth - 1 /\ Top.depth \in Nat
      /\ Len(stack) =< 2 * Top.depth + 1
  BY <1>1, TopOK, MaxDepthAssumption DEF Room
<1>3. CASE OpenKeyword
  <2>1. Open(Await(New), Frame(Kind, Top.depth, New)) /\ Kind \in DOMAIN Brackets
    BY <1>3 DEF OpenKeyword, AtKeyword
  <2>2. Kind \in {"properties", "allOf", "type", "required"} /\ Room(Kind) = 2
    BY <2>1 DEF Brackets, Room
  <2>3. Frames(Await(New)) /\ Len(Await(New)) = Len(stack)
    BY <1>1, FramesAwait DEF Kept
  <2> QED BY <1>2, <2>1, <2>2, <2>3, OpenOK
<1>4. CASE TypeName \/ ParseNumber \/ TextValue
  BY <1>1, <1>4, FramesAwait, ReturnOK DEF TypeName, ParseNumber, TextValue, Keep, Drop, Kept
<1>5. CASE IgnoredValue \/ BadValue
  <2>1. Kept(stack, stack') /\ Be("skip", Top.depth)
    BY <1>1, <1>5, FramesAwait DEF IgnoredValue, BadValue
  <2>2. Frames(stack') /\ Len(stack') =< 2 * Top.depth + 2
    BY <1>2, <2>1 DEF Kept
  <2> QED BY <1>2, <2>1, <2>2, BeOK
<1> QED BY <1>3, <1>4, <1>5

LEMMA SkipKeeps ==
  ASSUME IInv, SkipScalar \/ SkipTooDeep \/ SkipOpen \/ SkipMissing
  PROVE  IInv'
<1>1. /\ Frames(stack) /\ call.depth \in Nat
      /\ call.at = "skip" => Len(stack) =< 2 * call.depth + 2
  BY DEF IInv, Calls
<1>2. Len(stack) \in Nat
  BY <1>1, LenProperties DEF Frames
<1>3. CASE SkipScalar \/ SkipTooDeep \/ SkipMissing
  BY <1>1, <1>3, ReturnOK DEF SkipScalar, SkipTooDeep, SkipMissing, SkipTo
<1>4. CASE SkipOpen
  <2> DEFINE of == IF TokIs("l_brace") THEN "object" ELSE "array"
  <2>1. Open(stack, Frame(of, call.depth, 0)) /\ of \in {"object", "array"}
    BY <1>4 DEF SkipOpen
  <2>2. call.depth \in 0..MaxDepth - 1 /\ Len(stack) =< 2 * call.depth + 2
    BY <1>1, <1>4, MaxDepthAssumption DEF SkipOpen, At
  <2>3. Len(stack) + 1 =< 2 * call.depth + Room(of)
    BY <1>2, <2>1, <2>2 DEF Room
  <2> HIDE DEF of
  <2> QED BY <1>1, <2>1, <2>2, <2>3, OpenOK
<1> QED BY <1>3, <1>4

LEMMA DocumentKeeps ==
  ASSUME IInv, BeginDocument \/ EndDocument
  PROVE  IInv'
<1>1. Frames(stack) /\ stack = <<>> /\ Len(stack) = 0
  BY EmptySeq DEF IInv, Calls, BeginDocument, EndDocument, At
<1>2. CASE BeginDocument
  BY <1>1, <1>2, BeOK DEF BeginDocument
<1>3. CASE EndDocument
  BY <1>1, <1>3, BeOK DEF EndDocument
<1> QED BY <1>2, <1>3

-----------------------------------------------------------------------------
(* The calls at the start.                                               *)
LEMMA ParserInit ==
  ASSUME ParserStarts
  PROVE  IInv
<1>1. stack = <<>> /\ call = [at |-> "document", depth |-> 0]
  BY DEF ParserStarts
<1>2. Frames(stack) /\ Len(stack) = 0
  BY <1>1, EmptySeq DEF Frames
<1> QED BY <1>1, <1>2 DEF IInv, Calls

(* Every step of the parser keeps the calls bounded.                     *)
LEMMA ParserKeeps ==
  ASSUME IInv, [ParserNext]_<<tokens, parserVars>>
  PROVE  IInv'
<1>1. CASE ParserNext
  BY <1>1, DocumentKeeps, SchemaKeeps, BracketKeeps, MemberKeeps, ElementKeeps, KeywordKeeps,
     SkipKeeps DEF ParserNext
<1>2. CASE UNCHANGED <<tokens, parserVars>>
  BY <1>2 DEF IInv, Calls, Top, parserVars
<1> QED BY <1>1, <1>2

(* The inductive invariant: the depth that is handed on is the depth of  *)
(* the recursion, and no value is parsed without a bracket around it that*)
(* counted a level.                                                      *)
THEOREM ParserInvariant == ParserSpec => []IInv
<1>1. ParserStarts => IInv
  BY ParserInit
<1>2. IInv /\ [ParserNext]_<<tokens, parserVars>> => IInv'
  BY ParserKeeps
<1> QED BY <1>1, <1>2, PTL DEF ParserSpec

(* Calls that are bounded one by one are bounded.                        *)
LEMMA CallsBound ==
  ASSUME IInv
  PROVE  StackBounded
<1>1. CASE stack = <<>>
  BY <1>1, EmptySeq, MaxDepthAssumption DEF StackBounded
<1>2. CASE stack # <<>>
  BY <1>2, TopOK, MaxDepthAssumption DEF IInv, StackBounded, Room
<1> QED BY <1>1, <1>2

(* However the tokens nest, and whether or not they are a document, the  *)
(* recursion of the parser is at most twice kMaxDepth and one deep.      *)
THEOREM ParserStackBounded == ParserSpec => []StackBounded
<1>1. IInv => StackBounded
  BY CallsBound
<1> QED BY <1>1, ParserInvariant, PTL

-----------------------------------------------------------------------------
(* The nodes are a forest in the order of the text.  O holds the nodes that*)
(* are not done, at is how far the parser got: every node that is done   *)
(* ends there or before, holds its children, and they follow each other. *)
Fields == {"kind", "name", "begin", "end", "children", "value"}

NodeOK(x, n, N) ==
  /\ DOMAIN x = Fields /\ x.begin.offset \in Nat /\ x.end.offset \in Nat
  /\ IsRow(x.children) /\ \A k \in 1..Len(x.children) : x.children[k] \in n + 1..N

KidBegin(ns, n, k) == ns[ns[n].children[k]].begin.offset
KidEnd(ns, n, k)   == ns[ns[n].children[k]].end.offset

Nodes(ns, O, at) ==
  /\ IsRow(ns) /\ at \in Nat /\ O \subseteq 1..Len(ns)
  /\ \A n \in 1..Len(ns) : NodeOK(ns[n], n, Len(ns)) /\ ns[n].begin.offset < at

InOrder(ns) ==
  \A n \in 1..Len(ns) : \A m \in 1..n - 1 : ns[m].begin.offset < ns[n].begin.offset

Holds(ns, n) == \A k \in 1..Len(ns[n].children) : KidEnd(ns, n, k) =< ns[n].end.offset

KidsDone(ns, O, at) ==
  \A n \in 1..Len(ns) : \A k \in 1..Len(ns[n].children) :
    ns[n].children[k] \notin O /\ KidEnd(ns, n, k) =< at

Siblings(ns) ==
  \A n \in 1..Len(ns) : \A k \in 2..Len(ns[n].children) : KidEnd(ns, n, k - 1) =< KidBegin(ns, n, k)

(* What is adopted already lies before what will be adopted.             *)
Ahead(ns, p, c) == \A k \in 1..Len(ns[p].children) : KidEnd(ns, p, k) =< ns[c].begin.offset

Nested(ns, O, at) ==
  /\ Nodes(ns, O, at) /\ InOrder(ns) /\ KidsDone(ns, O, at) /\ Siblings(ns)
  /\ \A n \in 1..Len(ns) : n \notin O => Holds(ns, n)
  /\ \A p \in O : \A c \in O : p < c => Ahead(ns, p, c)

(* The kids of a node are nodes.                                         *)
LEMMA KidIs ==
  ASSUME NEW ns, NEW O, NEW at, Nodes(ns, O, at), NEW n \in 1..Len(ns),
         NEW k \in 1..Len(ns[n].children)
  PROVE  /\ ns[n].children[k] \in 1..Len(ns) /\ n < ns[n].children[k]
         /\ KidBegin(ns, n, k) \in Nat /\ KidEnd(ns, n, k) \in Nat
<1>1. Len(ns) \in Nat
  BY RowLen DEF Nodes
<1>2. ns[n].children[k] \in n + 1..Len(ns)
  BY DEF Nodes, NodeOK
<1>3. ns[n].children[k] \in 1..Len(ns) /\ n < ns[n].children[k]
  BY <1>1, <1>2
<1> QED BY <1>3 DEF Nodes, NodeOK, KidBegin, KidEnd

(* The parser goes on.                                                   *)
LEMMA NestedLater ==
  ASSUME NEW ns, NEW O, NEW at, NEW at2 \in Nat, Nested(ns, O, at), at =< at2
  PROVE  Nested(ns, O, at2)
<1>1. Nodes(ns, O, at) /\ at \in Nat
  BY DEF Nested, Nodes
<1>2. Nodes(ns, O, at2)
  <2>1. \A n \in 1..Len(ns) : ns[n].begin.offset \in Nat /\ ns[n].begin.offset < at
    BY <1>1 DEF Nodes, NodeOK
  <2>2. \A n \in 1..Len(ns) : ns[n].begin.offset < at2
    BY <1>1, <2>1
  <2> QED BY <1>1, <2>2 DEF Nodes
<1>3. KidsDone(ns, O, at2)
  <2> SUFFICES ASSUME NEW n \in 1..Len(ns), NEW k \in 1..Len(ns[n].children)
               PROVE  ns[n].children[k] \notin O /\ KidEnd(ns, n, k) =< at2
    BY DEF KidsDone
  <2>1. KidEnd(ns, n, k) \in Nat /\ KidEnd(ns, n, k) =< at /\ ns[n].children[k] \notin O
    BY <1>1, KidIs DEF Nested, KidsDone
  <2> QED BY <1>1, <2>1
<1> QED BY <1>2, <1>3 DEF Nested

(* A node is done that is adopted by none.                               *)
LEMMA NestedShut ==
  ASSUME NEW ns, NEW O, NEW at, NEW c, Nested(ns, O, at), c \in O => Holds(ns, c)
  PROVE  Nested(ns, O \ {c}, at)
  BY DEF Nested, Nodes, KidsDone

(* A node is made where the parser is, to be filled or as it is.         *)
LEMMA NestedNew ==
  ASSUME NEW ns, NEW O, NEW at, Nested(ns, O, at),
         NEW x, DOMAIN x = Fields, x.begin.offset \in Nat, x.end.offset \in Nat, x.children = <<>>,
         at =< x.begin.offset, NEW at2 \in Nat, x.begin.offset < at2
  PROVE  /\ Nested(Append(ns, x), O \cup {Len(ns) + 1}, at2)
         /\ Nested(Append(ns, x), O, at2)
<1> DEFINE N == Len(ns)
           t == Append(ns, x)
           P == O \cup {N + 1}
<1>1. /\ IsRow(t) /\ Len(t) = N + 1 /\ t[N + 1] = x /\ N \in Nat /\ at \in Nat
      /\ \A n \in 1..N : t[n] = ns[n]
  BY RowAppend, RowLen DEF Nested, Nodes
<1>2. \A n \in 1..N + 1 : n = N + 1 \/ n \in 1..N
  BY <1>1
<1>3. IsRow(<<>>) /\ Len(<<>>) = 0
  <2>1. <<>> \in Seq({})
    OBVIOUS
  <2> QED BY <2>1 DEF IsRow
<1>4. /\ \A n \in 1..N : NodeOK(ns[n], n, N) /\ ns[n].begin.offset < at
      /\ O \subseteq 1..N
  BY DEF Nested, Nodes
<1> HIDE DEF N, t
<1>5. \A n \in 1..N : ns[n].begin.offset \in Nat /\ ns[n].begin.offset < at2 /\ ns[n].begin.offset < x.begin.offset
  BY <1>1, <1>4 DEF NodeOK
<1>6. \A n \in 1..N + 1 : NodeOK(t[n], n, N + 1) /\ t[n].begin.offset < at2
  <2> TAKE n \in 1..N + 1
  <2>1. CASE n = N + 1
    BY <1>1, <1>3, <2>1 DEF NodeOK
  <2>2. CASE n \in 1..N
    <3>1. \A m \in n + 1..N : m \in n + 1..N + 1
      BY <1>1
    <3> QED BY <1>1, <1>4, <1>5, <2>2, <3>1 DEF NodeOK
  <2> QED BY <1>2, <2>1, <2>2
<1>7. Nodes(t, P, at2) /\ Nodes(t, O, at2)
  <2>0. 1..N \subseteq 1..N + 1 /\ N + 1 \in 1..N + 1
    BY <1>1
  <2>1. P \subseteq 1..N + 1 /\ O \subseteq 1..N + 1
    BY <1>4, <2>0
  <2> QED BY <1>1, <1>6, <2>1 DEF Nodes
<1>8. InOrder(t)
  <2> SUFFICES ASSUME NEW n \in 1..N + 1, NEW m \in 1..n - 1
               PROVE  t[m].begin.offset < t[n].begin.offset
    BY <1>1 DEF InOrder
  <2>1. m \in 1..N
    BY <1>1
  <2>2. CASE n = N + 1
    BY <1>1, <1>5, <2>1, <2>2
  <2>3. CASE n \in 1..N
    BY <1>1, <2>1, <2>3 DEF Nested, InOrder, N
  <2> QED BY <1>2, <2>2, <2>3
<1>9. \A n \in 1..N + 1 : \A k \in 1..Len(t[n].children) : n \in 1..N
  <2> TAKE n \in 1..N + 1
  <2>1. CASE n = N + 1
    BY <1>1, <1>3, <2>1
  <2> QED BY <1>2, <2>1
<1>10. \A n \in 1..N : \A k \in 1..Len(t[n].children) :
         /\ t[n].children[k] = ns[n].children[k] /\ t[n].children[k] \in 1..N
         /\ KidEnd(t, n, k) = KidEnd(ns, n, k) /\ KidBegin(t, n, k) = KidBegin(ns, n, k)
         /\ KidEnd(ns, n, k) \in Nat /\ KidEnd(ns, n, k) =< at
         /\ ns[n].children[k] \notin O
  <2> TAKE n \in 1..N
  <2>1. t[n] = ns[n]
    BY <1>1
  <2> TAKE k \in 1..Len(t[n].children)
  <2>2. k \in 1..Len(ns[n].children)
    BY <2>1
  <2>3. /\ ns[n].children[k] \in 1..N /\ KidEnd(ns, n, k) \in Nat
        /\ KidEnd(ns, n, k) =< at /\ ns[n].children[k] \notin O
    BY <2>2, KidIs DEF Nested, KidsDone, N
  <2> QED BY <1>1, <2>1, <2>3 DEF KidEnd, KidBegin
<1>11. KidsDone(t, P, at2)
  <2> SUFFICES ASSUME NEW n \in 1..N + 1, NEW k \in 1..Len(t[n].children)
               PROVE  t[n].children[k] \notin P /\ KidEnd(t, n, k) =< at2
    BY <1>1 DEF KidsDone
  <2>1. n \in 1..N
    BY <1>9
  <2>2. t[n].children[k] \in 1..N /\ t[n].children[k] \notin O
    BY <1>10, <2>1
  <2>3. KidEnd(t, n, k) \in Nat /\ KidEnd(t, n, k) =< at
    BY <1>10, <2>1
  <2>4. t[n].children[k] # N + 1
    BY <1>1, <2>2
  <2>5. KidEnd(t, n, k) =< at2
    BY <1>1, <2>3
  <2> QED BY <2>2, <2>4, <2>5 DEF P
<1>12. KidsDone(t, O, at2)
  BY <1>11 DEF KidsDone, P
<1>13. Siblings(t)
  <2> SUFFICES ASSUME NEW n \in 1..N + 1, NEW k \in 2..Len(t[n].children)
               PROVE  KidEnd(t, n, k - 1) =< KidBegin(t, n, k)
    BY <1>1 DEF Siblings
  <2>0. IsRow(t[n].children)
    BY <1>6 DEF NodeOK
  <2>1. k - 1 \in 1..Len(t[n].children) /\ k \in 1..Len(t[n].children)
    BY <2>0, RowLen
  <2>2. n \in 1..N
    BY <1>9, <2>1
  <2>3. KidEnd(t, n, k - 1) = KidEnd(ns, n, k - 1) /\ KidBegin(t, n, k) = KidBegin(ns, n, k)
    BY <1>10, <2>1, <2>2
  <2>4. KidEnd(ns, n, k - 1) =< KidBegin(ns, n, k)
    BY <1>1, <2>2 DEF Nested, Siblings, N
  <2> QED BY <2>3, <2>4
<1>14. ASSUME NEW n \in 1..N + 1, n \notin O PROVE Holds(t, n)
  <2> SUFFICES ASSUME NEW k \in 1..Len(t[n].children) PROVE KidEnd(t, n, k) =< t[n].end.offset
    BY DEF Holds
  <2>1. n \in 1..N
    BY <1>9
  <2>2. Holds(ns, n)
    BY <1>14, <2>1 DEF Nested, N
  <2> QED BY <1>1, <1>10, <2>1, <2>2 DEF Holds
<1>15. ASSUME NEW p \in P, NEW c \in P, p < c PROVE Ahead(t, p, c)
  <2> SUFFICES ASSUME NEW k \in 1..Len(t[p].children) PROVE KidEnd(t, p, k) =< t[c].begin.offset
    BY DEF Ahead
  <2>1. p \in 1..N + 1 /\ c \in 1..N + 1
    BY <1>1, <1>4 DEF P
  <2>2. p \in 1..N
    BY <1>9, <2>1
  <2>3. p \in O
    BY <1>1, <2>2 DEF P
  <2>4. CASE c = N + 1
    <3>1. KidEnd(t, p, k) \in Nat /\ KidEnd(t, p, k) =< at
      BY <1>10, <2>2
    <3> QED BY <1>1, <2>4, <3>1
  <2>5. CASE c # N + 1
    <3>1. c \in O /\ c \in 1..N
      BY <1>4, <2>5 DEF P
    <3>2. Ahead(ns, p, c)
      BY <1>15, <2>3, <3>1 DEF Nested
    <3> QED BY <1>1, <1>10, <2>2, <3>1, <3>2 DEF Ahead
  <2> QED BY <2>4, <2>5
<1>16. Nested(t, P, at2)
  BY <1>1, <1>7, <1>8, <1>11, <1>13, <1>14, <1>15 DEF Nested, P
<1>17. Nested(t, O, at2)
  BY <1>1, <1>7, <1>8, <1>12, <1>13, <1>14, <1>15 DEF Nested, P
<1> QED BY <1>16, <1>17 DEF t, N

(* Nodes change, but not where they begin, what they have, or, when they *)
(* are done, where they end.                                             *)
LEMMA NestedAs ==
  ASSUME NEW ns, NEW O, NEW at, Nested(ns, O, at), NEW at2 \in Nat, at =< at2,
         NEW t, IsRow(t), Len(t) = Len(ns),
         \A m \in 1..Len(ns) :
           /\ DOMAIN t[m] = Fields /\ t[m].end.offset \in Nat
           /\ t[m].begin = ns[m].begin /\ t[m].children = ns[m].children
           /\ m \notin O => t[m].end = ns[m].end
  PROVE  Nested(t, O, at2)
<1>0. Nested(ns, O, at2) /\ Nodes(ns, O, at2)
  BY NestedLater DEF Nested
<1>1. \A m \in 1..Len(ns) : NodeOK(ns[m], m, Len(ns)) /\ ns[m].begin.offset < at2
  BY <1>0 DEF Nodes
<1>2. Nodes(t, O, at2)
  BY <1>0, <1>1 DEF Nodes, NodeOK
<1>3. InOrder(t)
  <2> SUFFICES ASSUME NEW n \in 1..Len(ns), NEW m \in 1..n - 1
               PROVE  t[m].begin.offset < t[n].begin.offset
    BY DEF InOrder
  <2>1. m \in 1..Len(ns)
    BY <1>0, RowLen DEF Nodes
  <2> QED BY <1>0, <2>1 DEF Nested, InOrder
<1>4. \A n \in 1..Len(ns) : \A k \in 1..Len(ns[n].children) :
        /\ t[n].children[k] = ns[n].children[k]
        /\ KidEnd(t, n, k) = KidEnd(ns, n, k) /\ KidBegin(t, n, k) = KidBegin(ns, n, k)
  <2> SUFFICES ASSUME NEW n \in 1..Len(ns), NEW k \in 1..Len(ns[n].children)
               PROVE  /\ t[n].children[k] = ns[n].children[k]
                      /\ KidEnd(t, n, k) = KidEnd(ns, n, k) /\ KidBegin(t, n, k) = KidBegin(ns, n, k)
    OBVIOUS
  <2>1. ns[n].children[k] \in 1..Len(ns) /\ ns[n].children[k] \notin O
    BY <1>0, KidIs DEF Nested, KidsDone
  <2> QED BY <2>1 DEF KidEnd, KidBegin
<1>5. KidsDone(t, O, at2)
  BY <1>0, <1>4 DEF Nested, KidsDone
<1>6. Siblings(t)
  <2> SUFFICES ASSUME NEW n \in 1..Len(ns), NEW k \in 2..Len(ns[n].children)
               PROVE  KidEnd(t, n, k - 1) =< KidBegin(t, n, k)
    BY DEF Siblings
  <2>1. k - 1 \in 1..Len(ns[n].children) /\ k \in 1..Len(ns[n].children)
    BY <1>1, RowLen DEF NodeOK
  <2>2. KidEnd(ns, n, k - 1) =< KidBegin(ns, n, k)
    BY <1>0 DEF Nested, Siblings
  <2> QED BY <1>4, <2>1, <2>2
<1>7. ASSUME NEW n \in 1..Len(ns), n \notin O PROVE Holds(t, n)
  BY <1>0, <1>4, <1>7 DEF Nested, Holds
<1>8. ASSUME NEW p \in O, NEW c \in O, p < c PROVE Ahead(t, p, c)
  <2>1. p \in 1..Len(ns) /\ c \in 1..Len(ns) /\ Ahead(ns, p, c)
    BY <1>0, <1>8 DEF Nested, Nodes
  <2> QED BY <1>4, <2>1 DEF Ahead
<1> QED BY <1>2, <1>3, <1>5, <1>6, <1>7, <1>8 DEF Nested

(* A node ends where the parser is.                                      *)
LEMMA NestedEnded ==
  ASSUME NEW ns, NEW O, NEW at, Nested(ns, O, at), NEW n \in O,
         NEW e, e.offset \in Nat, at =< e.offset
  PROVE  /\ Nested([ns EXCEPT ![n].end = e], O, e.offset)
         /\ Holds([ns EXCEPT ![n].end = e], n)
         /\ [ns EXCEPT ![n].end = e][n].end.offset = e.offset
<1> DEFINE x == [ns[n] EXCEPT !.end = e]
           t == [ns EXCEPT ![n] = x]
<1>1. IsRow(ns) /\ n \in 1..Len(ns) /\ \A m \in 1..Len(ns) : NodeOK(ns[m], m, Len(ns))
  BY DEF Nested, Nodes
<1>2. DOMAIN x = Fields /\ x.end = e /\ x.begin = ns[n].begin /\ x.children = ns[n].children
  BY <1>1 DEF NodeOK, Fields
<1> HIDE DEF x
<1>3. IsRow(t) /\ Len(t) = Len(ns) /\ t[n] = x /\ \A m \in 1..Len(ns) : m # n => t[m] = ns[m]
  BY <1>1, RowExcept
<1> HIDE DEF t
<1>4. \A m \in 1..Len(ns) :
        /\ DOMAIN t[m] = Fields /\ t[m].end.offset \in Nat
        /\ t[m].begin = ns[m].begin /\ t[m].children = ns[m].children
        /\ m \notin O => t[m].end = ns[m].end
  <2> TAKE m \in 1..Len(ns)
  <2>1. CASE m = n
    BY <1>1, <1>2, <1>3, <2>1
  <2>2. CASE m # n
    BY <1>1, <1>3, <2>2 DEF NodeOK
  <2> QED BY <2>1, <2>2
<1>5. Nested(t, O, e.offset)
  BY <1>3, <1>4, NestedAs
<1>6. t[n].end.offset = e.offset
  BY <1>2, <1>3
<1>7. Holds(t, n)
  BY <1>1, <1>3, <1>5, <1>6 DEF Holds, Nested, KidsDone
<1> QED BY <1>5, <1>6, <1>7 DEF t, x

(* A name is listed.                                                     *)
LEMMA NestedValue ==
  ASSUME NEW ns, NEW O, NEW at, Nested(ns, O, at), NEW n \in 1..Len(ns), NEW v
  PROVE  Nested([ns EXCEPT ![n].value = v], O, at)
<1> DEFINE x == [ns[n] EXCEPT !.value = v]
           t == [ns EXCEPT ![n] = x]
<1>1. IsRow(ns) /\ at \in Nat /\ \A m \in 1..Len(ns) : NodeOK(ns[m], m, Len(ns))
  BY DEF Nested, Nodes
<1>2. DOMAIN x = Fields /\ x.end = ns[n].end /\ x.begin = ns[n].begin /\ x.children = ns[n].children
  BY <1>1 DEF NodeOK, Fields
<1> HIDE DEF x
<1>3. IsRow(t) /\ Len(t) = Len(ns) /\ t[n] = x /\ \A m \in 1..Len(ns) : m # n => t[m] = ns[m]
  BY <1>1, RowExcept
<1> HIDE DEF t
<1>4. \A m \in 1..Len(ns) :
        /\ DOMAIN t[m] = Fields /\ t[m].end.offset \in Nat
        /\ t[m].begin = ns[m].begin /\ t[m].children = ns[m].children
        /\ m \notin O => t[m].end = ns[m].end
  <2> TAKE m \in 1..Len(ns)
  <2>1. CASE m = n
    BY <1>1, <1>2, <1>3, <2>1 DEF NodeOK
  <2>2. CASE m # n
    BY <1>1, <1>3, <2>2 DEF NodeOK
  <2> QED BY <2>1, <2>2
<1>5. at =< at
  BY <1>1
<1> QED BY <1>1, <1>3, <1>4, <1>5, NestedAs DEF t, x

(* The node made last of those that are not done is adopted by the one   *)
(* before it, and is done.                                               *)
LEMMA NestedAdopt ==
  ASSUME NEW ns, NEW O, NEW at, Nested(ns, O, at), NEW p \in O, NEW c \in O, p < c,
         \A q \in O : q # c => q =< p, Holds(ns, c), ns[c].end.offset =< at
  PROVE  Nested([ns EXCEPT ![p].children = Append(@, c)], O \ {c}, at)
<1> DEFINE ks == ns[p].children
           K  == Len(ks)
           x  == [ns[p] EXCEPT !.children = Append(ks, c)]
           t  == [ns EXCEPT ![p] = x]
           N  == Len(ns)
<1>1. /\ IsRow(ns) /\ p \in 1..N /\ c \in 1..N /\ N \in Nat /\ at \in Nat
      /\ \A m \in 1..N : NodeOK(ns[m], m, N) /\ ns[m].begin.offset < at
      /\ O \subseteq 1..N
  BY RowLen DEF Nested, Nodes
<1>2. /\ DOMAIN x = Fields /\ x.end = ns[p].end /\ x.begin = ns[p].begin
      /\ x.children = Append(ks, c)
  BY <1>1 DEF NodeOK, Fields
<1>3. /\ IsRow(ks) /\ K \in Nat
      /\ IsRow(x.children) /\ Len(x.children) = K + 1 /\ x.children[K + 1] = c
      /\ \A k \in 1..K : x.children[k] = ks[k]
  BY <1>1, <1>2, RowAppend, RowLen DEF NodeOK
<1> HIDE DEF x
<1>4. IsRow(t) /\ Len(t) = N /\ t[p] = x /\ \A m \in 1..N : m # p => t[m] = ns[m]
  BY <1>1, RowExcept
<1> HIDE DEF t, N
<1>5. \A m \in 1..N : t[m].begin = ns[m].begin /\ t[m].end = ns[m].end
  BY <1>2, <1>4
<1>6. \A k \in 1..K + 1 : k = K + 1 \/ k \in 1..K
  BY <1>3
<1>7. \A m \in 1..N : NodeOK(t[m], m, N)
  <2> TAKE m \in 1..N
  <2>1. CASE m = p
    <3>1. \A k \in 1..K : ks[k] \in p + 1..N
      BY <1>1 DEF NodeOK
    <3>2. c \in p + 1..N
      BY <1>1
    <3>3. \A k \in 1..Len(x.children) : x.children[k] \in p + 1..N
      BY <1>3, <1>6, <3>1, <3>2
    <3>4. x.begin.offset \in Nat /\ x.end.offset \in Nat
      BY <1>1, <1>2 DEF NodeOK
    <3>5. t[m] = x
      BY <1>4, <2>1
    <3> QED BY <1>2, <1>3, <2>1, <3>3, <3>4, <3>5 DEF NodeOK
  <2>2. CASE m # p
    BY <1>1, <1>4, <2>2
  <2> QED BY <2>1, <2>2
<1>8. Nodes(t, O \ {c}, at)
  BY <1>1, <1>4, <1>5, <1>7 DEF Nodes
<1>9. InOrder(t)
  <2> SUFFICES ASSUME NEW n \in 1..N, NEW m \in 1..n - 1
               PROVE  t[m].begin.offset < t[n].begin.offset
    BY <1>4 DEF InOrder
  <2>1. m \in 1..N
    BY <1>1
  <2> QED BY <1>5, <2>1 DEF Nested, InOrder, N
<1>10. /\ \A n, k : KidEnd(ns, n, k) = ns[ns[n].children[k]].end.offset
       /\ \A n \in 1..N : \A k \in 1..Len(ns[n].children) :
            /\ ns[n].children[k] \in 1..N /\ ns[n].children[k] \notin O
            /\ KidEnd(ns, n, k) =< at
  BY KidIs DEF Nested, KidsDone, KidEnd, N
(* What the kids of t are: those there were, and c.                      *)
<1>11. \A n \in 1..N : n # p => \A k \in 1..Len(t[n].children) :
         /\ k \in 1..Len(ns[n].children) /\ t[n].children[k] = ns[n].children[k]
         /\ KidEnd(t, n, k) = KidEnd(ns, n, k) /\ KidBegin(t, n, k) = KidBegin(ns, n, k)
  BY <1>4, <1>5, <1>10 DEF KidEnd, KidBegin
<1>12. /\ Len(t[p].children) = K + 1
       /\ \A k \in 1..K :
            /\ t[p].children[k] = ks[k]
            /\ KidEnd(t, p, k) = KidEnd(ns, p, k) /\ KidBegin(t, p, k) = KidBegin(ns, p, k)
       /\ t[p].children[K + 1] = c
       /\ KidEnd(t, p, K + 1) = ns[c].end.offset /\ KidBegin(t, p, K + 1) = ns[c].begin.offset
  <2>1. t[p].children = x.children
    BY <1>4
  <2>2. \A k \in 1..K : ks[k] \in 1..N
    BY <1>1, <1>10
  <2> QED BY <1>1, <1>3, <1>5, <2>1, <2>2, ZenonT(40) DEF KidEnd, KidBegin
<1> HIDE DEF ks
<1>13. KidsDone(t, O \ {c}, at)
  <2> SUFFICES ASSUME NEW n \in 1..N, NEW k \in 1..Len(t[n].children)
               PROVE  t[n].children[k] \notin O \ {c} /\ KidEnd(t, n, k) =< at
    BY <1>4 DEF KidsDone
  <2>1. CASE n # p
    BY <1>10, <1>11, <2>1
  <2>2. CASE n = p
    <3>1. CASE k = K + 1
      BY <1>12, <2>2, <3>1
    <3>2. CASE k \in 1..K
      <4>1. ks[k] \notin O /\ KidEnd(ns, p, k) =< at
        BY <1>1, <1>10, <3>2 DEF ks
      <4> QED BY <1>12, <2>2, <3>2, <4>1
    <3> QED BY <1>6, <1>12, <2>2, <3>1, <3>2
  <2> QED BY <2>1, <2>2
<1>14. Siblings(t)
  <2> SUFFICES ASSUME NEW n \in 1..N, NEW k \in 2..Len(t[n].children)
               PROVE  KidEnd(t, n, k - 1) =< KidBegin(t, n, k)
    BY <1>4 DEF Siblings
  <2>0. IsRow(t[n].children)
    BY <1>7 DEF NodeOK
  <2>1. k - 1 \in 1..Len(t[n].children) /\ k \in 1..Len(t[n].children) /\ k \in Nat
    BY <2>0, RowLen
  <2>2. CASE n # p
    <3>1. k \in 2..Len(ns[n].children)
      BY <1>4, <2>2
    <3>2. KidEnd(ns, n, k - 1) =< KidBegin(ns, n, k)
      BY <3>1 DEF Nested, Siblings, N
    <3> QED BY <1>11, <2>1, <2>2, <3>2
  <2>3. CASE n = p /\ k = K + 1
    <3>1. k - 1 = K /\ K \in 1..K
      BY <1>3, <2>3
    <3>2. KidEnd(ns, p, K) =< ns[c].begin.offset
      BY <3>1 DEF Nested, Ahead, K, ks
    <3> QED BY <1>12, <2>3, <3>1, <3>2
  <2>4. CASE n = p /\ k \in 1..K
    <3>1. k \in 2..K /\ k - 1 \in 1..K
      BY <1>3, <2>4
    <3>2. KidEnd(ns, p, k - 1) =< KidBegin(ns, p, k)
      BY <1>1, <3>1 DEF Nested, Siblings, N, K, ks
    <3> QED BY <1>12, <2>4, <3>1, <3>2
  <2> QED BY <1>6, <1>12, <2>1, <2>2, <2>3, <2>4
<1>15. ASSUME NEW n \in 1..N, n \notin O \ {c} PROVE Holds(t, n)
  <2>1. n # p
    BY <1>1, <1>15
  <2>2. Holds(ns, n)
    BY <1>15 DEF Nested, N
  <2> QED BY <1>4, <1>5, <1>11, <2>1, <2>2 DEF Holds
<1>16. ASSUME NEW q \in O \ {c}, NEW d \in O \ {c}, q < d PROVE Ahead(t, q, d)
  <2>1. q \in 1..N /\ d \in 1..N /\ Ahead(ns, q, d)
    BY <1>1, <1>16 DEF Nested
  <2>2. q # p
    BY <1>1, <1>16, <2>1
  <2> QED BY <1>5, <1>11, <2>1, <2>2 DEF Ahead
<1>17. Nested(t, O \ {c}, at)
  BY <1>4, <1>8, <1>9, <1>13, <1>14, <1>15, <1>16 DEF Nested
<1> QED BY <1>17 DEF t, x, ks

-----------------------------------------------------------------------------
(* The parser does not read past eof, and never goes back.               *)
LEMMA EofIsLast ==
  ASSUME IsRow(tokens), LaidOut
  PROVE  /\ Len(tokens) \in Nat \ {0} /\ DOMAIN tokens = 1..Len(tokens)
         /\ tokens[Len(tokens)].kind = "eof"
         /\ \A j \in 1..Len(tokens) : tokens[j].kind # "eof" => j + 1 \in 1..Len(tokens)
<1>1. /\ Len(tokens) \in Nat \ {0} /\ DOMAIN tokens = 1..Len(tokens)
      /\ tokens[Len(tokens)].kind = "eof"
  BY RowLen DEF LaidOut
<1> QED BY <1>1

(* Of the places that are looked for there is a first one.               *)
LEMMA FirstPlace ==
  ASSUME NEW i \in Nat, NEW N \in Nat, NEW S, S \subseteq i..N, S # {}
  PROVE  Min(S) \in i..N
<1>1. S \subseteq Nat
  OBVIOUS
<1>2. PICK m \in S : \A k \in S : m =< k
  BY <1>1, LeastNat
<1>3. Min(S) \in S
  BY <1>2 DEF Min
<1> QED BY <1>3

(* Skipping to a separator ends, at eof if there is none.                *)
LEMMA SkipToSeparatorIs ==
  ASSUME IsRow(tokens), LaidOut, NEW i \in 1..Len(tokens), NEW close
  PROVE  SkipToSeparator(i, close) \in i..Len(tokens)
<1>1. /\ Len(tokens) \in Nat /\ i \in Nat /\ Len(tokens) \in i..Len(tokens)
      /\ Is(Len(tokens), {"eof"})
  BY EofIsLast DEF Is
<1>2. ASSUME NEW level
      PROVE  Min({j \in i..Len(tokens) : Is(j, {"eof"}) \/ (Is(j, {"comma", close}) /\ level[j] = 0)})
               \in i..Len(tokens)
  <2> DEFINE S == {j \in i..Len(tokens) : Is(j, {"eof"}) \/ (Is(j, {"comma", close}) /\ level[j] = 0)}
  <2>1. S \subseteq i..Len(tokens) /\ S # {}
    BY <1>1
  <2> HIDE DEF S
  <2>2. Min(S) \in i..Len(tokens)
    BY <1>1, <2>1, FirstPlace
  <2> QED BY <2>2 DEF S
<1> QED BY <1>2 DEF SkipToSeparator

(* Skipping a bracketed value ends, at eof if it is not closed.          *)
LEMMA SkipNestedIs ==
  ASSUME IsRow(tokens), LaidOut, NEW i \in 1..Len(tokens)
  PROVE  SkipNested(i) \in i..Len(tokens)
<1>1. CASE Is(i, {"eof"})
  BY <1>1, EofIsLast DEF SkipNested
<1>2. CASE ~Is(i, {"eof"})
  <2> DEFINE S == {j \in i + 1..Len(tokens) : Balance(i, j) = 0 \/ Is(j, {"eof"})}
  <2>1. i + 1 \in 1..Len(tokens) /\ Len(tokens) \in Nat /\ Is(Len(tokens), {"eof"})
    BY <1>2, EofIsLast DEF Is
  <2>2. S \subseteq i..Len(tokens) /\ S # {} /\ i \in Nat
    BY <2>1
  <2>3. SkipNested(i) = Min(S)
    BY <1>2 DEF SkipNested
  <2> HIDE DEF S
  <2> QED BY <2>1, <2>2, <2>3, FirstPlace
<1> QED BY <1>1, <1>2

(* Where the tokens before i end.                                        *)
Here(i) == LastEnd(i).offset

LEMMA HereIs ==
  ASSUME IsRow(tokens), LaidOut, NEW i \in 1..Len(tokens)
  PROVE  /\ Here(i) \in Nat /\ Here(i) =< tokens[i].begin.offset
         /\ tokens[i].begin.offset \in Nat /\ tokens[i].begin.offset =< tokens[i].end.offset
         /\ tokens[i].kind # "eof" => tokens[i].begin.offset < Here(i + 1)
         /\ i + 1 \in 1..Len(tokens) => Here(i) =< Here(i + 1)
<1>1. /\ Len(tokens) \in Nat /\ DOMAIN tokens = 1..Len(tokens) /\ i \in Nat
      /\ i > 1 => i - 1 \in 1..Len(tokens)
  BY EofIsLast
<1>2. \A k \in 1..Len(tokens) :
        /\ tokens[k].begin.offset \in Nat /\ tokens[k].end.offset \in Nat
        /\ tokens[k].begin.offset =< tokens[k].end.offset
        /\ tokens[k].kind # "eof" => tokens[k].begin.offset < tokens[k].end.offset
        /\ k > 1 => tokens[k - 1].end.offset =< tokens[k].begin.offset
  BY <1>1 DEF LaidOut
<1>3. Here(1) = 0
  BY DEF Here, LastEnd, Start
<1>4. /\ i > 1 => Here(i) = tokens[i - 1].end.offset
      /\ Here(i + 1) = tokens[i].end.offset
  <2>1. i + 1 # 1 /\ i + 1 - 1 = i /\ (i > 1 => i # 1)
    BY <1>1
  <2> QED BY <2>1 DEF Here, LastEnd
<1>5. Here(i) \in Nat /\ Here(i) =< tokens[i].begin.offset
  <2>1. CASE i = 1
    BY <1>2, <1>3, <2>1
  <2>2. CASE i > 1
    BY <1>1, <1>2, <1>4, <2>2
  <2> QED BY <1>1, <2>1, <2>2
<1> QED BY <1>2, <1>4, <1>5

LEMMA HereGrows ==
  ASSUME IsRow(tokens), LaidOut, NEW i \in 1..Len(tokens), NEW j \in i..Len(tokens)
  PROVE  Here(i) =< Here(j)
<1> DEFINE P == {n \in Nat : i + n \in 1..Len(tokens) => Here(i) =< Here(i + n)}
<1>1. Len(tokens) \in Nat /\ \A k \in 1..Len(tokens) : Here(k) \in Nat
  BY EofIsLast, HereIs
<1>2. \A n \in Nat : (\A k \in 0..n - 1 : k \in P) => n \in P
  <2> SUFFICES ASSUME NEW n \in Nat, \A k \in 0..n - 1 : k \in P, i + n \in 1..Len(tokens)
               PROVE  Here(i) =< Here(i + n)
    OBVIOUS
  <2>1. CASE n = 0
    BY <1>1, <2>1
  <2>2. CASE n # 0
    <3>1. n - 1 \in 0..n - 1 /\ i + (n - 1) \in 1..Len(tokens) /\ i + (n - 1) + 1 = i + n
      BY <1>1, <2>2
    <3>2. Here(i) =< Here(i + (n - 1))
      BY <3>1
    <3>3. Here(i + (n - 1)) =< Here(i + (n - 1) + 1)
      BY <3>1, HereIs
    <3> HIDE DEF P
    <3> QED BY <1>1, <3>1, <3>2, <3>3
  <2> QED BY <2>1, <2>2
<1>3. Nat \subseteq P
  <2> HIDE DEF P
  <2> QED BY <1>2, Induction
<1>4. j - i \in P /\ i + (j - i) = j /\ j \in 1..Len(tokens)
  <2> HIDE DEF P
  <2> QED BY <1>1, <1>3
<1> QED BY <1>4

-----------------------------------------------------------------------------
(* The nodes of the brackets being parsed.  A frame has made its node, and*)
(* a keyword's or property's node while its value is parsed; a keyword's *)
(* bracket has the node the schema around it awaits.                     *)
FrameNode(f, N) ==
  /\ f.of \in {"schema", "properties", "allOf", "type", "required", "object", "array"}
  /\ f.node \in 0..N /\ f.pending \in 0..N
  /\ f.pending # 0 => f.node # 0 /\ f.node < f.pending /\ f.of \in {"schema", "properties"}
  /\ f.of \in {"object", "array"} <=> f.node = 0

Under(f, g) ==
  g.node # 0 => f.node < g.node /\ (f.pending < g.node \/ (f.pending = g.node /\ g.of # "schema"))

Linked(s, l) ==
  s[l].of \in {"type", "required", "properties", "allOf"} => l - 1 \in 1..Len(s) /\ s[l].node = s[l - 1].pending

Ordered(s, N) ==
  \A l \in 1..Len(s) : /\ FrameNode(s[l], N) /\ Linked(s, l)
                       /\ \A k \in 1..l - 1 : Under(s[k], s[l])

(* Those that are not done: before and while the innermost bracket has a *)
(* value parsed.                                                         *)
OpenIn(s)  == ({s[k].node : k \in 1..Len(s)} \cup {s[k].pending : k \in 1..Len(s) - 1}) \ {0}
Awaited(s) == ({s[k].node : k \in 1..Len(s)} \cup {s[k].pending : k \in 1..Len(s)}) \ {0}

(* Nothing is open outside of every bracket.                             *)
LEMMA OpenNone == OpenIn(<<>>) = {} /\ Awaited(<<>>) = {}
<1>1. Len(<<>>) = 0 /\ 1..0 = {} /\ 1..0 - 1 = {}
  OBVIOUS
<1> QED BY <1>1 DEF OpenIn, Awaited

(* What a value adds, and what a bracket does.                           *)
LEMMA OpenAwaited ==
  ASSUME NEW s, IsRow(s), s # <<>>
  PROVE  Awaited(s) = OpenIn(s) \cup ({Last(s).pending} \ {0})
<1>1. Len(s) \in Nat /\ Last(s) = s[Len(s)] /\ Len(s) \in 1..Len(s)
  BY RowLen
<1>2. \A k \in 1..Len(s) : k \in 1..Len(s) - 1 \/ k = Len(s)
  BY <1>1
<1>3. 1..Len(s) - 1 \subseteq 1..Len(s)
  BY <1>1
<1> QED BY <1>1, <1>2, <1>3 DEF Awaited, OpenIn

LEMMA OpenAppend ==
  ASSUME NEW s, IsRow(s), NEW f
  PROVE  OpenIn(Append(s, f)) = Awaited(s) \cup ({f.node} \ {0})
<1> DEFINE t == Append(s, f)
           N == Len(s)
<1>1. N \in Nat /\ Len(t) = N + 1 /\ t[N + 1] = f /\ \A k \in 1..N : t[k] = s[k]
  BY RowLen, RowAppend
<1>2. 1..Len(t) - 1 = 1..N /\ \A k \in 1..Len(t) : k \in 1..N \/ k = N + 1
  BY <1>1
<1>3. 1..N \subseteq 1..Len(t) /\ N + 1 \in 1..Len(t)
  BY <1>1
<1> HIDE DEF t, N
<1>4. {t[k].node : k \in 1..Len(t)} = {s[k].node : k \in 1..N} \cup {f.node}
  BY <1>1, <1>2, <1>3
<1>5. {t[k].pending : k \in 1..Len(t) - 1} = {s[k].pending : k \in 1..N}
  BY <1>1, <1>2
<1>6. OpenIn(t) = Awaited(s) \cup ({f.node} \ {0})
  BY <1>4, <1>5 DEF Awaited, OpenIn, N
<1> QED BY <1>6 DEF t

LEMMA OpenFront ==
  ASSUME NEW s, IsRow(s), s # <<>>
  PROVE  OpenIn(s) = Awaited(Front(s)) \cup ({Last(s).node} \ {0})
<1> DEFINE t == Front(s)
           N == Len(s)
<1>1. N \in Nat /\ Last(s) = s[N] /\ N \in 1..N
  BY RowLen
<1>2. Len(t) = N - 1 /\ \A k \in 1..N - 1 : t[k] = s[k]
  BY RowFront
<1>3. \A k \in 1..N : k \in 1..N - 1 \/ k = N
  BY <1>1
<1>4. 1..N - 1 \subseteq 1..N
  BY <1>1
<1> HIDE DEF t, N
<1>5. {s[k].node : k \in 1..N} = {t[k].node : k \in 1..N - 1} \cup {s[N].node}
  BY <1>1, <1>2, <1>3, <1>4
<1>6. {s[k].pending : k \in 1..N - 1} = {t[k].pending : k \in 1..N - 1}
  BY <1>2
<1>7. OpenIn(s) = Awaited(t) \cup ({s[N].node} \ {0})
  BY <1>2, <1>5, <1>6 DEF Awaited, OpenIn, N
<1> QED BY <1>1, <1>7 DEF t

(* The last frame may await another node.                                *)
LEMMA OpenUpdate ==
  ASSUME NEW s, IsRow(s), s # <<>>, NEW f, f.node = Last(s).node
  PROVE  OpenIn(WithLast(s, f)) = OpenIn(s) /\ Last(WithLast(s, f)) = f
<1> DEFINE t == WithLast(s, f)
           N == Len(s)
<1>1. N \in Nat /\ Last(s) = s[N] /\ N \in 1..N
  BY RowLen
<1>2. IsRow(t) /\ Len(t) = N /\ t[N] = f /\ \A k \in 1..N : k # N => t[k] = s[k]
  BY <1>1, RowExcept DEF WithLast
<1>3. \A k \in 1..N - 1 : k \in 1..N /\ k # N
  BY <1>1
<1> HIDE DEF t, N
<1>4. \A k \in 1..N : t[k].node = s[k].node
  BY <1>1, <1>2
<1>5. \A k \in 1..N - 1 : t[k].pending = s[k].pending
  BY <1>2, <1>3
<1>6. OpenIn(t) = OpenIn(s)
  BY <1>2, <1>4, <1>5 DEF OpenIn, N
<1>7. Last(t) = f
  BY <1>2 DEF Last
<1> QED BY <1>6, <1>7 DEF t

(* More nodes are made.                                                  *)
LEMMA OrderedMore ==
  ASSUME NEW s, NEW N \in Nat, NEW M \in Nat, N =< M, Ordered(s, N)
  PROVE  Ordered(s, M)
<1>1. \A n \in 0..N : n \in 0..M
  OBVIOUS
<1> QED BY <1>1 DEF Ordered, FrameNode

LEMMA OrderedAppend ==
  ASSUME NEW s, IsRow(s), NEW N, Ordered(s, N), NEW f, FrameNode(f, N),
         \A k \in 1..Len(s) : Under(s[k], f),
         f.of \in {"type", "required", "properties", "allOf"} => s # <<>> /\ f.node = Last(s).pending
  PROVE  Ordered(Append(s, f), N)
<1> DEFINE t == Append(s, f)
           L == Len(s)
<1>1. L \in Nat /\ Len(t) = L + 1 /\ t[L + 1] = f /\ \A k \in 1..L : t[k] = s[k]
  BY RowLen, RowAppend
<1>2. \A k \in 1..L + 1 : k \in 1..L \/ k = L + 1
  BY <1>1
<1>3. s # <<>> => L \in 1..L /\ Last(s) = s[L]
  BY RowLen
<1> HIDE DEF t, L
<1> SUFFICES ASSUME NEW l \in 1..L + 1
             PROVE  /\ FrameNode(t[l], N) /\ Linked(t, l)
                    /\ \A k \in 1..l - 1 : Under(t[k], t[l])
  BY <1>1 DEF Ordered, t
<1>4. CASE l \in 1..L
  <2>1. FrameNode(s[l], N) /\ Linked(s, l) /\ \A k \in 1..l - 1 : Under(s[k], s[l])
    BY <1>4 DEF Ordered, L
  <2>2. \A k \in 1..l - 1 : k \in 1..L
    BY <1>1, <1>4
  <2>3. l - 1 \in 1..L => l - 1 \in 1..L + 1
    BY <1>1
  <2>4. Linked(t, l)
    BY <1>1, <1>4, <2>1, <2>3 DEF Linked, L
  <2> QED BY <1>1, <1>4, <2>1, <2>2, <2>4
<1>5. CASE l = L + 1
  <2>1. l - 1 = L /\ (s # <<>> => L \in 1..L + 1)
    BY <1>1, <1>3, <1>5
  <2>2. Linked(t, l)
    BY <1>1, <1>3, <1>5, <2>1 DEF Linked
  <2> QED BY <1>1, <1>5, <2>1, <2>2 DEF L
<1> QED BY <1>2, <1>4, <1>5

LEMMA OrderedFront ==
  ASSUME NEW s, IsRow(s), s # <<>>, NEW N, Ordered(s, N)
  PROVE  Ordered(Front(s), N)
<1> DEFINE t == Front(s)
           L == Len(s)
<1>1. L \in Nat /\ L > 0 /\ Len(t) = L - 1 /\ \A k \in 1..L - 1 : t[k] = s[k]
  BY RowLen, RowFront
<1> HIDE DEF t, L
<1> SUFFICES ASSUME NEW l \in 1..L - 1
             PROVE  /\ FrameNode(t[l], N) /\ Linked(t, l)
                    /\ \A k \in 1..l - 1 : Under(t[k], t[l])
  BY <1>1 DEF Ordered, t
<1>2. l \in 1..L /\ \A k \in 1..l - 1 : k \in 1..L - 1
  BY <1>1
<1>3. FrameNode(s[l], N) /\ Linked(s, l) /\ \A k \in 1..l - 1 : Under(s[k], s[l])
  BY <1>2 DEF Ordered, L
<1>4. l - 1 \in 1..L => l - 1 \in 1..L - 1
  BY <1>1
<1>5. Linked(t, l)
  BY <1>1, <1>3, <1>4 DEF Linked, L
<1> QED BY <1>1, <1>2, <1>3, <1>5

LEMMA OrderedUpdate ==
  ASSUME NEW s, IsRow(s), s # <<>>, NEW N, Ordered(s, N), NEW f, FrameNode(f, N),
         f.node = Last(s).node, f.of = Last(s).of
  PROVE  Ordered(WithLast(s, f), N)
<1> DEFINE t == WithLast(s, f)
           L == Len(s)
<1>1. L \in Nat /\ Last(s) = s[L] /\ L \in 1..L
  BY RowLen
<1>2. Len(t) = L /\ t[L] = f /\ \A k \in 1..L : k # L => t[k] = s[k]
  BY <1>1, RowExcept DEF WithLast
<1> HIDE DEF t, L
<1> SUFFICES ASSUME NEW l \in 1..L
             PROVE  /\ FrameNode(t[l], N) /\ Linked(t, l)
                    /\ \A k \in 1..l - 1 : Under(t[k], t[l])
  BY <1>2 DEF Ordered, t
<1>3. l - 1 # L /\ \A k \in 1..l - 1 : k \in 1..L /\ k # L
  BY <1>1
<1>4. FrameNode(s[l], N) /\ Linked(s, l) /\ \A k \in 1..l - 1 : Under(s[k], s[l])
  BY DEF Ordered, L
<1>5. t[l].node = s[l].node /\ t[l].of = s[l].of
  BY <1>1, <1>2
<1>6. Linked(t, l)
  BY <1>2, <1>3, <1>4, <1>5 DEF Linked, L
<1>7. \A k \in 1..l - 1 : Under(t[k], t[l])
  BY <1>2, <1>3, <1>4, <1>5 DEF Under
<1>8. FrameNode(t[l], N)
  BY <1>1, <1>2, <1>4
<1> QED BY <1>6, <1>7, <1>8

(* The innermost bracket has the last of the nodes that are open, unless *)
(* it has none; the node it awaits comes after it.                       *)
LEMMA Greatest ==
  ASSUME NEW s, IsRow(s), s # <<>>, NEW N, N \in Nat, Ordered(s, N)
  PROVE  /\ FrameNode(Last(s), N) /\ OpenIn(s) \subseteq 1..N
         /\ Last(s).node # 0 => /\ Last(s).node \in OpenIn(s)
                                /\ \A q \in OpenIn(s) : q =< Last(s).node
         /\ Last(s).of = "schema" => Last(s).node \notin Awaited(Front(s))
         /\ Last(s).of # "schema" => Last(s).node \in {0} \cup Awaited(Front(s))
<1> DEFINE L == Len(s)
           f == s[L]
<1>1. L \in Nat /\ Last(s) = f /\ L \in 1..L
  BY RowLen
<1>2. Len(Front(s)) = L - 1 /\ \A k \in 1..L - 1 : Front(s)[k] = s[k]
  BY RowFront
<1>3. \A k \in 1..L : FrameNode(s[k], N) /\ (k = L \/ k \in 1..L - 1)
  BY <1>1 DEF Ordered
<1>4. Linked(s, L) /\ \A k \in 1..L - 1 : Under(s[k], f)
  BY <1>1 DEF Ordered
<1>5. 1..L - 1 \subseteq 1..L
  BY <1>1
<1>6. OpenIn(s) \subseteq 1..N
  <2>1. \A q \in 0..N : q # 0 => q \in 1..N
    OBVIOUS
  <2> QED BY <1>3, <1>5, <2>1 DEF OpenIn, FrameNode
<1>7. ASSUME f.node # 0 PROVE f.node \in OpenIn(s) /\ \A q \in OpenIn(s) : q =< f.node
  <2>1. \A k \in 1..L - 1 : s[k].node =< f.node /\ s[k].pending =< f.node
    <3> TAKE k \in 1..L - 1
    <3>1. k \in 1..L
      BY <1>5
    <3>2. s[k].node \in Nat /\ s[k].pending \in Nat /\ f.node \in Nat
      BY <1>1, <1>3, <3>1 DEF FrameNode
    <3> HIDE DEF f
    <3> QED BY <1>4, <1>7, <3>2, SMTT(30) DEF Under
  <2>2. \A k \in 1..L : s[k].node =< f.node
    BY <1>1, <1>3, <2>1 DEF FrameNode
  <2> QED BY <1>1, <1>7, <2>1, <2>2 DEF OpenIn, L
<1>8. Awaited(Front(s)) = ({s[k].node : k \in 1..L - 1} \cup {s[k].pending : k \in 1..L - 1}) \ {0}
  BY <1>2 DEF Awaited
<1>9. ASSUME f.of = "schema" PROVE f.node \notin Awaited(Front(s))
  <2>1. f.node # 0 /\ f.node \in Nat
    BY <1>1, <1>3, <1>9 DEF FrameNode
  <2>2. \A k \in 1..L - 1 : s[k].node < f.node /\ s[k].pending < f.node
    BY <1>4, <1>9, <2>1 DEF Under
  <2>3. \A k \in 1..L - 1 : s[k].node # f.node /\ s[k].pending # f.node
    BY <1>3, <1>5, <2>1, <2>2 DEF FrameNode
  <2> QED BY <1>8, <2>3
<1>10. ASSUME f.of # "schema" PROVE f.node \in {0} \cup Awaited(Front(s))
  <2>1. CASE f.of \in {"object", "array"}
    BY <1>1, <1>3, <2>1 DEF FrameNode
  <2>2. CASE f.of \in {"type", "required", "properties", "allOf"}
    <3>1. L - 1 \in 1..L /\ f.node = s[L - 1].pending
      BY <1>4, <2>2 DEF Linked
    <3>2. L - 1 \in 1..L - 1
      BY <1>1, <3>1
    <3> QED BY <1>8, <3>1, <3>2
  <2> QED BY <1>1, <1>3, <1>10, <2>1, <2>2 DEF FrameNode
<1> QED BY <1>1, <1>3, <1>6, <1>7, <1>9, <1>10

-----------------------------------------------------------------------------
(* A value ended: what its bracket awaits ends there and is adopted.  n is*)
(* a schema that has ended, 0 when there is none.                        *)
Delivered(ns, O, n, at) ==
  n # 0 => /\ n \notin O /\ Holds(ns, n) /\ ns[n].end.offset =< at
           /\ \A q \in O : q < n

LEMMA ReturnNests ==
  ASSUME IsRow(tokens), LaidOut, NEW ns, NEW frames, NEW n, NEW i \in 1..Len(tokens),
         IsRow(frames), Ordered(frames, Len(ns)), Len(ns) \in Nat,
         Nested(ns, Awaited(frames) \cup ({n} \ {0}), Here(i)),
         Delivered(ns, Awaited(frames), n, Here(i)),
         Return(ns, frames, n, i)
  PROVE  Nested(nodes', OpenIn(frames), Here(i)) /\ Len(nodes') = Len(ns)
<1> DEFINE at == Here(i)
           A  == Awaited(frames)
           f  == Last(frames)
           p  == f.pending
<1>0. at \in Nat
  BY HereIs
<1>1. CASE frames = <<>>
  <2>1. nodes' = ns /\ A = {} /\ OpenIn(frames) = {}
    BY <1>1, OpenNone DEF Return
  <2>2. Nested(ns, ({n} \ {0}) \ {n}, at)
    <3>1. n \in {n} \ {0} => Holds(ns, n)
      BY DEF Delivered
    <3>2. Nested(ns, {n} \ {0}, at)
      BY <2>1
    <3> HIDE DEF at
    <3> QED BY <3>1, <3>2, NestedShut
  <2>3. ({n} \ {0}) \ {n} = {}
    OBVIOUS
  <2> QED BY <2>1, <2>2, <2>3
<1>2. CASE frames # <<>>
  <2>1. /\ FrameNode(f, Len(ns)) /\ A = OpenIn(frames) \cup ({p} \ {0})
        /\ OpenIn(frames) \subseteq 1..Len(ns)
        /\ f.node # 0 => f.node \in OpenIn(frames) /\ \A q \in OpenIn(frames) : q =< f.node
    BY <1>2, Greatest, OpenAwaited
  <2>2. n # 0 => \A q \in A : q < n
    BY DEF Delivered
  <2>3. A \cup ({n} \ {0}) \subseteq Nat
    <3>1. A \cup ({n} \ {0}) \subseteq 1..Len(ns)
      BY DEF Nested, Nodes
    <3> QED BY <3>1
  <2>4. p # 0 => /\ f.node \in OpenIn(frames) /\ f.node < p /\ p \in A /\ f.node \in A
                 /\ \A q \in OpenIn(frames) : q < p /\ q =< f.node
    <3> SUFFICES ASSUME p # 0
                 PROVE  /\ f.node \in OpenIn(frames) /\ f.node < p /\ p \in A /\ f.node \in A
                        /\ \A q \in OpenIn(frames) : q < p /\ q =< f.node
      OBVIOUS
    <3>1. f.node # 0 /\ f.node < p /\ f.node \in Nat /\ p \in Nat
      BY <2>1 DEF FrameNode
    <3>2. \A q \in OpenIn(frames) : q \in Nat /\ q =< f.node
      BY <2>1, <3>1
    <3>3. \A q \in OpenIn(frames) : q < p
      <4> HIDE DEF p, f
      <4> QED BY <3>1, <3>2
    <3> QED BY <2>1, <3>1, <3>2, <3>3
  <2>5. CASE f.of = "allOf"
    <3>1. p = 0 /\ f.node # 0 /\ A = OpenIn(frames)
      BY <2>1, <2>5 DEF FrameNode
    <3>2. nodes' = Adopt(ns, f.node, n)
      BY <1>2, <2>5 DEF Return
    <3>3. CASE n = 0
      BY <3>1, <3>2, <3>3 DEF Adopt
    <3>4. CASE n # 0
      <4> DEFINE O == A \cup {n}
      <4>1. Nested(ns, O, at)
        <5>1. A \cup ({n} \ {0}) = O
          BY <3>4
        <5> QED BY <5>1
      <4>2. f.node \in O /\ n \in O /\ f.node < n /\ \A q \in O : q # n => q =< f.node
        BY <2>1, <2>2, <3>1, <3>4
      <4>3. Holds(ns, n) /\ ns[n].end.offset =< at /\ O \ {n} = OpenIn(frames)
        BY <3>1, <3>4 DEF Delivered
      <4>4. nodes' = [ns EXCEPT ![f.node].children = Append(@, n)]
        BY <3>2, <3>4 DEF Adopt
      <4>5. Len(nodes') = Len(ns)
        BY <4>4
      <4> HIDE DEF O, f, at, A
      <4>6. Nested([ns EXCEPT ![f.node].children = Append(@, n)], O \ {n}, at)
        BY <4>1, <4>2, <4>3, NestedAdopt
      <4> HIDE DEF p
      <4> QED BY <4>3, <4>4, <4>5, <4>6 DEF at
    <3> QED BY <3>3, <3>4
  <2>6. CASE f.of # "allOf"
    <3> DEFINE named == IF f.of = "properties" /\ p # 0 THEN Adopt(ns, p, n) ELSE ns
               ended == Ended(named, p, i)
    <3>1. nodes' = Adopt(ended, f.node, p)
      BY <1>2, <2>6 DEF Return
    <3>2. Nested(named, A, at) /\ Len(named) = Len(ns)
      <4>1. CASE n = 0
        <5>1. A \cup ({n} \ {0}) = A /\ named = ns
          BY <4>1 DEF Adopt
        <5> QED BY <5>1
      <4>2. CASE n # 0 /\ f.of = "properties" /\ p # 0
        <5> DEFINE O == A \cup {n}
        <5>1. Nested(ns, O, at)
          <6>1. A \cup ({n} \ {0}) = O
            BY <4>2
          <6> QED BY <6>1
        <5>2. p < n /\ p \in O /\ n \in O
          BY <2>2, <2>4, <4>2
        <5>3. \A q \in O : q # n => q =< p
          <6> SUFFICES ASSUME NEW q \in O, q # n PROVE q =< p
            OBVIOUS
          <6>1. q = p \/ q \in OpenIn(frames)
            BY <2>1
          <6>2. p \in Nat /\ q \in Nat
            BY <2>3, <2>4, <4>2
          <6>3. q \in OpenIn(frames) => q < p
            BY <2>4, <4>2
          <6> HIDE DEF p
          <6> QED BY <6>1, <6>2, <6>3
        <5>4. Holds(ns, n) /\ ns[n].end.offset =< at /\ O \ {n} = A
          BY <4>2 DEF Delivered
        <5>5. named = [ns EXCEPT ![p].children = Append(@, n)]
          BY <4>2 DEF Adopt
        <5>6. Len(named) = Len(ns)
          BY <5>5
        <5> HIDE DEF O, f, at, A, p, named
        <5>7. Nested([ns EXCEPT ![p].children = Append(@, n)], O \ {n}, at)
          BY <5>1, <5>2, <5>3, <5>4, NestedAdopt
        <5> QED BY <5>4, <5>5, <5>6, <5>7
      <4>3. CASE n # 0 /\ ~(f.of = "properties" /\ p # 0)
        <5>1. named = ns
          BY <4>3
        <5>2. (A \cup ({n} \ {0})) \ {n} = A /\ Holds(ns, n)
          BY <4>3 DEF Delivered
        <5> HIDE DEF named, at, A
        <5>3. Nested(ns, (A \cup ({n} \ {0})) \ {n}, at)
          BY <5>2, NestedShut DEF at, A
        <5> QED BY <5>1, <5>2, <5>3
      <4> QED BY <4>1, <4>2, <4>3
    <3>3. CASE p = 0
      <4>1. nodes' = named /\ A = OpenIn(frames)
        BY <2>1, <3>1, <3>3 DEF Ended, Adopt
      <4> QED BY <3>2, <4>1
    <3>4. CASE p # 0
      <4>1. p \in A /\ f.node \in A /\ f.node < p /\ A \ {p} = OpenIn(frames)
        <5>1. p \notin OpenIn(frames)
          <6>1. p \in OpenIn(frames) => p < p /\ p \in Nat
            BY <2>1, <2>4, <3>4
          <6> HIDE DEF p
          <6> QED BY <6>1
        <5> QED BY <2>1, <2>4, <3>4, <5>1
      <4>2. \A q \in A : q # p => q =< f.node
        BY <2>1, <2>4, <3>4
      <4>3. ended = [named EXCEPT ![p].end = LastEnd(i)]
        BY <3>4 DEF Ended
      <4>4. nodes' = [ended EXCEPT ![f.node].children = Append(@, p)]
        <5>1. nodes' = Adopt(ended, f.node, p)
          BY <3>1
        <5> HIDE DEF named, ended, at, A, p, f
        <5> QED BY <3>4, <5>1 DEF Adopt
      <4>5. Len(nodes') = Len(ns)
        BY <3>2, <4>3, <4>4
      <4>6. LastEnd(i).offset = at
        BY DEF Here
      <4>7. at =< at
        BY <1>0
      <4> HIDE DEF named, ended, at, A, p
      <4>8. /\ Nested(ended, A, at) /\ Holds(ended, p) /\ ended[p].end.offset = at
        <5> DEFINE e == LastEnd(i)
        <5>1. e.offset = at /\ e.offset \in Nat /\ at =< e.offset
          BY <1>0, <4>6, <4>7
        <5>2. ended = [named EXCEPT ![p].end = e]
          BY <4>3
        <5> HIDE DEF e
        <5>3. /\ Nested([named EXCEPT ![p].end = e], A, e.offset)
              /\ Holds([named EXCEPT ![p].end = e], p)
              /\ [named EXCEPT ![p].end = e][p].end.offset = e.offset
          BY <3>2, <4>1, <5>1, NestedEnded
        <5> QED BY <5>1, <5>2, <5>3
      <4>9. Nested([ended EXCEPT ![f.node].children = Append(@, p)], A \ {p}, at)
        BY <4>1, <4>2, <4>7, <4>8, NestedAdopt
      <4> HIDE DEF f
      <4> QED BY <4>1, <4>4, <4>5, <4>9 DEF at
    <3> QED BY <3>3, <3>4
  <2> QED BY <2>5, <2>6
<1> QED BY <1>1, <1>2

-----------------------------------------------------------------------------
(* The tree while it grows: every node belongs to a bracket being parsed,*)
(* or is done and lies before the current token.  While a keyword is     *)
(* parsed its node is still to be made, at the key.                      *)
Base == IsRow(tokens) /\ LaidOut

Opened  == IF call.at \in {"schema", "skip"} THEN Awaited(stack) ELSE OpenIn(stack)
Reached == IF call.at = "keyword" THEN Here(index - 2) ELSE Here(index)

Grown ==
  /\ Base /\ index \in 1..Len(tokens)
  /\ call.at = "keyword" => index - 2 \in 1..Len(tokens) /\ tokens[index - 2].kind = "string"
  /\ Ordered(stack, Len(nodes))
  /\ Nested(nodes, Opened, Reached)

(* What the parser leaves behind when it goes on at token i.             *)
LEMMA GrownThen ==
  ASSUME Base, tokens' = tokens, NEW i \in 1..Len(tokens), index' = i,
         NEW at, at # "keyword", call'.at = at,
         Ordered(stack', Len(nodes')),
         at \in {"schema", "skip"} => Nested(nodes', Awaited(stack'), Here(i)),
         at \notin {"schema", "skip"} => Nested(nodes', OpenIn(stack'), Here(i))
  PROVE  Grown'
<1>1. Base'
  BY DEF Base, LaidOut
<1>2. Here(index)' = Here(i)
  BY DEF Here, LastEnd
<1>3. Reached' = Here(i)
  BY <1>2 DEF Reached
<1>4. Opened' = IF at \in {"schema", "skip"} THEN Awaited(stack') ELSE OpenIn(stack')
  BY DEF Opened, Awaited, OpenIn
<1>5. Nested(nodes', Opened', Reached')
  BY <1>3, <1>4
<1> QED BY <1>1, <1>5 DEF Grown, Ordered, Nested, FrameNode, Linked, Under, Nodes, NodeOK, InOrder,
     KidsDone, KidEnd, KidBegin, Siblings, Holds, Ahead, Fields, IsRow

(* A function that returns leaves the tree as the lemma above says.      *)
LEMMA ReturnGrown ==
  ASSUME Base, NEW ns, NEW frames, NEW n, NEW i \in 1..Len(tokens),
         IsRow(frames), Ordered(frames, Len(ns)), Len(ns) \in Nat,
         Nested(ns, Awaited(frames) \cup ({n} \ {0}), Here(i)),
         Delivered(ns, Awaited(frames), n, Here(i)),
         Return(ns, frames, n, i)
  PROVE  Grown'
<1>1. Nested(nodes', OpenIn(frames), Here(i)) /\ Len(nodes') = Len(ns)
  BY ReturnNests DEF Base
<1>2. stack' = frames /\ tokens' = tokens /\ index' = i
  BY DEF Return
<1>3. PICK at : at \in {"end", "separator"} /\ call'.at = at
  <2>1. CASE frames = <<>>
    BY <2>1 DEF Return, Be
  <2>2. CASE frames # <<>>
    BY <2>2 DEF Return, Be
  <2> QED BY <2>1, <2>2
<1> QED BY <1>1, <1>2, <1>3, GrownThen

(* What the invariants say of the state.                                 *)
LEMMA GrownIs ==
  ASSUME Grown, IInv
  PROVE  /\ IsRow(stack) /\ IsRow(nodes) /\ Len(nodes) \in Nat /\ index \in Nat
         /\ Len(tokens) \in Nat /\ DOMAIN tokens = 1..Len(tokens)
         /\ Tok.kind # "eof" => index + 1 \in 1..Len(tokens)
  BY RowLen, EofIsLast DEF Grown, Base, IInv, Frames, IsRow, Nested, Nodes, Tok

(* A value is skipped, or was of no use.                                 *)
LEMMA SkipToGrown ==
  ASSUME Grown, IInv, call.at \in {"schema", "skip"}, NEW i \in index..Len(tokens), SkipTo(i)
  PROVE  Grown'
<1>1. Nested(nodes, Awaited(stack), Here(index)) /\ index \in 1..Len(tokens)
  BY DEF Grown, Opened, Reached
<1>2. i \in 1..Len(tokens)
  BY <1>1, GrownIs
<1>3. Here(index) =< Here(i) /\ Here(i) \in Nat
  BY <1>1, <1>2, HereGrows, HereIs DEF Grown, Base
<1>4. Nested(nodes, Awaited(stack), Here(i))
  BY <1>1, <1>3, NestedLater
<1>5. Awaited(stack) \cup ({0} \ {0}) = Awaited(stack)
  OBVIOUS
<1>6. Delivered(nodes, Awaited(stack), 0, Here(i))
  BY DEF Delivered
<1> QED BY <1>2, <1>4, <1>5, <1>6, GrownIs, ReturnGrown DEF SkipTo, Grown

(* The innermost bracket ends before token i.                            *)
LEMMA LeaveGrown ==
  ASSUME Grown, IInv, stack # <<>>, call.at \in {"open", "element", "separator"},
         NEW i \in index..Len(tokens), Leave(i)
  PROVE  Grown'
<1> DEFINE n == IF Top.of = "schema" THEN Top.node ELSE 0
           ns == Ended(nodes, n, i)
           A == Awaited(Front(stack))
<1>1. Nested(nodes, OpenIn(stack), Here(index)) /\ index \in 1..Len(tokens) /\ Ordered(stack, Len(nodes))
  BY DEF Grown, Opened, Reached
<1>2. i \in 1..Len(tokens) /\ IsRow(stack) /\ Len(nodes) \in Nat
  BY <1>1, GrownIs
<1>3. Here(index) =< Here(i) /\ Here(i) \in Nat
  BY <1>1, <1>2, HereGrows, HereIs DEF Grown, Base
<1>4. Nested(nodes, OpenIn(stack), Here(i))
  BY <1>1, <1>3, NestedLater
<1>5. /\ FrameNode(Top, Len(nodes)) /\ OpenIn(stack) \subseteq 1..Len(nodes)
      /\ Top.node # 0 => Top.node \in OpenIn(stack) /\ \A q \in OpenIn(stack) : q =< Top.node
      /\ Top.of = "schema" => Top.node \notin A
      /\ Top.of # "schema" => Top.node \in {0} \cup A
  BY <1>1, <1>2, Greatest DEF Top
<1>6. OpenIn(stack) = A \cup ({Top.node} \ {0})
  BY <1>2, OpenFront DEF Top
<1>7. IsRow(Front(stack)) /\ Ordered(Front(stack), Len(nodes))
  BY <1>1, <1>2, RowFront, OrderedFront
<1>8. Return(ns, Front(stack), n, i)
  BY DEF Leave
<1>9. CASE Top.of # "schema"
  <2>1. n = 0 /\ ns = nodes /\ A \cup ({n} \ {0}) = OpenIn(stack)
    BY <1>5, <1>6, <1>9 DEF Ended
  <2>2. Delivered(ns, A, n, Here(i))
    BY <2>1 DEF Delivered
  <2> HIDE DEF n, ns
  <2> QED BY <1>2, <1>4, <1>7, <1>8, <2>1, <2>2, ReturnGrown DEF Grown
<1>10. CASE Top.of = "schema"
  <2>1. n = Top.node /\ n # 0 /\ n \in OpenIn(stack) /\ A \cup ({n} \ {0}) = OpenIn(stack)
    BY <1>5, <1>6, <1>10 DEF FrameNode
  <2>2. ns = [nodes EXCEPT ![n].end = LastEnd(i)] /\ Len(ns) = Len(nodes)
    BY <2>1 DEF Ended
  <2> DEFINE e == LastEnd(i)
  <2>3. e.offset = Here(i) /\ e.offset \in Nat /\ Here(i) =< e.offset
    BY <1>3 DEF Here
  <2>4. n \notin A /\ \A q \in A : q < n
    <3>1. n \notin A /\ n \in Nat /\ A \subseteq Nat /\ \A q \in A : q =< n
      BY <1>5, <1>6, <1>10, <2>1
    <3> HIDE DEF n, A
    <3> QED BY <3>1
  <2> HIDE DEF n, ns, e
  <2>5. /\ Nested([nodes EXCEPT ![n].end = e], OpenIn(stack), e.offset)
        /\ Holds([nodes EXCEPT ![n].end = e], n)
        /\ [nodes EXCEPT ![n].end = e][n].end.offset = e.offset
    BY <1>4, <2>1, <2>3, NestedEnded
  <2>6. ns = [nodes EXCEPT ![n].end = e]
    BY <2>2 DEF e
  <2>7. Nested(ns, A \cup ({n} \ {0}), Here(i))
    BY <2>1, <2>3, <2>5, <2>6
  <2>8. Delivered(ns, A, n, Here(i))
    <3>1. ns[n].end.offset = Here(i) /\ Here(i) =< Here(i)
      BY <1>3, <2>3, <2>5, <2>6
    <3> QED BY <2>4, <2>5, <2>6, <3>1 DEF Delivered
  <2> QED BY <1>2, <1>7, <1>8, <2>2, <2>7, <2>8, ReturnGrown DEF Grown
<1> QED BY <1>9, <1>10

(* A node is made for token i, to be filled or as it is.                 *)
LEMMA MadeAt ==
  ASSUME Base, NEW O, NEW i \in 1..Len(tokens), Nested(nodes, O, Here(i)), tokens[i].kind # "eof",
         NEW j \in i + 1..Len(tokens),
         NEW x, DOMAIN x = Fields, x.begin = tokens[i].begin, x.end = x.begin, x.children = <<>>
  PROVE  /\ Len(Append(nodes, x)) = New /\ New \in Nat /\ Len(nodes) \in Nat
         /\ Nested(Append(nodes, x), O \cup {New}, Here(j))
         /\ Nested(Append(nodes, x), O, Here(j))
<1>1. Len(tokens) \in Nat /\ i + 1 \in 1..Len(tokens) /\ j \in 1..Len(tokens)
  BY EofIsLast DEF Base
<1>2. /\ Here(i) =< x.begin.offset /\ x.begin.offset \in Nat /\ x.end.offset \in Nat
      /\ x.begin.offset < Here(i + 1)
  BY HereIs DEF Base
<1>3. Here(i + 1) =< Here(j) /\ Here(i + 1) \in Nat /\ Here(j) \in Nat
  BY <1>1, HereGrows, HereIs DEF Base
<1>4. x.begin.offset < Here(j)
  BY <1>2, <1>3
<1>5. IsRow(nodes) /\ Len(nodes) \in Nat /\ Len(Append(nodes, x)) = Len(nodes) + 1
  BY RowLen, RowAppend DEF Nested, Nodes
<1>6. /\ Nested(Append(nodes, x), O \cup {Len(nodes) + 1}, Here(j))
      /\ Nested(Append(nodes, x), O, Here(j))
  BY <1>2, <1>3, <1>4, NestedNew
<1> QED BY <1>5, <1>6 DEF New

(* What a node has when it is made.                                      *)
LEMMA NodeIs ==
  ASSUME NEW kind, NEW name, NEW begin, NEW v,
         NEW x \in {Node(kind, name, begin), [Node(kind, name, begin) EXCEPT !.value = v]}
  PROVE  DOMAIN x = Fields /\ x.begin = begin /\ x.end = x.begin /\ x.children = <<>>
  BY DEF Node, Fields

(* The bracket awaits the node that is made next, or none.               *)
LEMMA AwaitIs ==
  ASSUME Grown, IInv, stack # <<>>, NEW n \in {0, New},
         n # 0 => Top.of \in {"schema", "properties"},
         NEW t \in {Await(n), See(n)}
  PROVE  /\ IsRow(t) /\ t # <<>> /\ Len(t) = Len(stack) /\ Last(t).pending = n
         /\ \A N \in Nat : Len(nodes) =< N /\ n =< N => Ordered(t, N)
         /\ OpenIn(t) = OpenIn(stack) /\ Awaited(t) = OpenIn(stack) \cup ({n} \ {0})
         /\ \A k \in 1..Len(t) : t[k].node \in 0..Len(nodes)
<1>1. IsRow(stack) /\ Len(nodes) \in Nat /\ Ordered(stack, Len(nodes)) /\ New = Len(nodes) + 1
  BY GrownIs DEF Grown, New
<1>2. Len(stack) \in DOMAIN stack /\ Last(stack) = stack[Len(stack)] /\ Len(stack) \in Nat
      /\ DOMAIN stack = 1..Len(stack)
  BY <1>1, RowLen
<1>3. FrameOK(Last(stack), Len(stack)) /\ FrameNode(Last(stack), Len(nodes))
  BY <1>1, <1>2, Greatest DEF IInv, Frames
<1> DEFINE g == [Last(stack) EXCEPT !.seen = @ \cup {Tok.value}]
<1>4. PICK f : t = WithLast(stack, f) /\ f.of = Top.of /\ f.node = Top.node /\ f.pending = n
  <2>1. CASE t = Await(n)
    <3> DEFINE f == [Last(stack) EXCEPT !.pending = n]
    <3>1. f.of = Top.of /\ f.node = Top.node /\ f.pending = n
      BY <1>3 DEF FrameOK, Top
    <3>2. t = WithLast(stack, f)
      BY <1>2, <2>1 DEF Await, WithLast
    <3> HIDE DEF f
    <3> QED BY <3>1, <3>2
  <2>2. CASE t = See(n)
    <3> DEFINE f == [g EXCEPT !.pending = n]
    <3>1. f.of = Top.of /\ f.node = Top.node /\ f.pending = n
      BY <1>3 DEF FrameOK, Top
    <3>2. t = WithLast(stack, f)
      BY <1>2, <2>2 DEF See, WithLast
    <3> HIDE DEF f
    <3> QED BY <3>1, <3>2
  <2> QED BY <2>1, <2>2
<1> HIDE DEF g
<1>5. \A N \in Nat : Len(nodes) =< N /\ n =< N => Ordered(t, N)
  <2> SUFFICES ASSUME NEW N \in Nat, Len(nodes) =< N, n =< N PROVE Ordered(t, N)
    OBVIOUS
  <2>1. Ordered(stack, N)
    BY <1>1, OrderedMore
  <2>2. FrameNode(f, N)
    BY <1>1, <1>3, <1>4 DEF FrameNode, Top
  <2> QED BY <1>1, <1>4, <2>1, <2>2, OrderedUpdate DEF Top
<1>6. OpenIn(t) = OpenIn(stack) /\ Last(t) = f
  BY <1>1, <1>4, OpenUpdate DEF Top
<1>7. IsRow(t) /\ Len(t) = Len(stack) /\ \A k \in 1..Len(stack) : k # Len(stack) => t[k] = stack[k]
  BY <1>1, <1>2, <1>4, RowExcept DEF WithLast
<1>8. t # <<>>
  BY <1>1, <1>2, <1>7, RowLen
<1>9. Awaited(t) = OpenIn(stack) \cup ({n} \ {0})
  BY <1>4, <1>6, <1>7, <1>8, OpenAwaited, SMTT(30)
<1>10. \A k \in 1..Len(t) : t[k].node \in 0..Len(nodes)
  <2> SUFFICES ASSUME NEW k \in 1..Len(stack) PROVE t[k].node \in 0..Len(nodes)
    BY <1>7
  <2>1. stack[k].node \in 0..Len(nodes)
    BY <1>1 DEF Ordered, FrameNode
  <2>2. t[Len(stack)] = f
    BY <1>6, <1>7 DEF Last
  <2> QED BY <1>2, <1>4, <1>7, <2>1, <2>2 DEF Top
<1> QED BY <1>4, <1>5, <1>6, <1>7, <1>8, <1>9, <1>10

(* A bracket that is neither a schema's nor the properties' awaits nothing.*)
LEMMA NotAwaiting ==
  ASSUME Grown, IInv, stack # <<>>, Top.of \notin {"schema", "properties"}
  PROVE  Awaited(stack) = OpenIn(stack)
<1>1. IsRow(stack) /\ Len(nodes) \in Nat /\ Ordered(stack, Len(nodes))
  BY GrownIs DEF Grown
<1>2. FrameNode(Top, Len(nodes)) /\ Awaited(stack) = OpenIn(stack) \cup ({Top.pending} \ {0})
  BY <1>1, Greatest, OpenAwaited DEF Top
<1> QED BY <1>2 DEF FrameNode

-----------------------------------------------------------------------------
(* The tree is kept by every action, one lemma for each function.        *)

LEMMA DocumentGrown ==
  ASSUME Grown, IInv, BeginDocument \/ EndDocument
  PROVE  Grown'
<1>1. /\ stack = <<>> /\ OpenIn(stack) = {} /\ Awaited(stack) = {}
      /\ Nested(nodes, OpenIn(stack), Here(index)) /\ Ordered(stack, Len(nodes))
  BY OpenNone DEF Grown, Opened, Reached, IInv, Calls, BeginDocument, EndDocument, At
<1>2. /\ tokens' = tokens /\ index' = index /\ nodes' = nodes /\ stack' = stack
      /\ call'.at \in {"done", "schema"}
  <2>1. CASE EndDocument
    BY <2>1 DEF EndDocument, Be
  <2>2. CASE BeginDocument
    <3>1. Be("done", 0) \/ Be("schema", 0)
      BY <2>2 DEF BeginDocument
    <3>2. call'.at \in {"done", "schema"}
      BY <3>1 DEF Be
    <3> QED BY <2>2, <3>2 DEF BeginDocument
  <2> QED BY <2>1, <2>2
<1>3. index \in 1..Len(tokens) /\ Base /\ call'.at # "keyword"
  BY <1>2 DEF Grown
<1> QED BY <1>1, <1>2, <1>3, GrownThen

LEMMA SchemaGrown ==
  ASSUME Grown, IInv, SchemaTooDeep \/ BooleanSchema \/ NotASchema \/ OpenSchema
  PROVE  Grown'
<1>1. /\ call.at = "schema" /\ Nested(nodes, Awaited(stack), Here(index))
      /\ index \in 1..Len(tokens) /\ Ordered(stack, Len(nodes)) /\ Base
  BY DEF Grown, Opened, Reached, SchemaTooDeep, BooleanSchema, NotASchema, OpenSchema, AtSchema, At
<1>2. /\ IsRow(stack) /\ Len(nodes) \in Nat /\ Len(tokens) \in Nat
      /\ Tok.kind # "eof" => index + 1 \in index..Len(tokens)
  BY <1>1, GrownIs
<1>3. CASE SchemaTooDeep
  BY <1>1, <1>3, SkipToGrown, SkipNestedIs DEF SchemaTooDeep, Base
<1>4. CASE BooleanSchema
  <2>1. index + 1 \in index..Len(tokens) /\ SkipTo(index + 1)
    BY <1>2, <1>4 DEF BooleanSchema
  <2> QED BY <1>1, <2>1, SkipToGrown
<1>5. CASE NotASchema
  <2>1. /\ tokens' = tokens /\ index' = index /\ nodes' = nodes /\ stack' = stack /\ call'.at = "skip"
    BY <1>5 DEF NotASchema, Be
  <2> QED BY <1>1, <2>1, GrownThen
<1>6. CASE OpenSchema
  <2> DEFINE x == Node("schema", <<>>, Tok.begin)
             f == Frame("schema", call.depth, New)
  <2>1. /\ tokens' = tokens /\ index' = index + 1 /\ nodes' = Append(nodes, x)
        /\ stack' = Append(stack, f) /\ call'.at = "open" /\ tokens[index].kind # "eof"
    BY <1>6 DEF OpenSchema, Open, Be, TokIs, Tok
  <2>2. f.node = New /\ f.pending = 0 /\ f.of = "schema"
    BY DEF Frame
  <2>3. DOMAIN x = Fields /\ x.begin = tokens[index].begin /\ x.end = x.begin /\ x.children = <<>>
    BY NodeIs DEF Tok
  <2> HIDE DEF x, f
  <2>4. index + 1 \in index + 1..Len(tokens) /\ index + 1 \in 1..Len(tokens)
    BY <1>1, <1>2, <2>1 DEF Tok
  <2>5. Len(nodes') = New /\ New \in Nat /\ Nested(nodes', Awaited(stack) \cup {New}, Here(index + 1))
    BY <1>1, <2>1, <2>3, <2>4, MadeAt
  <2>6. New = Len(nodes) + 1
    BY DEF New
  <2>7. Ordered(stack, New)
    BY <1>1, <1>2, <2>5, <2>6, OrderedMore
  <2>8. FrameNode(f, New) /\ \A k \in 1..Len(stack) : Under(stack[k], f)
    <3>1. \A k \in 1..Len(stack) : FrameNode(stack[k], Len(nodes))
      BY <1>1 DEF Ordered
    <3>2. \A k \in 1..Len(stack) : Under(stack[k], f)
      BY <1>2, <2>2, <2>6, <3>1 DEF Under, FrameNode
    <3>3. FrameNode(f, New)
      BY <1>2, <2>2, <2>6 DEF FrameNode
    <3> QED BY <3>2, <3>3
  <2>9. Ordered(Append(stack, f), New)
    BY <1>2, <2>2, <2>7, <2>8, OrderedAppend
  <2>10. OpenIn(stack') = Awaited(stack) \cup {New}
    BY <1>2, <2>1, <2>2, <2>6, OpenAppend
  <2> QED BY <1>1, <2>1, <2>4, <2>5, <2>9, <2>10, GrownThen
<1> QED BY <1>3, <1>4, <1>5, <1>6

LEMMA BracketGrown ==
  ASSUME Grown, IInv, EmptyBrackets \/ ElementMissing \/ BadMember \/ NextElement \/ TrailingComma
               \/ CloseBracket \/ SeparatorMissing \/ Resynchronize
  PROVE  Grown'
<1>1. call.at \in {"open", "element", "separator"} /\ stack # <<>>
  BY DEF EmptyBrackets, ElementMissing, BadMember, NextElement, TrailingComma, CloseBracket,
         SeparatorMissing, Resynchronize, AtElement, At, IInv, Calls
<1>2. /\ Nested(nodes, OpenIn(stack), Here(index)) /\ index \in 1..Len(tokens)
      /\ Ordered(stack, Len(nodes)) /\ Base
  BY <1>1 DEF Grown, Opened, Reached
<1>3. /\ Len(tokens) \in Nat /\ DOMAIN tokens = 1..Len(tokens) /\ index \in index..Len(tokens)
      /\ Tok.kind # "eof" => index + 1 \in index..Len(tokens) /\ index + 1 \in 1..Len(tokens)
      /\ \A j \in 1..Len(tokens) : tokens[j].kind # "eof" => j + 1 \in 1..Len(tokens)
  BY <1>2, GrownIs, EofIsLast DEF Base
<1>4. Close # "eof"
  BY DEF Close
<1>5. CASE EmptyBrackets \/ CloseBracket
  <2>1. index + 1 \in index..Len(tokens) /\ Leave(index + 1)
    BY <1>3, <1>4, <1>5 DEF EmptyBrackets, CloseBracket, TokIs
  <2> QED BY <1>1, <2>1, LeaveGrown
<1>6. CASE ElementMissing \/ SeparatorMissing
  BY <1>1, <1>3, <1>6, LeaveGrown DEF ElementMissing, SeparatorMissing
<1>7. CASE TrailingComma
  <2>1. index + 1 \in 1..Len(tokens) /\ tokens[index + 1].kind # "eof" /\ Leave(index + 2)
    BY <1>3, <1>4, <1>7 DEF TrailingComma, Is
  <2>2. index + 2 \in index..Len(tokens)
    BY <1>2, <1>3, <2>1
  <2> QED BY <1>1, <2>1, <2>2, LeaveGrown
<1>8. ASSUME NEW i \in index..Len(tokens), index' = i, tokens' = tokens, nodes' = nodes, stack' = stack,
             call'.at \in {"separator", "element"}
      PROVE  Grown'
  <2>1. i \in 1..Len(tokens) /\ Here(index) =< Here(i) /\ Here(i) \in Nat
    BY <1>2, <1>3, HereGrows, HereIs DEF Base
  <2>2. Nested(nodes, OpenIn(stack), Here(i))
    BY <1>2, <2>1, NestedLater
  <2> QED BY <1>2, <1>8, <2>1, <2>2, GrownThen
<1>9. CASE BadMember
  <2>1. /\ tokens' = tokens /\ nodes' = nodes /\ stack' = stack /\ call'.at = "separator"
        /\ Tok.kind # "eof"
    BY <1>9 DEF BadMember, Be, TokIs
  <2>2. PICK bad : bad \in {index, index + 1} /\ index' = SkipToSeparator(bad, "r_brace")
    BY <1>9 DEF BadMember
  <2>3. bad \in 1..Len(tokens) /\ bad \in index..Len(tokens)
    BY <1>2, <1>3, <2>1, <2>2
  <2>4. SkipToSeparator(bad, "r_brace") \in bad..Len(tokens)
    BY <1>2, <2>3, SkipToSeparatorIs DEF Base
  <2>5. index' \in index..Len(tokens)
    BY <1>2, <1>3, <2>2, <2>3, <2>4
  <2> QED BY <1>8, <2>1, <2>5
<1>10. CASE NextElement
  <2>1. /\ tokens' = tokens /\ nodes' = nodes /\ stack' = stack /\ call'.at = "element"
        /\ Tok.kind # "eof" /\ index' = index + 1
    BY <1>10 DEF NextElement, Be, TokIs
  <2> QED BY <1>3, <1>8, <2>1
<1>11. CASE Resynchronize
  <2>1. /\ tokens' = tokens /\ nodes' = nodes /\ stack' = stack /\ call'.at = "separator"
        /\ index' = SkipToSeparator(index, Close)
    BY <1>11 DEF Resynchronize, At
  <2>2. index' \in index..Len(tokens)
    BY <1>2, <2>1, SkipToSeparatorIs DEF Base
  <2> QED BY <1>8, <2>1, <2>2
<1> QED BY <1>5, <1>6, <1>7, <1>9, <1>10, <1>11

LEMMA SkipGrown ==
  ASSUME Grown, IInv, SkipScalar \/ SkipTooDeep \/ SkipOpen \/ SkipMissing
  PROVE  Grown'
<1>1. /\ call.at = "skip" /\ Nested(nodes, Awaited(stack), Here(index))
      /\ index \in 1..Len(tokens) /\ Ordered(stack, Len(nodes)) /\ Base
  BY DEF Grown, Opened, Reached, SkipScalar, SkipTooDeep, SkipOpen, SkipMissing, At
<1>2. /\ IsRow(stack) /\ Len(nodes) \in Nat /\ Len(tokens) \in Nat /\ index \in index..Len(tokens)
      /\ Tok.kind # "eof" => index + 1 \in index..Len(tokens) /\ index + 1 \in 1..Len(tokens)
  BY <1>1, GrownIs
<1>3. CASE SkipScalar
  <2>1. index + 1 \in index..Len(tokens) /\ SkipTo(index + 1)
    BY <1>2, <1>3 DEF SkipScalar, Literal
  <2> QED BY <1>1, <2>1, SkipToGrown
<1>4. CASE SkipTooDeep
  BY <1>1, <1>4, SkipToGrown, SkipNestedIs DEF SkipTooDeep, Base
<1>5. CASE SkipMissing
  <2>1. PICK i \in index..Len(tokens) : SkipTo(i)
    BY <1>2, <1>5 DEF SkipMissing, TokIs
  <2> QED BY <1>1, <2>1, SkipToGrown
<1>6. CASE SkipOpen
  <2> DEFINE f == Frame(IF TokIs("l_brace") THEN "object" ELSE "array", call.depth, 0)
  <2>1. /\ tokens' = tokens /\ index' = index + 1 /\ nodes' = nodes
        /\ stack' = Append(stack, f) /\ call'.at = "open" /\ Tok.kind # "eof"
    BY <1>6 DEF SkipOpen, Open, Be, Opening
  <2>2. f.node = 0 /\ f.pending = 0 /\ f.of \in {"object", "array"}
    BY DEF Frame
  <2> HIDE DEF f
  <2>3. Here(index) =< Here(index + 1) /\ Here(index + 1) \in Nat
    BY <1>1, <1>2, <2>1, HereIs DEF Base
  <2>4. Nested(nodes, Awaited(stack), Here(index + 1))
    BY <1>1, <2>3, NestedLater
  <2>5. FrameNode(f, Len(nodes)) /\ \A k \in 1..Len(stack) : Under(stack[k], f)
    BY <1>2, <2>2 DEF FrameNode, Under
  <2>6. Ordered(Append(stack, f), Len(nodes))
    BY <1>1, <1>2, <2>2, <2>5, OrderedAppend
  <2>7. OpenIn(stack') = Awaited(stack)
    <3>1. OpenIn(stack') = Awaited(stack) \cup ({f.node} \ {0})
      BY <1>2, <2>1, OpenAppend
    <3> QED BY <2>2, <3>1
  <2> QED BY <1>1, <1>2, <2>1, <2>4, <2>6, <2>7, GrownThen
<1> QED BY <1>3, <1>4, <1>5, <1>6

LEMMA MemberGrown ==
  ASSUME Grown, IInv, DuplicateKey \/ SchemaMember \/ PropertyMember \/ SkippedMember
  PROVE  Grown'
<1>1. /\ call.at \in {"open", "element"} /\ stack # <<>>
      /\ TokIs("string") /\ Is(index + 1, {"colon"}) /\ ToValue
  BY DEF DuplicateKey, SchemaMember, PropertyMember, SkippedMember, AtMember, AtElement, At, IInv, Calls
<1>2. /\ Nested(nodes, OpenIn(stack), Here(index)) /\ index \in 1..Len(tokens)
      /\ Ordered(stack, Len(nodes)) /\ Base
  BY <1>1 DEF Grown, Opened, Reached
<1>3. /\ Len(tokens) \in Nat /\ tokens[index].kind = "string" /\ index' = index + 2 /\ tokens' = tokens
      /\ index + 1 \in 1..Len(tokens) /\ tokens[index + 1].kind = "colon"
  BY <1>1, <1>2, GrownIs DEF TokIs, Tok, Is, ToValue
<1>4. index + 2 \in 1..Len(tokens) /\ index + 2 \in index + 1..Len(tokens) /\ index \in Nat
  <2>1. index + 1 + 1 \in 1..Len(tokens)
    BY <1>2, <1>3, EofIsLast DEF Base
  <2> QED BY <1>2, <1>3, <2>1
<1>5. Len(nodes) \in Nat /\ New = Len(nodes) + 1
  BY GrownIs DEF New
<1>6. Here(index) =< Here(index + 2) /\ Here(index + 2) \in Nat
  <2>1. index + 2 \in index..Len(tokens)
    BY <1>3, <1>4
  <2> QED BY <1>2, <1>4, <2>1, HereGrows, HereIs DEF Base
<1>7. Nested(nodes, OpenIn(stack), Here(index + 2))
  BY <1>2, <1>6, NestedLater
<1>8. CASE DuplicateKey
  <2>1. stack' = Await(0) /\ call'.at = "skip" /\ nodes' = nodes
    BY <1>8 DEF DuplicateKey, Be
  <2>2. Ordered(stack', Len(nodes)) /\ Awaited(stack') = OpenIn(stack) \cup ({0} \ {0})
    BY <1>1, <1>5, <2>1, AwaitIs
  <2>3. Awaited(stack') = OpenIn(stack)
    BY <2>2, SMTT(30)
  <2> QED BY <1>2, <1>3, <1>4, <1>7, <2>1, <2>2, <2>3, GrownThen
<1>9. CASE SchemaMember
  <2>1. stack' = See(0) /\ call'.at = "keyword" /\ nodes' = nodes
    BY <1>9 DEF SchemaMember, Be
  <2>2. Ordered(stack', Len(nodes)) /\ OpenIn(stack') = OpenIn(stack)
    BY <1>1, <1>5, <2>1, AwaitIs
  <2>3. Base'
    BY <1>2, <1>3 DEF Base, LaidOut
  <2>4. index' - 2 = index
    BY <1>3, <1>4
  <2>5. Reached' = Here(index)
    BY <1>3, <2>1, <2>4 DEF Reached, Here, LastEnd
  <2>6. Opened' = OpenIn(stack)
    BY <2>1, <2>2 DEF Opened, OpenIn
  <2>7. Nested(nodes', Opened', Reached') /\ Ordered(stack', Len(nodes'))
    BY <1>2, <2>1, <2>2, <2>5, <2>6
  <2> QED BY <1>2, <1>3, <1>4, <2>1, <2>3, <2>4, <2>7
      DEF Grown, Ordered, Nested, FrameNode, Linked, Under, Nodes, NodeOK, InOrder,
          KidsDone, KidEnd, KidBegin, Siblings, Holds, Ahead, Fields, IsRow
<1>10. CASE PropertyMember
  <2> DEFINE x == Node("property", Tok.value, Tok.begin)
  <2>1. stack' = See(New) /\ call'.at = "schema" /\ nodes' = Append(nodes, x) /\ Top.of = "properties"
    BY <1>10 DEF PropertyMember, Be
  <2>2. DOMAIN x = Fields /\ x.begin = tokens[index].begin /\ x.end = x.begin /\ x.children = <<>>
    BY NodeIs DEF Tok
  <2> HIDE DEF x
  <2>3. Len(nodes') = New /\ New \in Nat /\ Nested(nodes', OpenIn(stack) \cup {New}, Here(index + 2))
    BY <1>2, <1>3, <1>4, <2>1, <2>2, MadeAt
  <2>4. Ordered(stack', New) /\ Awaited(stack') = OpenIn(stack) \cup ({New} \ {0})
    BY <1>1, <1>5, <2>1, <2>3, AwaitIs
  <2>5. Awaited(stack') = OpenIn(stack) \cup {New}
    BY <1>5, <2>4
  <2> QED BY <1>2, <1>3, <1>4, <2>1, <2>3, <2>4, <2>5, GrownThen
<1>11. CASE SkippedMember
  <2>1. stack' = stack /\ call'.at = "skip" /\ nodes' = nodes /\ Top.of = "object"
    BY <1>11 DEF SkippedMember, Be
  <2>2. Awaited(stack) = OpenIn(stack)
    BY <1>1, <2>1, NotAwaiting
  <2> QED BY <1>2, <1>3, <1>4, <1>7, <2>1, <2>2, GrownThen
<1> QED BY <1>8, <1>9, <1>10, <1>11

LEMMA ElementGrown ==
  ASSUME Grown, IInv, NestedElement \/ ListElement \/ BadElement
  PROVE  Grown'
<1>1. /\ call.at \in {"open", "element"} /\ stack # <<>> /\ Tok.kind # "eof"
      /\ Top.of \notin {"schema", "properties"}
  BY DEF NestedElement, ListElement, BadElement, AtArrayElement, AtElement, At, TokIs, IInv, Calls
<1>2. /\ Nested(nodes, OpenIn(stack), Here(index)) /\ index \in 1..Len(tokens)
      /\ Ordered(stack, Len(nodes)) /\ Base
  BY <1>1 DEF Grown, Opened, Reached
<1>3. Awaited(stack) = OpenIn(stack)
  BY <1>1, NotAwaiting
<1>4. CASE NestedElement \/ BadElement
  <2>1. /\ tokens' = tokens /\ index' = index /\ nodes' = nodes /\ stack' = stack
        /\ call'.at \in {"schema", "skip"}
    <3>1. Be("schema", Inner(Top)) \/ Be("skip", Inner(Top))
      BY <1>4 DEF NestedElement, BadElement
    <3>2. call'.at \in {"schema", "skip"}
      BY <3>1 DEF Be
    <3> QED BY <1>4, <3>2 DEF NestedElement, BadElement
  <2> QED BY <1>2, <1>3, <2>1, GrownThen
<1>5. CASE ListElement
  <2>1. PICK v : Return([nodes EXCEPT ![Top.node].value = v], stack, 0, index + 1)
    BY <1>5 DEF ListElement
  <2> DEFINE ns == [nodes EXCEPT ![Top.node].value = v]
  <2>2. IsRow(stack) /\ Len(nodes) \in Nat /\ index + 1 \in 1..Len(tokens) /\ IsRow(nodes)
    BY <1>1, GrownIs
  <2>3. Top.node \in 1..Len(nodes)
    <3>1. FrameNode(Top, Len(nodes)) /\ Top.of \in {"type", "required"}
      BY <1>1, <1>2, <1>5, <2>2, Greatest DEF Top, ListElement
    <3> QED BY <2>2, <3>1 DEF FrameNode
  <2>4. Len(ns) = Len(nodes)
    BY <2>2, <2>3, RowExcept
  <2>5. Here(index) =< Here(index + 1) /\ Here(index + 1) \in Nat
    BY <1>2, <2>2, HereIs DEF Base
  <2>6. Nested(nodes, OpenIn(stack), Here(index + 1))
    BY <1>2, <2>5, NestedLater
  <2>7. Nested(ns, OpenIn(stack), Here(index + 1))
    BY <2>3, <2>6, NestedValue
  <2> HIDE DEF ns
  <2>8. Awaited(stack) \cup ({0} \ {0}) = OpenIn(stack)
    BY <1>3
  <2>9. Delivered(ns, Awaited(stack), 0, Here(index + 1))
    BY DEF Delivered
  <2>10. Return(ns, stack, 0, index + 1)
    BY <2>1 DEF ns
  <2> QED BY <1>2, <2>2, <2>4, <2>7, <2>8, <2>9, <2>10, ReturnGrown
<1> QED BY <1>4, <1>5

LEMMA KeywordGrown ==
  ASSUME Grown, IInv, OpenKeyword \/ TypeName \/ ParseNumber \/ TextValue \/ IgnoredValue \/ BadValue
  PROVE  Grown'
<1>1. call.at = "keyword"
  BY DEF OpenKeyword, TypeName, ParseNumber, TextValue, IgnoredValue, BadValue, AtKeyword, At
<1>2. stack # <<>> /\ Top.of = "schema"
  BY <1>1 DEF IInv, Calls
<1> DEFINE key == index - 2
           O   == OpenIn(stack)
<1>3. /\ Nested(nodes, O, Here(key)) /\ index \in 1..Len(tokens) /\ key \in 1..Len(tokens)
      /\ tokens[key].kind = "string" /\ Ordered(stack, Len(nodes)) /\ Base
  BY <1>1 DEF Grown, Opened, Reached
<1>4. /\ Len(tokens) \in Nat /\ Len(nodes) \in Nat /\ New = Len(nodes) + 1
      /\ Tok.kind # "eof" => index + 1 \in 1..Len(tokens)
  BY GrownIs DEF New
<1>5. index \in key + 1..Len(tokens) /\ index \in key..Len(tokens)
      /\ (index + 1 \in 1..Len(tokens) => index + 1 \in key + 1..Len(tokens))
  BY <1>3, <1>4
<1> HIDE DEF key, O
<1>6. ASSUME NEW x, DOMAIN x = Fields /\ x.begin = tokens[key].begin /\ x.end = x.begin /\ x.children = <<>>,
             NEW j \in key + 1..Len(tokens)
      PROVE  /\ Len(Append(nodes, x)) = New /\ New \in Nat
             /\ Nested(Append(nodes, x), O \cup {New}, Here(j)) /\ Nested(Append(nodes, x), O, Here(j))
  BY <1>3, <1>6, MadeAt
<1>7. ASSUME NEW v, NEW x \in {KeywordNode, [KeywordNode EXCEPT !.value = v]}
      PROVE  DOMAIN x = Fields /\ x.begin = tokens[key].begin /\ x.end = x.begin /\ x.children = <<>>
  <2>1. x \in {Node(Kind, Key.value, Key.begin), [Node(Kind, Key.value, Key.begin) EXCEPT !.value = v]}
    BY <1>7 DEF KeywordNode
  <2>2. DOMAIN x = Fields /\ x.begin = Key.begin /\ x.end = x.begin /\ x.children = <<>>
    BY <2>1 DEF Node, Fields
  <2> QED BY <2>2 DEF Key, key
<1>8. ASSUME NEW n \in {0, New}
      PROVE  /\ IsRow(Await(n)) /\ Ordered(Await(n), New) /\ Awaited(Await(n)) = O \cup ({n} \ {0})
             /\ n = 0 => Ordered(Await(n), Len(nodes))
  <2>1. Len(nodes) =< New /\ New \in Nat /\ n =< New /\ Len(nodes) =< Len(nodes) /\ (n = 0 => n =< Len(nodes))
    BY <1>4
  <2> QED BY <1>2, <1>4, <2>1, AwaitIs DEF O
<1>9. O \cup ({New} \ {0}) = O \cup {New} /\ O \cup ({0} \ {0}) = O /\ New # 0
  BY <1>4
<1>10. CASE OpenKeyword
  <2> DEFINE s == Await(New)
             f == Frame(Kind, Top.depth, New)
  <2>1. /\ tokens' = tokens /\ index' = index + 1 /\ nodes' = Append(nodes, KeywordNode)
        /\ stack' = Append(s, f) /\ call'.at = "open" /\ Tok.kind # "eof"
        /\ Kind \in {"type", "required", "properties", "allOf"}
    BY <1>10 DEF OpenKeyword, AtKeyword, Open, Be, TokIs, Brackets
  <2>2. f.node = New /\ f.pending = 0 /\ f.of \in {"type", "required", "properties", "allOf"}
    BY <2>1 DEF Frame
  <2>3. /\ IsRow(s) /\ s # <<>> /\ Ordered(s, New) /\ Last(s).pending = New
        /\ Awaited(s) = O \cup {New} /\ \A k \in 1..Len(s) : s[k].node \in 0..Len(nodes)
    BY <1>2, <1>4, <1>8, <1>9, AwaitIs
  <2> HIDE DEF s, f
  <2>4. Len(nodes') = New /\ Nested(nodes', O \cup {New}, Here(index + 1)) /\ New \in Nat
    BY <1>4, <1>5, <1>6, <1>7, <2>1
  <2>5. FrameNode(f, New) /\ \A k \in 1..Len(s) : Under(s[k], f)
    <3>1. \A k \in 1..Len(s) : FrameNode(s[k], New)
      BY <2>3 DEF Ordered
    <3>2. \A k \in 1..Len(s) : Under(s[k], f)
      BY <1>4, <2>2, <2>3, <3>1 DEF Under, FrameNode
    <3>3. FrameNode(f, New)
      BY <1>4, <2>2 DEF FrameNode
    <3> QED BY <3>2, <3>3
  <2>6. Ordered(Append(s, f), New)
    BY <2>2, <2>3, <2>5, OrderedAppend
  <2>7. OpenIn(stack') = O \cup {New}
    <3>1. OpenIn(stack') = Awaited(s) \cup ({f.node} \ {0})
      BY <2>1, <2>3, OpenAppend
    <3> QED BY <1>9, <2>2, <2>3, <3>1
  <2> QED BY <1>3, <1>4, <2>1, <2>4, <2>6, <2>7, GrownThen
<1>11. CASE TypeName \/ ParseNumber \/ TextValue
  <2>1. Tok.kind # "eof" /\ index + 1 \in 1..Len(tokens) /\ index + 1 \in key + 1..Len(tokens)
    BY <1>4, <1>5, <1>11 DEF TypeName, ParseNumber, TextValue, TokIs
  <2>2. (\E v : Keep(v)) \/ Drop
    BY <1>11 DEF TypeName, ParseNumber, TextValue
  <2>3. PICK n, v, x : /\ n \in {0, New} /\ x \in {KeywordNode, [KeywordNode EXCEPT !.value = v]}
                      /\ Return(Append(nodes, x), Await(n), 0, index + 1)
    BY <2>2 DEF Keep, Drop
  <2> DEFINE ns == Append(nodes, x)
             s  == Await(n)
  <2>4. IsRow(s) /\ Ordered(s, New) /\ Awaited(s) = O \cup ({n} \ {0})
    BY <1>8, <2>3
  <2>5. Len(ns) = New /\ New \in Nat /\ Nested(ns, O \cup {New}, Here(index + 1)) /\ Nested(ns, O, Here(index + 1))
    <3>1. DOMAIN x = Fields /\ x.begin = tokens[key].begin /\ x.end = x.begin /\ x.children = <<>>
      BY <1>7, <2>3
    <3> QED BY <1>6, <2>1, <3>1
  <2>6. Return(ns, s, 0, index + 1)
    BY <2>3
  <2> HIDE DEF ns, s
  <2>7. Nested(ns, Awaited(s) \cup ({0} \ {0}), Here(index + 1))
    <3>1. Awaited(s) \cup ({0} \ {0}) = IF n = New THEN O \cup {New} ELSE O
      BY <1>9, <2>3, <2>4
    <3> QED BY <2>5, <3>1
  <2>8. Delivered(ns, Awaited(s), 0, Here(index + 1))
    BY DEF Delivered
  <2> QED BY <1>3, <2>1, <2>4, <2>5, <2>6, <2>7, <2>8, ReturnGrown
<1>12. CASE IgnoredValue
  <2> DEFINE x == [KeywordNode EXCEPT !.value = {}]
  <2>1. /\ tokens' = tokens /\ index' = index /\ nodes' = Append(nodes, x)
        /\ stack' = Await(New) /\ call'.at = "skip"
    BY <1>12 DEF IgnoredValue, Be
  <2>2. DOMAIN x = Fields /\ x.begin = tokens[key].begin /\ x.end = x.begin /\ x.children = <<>>
    BY <1>7
  <2> HIDE DEF x
  <2>3. Len(nodes') = New /\ Nested(nodes', O \cup {New}, Here(index))
    BY <1>5, <1>6, <2>1, <2>2
  <2>4. Ordered(stack', New) /\ Awaited(stack') = O \cup {New}
    BY <1>8, <1>9, <2>1
  <2> QED BY <1>3, <2>1, <2>3, <2>4, GrownThen
<1>13. CASE BadValue
  <2>1. /\ tokens' = tokens /\ index' = index /\ stack' = Await(0) /\ call'.at = "skip"
        /\ nodes' = nodes \/ nodes' = Append(nodes, KeywordNode)
    BY <1>13 DEF BadValue, Be
  <2>2. Awaited(stack') = O
    BY <1>8, <1>9, <2>1
  <2>3. CASE nodes' = nodes
    <3>1. Here(key) =< Here(index) /\ Here(index) \in Nat
      BY <1>3, <1>5, HereGrows, HereIs DEF Base
    <3>2. Nested(nodes, O, Here(index))
      BY <1>3, <3>1, NestedLater
    <3>3. Ordered(stack', Len(nodes))
      BY <1>8, <2>1
    <3> QED BY <1>3, <2>1, <2>2, <2>3, <3>2, <3>3, GrownThen
  <2>4. CASE nodes' = Append(nodes, KeywordNode)
    <3>1. Len(nodes') = New /\ Nested(nodes', O, Here(index))
      BY <1>5, <1>6, <1>7, <2>4
    <3>2. Ordered(stack', New)
      BY <1>8, <2>1
    <3> QED BY <1>3, <2>1, <2>2, <3>1, <3>2, GrownThen
  <2> QED BY <2>1, <2>3, <2>4
<1> QED BY <1>10, <1>11, <1>12, <1>13

-----------------------------------------------------------------------------
(* The tree at the start.                                                *)
LEMMA ParserPlants ==
  ASSUME ParserStarts, Base
  PROVE  Grown
<1>1. index = 1 /\ nodes = <<>> /\ stack = <<>> /\ call.at = "document"
  BY DEF ParserStarts
<1>2. 1 \in 1..Len(tokens) /\ Here(1) \in Nat
  <2>1. 1 \in 1..Len(tokens)
    BY EofIsLast DEF Base
  <2> QED BY <2>1, HereIs DEF Base
<1>3. Len(nodes) = 0 /\ IsRow(nodes) /\ Len(stack) = 0
  BY <1>1, EmptySeq DEF IsRow
<1>4. Ordered(stack, Len(nodes))
  BY <1>3 DEF Ordered
<1>5. OpenIn(stack) = {}
  BY <1>1, OpenNone
<1>6. Nested(nodes, {}, Here(1))
  BY <1>2, <1>3 DEF Nested, Nodes, InOrder, KidsDone, Siblings
<1> QED BY <1>1, <1>2, <1>4, <1>5, <1>6 DEF Grown, Opened, Reached

(* Every step of the parser makes it grow.                               *)
LEMMA ParserGrows ==
  ASSUME Grown, IInv, [ParserNext]_<<tokens, parserVars>>
  PROVE  Grown'
<1>1. CASE ParserNext
  BY <1>1, DocumentGrown, SchemaGrown, BracketGrown, MemberGrown, ElementGrown, KeywordGrown,
     SkipGrown, SMTT(30) DEF ParserNext
<1>2. CASE UNCHANGED <<tokens, parserVars>>
  <2>1. /\ tokens' = tokens /\ index' = index /\ nodes' = nodes /\ stack' = stack /\ call' = call
    BY <1>2 DEF parserVars
  <2>2. Base' /\ Reached' = Reached /\ Opened' = Opened
    BY <2>1 DEF Grown, Base, LaidOut, Reached, Opened, Here, LastEnd, OpenIn, Awaited
  <2>3. Ordered(stack', Len(nodes')) /\ Nested(nodes', Opened', Reached')
    BY <2>1, <2>2 DEF Grown
  <2> QED BY <2>1, <2>2, <2>3
      DEF Grown, Ordered, Nested, FrameNode, Linked, Under, Nodes, NodeOK, InOrder,
          KidsDone, KidEnd, KidBegin, Siblings, Holds, Ahead, Fields, IsRow
<1> QED BY <1>1, <1>2

(* The nodes are a forest in the order of the text, at every moment of the*)
(* parse and whatever the tokens are, if they follow each other and eof is*)
(* the last.                                                             *)
THEOREM ParserGrown == ParserSpec /\ Base => []Grown
<1>1. ParserStarts /\ Base => Grown
  BY ParserPlants
<1>2. Grown /\ IInv /\ [ParserNext]_<<tokens, parserVars>> => Grown'
  BY ParserGrows
<1> QED BY <1>1, <1>2, ParserInvariant, PTL DEF ParserSpec

(* A tree that grew that way nests.                                      *)
LEMMA GrownNests ==
  ASSUME Grown, IInv
  PROVE  NodesNest
<1>1. /\ Nested(nodes, Opened, Reached) /\ Len(nodes) \in Nat /\ DOMAIN nodes = 1..Len(nodes)
  BY GrownIs, RowLen DEF Grown
<1>2. \A m, n \in DOMAIN nodes : m < n => nodes[m].begin.offset < nodes[n].begin.offset
  <2> SUFFICES ASSUME NEW m \in DOMAIN nodes, NEW n \in DOMAIN nodes, m < n
               PROVE  nodes[m].begin.offset < nodes[n].begin.offset
    OBVIOUS
  <2>1. n \in 1..Len(nodes) /\ m \in 1..n - 1
    BY <1>1
  <2> QED BY <1>1, <2>1 DEF Nested, InOrder
<1>3. ASSUME Done, NEW n \in DOMAIN nodes
      PROVE  LET kids == nodes[n].children
             IN /\ \A k \in DOMAIN kids : n < kids[k] /\ nodes[kids[k]].end.offset =< nodes[n].end.offset
                /\ \A k \in 2..Len(kids) : nodes[kids[k - 1]].end.offset =< nodes[kids[k]].begin.offset
  <2>1. Opened = {} /\ n \in 1..Len(nodes)
    BY <1>1, <1>3, OpenNone DEF Opened, IInv, Calls, Done, At
  <2>2. Holds(nodes, n) /\ DOMAIN nodes[n].children = 1..Len(nodes[n].children)
    BY <1>1, <2>1, RowLen DEF Nested, Nodes, NodeOK
  <2>3. \A k \in 1..Len(nodes[n].children) :
          n < nodes[n].children[k] /\ nodes[nodes[n].children[k]].end.offset =< nodes[n].end.offset
    BY <1>1, <2>1, <2>2, KidIs DEF Holds, KidEnd, Nested
  <2>4. \A k \in 2..Len(nodes[n].children) :
          nodes[nodes[n].children[k - 1]].end.offset =< nodes[nodes[n].children[k]].begin.offset
    BY <1>1, <2>1 DEF Nested, Siblings, KidEnd, KidBegin
  <2> QED BY <2>2, <2>3, <2>4
<1> QED BY <1>2, <1>3 DEF NodesNest

(* "Ids are assigned in pre-order" (Parser.h) and "no two nodes start at *)
(* the same position" (Trace.cpp), for every stream of tokens, every depth*)
(* limit and every keyword: no error, and no recovery from one, leaves a *)
(* node out of order or a child outside of its parent.                   *)
THEOREM ParserNodesNest == ParserSpec /\ IsRow(tokens) /\ LaidOut => []NodesNest
<1>1. Grown /\ IInv => NodesNest
  BY GrownNests
<1> QED BY <1>1, ParserInvariant, ParserGrown, PTL DEF Base

-----------------------------------------------------------------------------
(* A parse fails exactly when someone is told: a failure is excused by an  *)
(* error token, which the lexer reported.  Who is told nothing has a root, *)
(* and the first bracket that is parsed is the root's.                     *)
Excused == \E t \in ToSet(tokens) : t.kind = "error"

Blamed ==
  failed' = TRUE /\ IsRow(errors') /\ (errors' # <<>> \/ (errors' = errors /\ Excused))

Rooted(s) == s # <<>> => s[1].of = "schema" /\ s[1].node # 0

Told ==
  /\ IsRow(errors) /\ failed \in BOOLEAN
  /\ FailureReported /\ (errors # <<>> => failed)
  /\ ~failed => /\ Rooted(stack)
                /\ call.at = "skip" => stack # <<>>
                /\ call.at \in {"end", "done"} => root # 0

LEMMA ErrorBlames ==
  ASSUME IsRow(errors), NEW pos, NEW what, Error(pos, what)
  PROVE  Blamed
<1> DEFINE e == [what |-> what, at |-> pos]
<1>1. failed' = TRUE /\ errors' = Append(errors, e)
  BY DEF Error
<1> HIDE DEF e
<1>2. IsRow(errors') /\ Len(errors') = Len(errors) + 1 /\ Len(errors) \in Nat
  BY <1>1, RowAppend, RowLen
<1>3. errors' # <<>>
  BY <1>2, RowLen
<1> QED BY <1>1, <1>2, <1>3 DEF Blamed

LEMMA TokenExcuses ==
  ASSUME NEW i \in DOMAIN tokens, tokens[i].kind = "error"
  PROVE  Excused
BY DEF Excused, ToSet

LEMMA ErrorAtTokenBlames ==
  ASSUME IsRow(errors), NEW i \in DOMAIN tokens, NEW what, ErrorAtToken(i, what)
  PROVE  Blamed
<1>1. CASE tokens[i].kind = "error" \/ IsLastError(tokens[i].begin)
  <2>1. failed' = TRUE /\ errors' = errors
    BY <1>1 DEF ErrorAtToken, Suppressed
  <2>2. Excused \/ errors # <<>>
    BY <1>1, TokenExcuses DEF IsLastError
  <2> QED BY <2>1, <2>2 DEF Blamed
<1>2. CASE ~(tokens[i].kind = "error" \/ IsLastError(tokens[i].begin))
  <2>1. Error(tokens[i].begin, what)
    BY <1>2 DEF ErrorAtToken
  <2> QED BY <2>1, ErrorBlames
<1> QED BY <1>1, <1>2

LEMMA ErrorUnclosedBlames ==
  ASSUME IsRow(errors), ErrorUnclosed
  PROVE  Blamed
<1>1. CASE IsLastError(Tok.begin)
  BY <1>1 DEF ErrorUnclosed, Suppressed, IsLastError, Blamed
<1>2. CASE ~IsLastError(Tok.begin)
  <2>1. Error(LastEnd(index), "unclosed")
    BY <1>2 DEF ErrorUnclosed
  <2> QED BY <2>1, ErrorBlames
<1> QED BY <1>1, <1>2

(* Who fails needs nothing else; who goes on must keep the rest.           *)
LEMMA ToldBlamed ==
  ASSUME Told, Blamed, tokens' = tokens
  PROVE  Told'
<1>1. FailureReported'
  BY DEF Blamed, Excused, FailureReported
<1>2. failed' /\ failed' \in BOOLEAN /\ IsRow(errors')
  BY DEF Blamed
<1> QED BY <1>1, <1>2 DEF Told

LEMMA ToldQuiet ==
  ASSUME Told, NoError, tokens' = tokens,
         ~failed => /\ Rooted(stack')
                    /\ call'.at = "skip" => stack' # <<>>
                    /\ call'.at \in {"end", "done"} => root' # 0
  PROVE  Told'
<1>1. failed' = failed /\ errors' = errors
  BY DEF NoError
<1>2. FailureReported'
  BY <1>1 DEF Told, FailureReported
<1> QED BY <1>1, <1>2 DEF Told, Rooted

(* What a function does to the stack leaves the first bracket.             *)
LEMMA RootedAppend ==
  ASSUME NEW s, IsRow(s), Rooted(s), NEW f, s = <<>> => f.of = "schema" /\ f.node # 0
  PROVE  Rooted(Append(s, f))
<1>1. /\ Append(s, f)[Len(s) + 1] = f /\ \A k \in 1..Len(s) : Append(s, f)[k] = s[k]
      /\ Len(s) \in Nat
  BY RowAppend, RowLen
<1>2. CASE s = <<>>
  <2>1. Len(s) = 0
    BY <1>2
  <2> QED BY <1>1, <1>2, <2>1 DEF Rooted
<1>3. CASE s # <<>>
  <2>1. 1 \in 1..Len(s)
    BY <1>1, <1>3, RowLen
  <2> QED BY <1>1, <1>3, <2>1 DEF Rooted
<1> QED BY <1>2, <1>3

LEMMA AwaitRooted ==
  ASSUME Grown, IInv, stack # <<>>, Rooted(stack), NEW n, NEW t, t \in {Await(n), See(n)}
  PROVE  IsRow(t) /\ t # <<>> /\ Rooted(t)
<1>1. IsRow(stack) /\ FrameOK(Last(stack), Len(stack))
  <2>1. Frames(stack)
    BY DEF IInv
  <2>2. IsRow(stack)
    BY <2>1 DEF Frames, IsRow
  <2>3. Len(stack) \in 1..Len(stack) /\ Last(stack) = stack[Len(stack)]
    BY <2>2, RowLen
  <2> QED BY <2>1, <2>2, <2>3 DEF Frames
<1>2. Len(stack) \in 1..Len(stack) /\ DOMAIN stack = 1..Len(stack) /\ Last(stack) = stack[Len(stack)]
  BY <1>1, RowLen
<1>3. PICK f : t = WithLast(stack, f) /\ f.of = Last(stack).of /\ f.node = Last(stack).node
  <2>1. CASE t = Await(n)
    <3> DEFINE f == [Last(stack) EXCEPT !.pending = n]
    <3>1. f.of = Last(stack).of /\ f.node = Last(stack).node
      BY <1>1 DEF FrameOK
    <3>2. t = WithLast(stack, f)
      BY <1>2, <2>1 DEF Await, WithLast
    <3> HIDE DEF f
    <3> QED BY <3>1, <3>2
  <2>2. CASE t = See(n)
    <3> DEFINE g == [Last(stack) EXCEPT !.seen = @ \cup {Tok.value}]
               f == [g EXCEPT !.pending = n]
    <3>1. f.of = Last(stack).of /\ f.node = Last(stack).node
      BY <1>1 DEF FrameOK
    <3>2. t = WithLast(stack, f)
      BY <1>2, <2>2 DEF See, WithLast
    <3> HIDE DEF f
    <3> QED BY <3>1, <3>2
  <2> QED BY <2>1, <2>2
<1>4. /\ IsRow(t) /\ Len(t) = Len(stack) /\ t[Len(stack)] = f
      /\ \A k \in 1..Len(stack) : k # Len(stack) => t[k] = stack[k]
  BY <1>1, <1>2, <1>3, RowExcept DEF WithLast
<1>5. t # <<>>
  BY <1>1, <1>2, <1>4, RowLen
<1>6. t[1].of = stack[1].of /\ t[1].node = stack[1].node
  <2>1. 1 \in 1..Len(stack)
    BY <1>2
  <2>2. CASE Len(stack) = 1
    BY <1>2, <1>3, <1>4, <2>2
  <2>3. CASE Len(stack) # 1
    BY <1>4, <2>1, <2>3
  <2> QED BY <2>2, <2>3
<1> QED BY <1>4, <1>5, <1>6 DEF Rooted

(* A function that returns without an error.                               *)
LEMMA ReturnTold ==
  ASSUME Told, NoError, NEW ns, NEW frames, NEW n, NEW i, Return(ns, frames, n, i),
         ~failed => Rooted(frames) /\ (frames = <<>> => n # 0)
  PROVE  Told'
<1>1. tokens' = tokens /\ stack' = frames
  BY DEF Return
<1>2. CASE frames = <<>>
  <2>1. root' = n /\ call'.at = "end"
    BY <1>2 DEF Return, Be
  <2> QED BY <1>1, <1>2, <2>1, ToldQuiet
<1>3. CASE frames # <<>>
  <2>1. call'.at = "separator"
    BY <1>3 DEF Return, Be
  <2> QED BY <1>1, <2>1, ToldQuiet
<1> QED BY <1>2, <1>3

LEMMA LeaveTold ==
  ASSUME Told, IInv, stack # <<>>, NoError, NEW i, Leave(i)
  PROVE  Told'
<1> DEFINE n == IF Top.of = "schema" THEN Top.node ELSE 0
<1>1. IsRow(stack)
  BY DEF IInv, Frames, IsRow
<1>2. /\ Len(Front(stack)) = Len(stack) - 1 /\ IsRow(Front(stack)) /\ Len(stack) \in Nat
      /\ \A k \in 1..Len(stack) - 1 : Front(stack)[k] = stack[k]
  BY <1>1, RowFront, RowLen
<1>3. Return(Ended(nodes, n, i), Front(stack), n, i)
  BY DEF Leave
<1>4. ASSUME ~failed PROVE Rooted(Front(stack)) /\ (Front(stack) = <<>> => n # 0)
  <2>1. Rooted(stack)
    BY <1>4 DEF Told
  <2>2. CASE Front(stack) = <<>>
    <3>1. Len(stack) = 1
      BY <1>2, <2>2, EmptySeq
    <3>2. Top = stack[1]
      BY <1>1, <3>1, RowLen DEF Top
    <3> QED BY <2>1, <2>2, <3>2 DEF Rooted
  <2>3. CASE Front(stack) # <<>>
    <3>1. 1 \in 1..Len(stack) - 1
      BY <1>2, <2>3, RowLen
    <3> QED BY <1>2, <2>1, <2>3, <3>1 DEF Rooted
  <2> QED BY <2>2, <2>3
<1> HIDE DEF n
<1> QED BY <1>3, <1>4, ReturnTold

(* Values that open a bracket, or are awaited, without an error.           *)
LEMMA OpenTold ==
  ASSUME Told, NoError, NEW frames, IsRow(frames), NEW frame, Open(frames, frame),
         ~failed => Rooted(frames), frames = <<>> => failed \/ (frame.of = "schema" /\ frame.node # 0)
  PROVE  Told'
<1>1. tokens' = tokens /\ stack' = Append(frames, frame) /\ call'.at = "open"
  BY DEF Open, Be
<1>2. ~failed => Rooted(stack')
  BY <1>1, RootedAppend
<1> QED BY <1>1, <1>2, ToldQuiet

LEMMA OnwardTold ==
  ASSUME Told, NoError, tokens' = tokens, NEW at, call'.at = at, at \notin {"end", "done"},
         stack' # <<>>, ~failed => Rooted(stack')
  PROVE  Told'
BY ToldQuiet

(* The current token, and what is asked of it, are there.                  *)
LEMMA TokenThere ==
  ASSUME Grown
  PROVE  /\ index \in DOMAIN tokens
         /\ TokIs("string") => index + 1 \in DOMAIN tokens
<1>1. IsRow(tokens) /\ LaidOut /\ index \in 1..Len(tokens)
  BY DEF Grown, Base
<1> QED BY <1>1, EofIsLast DEF TokIs, Tok

LEMMA DocumentTold ==
  ASSUME Told, Grown, IInv, BeginDocument \/ EndDocument
  PROVE  Told'
<1>1. IsRow(errors) /\ tokens' = tokens /\ stack' = stack /\ root' = root /\ index \in DOMAIN tokens
  BY TokenThere DEF Told, BeginDocument, EndDocument
<1>2. ~failed => Rooted(stack)
  BY DEF Told
<1>3. CASE BeginDocument /\ TokIs("eof")
  <2>1. Blamed
    BY <1>1, <1>3, ErrorBlames DEF BeginDocument
  <2> QED BY <1>1, <2>1, ToldBlamed
<1>4. CASE BeginDocument /\ ~TokIs("eof")
  <2>1. NoError /\ call'.at = "schema"
    BY <1>4 DEF BeginDocument, Be
  <2> QED BY <1>1, <1>2, <2>1, ToldQuiet
<1>5. CASE EndDocument /\ TokIs("eof")
  <2>1. NoError /\ call'.at = "done" /\ (~failed => root # 0)
    BY <1>5 DEF EndDocument, Be, Told, At
  <2> QED BY <1>1, <1>2, <2>1, ToldQuiet
<1>6. CASE EndDocument /\ ~TokIs("eof")
  <2>1. ErrorAtToken(index, "after the schema")
    BY <1>6 DEF EndDocument
  <2>2. Blamed
    BY <1>1, <2>1, ErrorAtTokenBlames
  <2> QED BY <1>1, <2>2, ToldBlamed
<1> QED BY <1>3, <1>4, <1>5, <1>6

(* Every action that reports an error, or suppresses one.                  *)
LEMMA FailingTold ==
  ASSUME Told, Grown, IInv,
         \/ SchemaTooDeep \/ BooleanSchema \/ NotASchema \/ ElementMissing \/ BadMember
         \/ DuplicateKey \/ BadElement \/ BadValue \/ SkipTooDeep \/ SkipMissing
         \/ TrailingComma \/ SeparatorMissing \/ Resynchronize
  PROVE  Told'
<1>1. IsRow(errors) /\ index \in DOMAIN tokens
  BY TokenThere DEF Told
<1>2. tokens' = tokens
  BY DEF SchemaTooDeep, BooleanSchema, NotASchema, ElementMissing, BadMember, DuplicateKey, BadElement,
     BadValue, SkipTooDeep, SkipMissing, TrailingComma, SeparatorMissing, Resynchronize,
     SkipTo, Leave, Return, ToValue
<1>3. CASE SchemaTooDeep \/ BooleanSchema \/ NotASchema \/ BadElement \/ BadValue \/ SkipTooDeep
           \/ SkipMissing \/ Resynchronize
  <2>1. PICK what : ErrorAtToken(index, what)
    BY <1>3 DEF SchemaTooDeep, BooleanSchema, NotASchema, BadElement, BadValue, SkipTooDeep,
       SkipMissing, Resynchronize
  <2>2. Blamed
    BY <1>1, <2>1, ErrorAtTokenBlames
  <2> QED BY <1>2, <2>2, ToldBlamed
<1>4. CASE ElementMissing \/ SeparatorMissing
  <2>1. ErrorUnclosed
    BY <1>4 DEF ElementMissing, SeparatorMissing
  <2>2. Blamed
    BY <1>1, <2>1, ErrorUnclosedBlames
  <2> QED BY <1>2, <2>2, ToldBlamed
<1>5. CASE DuplicateKey \/ TrailingComma
  <2>1. PICK pos, what : Error(pos, what)
    BY <1>5 DEF DuplicateKey, TrailingComma
  <2>2. Blamed
    BY <1>1, <2>1, ErrorBlames
  <2> QED BY <1>2, <2>2, ToldBlamed
<1>6. CASE BadMember
  <2> DEFINE bad == IF TokIs("string") THEN index + 1 ELSE index
  <2>1. ErrorAtToken(bad, "member")
    BY <1>6 DEF BadMember
  <2>2. bad \in DOMAIN tokens
    BY TokenThere
  <2> HIDE DEF bad
  <2>3. Blamed
    BY <1>1, <2>1, <2>2, ErrorAtTokenBlames
  <2> QED BY <1>2, <2>3, ToldBlamed
<1> QED BY <1>3, <1>4, <1>5, <1>6

(* The actions that go on without an error.                                *)
LEMMA SchemaTold ==
  ASSUME Told, Grown, IInv, OpenSchema
  PROVE  Told'
<1> DEFINE f == Frame("schema", call.depth, New)
<1>1. NoError /\ Open(stack, f)
  BY DEF OpenSchema
<1>2. f.of = "schema" /\ f.node = New
  BY DEF Frame
<1>3. New # 0 /\ IsRow(stack) /\ (~failed => Rooted(stack))
  BY GrownIs DEF Grown, Told, New
<1> HIDE DEF f
<1> QED BY <1>1, <1>2, <1>3, OpenTold

LEMMA MemberTold ==
  ASSUME Told, Grown, IInv,
         SchemaMember \/ PropertyMember \/ SkippedMember \/ NestedElement \/ NextElement
  PROVE  Told'
<1>1. NoError /\ tokens' = tokens
  BY DEF SchemaMember, PropertyMember, SkippedMember, NestedElement, NextElement, ToValue
<1>2. stack # <<>> /\ (~failed => Rooted(stack))
  BY DEF SchemaMember, PropertyMember, SkippedMember, NestedElement, NextElement, AtMember,
     AtArrayElement, AtElement, At, IInv, Calls, Told
<1>3. call'.at \in {"keyword", "schema", "skip", "element"}
  BY DEF SchemaMember, PropertyMember, SkippedMember, NestedElement, NextElement, Be
<1>4. stack' # <<>> /\ (~failed => Rooted(stack'))
  <2>1. CASE SchemaMember \/ PropertyMember
    <3>1. PICK n : stack' = See(n)
      BY <2>1 DEF SchemaMember, PropertyMember
    <3>2. See(n) \in {Await(n), See(n)}
      OBVIOUS
    <3>3. stack' # <<>>
      <4>1. Kept(stack, See(n))
        BY <1>2, FramesSee DEF IInv
      <4> QED BY <3>1, <4>1 DEF Kept
    <3>4. ~failed => Rooted(See(n))
      BY <1>2, <3>2, AwaitRooted
    <3> QED BY <3>1, <3>3, <3>4
  <2>2. CASE SkippedMember \/ NestedElement \/ NextElement
    <3>1. stack' = stack
      BY <2>2 DEF SkippedMember, NestedElement, NextElement
    <3> QED BY <1>2, <3>1
  <2> QED BY <2>1, <2>2
<1> QED BY <1>1, <1>3, <1>4, OnwardTold

LEMMA BracketTold ==
  ASSUME Told, Grown, IInv, EmptyBrackets \/ CloseBracket
  PROVE  Told'
<1>1. stack # <<>> /\ IsRow(errors)
  BY DEF EmptyBrackets, CloseBracket, At, IInv, Calls, Told
<1>2. Leave(index + 1)
  BY DEF EmptyBrackets, CloseBracket
<1>3. CASE NoError
  BY <1>1, <1>2, <1>3, LeaveTold
<1>4. CASE \E pos, what : Error(pos, what)
  <2>1. Blamed
    BY <1>1, <1>4, ErrorBlames
  <2>2. tokens' = tokens
    BY <1>2 DEF Leave, Return
  <2> QED BY <2>1, <2>2, ToldBlamed
<1>5. NoError \/ \E pos, what : Error(pos, what)
  BY DEF EmptyBrackets, CloseBracket
<1> QED BY <1>3, <1>4, <1>5

(* A value is kept or dropped, with or without an error.                   *)
LEMMA ValueTold ==
  ASSUME Told, Grown, IInv, stack # <<>>,
         NEW ns, NEW frames, NEW i, Return(ns, frames, 0, i),
         frames = stack \/ \E n : frames = Await(n),
         NoError \/ \E pos, what : Error(pos, what)
  PROVE  Told'
<1>1. IsRow(errors) /\ (~failed => Rooted(stack)) /\ tokens' = tokens
  BY DEF Told, Return
<1>2. frames # <<>> /\ (~failed => Rooted(frames))
  <2>1. CASE frames = stack
    BY <1>1, <2>1
  <2>2. CASE \E n : frames = Await(n)
    <3>1. PICK n : frames = Await(n)
      BY <2>2
    <3>2. frames \in {Await(n), See(n)}
      BY <3>1
    <3>3. frames # <<>>
      <4>1. Kept(stack, Await(n))
        BY FramesAwait DEF IInv
      <4> QED BY <3>1, <4>1 DEF Kept
    <3> QED BY <1>1, <3>2, <3>3, AwaitRooted
  <2> QED BY <2>1, <2>2
<1>3. CASE NoError
  BY <1>2, <1>3, ReturnTold
<1>4. CASE \E pos, what : Error(pos, what)
  <2>1. Blamed
    BY <1>1, <1>4, ErrorBlames
  <2> QED BY <1>1, <2>1, ToldBlamed
<1> QED BY <1>3, <1>4

LEMMA ElementTold ==
  ASSUME Told, Grown, IInv, ListElement
  PROVE  Told'
<1>1. stack # <<>>
  BY DEF ListElement, AtArrayElement, AtElement, At, IInv, Calls
<1>2. NoError \/ \E pos, what : Error(pos, what)
  BY DEF ListElement, ReportName
<1>3. PICK ns : Return(ns, stack, 0, index + 1)
  BY DEF ListElement
<1> QED BY <1>1, <1>2, <1>3, ValueTold

LEMMA KeywordTold ==
  ASSUME Told, Grown, IInv, OpenKeyword \/ TypeName \/ ParseNumber \/ TextValue \/ IgnoredValue
  PROVE  Told'
<1>1. stack # <<>> /\ (~failed => Rooted(stack))
  BY DEF OpenKeyword, TypeName, ParseNumber, TextValue, IgnoredValue, AtKeyword, At, IInv, Calls, Told
<1>2. CASE TypeName \/ ParseNumber \/ TextValue
  <2>1. PICK ns, n : Return(ns, Await(n), 0, index + 1)
    BY <1>2 DEF TypeName, ParseNumber, TextValue, Keep, Drop
  <2>2. NoError \/ \E pos, what : Error(pos, what)
    BY <1>2 DEF TypeName, ParseNumber, TextValue, ReportName
  <2> DEFINE frames == Await(n)
  <2>3. Return(ns, frames, 0, index + 1) /\ \E m : frames = Await(m)
    BY <2>1
  <2> HIDE DEF frames
  <2> QED BY <1>1, <2>2, <2>3, ValueTold
<1>3. CASE OpenKeyword \/ IgnoredValue
  <2>1. NoError
    BY <1>3 DEF OpenKeyword, IgnoredValue
  <2> DEFINE frames == Await(New)
  <2>2. frames # <<>> /\ IsRow(frames)
    <3>1. Kept(stack, Await(New))
      BY <1>1, FramesAwait DEF IInv
    <3> QED BY <3>1 DEF Kept, Frames, IsRow
  <2>3. ~failed => Rooted(frames)
    <3>1. frames \in {Await(New), See(New)}
      OBVIOUS
    <3> HIDE DEF frames
    <3> QED BY <1>1, <3>1, AwaitRooted
  <2>4. CASE OpenKeyword
    <3> DEFINE f == Frame(Kind, Top.depth, New)
    <3>1. Open(frames, f)
      BY <2>4 DEF OpenKeyword
    <3> HIDE DEF frames, f
    <3> QED BY <2>1, <2>2, <2>3, <3>1, OpenTold
  <2>5. CASE IgnoredValue
    <3>1. stack' = frames /\ call'.at = "skip" /\ tokens' = tokens
      BY <2>5 DEF IgnoredValue, Be
    <3> HIDE DEF frames
    <3> QED BY <2>1, <2>2, <2>3, <3>1, OnwardTold
  <2> QED BY <1>3, <2>4, <2>5
<1> QED BY <1>2, <1>3

LEMMA SkipTold ==
  ASSUME Told, Grown, IInv, SkipScalar \/ SkipOpen
  PROVE  Told'
<1>1. /\ IsRow(errors) /\ IsRow(stack) /\ index \in DOMAIN tokens
      /\ ~failed => Rooted(stack) /\ stack # <<>>
  BY TokenThere DEF Told, IInv, Frames, IsRow, SkipScalar, SkipOpen, At
<1>2. CASE SkipOpen
  <2> DEFINE f == Frame(IF TokIs("l_brace") THEN "object" ELSE "array", call.depth, 0)
  <2>1. NoError /\ Open(stack, f)
    BY <1>2 DEF SkipOpen
  <2> HIDE DEF f
  <2> QED BY <1>1, <2>1, OpenTold
<1>3. CASE SkipScalar /\ TokIs("error")
  <2>1. Excused
    BY <1>1, <1>3, TokenExcuses DEF TokIs, Tok
  <2>2. failed' = TRUE /\ errors' = errors /\ tokens' = tokens
    BY <1>3 DEF SkipScalar, Suppressed, SkipTo, Return
  <2>3. Blamed
    BY <1>1, <2>1, <2>2 DEF Blamed
  <2> QED BY <2>2, <2>3, ToldBlamed
<1>4. CASE SkipScalar /\ ~TokIs("error")
  <2>1. NoError /\ Return(nodes, stack, 0, index + 1)
    BY <1>4 DEF SkipScalar, SkipTo
  <2> QED BY <1>1, <2>1, ReturnTold
<1> QED BY <1>2, <1>3, <1>4

(* Every step of the parser tells of its failures.                         *)
LEMMA ParserTells ==
  ASSUME Told, Grown, IInv, [ParserNext]_<<tokens, parserVars>>
  PROVE  Told'
<1>1. CASE ParserNext
  BY <1>1, DocumentTold, FailingTold, SchemaTold, MemberTold, BracketTold, ElementTold, KeywordTold,
     SkipTold DEF ParserNext
<1>2. CASE UNCHANGED <<tokens, parserVars>>
  BY <1>2 DEF Told, FailureReported, Rooted, parserVars
<1> QED BY <1>1, <1>2

LEMMA ParserSilent ==
  ASSUME ParserStarts
  PROVE  Told
<1>1. errors = <<>> /\ failed = FALSE /\ stack = <<>> /\ call.at = "document"
  BY DEF ParserStarts
<1>2. IsRow(errors)
  BY <1>1 DEF IsRow
<1> QED BY <1>1, <1>2 DEF Told, FailureReported, Rooted

(* Who is told that the parse failed is told why, for every stream of      *)
(* tokens: an error that is suppressed follows one that was reported, by   *)
(* the parser or by the lexer.                                             *)
THEOREM ParserFailureReported == ParserSpec /\ IsRow(tokens) /\ LaidOut => []FailureReported
<1>1. ParserStarts => Told
  BY ParserSilent
<1>2. Told /\ Grown /\ IInv /\ [ParserNext]_<<tokens, parserVars>> => Told'
  BY ParserTells
<1>3. Told => FailureReported
  BY DEF Told
<1> QED BY <1>1, <1>2, <1>3, ParserInvariant, ParserGrown, PTL DEF ParserSpec, Base

=============================================================================
