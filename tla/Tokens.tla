------------------------------- MODULE Tokens -------------------------------
(***************************************************************************)
(* The tokens the lexer hands to the parser, and the places in the source  *)
(* text they and the diagnostics carry.  The text is a sequence of         *)
(* characters; letters that are only compared as a whole may be one of     *)
(* them, and so may the bytes of one UTF-8 character.  Columns and offsets *)
(* count these characters.                                                 *)
(***************************************************************************)
EXTENDS Integers, SequencesExt

VARIABLE tokens   \* [kind, value, begin, end]

TokenKind ==
  {"l_brace", "r_brace", "l_square", "r_square", "colon", "comma", "string",
   "number", "true", "false", "null", "eof", "error"}

(* A SourcePos: the start of the text, and the place after a character c.  *)
Start == [offset |-> 0, line |-> 1, column |-> 1]

(* Bug: the lines are not counted. *)
Advance_SameLine(p, c) ==
  [offset |-> p.offset + 1, line |-> p.line, column |-> IF c = "\n" THEN 1 ELSE p.column + 1]

(* Bug: a new line starts at column 0. *)
Advance_Zero(p, c) ==
  [offset |-> p.offset + 1,
   line   |-> IF c = "\n" THEN p.line + 1 ELSE p.line,
   column |-> IF c = "\n" THEN 0 ELSE p.column + 1]

Advance(p, c) ==
  [offset |-> p.offset + 1,
   line   |-> IF c = "\n" THEN p.line + 1 ELSE p.line,
   column |-> IF c = "\n" THEN 1 ELSE p.column + 1]

Is(i, kinds) == i \in DOMAIN tokens /\ tokens[i].kind \in kinds

(* What a parser needs of tokens: they follow each other in the text, none *)
(* is empty but eof, and eof is the last.                                  *)
LaidOut ==
  /\ tokens # <<>> /\ Last(tokens).kind = "eof"
  /\ \A k \in DOMAIN tokens :
       LET begin == tokens[k].begin.offset
           end   == tokens[k].end.offset
       IN /\ begin \in Nat /\ end \in Nat /\ begin =< end
          /\ tokens[k].kind # "eof" => begin < end
          /\ k > 1 => tokens[k - 1].end.offset =< begin

(* The characters of a value in one string. *)
Text(value) == FoldLeft(LAMBDA s, c : s \o c, "", value)

=============================================================================
