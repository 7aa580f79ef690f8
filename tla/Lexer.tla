------------------------------- MODULE Lexer -------------------------------
(***************************************************************************)
(* The lexer: a text becomes tokens, the last of which is eof.  What is no *)
(* token becomes an error token and a diagnostic, and lexing goes on.      *)
(*                                                                         *)
(* Offsets count from 0, as in the code.  The four digits of a \u escape   *)
(* are one character; fewer than four are a character that is not in the   *)
(* domain of HexUnit.                                                      *)
(***************************************************************************)
EXTENDS Tokens, Selection

CONSTANTS
  Alpha,      \* letters
  HexUnit,    \* what four hexadecimal digits stand for
  Utf8,       \* the character of a code point, for those that have one
  BOM         \* the byte order mark

VARIABLES
  text,            \* the source, never changed
  allowComments,   \* --allow-comments, never changed
  pos,             \* where the next token is looked for
  lexErrors,       \* the diagnostics: what, and where
  hadError

lexerVars == <<text, allowComments, pos, tokens, lexErrors, hadError>>

End == Len(text)
NUL == "\\0"

(* The byte order mark and the digits are text; past the end there is none.*)
ASSUME LexerAssumption == NUL \notin {BOM} \cup DOMAIN HexUnit

(* What peek returns: a NUL past the end. *)
Peek(i) == IF i < End THEN text[i + 1] ELSE NUL
While(i, set) ==
  LET go[j \in i..End] == IF j < End /\ Peek(j) \in set THEN go[j + 1] ELSE j IN go[i]

White  == {" ", "\t", "\n", "\r"}
Digit  == {"0", "1", "2", "3", "4", "5", "6", "7", "8", "9"}
Control == {"\t", "\r", "\f", NUL}
Punctuation ==
  [c \in {"{", "}", "[", "]", ":", ","} |->
    CASE c = "{" -> "l_brace"  [] c = "}" -> "r_brace" [] c = "[" -> "l_square"
      [] c = "]" -> "r_square" [] c = ":" -> "colon"   [] c = "," -> "comma"]
Escape ==
  [c \in {"\"", "\\", "/", "b", "f", "n", "r", "t"} |->
    CASE c = "b" -> "\\b" [] c = "f" -> "\f" [] c = "n" -> "\n"
      [] c = "r" -> "\r"  [] c = "t" -> "\t" [] OTHER -> c]

-----------------------------------------------------------------------------
(* Comments.                                                               *)

IsComment(i) == Peek(i) = "/" /\ Peek(i + 1) \in {"/", "*"}

(* Bug: the comment ends before its last slash. *)
CommentEnd_Short(i) ==
  IF Peek(i + 1) = "/" THEN {While(i + 1, {c \in ToSet(text) : c # "\n"})}
  ELSE LET ends == {j \in i + 2..End - 2 : Peek(j) = "*" /\ Peek(j + 1) = "/"}
       IN {e \in {j + 1 : j \in ends} : \A j \in ends : e =< j + 1}

(* Where the comment at i ends, if it does. *)
CommentEnd(i) ==
  IF Peek(i + 1) = "/" THEN {While(i + 1, {c \in ToSet(text) : c # "\n"})}
  ELSE LET ends == {j \in i + 2..End - 2 : Peek(j) = "*" /\ Peek(j + 1) = "/"}
       IN {e \in {j + 2 : j \in ends} : \A j \in ends : e =< j + 2}

(* Where the next token begins. *)
NextToken(from) ==
  LET skip[i \in 0..End] ==
        LET j == While(i, White)
        IN IF allowComments /\ IsComment(j) /\ CommentEnd(j) # {}
           THEN skip[CHOOSE e \in CommentEnd(j) : TRUE] ELSE j
  IN skip[from]

-----------------------------------------------------------------------------
(* The token at i: its kind, its value, its end, and what is wrong with it *)
(* and where, in the order it is found.                                    *)

Scanned(kind, value, end) == [kind |-> kind, value |-> value, end |-> end, wrong |-> <<>>]
Wrong(what, at, end) ==
  [kind |-> "error", value |-> <<>>, end |-> end, wrong |-> <<[what |-> what, at |-> at]>>]

High == 55296..56319
Low  == 56320..57343

(* Bug: the halves are joined without what a pair starts at. *)
Join_NoBase(high, low) == (high - 55296) * 1024 + (low - 56320)

Join(high, low) == 65536 + (high - 55296) * 1024 + (low - 56320)

AppendUTF8(code) == IF code \in DOMAIN Utf8 THEN <<Utf8[code]>> ELSE <<>>

(* The escape at i, a backslash. *)
Unicode(i) ==
  LET unit == HexUnit[Peek(i + 2)]
      low  == HexUnit[Peek(i + 5)]
      bad(what, end) == Wrong(what, i, end)
  IN IF Peek(i + 2) \notin DOMAIN HexUnit THEN bad("digits", i + 2)
     ELSE IF unit \in Low THEN bad("low surrogate", i + 3)
     ELSE IF unit \notin High THEN Scanned("string", AppendUTF8(unit), i + 3)
     ELSE IF Peek(i + 3) # "\\" \/ Peek(i + 4) # "u" THEN bad("high surrogate", i + 3)
     ELSE IF Peek(i + 5) \notin DOMAIN HexUnit THEN bad("high surrogate", i + 5)
     ELSE IF low \notin Low THEN bad("high surrogate", i + 6)
     ELSE Scanned("string", AppendUTF8(Join(unit, low)), i + 6)

Escaped(i) ==
  LET c == Peek(i + 1)
  IN IF c \in DOMAIN Escape THEN Scanned("string", <<Escape[c]>>, i + 2)
     ELSE IF c = "u" THEN Unicode(i)
     ELSE Wrong("escape", i, IF c = "\n" \/ i + 1 >= End THEN i + 1 ELSE i + 2)

(* One turn of the loop over a string. *)
Piece(i) ==
  LET c == Peek(i)
  IN IF c \in Control THEN Wrong("control character", i, i + 1)
     ELSE IF c = "\\" THEN Escaped(i) ELSE Scanned("string", <<c>>, i + 1)

(* Bug: every problem in a string is reported. *)
LexString_ReportAll(begin) ==
  LET scan[i \in 0..End] ==
        IF i = End \/ Peek(i) = "\n" THEN Wrong("unterminated string", begin, i)
        ELSE IF Peek(i) = "\"" THEN Scanned("string", <<>>, i + 1)
        ELSE LET p == Piece(i)  rest == scan[p.end]
             IN [rest EXCEPT !.value = p.value \o @, !.wrong = p.wrong \o @]
      s == scan[begin + 1]
  IN IF s.wrong = <<>> THEN s ELSE [s EXCEPT !.kind = "error", !.value = <<>>]

(* The first problem in a string is reported; the token still ends at the  *)
(* closing quote.                                                          *)
LexString(begin) ==
  LET scan[i \in 0..End] ==
        IF i = End \/ Peek(i) = "\n" THEN Wrong("unterminated string", begin, i)
        ELSE IF Peek(i) = "\"" THEN Scanned("string", <<>>, i + 1)
        ELSE LET p == Piece(i)  rest == scan[p.end]
             IN [rest EXCEPT !.value = p.value \o @, !.wrong = p.wrong \o @]
      s == scan[begin + 1]
  IN IF s.wrong = <<>> THEN s ELSE Wrong(s.wrong[1].what, s.wrong[1].at, s.end)

(* A number: where its integer, fraction, exponent and its digits begin.   *)
LexNumber(begin) ==
  LET int  == IF Peek(begin) = "-" THEN begin + 1 ELSE begin
      frac == IF Peek(int) = "0" THEN int + 1 ELSE While(int, Digit)
      exp  == IF Peek(frac) = "." THEN While(frac + 1, Digit) ELSE frac
      sign == IF Peek(exp + 1) \in {"+", "-"} THEN exp + 2 ELSE exp + 1
      end  == IF Peek(exp) \in {"e", "E"} THEN While(sign, Digit) ELSE exp
      bad(what, at) == Wrong(what, at, While(at, Alpha \cup Digit \cup {".", "+", "-"}))
  IN IF frac = int THEN bad("digit after -", int)
     ELSE IF Peek(int) = "0" /\ Peek(frac) \in Digit THEN bad("leading zero", frac)
     ELSE IF Peek(frac) = "." /\ exp = frac + 1 THEN bad("digit after .", exp)
     ELSE IF Peek(exp) \in {"e", "E"} /\ end = sign THEN bad("digit in exponent", sign)
     ELSE IF Peek(end) \in Alpha \cup {"."} THEN bad("character", end)
     ELSE Scanned("number", SubSeq(text, begin + 1, end), end)

LexWord(begin) ==
  LET end  == While(begin, Alpha \cup Digit \cup {"_"})
      word == Text(SubSeq(text, begin + 1, end))
  IN IF word \in {"true", "false", "null"} THEN Scanned(word, <<>>, end)
     ELSE Wrong("literal", begin, end)

Scan(i) ==
  LET c == Peek(i)
  IN IF i = End THEN Scanned("eof", <<>>, i)
     ELSE IF c \in DOMAIN Punctuation THEN Scanned(Punctuation[c], <<>>, i + 1)
     ELSE IF c = "\"" THEN LexString(i)
     ELSE IF IsComment(i) THEN Wrong("comment", i, Min(CommentEnd(i) \cup {End}))
     ELSE IF c \in Digit \cup {"-"} THEN LexNumber(i)
     ELSE IF c \in Alpha \cup {"_"} THEN LexWord(i)
     ELSE Wrong("character", i, i + 1)

-----------------------------------------------------------------------------
LexDone == tokens # <<>> /\ Last(tokens).kind = "eof"

(* The position at an offset further on. *)
To(p, offset) ==
  LET at[o \in p.offset..offset] ==
        IF o = p.offset THEN p ELSE Advance(at[o - 1], text[o])
  IN at[offset]

LexToken ==
  /\ ~LexDone
  /\ \E begin \in {To(pos, NextToken(pos.offset))} : \E s \in {Scan(begin.offset)} :
       /\ tokens' = Append(tokens, [kind |-> s.kind, value |-> s.value,
                                    begin |-> begin, end |-> To(begin, s.end)])
       /\ pos' = To(begin, s.end)
       /\ lexErrors' = lexErrors \o [k \in DOMAIN s.wrong |->
                         [what |-> s.wrong[k].what, at |-> To(begin, s.wrong[k].at)]]
       /\ hadError' = (hadError \/ s.wrong # <<>>)
  /\ UNCHANGED <<text, allowComments>>

LexerStarts ==
  /\ pos = IF Peek(0) = BOM THEN Advance(Start, BOM) ELSE Start
  /\ tokens = <<>> /\ lexErrors = <<>> /\ hadError = FALSE

-----------------------------------------------------------------------------
(* What RFC 8259 says, of the text from i up to, not including, j.         *)

Slice(i, j) == SubSeq(text, i + 1, j)
Matches(s, set) == s # <<>> /\ ToSet(s) \subseteq set

(* What a part of a string means: one character, an escape, the character  *)
(* of a code unit, or the one two surrogates encode in UTF-16.             *)
Surrogates(code) == <<55296 + (code - 65536) \div 1024, 56320 + ((code - 65536) % 1024)>>

Means(s) ==
  {<<c>> : c \in {d \in ToSet(s) : Len(s) = 1 /\ d \notin Control \cup {"\"", "\\", "\n"}}}
  \cup {<<Escape[s[2]]>> : e \in {s} \cap ({"\\"} \X DOMAIN Escape)}
  \cup {<<Utf8[c]>> : c \in {d \in DOMAIN Utf8 \cap 0..65535 :
                              \E u \in DOMAIN HexUnit : s = <<"\\", "u", u>> /\ HexUnit[u] = d}}
  \cup {<<Utf8[c]>> : c \in {d \in DOMAIN Utf8 \ 0..65535 :
                              \E u, v \in DOMAIN HexUnit :
                                /\ s = <<"\\", "u", u, "\\", "u", v>>
                                /\ <<HexUnit[u], HexUnit[v]>> = Surrogates(d)}}

Spelled(i, j) ==
  LET of[a \in i..j] ==
        IF a = j THEN {<<>>}
        ELSE UNION {{v \o rest : v \in Means(Slice(a, b)), rest \in of[b]} : b \in a + 1..Min({j, a + 6})}
  IN of[i]

Signed(s) == s # <<>> /\ Matches(IF s[1] \in {"+", "-"} THEN Tail(s) ELSE s, Digit)

IsNumber(s) ==
  \E a \in 0..1, b, c \in 0..Len(s) :
    LET int == SubSeq(s, a + 1, b)  frac == SubSeq(s, b + 1, c)  exp == SubSeq(s, c + 1, Len(s))
    IN /\ a =< b /\ b =< c /\ SubSeq(s, 1, a) \in {<<>>, <<"-">>}
       /\ Matches(int, Digit) /\ (Len(int) > 1 => int[1] # "0")
       /\ frac = <<>> \/ (frac[1] = "." /\ Matches(Tail(frac), Digit))
       /\ exp = <<>> \/ (exp[1] \in {"e", "E"} /\ Signed(Tail(exp)))

IsWhole(i, j) ==
  LET open == Slice(i, Min({i + 2, End}))
  IN \/ /\ open = <<"/", "/">> /\ j >= i + 2 /\ (j = End \/ Peek(j) = "\n")
        /\ "\n" \notin ToSet(Slice(i, j))
     \/ /\ open = <<"/", "*">>
        /\ {k \in i + 4..j : Slice(k - 2, k) = <<"*", "/">>} = {j}

(* White space and, where they are allowed, comments. *)
Ignorable(i, j) ==
  LET of[a \in i..j] ==
        \/ a = j
        \/ Peek(a) \in White /\ of[a + 1]
        \/ allowComments /\ \E b \in a + 2..j : IsWhole(a, b) /\ of[b]
  IN of[i]

(* The tokens the text may be, with nothing of them left over. *)
Readings(i, j) ==
  LET s == Slice(i, j)
  IN {<<Punctuation[c], <<>>>> : c \in {d \in DOMAIN Punctuation : s = <<d>>}}
     \cup {<<"string", v>> : v \in IF Len(s) >= 2 /\ {s[1], Last(s)} = {"\""}
                                  THEN Spelled(i + 1, j - 1) ELSE {}}
     \cup {<<"number", n>> : n \in {m \in {s} : /\ Peek(j) \notin Digit \cup Alpha \cup {"."}
                                               /\ IsNumber(m)}}
     \cup {<<w, <<>>>> : w \in {v \in {"true", "false", "null"} :
                                 Peek(j) \notin Digit \cup Alpha \cup {"_"} /\ Text(s) = v}}

-----------------------------------------------------------------------------
(* The properties speak of the token made last, and so of every token when *)
(* it is made.                                                             *)
Newest == Last(tokens)

(* The tokens and what may be ignored between them make up the whole text, *)
(* up to one eof at its end, as the parser needs; a comment is never cut.  *)
TokensTile ==
  tokens # <<>> =>
    LET n     == Len(tokens)
        first == IF Peek(0) = BOM THEN 1 ELSE 0
        begin == Newest.begin.offset
        end   == Newest.end.offset
    IN /\ Ignorable(IF n = 1 THEN first ELSE tokens[n - 1].end.offset, begin)
       /\ begin = End \/ ~Ignorable(begin, begin + 1)
       /\ \A j \in begin..End : IsWhole(begin, j) => ~allowComments /\ end = j
       /\ IF Newest.kind = "eof" THEN begin = End /\ end = End /\ LaidOut
                                ELSE begin < end /\ end =< End

(* A token is what RFC 8259 reads there, with the value its spelling has,  *)
(* and an error is reported only where the RFC reads nothing: numbers,     *)
(* escapes, surrogate pairs and literals.                                  *)
TokensLegal ==
  tokens # <<>> /\ Newest.kind # "eof" =>
    LET begin == Newest.begin.offset
    IN IF Newest.kind = "error" THEN \A j \in begin + 1..End : Readings(begin, j) = {}
       ELSE <<Newest.kind, Newest.value>> \in Readings(begin, Newest.end.offset)

(* The error tokens. *)
Errors == {k \in DOMAIN tokens : tokens[k].kind = "error"}

(* "Lexical errors are reported through the context's diagnostic engine    *)
(* and produce `Error` tokens" (Lexer.h): the reports and the error tokens *)
(* go together one by one, in order, and a report lies in its token.       *)
OneReport ==
  /\ Cardinality(Errors) = Len(lexErrors) /\ hadError = (Errors # {})
  /\ \A k \in Errors :
       lexErrors[Cardinality(Errors \cap 1..k)].at.offset
         \in tokens[k].begin.offset..tokens[k].end.offset

(* getOffset: line and column lead back to the offset, so that what is     *)
(* located by line and column is found in the text again.                  *)
LineStarts == <<0>> \o Selected([i \in 1..End |-> i], {i \in 1..End : text[i] = "\n"})

GetOffset(line, column) ==
  Min({End, LineStarts[Min({line, Len(LineStarts)})] + column - 1})

Resolves(p) == GetOffset(p.line, p.column) = p.offset

PositionsResolve ==
  tokens # <<>> => /\ Resolves(Newest.begin) /\ Resolves(Newest.end)
                   /\ lexErrors # <<>> => Resolves(Last(lexErrors).at)

=============================================================================
