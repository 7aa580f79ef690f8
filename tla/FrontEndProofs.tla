--------------------------- MODULE FrontEndProofs ---------------------------
(***************************************************************************)
(* Theorems about the front end, for every text, every option and every    *)
(* way the characters are read.                                            *)
(***************************************************************************)
EXTENDS FrontEnd, ParserProofs

-----------------------------------------------------------------------------
(* Going on while the characters are of a set.                             *)
LEMMA WhileIs ==
  ASSUME IsRow(text), NEW i \in 0..End, NEW set
  PROVE  /\ While(i, set) \in i..End
         /\ i < End /\ Peek(i) \in set => While(i, set) > i
         /\ \A k \in i..While(i, set) - 1 : Peek(k) \in set
         /\ While(i, set) < End => Peek(While(i, set)) \notin set
<1> DEFINE D == i..End
           Step(f, j) == IF j < End /\ Peek(j) \in set THEN f[j + 1] ELSE j
           G == [p \in D \X [D -> D] |-> Step(p[2], p[1])]
           rank == [j \in D |-> End - j]
<1>0. End \in Nat /\ i \in D
  BY RowLen DEF End
<1>1. \A j \in D, f \in [D -> D] : G[<<j, f>>] = Step(f, j) /\ Step(f, j) \in D
  <2> SUFFICES ASSUME NEW j \in D, NEW f \in [D -> D]
               PROVE  G[<<j, f>>] = Step(f, j) /\ Step(f, j) \in D
    OBVIOUS
  <2>1. G[<<j, f>>] = Step(f, j)
    OBVIOUS
  <2>2. j < End => j + 1 \in D
    BY <1>0
  <2>3. Step(f, j) \in D
    BY <2>2
  <2> QED BY <2>1, <2>3
<1>2. G \in [D \X [D -> D] -> D]
  BY <1>1
<1> HIDE DEF G
<1>3. rank \in [D -> 0..End]
  BY <1>0
<1>4. Descends(G, D, D, rank, End)
  <2>1. ASSUME NEW j \in D, NEW g \in [D -> D], NEW h \in [D -> D],
               \A m \in D : rank[m] < rank[j] => g[m] = h[m]
        PROVE  G[<<j, g>>] = G[<<j, h>>]
    <3>1. j < End => j + 1 \in D /\ rank[j + 1] < rank[j]
      BY <1>0
    <3>2. Step(g, j) = Step(h, j)
      BY <2>1, <3>1
    <3> QED BY <1>1, <3>2
  <2> HIDE DEF D, rank
  <2> QED BY <1>0, <1>2, <1>3, <2>1 DEF Descends
<1>5. PICK f \in [D -> D] : Solves(f, G, D)
  <2> HIDE DEF D, rank
  <2> QED BY <1>4, RecursionExists
<1> DEFINE IsGo(g) == g = [j \in D |-> Step(g, j)]
           go == CHOOSE g : IsGo(g)
<1>6. IsGo(f)
  BY <1>1, <1>5 DEF Solves
<1>7. While(i, set) = go[i]
  BY DEF While
<1> HIDE DEF IsGo
<1>8. IsGo(go)
  BY <1>6
<1> HIDE DEF go
<1>9. \A j \in D : go[j] = Step(go, j)
  BY <1>8 DEF IsGo
<1> DEFINE Far(j) == /\ go[j] \in j..End /\ \A k \in j..go[j] - 1 : Peek(k) \in set
                     /\ go[j] < End => Peek(go[j]) \notin set
           P == {j \in D : Far(j)}
<1>10. \A j \in D : (\A m \in D : rank[m] < rank[j] => m \in P) => j \in P
  <2> SUFFICES ASSUME NEW j \in D, \A m \in D : rank[m] < rank[j] => m \in P
               PROVE  j \in P
    OBVIOUS
  <2>1. j < End => j + 1 \in D /\ rank[j + 1] < rank[j]
    BY <1>0
  <2>2. j < End => Far(j + 1)
    BY <2>1
  <2>3. go[j] = Step(go, j)
    BY <1>9
  <2>4. CASE j < End /\ Peek(j) \in set
    <3>1. go[j] = go[j + 1] /\ Far(j + 1)
      BY <2>2, <2>3, <2>4
    <3>2. go[j] \in j..End /\ go[j] \in j + 1..End
      BY <1>0, <3>1, SMTT(30)
    <3>3. ASSUME NEW k \in j..go[j] - 1
          PROVE  Peek(k) \in set
      <4>1. k = j \/ k \in j + 1..go[j] - 1
        BY <1>0, <3>2
      <4> QED BY <2>4, <3>1, <4>1
    <3> QED BY <3>1, <3>2, <3>3
  <2>5. CASE ~(j < End /\ Peek(j) \in set)
    <3>1. go[j] = j
      BY <2>3, <2>5
    <3>2. j \in j..End /\ j..j - 1 = {}
      BY <1>0
    <3> QED BY <2>5, <3>1, <3>2
  <2> QED BY <2>4, <2>5
<1>11. \A j \in D : j \in P
  <2> HIDE DEF P, D, rank
  <2> QED BY <1>3, <1>10, RankInduction
<1>12. Far(i)
  BY <1>0, <1>11
<1>13. i < End /\ Peek(i) \in set => go[i] = go[i + 1] /\ go[i + 1] \in i + 1..End
  BY <1>0, <1>9, <1>11, SMTT(30)
<1>14. i < End /\ Peek(i) \in set => go[i] > i
  BY <1>0, <1>13, SMTT(30)
<1> HIDE DEF P
<1> QED BY <1>7, <1>12, <1>14

(* A place of the text that has a character is before its end.             *)
LEMMA PeekIs ==
  ASSUME IsRow(text), NEW i \in 0..End
  PROVE  Peek(i) # NUL => i < End /\ i + 1 \in 0..End
BY RowLen DEF Peek, End

(* Where a comment ends is behind where it begins.                         *)
LEMMA CommentEndIs ==
  ASSUME IsRow(text), NEW i \in 0..End, IsComment(i)
  PROVE  CommentEnd(i) \subseteq i + 1..End
<1>0. End \in Nat
  BY RowLen DEF End
<1>1. "/" # NUL
  BY DEF NUL
<1>2. i + 1 \in 0..End
  BY <1>1, PeekIs DEF IsComment
<1> DEFINE line == {c \in ToSet(text) : c # "\n"}
<1>3. CASE Peek(i + 1) = "/"
  <2>1. CommentEnd(i) = {While(i + 1, line)}
    BY <1>3 DEF CommentEnd
  <2> HIDE DEF line
  <2>2. While(i + 1, line) \in i + 1..End
    BY <1>2, WhileIs
  <2> QED BY <2>1, <2>2
<1>4. CASE Peek(i + 1) # "/"
  <2> DEFINE ends == {j \in i + 2..End - 2 : Peek(j) = "*" /\ Peek(j + 1) = "/"}
  <2>1. CommentEnd(i) = {e \in {j + 2 : j \in ends} : \A j \in ends : e =< j + 2}
    BY <1>4 DEF CommentEnd
  <2>2. \A j \in ends : j + 2 \in i + 1..End
    BY <1>0
  <2> HIDE DEF ends
  <2> QED BY <2>1, <2>2
<1> QED BY <1>3, <1>4

(* What holds when it holds from the next place on holds from any place on.*)
LEMMA FromTheEnd ==
  ASSUME NEW N \in Nat, NEW P, \A i \in 0..N : (\A m \in i + 1..N : m \in P) => i \in P
  PROVE  \A i \in 0..N : i \in P
<1> DEFINE D == 0..N
           rank == [i \in D |-> N - i]
<1>1. rank \in [D -> 0..N]
  OBVIOUS
<1>2. ASSUME NEW i \in D, \A m \in D : rank[m] < rank[i] => m \in P
      PROVE  i \in P
  <2>1. \A m \in i + 1..N : m \in D /\ rank[m] < rank[i]
    OBVIOUS
  <2> QED BY <1>2, <2>1
<1> HIDE DEF rank
<1>3. \A i \in D : i \in P
  <2> HIDE DEF D
  <2> QED BY <1>1, <1>2, RankInduction
<1> QED BY <1>3

(* A comment is skipped and looked behind.                                 *)
Skips(i)  == allowComments /\ IsComment(While(i, White)) /\ CommentEnd(While(i, White)) # {}
Behind(i) == CHOOSE e \in CommentEnd(While(i, White)) : TRUE

LEMMA BehindIs ==
  ASSUME IsRow(text), NEW i \in 0..End, Skips(i)
  PROVE  Behind(i) \in i + 1..End /\ Behind(i) \in CommentEnd(While(i, White))
<1>1. End \in Nat /\ While(i, White) \in i..End
  BY RowLen, WhileIs DEF End
<1>2. While(i, White) \in 0..End
  BY <1>1
<1>3. CommentEnd(While(i, White)) \subseteq While(i, White) + 1..End
  BY <1>2, CommentEndIs DEF Skips
<1>4. Behind(i) \in CommentEnd(While(i, White))
  BY DEF Skips, Behind
<1> QED BY <1>1, <1>3, <1>4

LEMMA NextTokenSkips ==
  ASSUME IsRow(text), NEW from \in 0..End
  PROVE  NextToken(from) = IF Skips(from) THEN NextToken(Behind(from)) ELSE While(from, White)
<1> DEFINE D == 0..End
           Step(f, i) == IF Skips(i) THEN f[Behind(i)] ELSE While(i, White)
           G == [p \in D \X [D -> D] |-> Step(p[2], p[1])]
           rank == [i \in D |-> End - i]
<1>0. End \in Nat
  BY RowLen DEF End
<1>1. \A i \in D : While(i, White) \in i..End
  BY WhileIs
<1>2. ASSUME NEW i \in D, Skips(i) PROVE Behind(i) \in i + 1..End
  BY <1>2, BehindIs
<1>3. \A i \in D, f \in [D -> D] : G[<<i, f>>] = Step(f, i) /\ Step(f, i) \in D
  <2> SUFFICES ASSUME NEW i \in D, NEW f \in [D -> D]
               PROVE  G[<<i, f>>] = Step(f, i) /\ Step(f, i) \in D
    OBVIOUS
  <2>1. G[<<i, f>>] = Step(f, i)
    OBVIOUS
  <2>2. (Skips(i) => Behind(i) \in D) /\ While(i, White) \in D
    BY <1>0, <1>1, <1>2, SMTT(30)
  <2>3. Step(f, i) \in D
    BY <2>2
  <2> QED BY <2>1, <2>3
<1>4. G \in [D \X [D -> D] -> D]
  BY <1>3
<1> HIDE DEF G
<1>5. rank \in [D -> 0..End]
  BY <1>0
<1>14. \A i \in D : \A e \in i + 1..End : e \in D /\ rank[e] < rank[i] /\ e..End \subseteq i..End
  BY <1>0
<1>6. Descends(G, D, D, rank, End)
  <2>1. ASSUME NEW i \in D, NEW g \in [D -> D], NEW h \in [D -> D],
               \A m \in D : rank[m] < rank[i] => g[m] = h[m]
        PROVE  G[<<i, g>>] = G[<<i, h>>]
    <3> HIDE DEF D, rank
    <3>1. Skips(i) => Behind(i) \in D /\ rank[Behind(i)] < rank[i]
      BY <1>2, <1>14
    <3>2. Step(g, i) = Step(h, i)
      BY <2>1, <3>1
    <3> QED BY <1>3, <3>2
  <2>2. D # {}
    BY <1>0
  <2> HIDE DEF D, rank
  <2> QED BY <1>0, <1>4, <1>5, <2>1, <2>2 DEF Descends
<1>7. PICK f \in [D -> D] : Solves(f, G, D)
  <2> HIDE DEF D, rank
  <2> QED BY <1>6, RecursionExists
<1> DEFINE IsSkip(g) == g = [i \in D |-> Step(g, i)]
           skip == CHOOSE g : IsSkip(g)
<1>8. IsSkip(f)
  BY <1>3, <1>7 DEF Solves
<1>9. \A i : NextToken(i) = skip[i]
  BY DEF NextToken, Skips, Behind
<1> HIDE DEF IsSkip
<1>10. IsSkip(skip)
  BY <1>8
<1> HIDE DEF skip
<1>11. \A i \in D : skip[i] = Step(skip, i)
  BY <1>10 DEF IsSkip
<1> QED BY <1>9, <1>11

(* The next token begins where it is looked for, or behind it.             *)
LEMMA NextTokenIs ==
  ASSUME IsRow(text), NEW from \in 0..End
  PROVE  NextToken(from) \in from..End
<1> DEFINE P == {i \in 0..End : NextToken(i) \in i..End}
<1>1. End \in Nat
  BY RowLen DEF End
<1>2. ASSUME NEW i \in 0..End, \A m \in i + 1..End : m \in P
      PROVE  i \in P
  <2>1. CASE Skips(i)
    <3>1. NextToken(i) = NextToken(Behind(i)) /\ Behind(i) \in i + 1..End
      BY <2>1, BehindIs, NextTokenSkips
    <3>2. NextToken(Behind(i)) \in Behind(i)..End
      BY <1>2, <3>1
    <3>3. NextToken(i) \in i..End
      BY <3>1, <3>2
    <3> QED BY <3>3
  <2>2. CASE ~Skips(i)
    <3>1. NextToken(i) \in i..End
      BY <2>2, NextTokenSkips, WhileIs
    <3> QED BY <3>1
  <2> QED BY <2>1, <2>2
<1> HIDE DEF P
<1>3. from \in P
  BY <1>1, <1>2, FromTheEnd
<1> QED BY <1>3 DEF P

-----------------------------------------------------------------------------
(* A token: it is not empty unless it is eof, it ends in the text, and it  *)
(* is an error exactly when something in it is wrong.                      *)
TokenAt(s, i) ==
  /\ s.end \in i..End
  /\ IF s.kind = "eof" THEN i = End /\ s.end = End ELSE i < s.end
  /\ IF s.kind = "error" THEN \E w : s.wrong = <<w>> /\ w.at \in i..s.end ELSE s.wrong = <<>>

LEMMA ScannedAt ==
  ASSUME NEW kind, kind \notin {"eof", "error"}, NEW value, NEW i \in Int, NEW end \in i + 1..End, End \in Nat
  PROVE  TokenAt(Scanned(kind, value, end), i)
<1> DEFINE s == Scanned(kind, value, end)
<1>1. s.kind = kind /\ s.end = end /\ s.wrong = <<>>
  BY DEF Scanned
<1> QED BY <1>1 DEF TokenAt

LEMMA WrongAt ==
  ASSUME NEW what, NEW i \in Int, NEW end \in i + 1..End, NEW at \in i..end, End \in Nat
  PROVE  TokenAt(Wrong(what, at, end), i)
<1> DEFINE s == Wrong(what, at, end)
           w == [what |-> what, at |-> at]
<1>1. s.kind = "error" /\ s.end = end /\ s.wrong = <<w>> /\ w.at = at
  BY DEF Wrong
<1> HIDE DEF s, w
<1> QED BY <1>1 DEF TokenAt, s

(* What is lexed of a string. *)
Characters ==
  {Peek(j) : j \in 0..End} \cup {Escape[c] : c \in DOMAIN Escape} \cup {Utf8[c] : c \in DOMAIN Utf8}
Complaint ==
  {"unterminated string", "control character", "escape", "digits", "low surrogate", "high surrogate"}
Report == [what : Complaint, at : 0..End]
Part   == [kind : {"string", "error"}, value : Seq(Characters), end : 0..End, wrong : Seq(Report)]

(* One turn of the loop over a string goes on, in the string.              *)
PieceAt(p, i) ==
  /\ p \in Part /\ p.end \in i + 1..End
  /\ \A k \in 1..Len(p.wrong) : p.wrong[k].at = i

LEMMA GoodPiece ==
  ASSUME End \in Nat, NEW i \in 0..End, NEW end \in i + 1..End, NEW value \in Seq(Characters)
  PROVE  PieceAt(Scanned("string", value, end), i)
<1> DEFINE s == Scanned("string", value, end)
<1>1. s = [kind |-> "string", value |-> value, end |-> end, wrong |-> <<>>]
  BY DEF Scanned
<1>2. end \in 0..End /\ <<>> \in Seq(Report)
  OBVIOUS
<1> DEFINE none == <<>>
<1> HIDE DEF none
<1>3. s \in Part
  <2>1. none \in Seq(Report) /\ s = [kind |-> "string", value |-> value, end |-> end, wrong |-> none]
    BY <1>1, <1>2 DEF none
  <2> HIDE DEF s
  <2> QED BY <1>2, <2>1 DEF Part
<1>4. Len(s.wrong) = 0
  BY <1>1
<1>5. s.end = end
  BY <1>1
<1> HIDE DEF s
<1> QED BY <1>3, <1>4, <1>5 DEF PieceAt, s

LEMMA BadPiece ==
  ASSUME End \in Nat, NEW end \in 0..End, NEW what \in Complaint, NEW at \in 0..End
  PROVE  /\ Wrong(what, at, end) \in Part /\ Wrong(what, at, end).end = end
         /\ Wrong(what, at, end).kind = "error" /\ Wrong(what, at, end).value = <<>>
         /\ Wrong(what, at, end).wrong = <<[what |-> what, at |-> at]>>
<1> DEFINE s == Wrong(what, at, end)
           w == [what |-> what, at |-> at]
<1>1. s = [kind |-> "error", value |-> <<>>, end |-> end, wrong |-> <<w>>]
  BY DEF Wrong
<1>2. <<>> \in Seq(Characters)
  OBVIOUS
<1>3. w \in Report
  BY DEF Report
<1> HIDE DEF w
<1>4. <<w>> \in Seq(Report)
  BY <1>3
<1>5. s \in Part
  BY <1>1, <1>2, <1>4 DEF Part
<1>6. s.end = end /\ s.wrong = <<w>> /\ s.kind = "error" /\ s.value = <<>>
  BY <1>1
<1> QED BY <1>5, <1>6 DEF w

LEMMA BadPieceAt ==
  ASSUME End \in Nat, NEW i \in 0..End, NEW end \in i + 1..End, NEW what \in Complaint
  PROVE  PieceAt(Wrong(what, i, end), i)
<1> DEFINE s == Wrong(what, i, end)
           w == [what |-> what, at |-> i]
<1>1. end \in 0..End
  OBVIOUS
<1>2. s \in Part /\ s.end = end /\ s.wrong = <<w>>
  BY <1>1, BadPiece, Zenon
<1>3. Len(<<w>>) = 1 /\ <<w>>[1].at = i
  OBVIOUS
<1> HIDE DEF s, w
<1>4. \A k \in 1..Len(s.wrong) : s.wrong[k].at = i
  BY <1>2, <1>3
<1> QED BY <1>2, <1>4 DEF PieceAt, s

LEMMA UnicodeIs ==
  ASSUME IsRow(text), NEW i \in 0..End, i + 1 < End
  PROVE  PieceAt(Unicode(i), i)
<1> DEFINE unit == HexUnit[Peek(i + 2)]
           low  == HexUnit[Peek(i + 5)]
<1>0. End \in Nat /\ i \in Nat
  BY RowLen DEF End
<1>1. \A code : AppendUTF8(code) \in Seq(Characters)
  <2> SUFFICES ASSUME NEW code PROVE AppendUTF8(code) \in Seq(Characters)
    OBVIOUS
  <2>1. code \in DOMAIN Utf8 => Utf8[code] \in Characters
    BY DEF Characters
  <2> HIDE DEF Characters
  <2>2. code \in DOMAIN Utf8 => <<Utf8[code]>> \in Seq(Characters)
    BY <2>1
  <2>3. <<>> \in Seq(Characters)
    OBVIOUS
  <2> QED BY <2>2, <2>3 DEF AppendUTF8
<1>2. i + 2 \in i + 1..End /\ i + 2 \in 0..End
  BY <1>0
<1>3. CASE Peek(i + 2) \notin DOMAIN HexUnit
  <2>1. Unicode(i) = Wrong("digits", i, i + 2)
    BY <1>3 DEF Unicode
  <2> QED BY <1>0, <1>2, <2>1, BadPieceAt DEF Complaint
<1>4. CASE Peek(i + 2) \in DOMAIN HexUnit
  <2>1. Peek(i + 2) # NUL
    BY <1>4, LexerAssumption
  <2>2. i + 3 \in i + 1..End /\ i + 3 \in 0..End
    BY <1>0, <1>2, <2>1, PeekIs
  <2>3. CASE unit \in Low
    <3>1. Unicode(i) = Wrong("low surrogate", i, i + 3)
      BY <1>4, <2>3 DEF Unicode
    <3> QED BY <1>0, <2>2, <3>1, BadPieceAt DEF Complaint
  <2>4. CASE unit \notin Low /\ unit \notin High
    <3>1. Unicode(i) = Scanned("string", AppendUTF8(unit), i + 3)
      BY <1>4, <2>4 DEF Unicode
    <3> QED BY <1>0, <1>1, <2>2, <3>1, GoodPiece
  <2>5. CASE unit \notin Low /\ unit \in High /\ (Peek(i + 3) # "\\" \/ Peek(i + 4) # "u")
    <3>1. Unicode(i) = Wrong("high surrogate", i, i + 3)
      BY <1>4, <2>5 DEF Unicode
    <3> QED BY <1>0, <2>2, <3>1, BadPieceAt DEF Complaint
  <2>6. CASE unit \notin Low /\ unit \in High /\ Peek(i + 3) = "\\" /\ Peek(i + 4) = "u"
    <3>1. Peek(i + 3) # NUL /\ Peek(i + 4) # NUL
      BY <2>6 DEF NUL
    <3>2. i + 4 \in 0..End
      BY <1>0, <2>2, <3>1, PeekIs
    <3>3. i + 5 \in i + 1..End /\ i + 5 \in 0..End
      BY <1>0, <3>1, <3>2, PeekIs
    <3>4. CASE Peek(i + 5) \notin DOMAIN HexUnit
      <4>1. Unicode(i) = Wrong("high surrogate", i, i + 5)
        BY <1>4, <2>6, <3>4 DEF Unicode
      <4> QED BY <1>0, <3>3, <4>1, BadPieceAt DEF Complaint
    <3>5. CASE Peek(i + 5) \in DOMAIN HexUnit
      <4>1. Peek(i + 5) # NUL
        BY <3>5, LexerAssumption
      <4>2. i + 6 \in i + 1..End
        BY <1>0, <3>3, <4>1, PeekIs
      <4>3. CASE low \notin Low
        <5>1. Unicode(i) = Wrong("high surrogate", i, i + 6)
          BY <1>4, <2>6, <3>5, <4>3 DEF Unicode
        <5> QED BY <1>0, <4>2, <5>1, BadPieceAt DEF Complaint
      <4>4. CASE low \in Low
        <5>1. Unicode(i) = Scanned("string", AppendUTF8(Join(unit, low)), i + 6)
          BY <1>4, <2>6, <3>5, <4>4 DEF Unicode
        <5> QED BY <1>0, <1>1, <4>2, <5>1, GoodPiece
      <4> QED BY <4>3, <4>4
    <3> QED BY <3>4, <3>5
  <2> QED BY <2>3, <2>4, <2>5, <2>6
<1> QED BY <1>3, <1>4

LEMMA PieceIs ==
  ASSUME IsRow(text), NEW i \in 0..End, i # End
  PROVE  PieceAt(Piece(i), i)
<1> DEFINE c == Peek(i + 1)
<1>0. End \in Nat /\ i \in Nat /\ i + 1 \in 0..End /\ i + 1 \in i + 1..End
  BY RowLen DEF End
<1>1. CASE Peek(i) \in Control
  <2>1. Piece(i) = Wrong("control character", i, i + 1)
    BY <1>1 DEF Piece
  <2> QED BY <1>0, <2>1, BadPieceAt DEF Complaint
<1>2. CASE Peek(i) \notin Control /\ Peek(i) # "\\"
  <2>1. Piece(i) = Scanned("string", <<Peek(i)>>, i + 1)
    BY <1>2 DEF Piece
  <2>2. Peek(i) \in Characters
    BY DEF Characters
  <2>3. <<Peek(i)>> \in Seq(Characters)
    BY <2>2
  <2> QED BY <1>0, <2>1, <2>3, GoodPiece
<1>3. CASE Peek(i) \notin Control /\ Peek(i) = "\\"
  <2>1. Piece(i) = Escaped(i)
    BY <1>3 DEF Piece
  <2>2. c \in DOMAIN Escape \cup {"u"} => c # NUL
    BY DEF Escape, NUL
  <2>3. c \in DOMAIN Escape \cup {"u"} => i + 1 < End /\ i + 2 \in i + 1..End
    BY <1>0, <2>2, PeekIs
  <2>4. CASE c \in DOMAIN Escape
    <3>1. Escaped(i) = Scanned("string", <<Escape[c]>>, i + 2)
      BY <2>4 DEF Escaped
    <3>2. Escape[c] \in Characters
      BY <2>4 DEF Characters
    <3>3. <<Escape[c]>> \in Seq(Characters)
      BY <3>2
    <3> QED BY <1>0, <2>1, <2>3, <2>4, <3>1, <3>3, GoodPiece
  <2>5. CASE c \notin DOMAIN Escape /\ c = "u"
    <3>1. Escaped(i) = Unicode(i)
      BY <2>5 DEF Escaped
    <3>2. i + 1 < End
      BY <2>3, <2>5
    <3> QED BY <2>1, <3>1, <3>2, UnicodeIs
  <2>6. CASE c \notin DOMAIN Escape /\ c # "u"
    <3> DEFINE end == IF c = "\n" \/ i + 1 >= End THEN i + 1 ELSE i + 2
    <3>1. Escaped(i) = Wrong("escape", i, end)
      BY <2>6 DEF Escaped
    <3>2. end \in i + 1..End
      BY <1>0
    <3> HIDE DEF end
    <3> QED BY <1>0, <2>1, <3>1, <3>2, BadPieceAt DEF Complaint
  <2> QED BY <2>4, <2>5, <2>6
<1> QED BY <1>1, <1>2, <1>3

(* What is scanned of a string from i on, when it begins at begin.         *)
RestAt(s, begin, i) ==
  /\ s.end \in i..End
  /\ s.kind = "error" => s.wrong # <<>>
  /\ \A k \in 1..Len(s.wrong) : s.wrong[k].at = begin \/ s.wrong[k].at \in i..s.end

After(p, rest) == [rest EXCEPT !.value = p.value \o @, !.wrong = p.wrong \o @]

LEMMA AfterIs ==
  ASSUME End \in Nat, NEW p \in Part, NEW rest \in Part
  PROVE  /\ After(p, rest) \in Part
         /\ After(p, rest).kind = rest.kind /\ After(p, rest).end = rest.end
         /\ After(p, rest).wrong = p.wrong \o rest.wrong
<1> DEFINE value == p.value \o rest.value
           wrong == p.wrong \o rest.wrong
<1>1. /\ rest = [kind |-> rest.kind, value |-> rest.value, end |-> rest.end, wrong |-> rest.wrong]
      /\ rest.kind \in {"string", "error"} /\ rest.end \in 0..End
      /\ rest.value \in Seq(Characters) /\ rest.wrong \in Seq(Report)
      /\ p.value \in Seq(Characters) /\ p.wrong \in Seq(Report)
  BY DEF Part
<1>2. value \in Seq(Characters) /\ wrong \in Seq(Report)
  BY <1>1, Concat2
<1>3. After(p, rest) = [kind |-> rest.kind, value |-> value, end |-> rest.end, wrong |-> wrong]
  <2>1. DOMAIN rest = {"kind", "value", "end", "wrong"}
    BY DEF Part
  <2>2. /\ DOMAIN After(p, rest) = {"kind", "value", "end", "wrong"}
        /\ After(p, rest).kind = rest.kind /\ After(p, rest).value = value
        /\ After(p, rest).end = rest.end /\ After(p, rest).wrong = wrong
    BY <2>1 DEF After
  <2>3. After(p, rest) = [x \in {"kind", "value", "end", "wrong"} |-> After(p, rest)[x]]
    BY <2>1 DEF After
  <2> HIDE DEF value, wrong
  <2> QED BY <2>2, <2>3
<1> HIDE DEF value, wrong
<1>4. After(p, rest) \in Part
  BY <1>1, <1>2, <1>3 DEF Part
<1>5. /\ After(p, rest).kind = rest.kind /\ After(p, rest).end = rest.end
      /\ After(p, rest).wrong = wrong
  BY <1>3
<1> QED BY <1>4, <1>5 DEF wrong

LEMMA AfterAt ==
  ASSUME End \in Nat, NEW begin \in Nat, NEW i \in 0..End, NEW p, NEW rest \in Part,
         PieceAt(p, i), RestAt(rest, begin, p.end)
  PROVE  RestAt(After(p, rest), begin, i)
<1> DEFINE s == After(p, rest)
           a == p.wrong
           b == rest.wrong
<1>1. p \in Part /\ p.end \in i + 1..End /\ rest.end \in p.end..End
  BY DEF PieceAt, RestAt
<1>2. s.kind = rest.kind /\ s.end = rest.end /\ s.wrong = a \o b
  BY <1>1, AfterIs
<1>3. a \in Seq(Report) /\ b \in Seq(Report)
  BY <1>1 DEF Part
<1>4. /\ \A k \in 1..Len(a) : a[k].at = i
      /\ \A k \in 1..Len(b) : b[k].at = begin \/ b[k].at \in p.end..rest.end
      /\ rest.kind = "error" => b # <<>>
  BY DEF PieceAt, RestAt
<1>5. i \in i..rest.end /\ p.end..rest.end \subseteq i..rest.end /\ rest.end \in i..End
  BY <1>1
<1> HIDE DEF s, a, b
<1>6. /\ Len(a \o b) = Len(a) + Len(b) /\ Len(a) \in Nat /\ Len(b) \in Nat
      /\ \A k \in 1..Len(a) : (a \o b)[k] = a[k]
      /\ \A k \in 1..Len(b) : (a \o b)[Len(a) + k] = b[k]
      /\ a \o b \in Seq(Report)
  BY <1>3, Concat2
<1>7. \A k \in 1..Len(a \o b) : k \in 1..Len(a) \/ (k - Len(a) \in 1..Len(b) /\ k = Len(a) + (k - Len(a)))
  BY <1>6
<1>8. \A k \in 1..Len(a \o b) : (a \o b)[k].at = begin \/ (a \o b)[k].at \in i..rest.end
  <2> SUFFICES ASSUME NEW k \in 1..Len(a \o b)
               PROVE  (a \o b)[k].at = begin \/ (a \o b)[k].at \in i..rest.end
    OBVIOUS
  <2>1. CASE k \in 1..Len(a)
    <3>1. (a \o b)[k].at = i
      BY <1>4, <1>6, <2>1
    <3> QED BY <1>5, <3>1
  <2>2. CASE k \notin 1..Len(a)
    <3>1. PICK m \in 1..Len(b) : k = Len(a) + m
      BY <1>7, <2>2
    <3>2. (a \o b)[k] = b[m]
      BY <1>6, <3>1
    <3> QED BY <1>4, <1>5, <3>2
  <2> QED BY <2>1, <2>2
<1>9. rest.kind = "error" => a \o b # <<>>
  BY <1>3, <1>4, <1>6
<1> QED BY <1>2, <1>5, <1>8, <1>9 DEF RestAt, s

LEMMA LexStringIs ==
  ASSUME IsRow(text), NEW begin \in 0..End, begin # End
  PROVE  TokenAt(LexString(begin), begin)
<1> DEFINE D == 0..End
           Stops(i)  == i = End \/ Peek(i) = "\n"
           Step(f, i) == IF Stops(i) THEN Wrong("unterminated string", begin, i)
                         ELSE IF Peek(i) = "\"" THEN Scanned("string", <<>>, i + 1)
                         ELSE LET p == Piece(i)  rest == f[p.end]
                              IN [rest EXCEPT !.value = p.value \o @, !.wrong = p.wrong \o @]
           G == [v \in D \X [D -> Part] |-> Step(v[2], v[1])]
           rank == [i \in D |-> End - i]
<1>0. End \in Nat /\ begin \in Nat /\ begin + 1 \in D
  BY RowLen DEF End
<1>1. ASSUME NEW i \in D
      PROVE  LET w == [what |-> "unterminated string", at |-> begin]
                 t == Wrong("unterminated string", begin, i)
             IN t \in Part /\ t.kind = "error" /\ t.wrong = <<w>> /\ t.end = i
  <2>1. i \in 0..End /\ begin \in 0..End /\ "unterminated string" \in Complaint
    BY DEF Complaint
  <2> QED BY <1>0, <2>1, BadPiece, Zenon
<1>2. ASSUME NEW i \in D, ~Stops(i), Peek(i) = "\"" PROVE PieceAt(Scanned("string", <<>>, i + 1), i)
  <2>1. i # End
    BY <1>2
  <2>2. i + 1 \in i + 1..End
    BY <1>0, <2>1
  <2>3. <<>> \in Seq(Characters)
    OBVIOUS
  <2> QED BY <1>0, <2>2, <2>3, GoodPiece, Zenon
<1>3. ASSUME NEW i \in D, ~Stops(i)
      PROVE  PieceAt(Piece(i), i) /\ Piece(i) \in Part /\ Piece(i).end \in D /\ Piece(i).end \in i + 1..End
  <2>1. PieceAt(Piece(i), i)
    BY <1>3, PieceIs
  <2> QED BY <1>0, <2>1 DEF PieceAt
<1>4. \A f \in [D -> Part], i \in D :
        ~Stops(i) /\ Peek(i) # "\"" => Step(f, i) = After(Piece(i), f[Piece(i).end])
  BY DEF After
<1> HIDE DEF Stops
<1>5. \A i \in D, f \in [D -> Part] : G[<<i, f>>] = Step(f, i) /\ Step(f, i) \in Part
  <2> SUFFICES ASSUME NEW i \in D, NEW f \in [D -> Part]
               PROVE  G[<<i, f>>] = Step(f, i) /\ Step(f, i) \in Part
    OBVIOUS
  <2>1. G[<<i, f>>] = Step(f, i)
    OBVIOUS
  <2>2. CASE Stops(i)
    BY <1>1, <2>1, <2>2, ZenonT(40)
  <2>3. CASE ~Stops(i) /\ Peek(i) = "\""
    BY <1>2, <2>1, <2>3 DEF PieceAt
  <2>4. CASE ~Stops(i) /\ Peek(i) # "\""
    <3>1. Piece(i) \in Part /\ f[Piece(i).end] \in Part
      BY <1>3, <2>4
    <3>2. Step(f, i) = After(Piece(i), f[Piece(i).end])
      BY <1>4, <2>4, ZenonT(40)
    <3> HIDE DEF Step
    <3> QED BY <1>0, <2>1, <3>1, <3>2, AfterIs
  <2> QED BY <2>2, <2>3, <2>4, ZenonT(40)
<1>6. G \in [D \X [D -> Part] -> Part]
  BY <1>5
<1> HIDE DEF G
<1>7. rank \in [D -> 0..End]
  BY <1>0
<1>8. \A i \in D : \A e \in i + 1..End : e \in D /\ rank[e] < rank[i]
  BY <1>0
<1>9. Descends(G, D, Part, rank, End)
  <2>1. ASSUME NEW i \in D, NEW g \in [D -> Part], NEW h \in [D -> Part],
               \A m \in D : rank[m] < rank[i] => g[m] = h[m]
        PROVE  G[<<i, g>>] = G[<<i, h>>]
    <3> HIDE DEF D, rank
    <3>1. ~Stops(i) => g[Piece(i).end] = h[Piece(i).end]
      BY <1>3, <1>8, <2>1
    <3>2. Step(g, i) = Step(h, i)
      BY <3>1
    <3> QED BY <1>5, <3>2, ZenonT(40)
  <2>2. Part # {}
    BY <1>0, <1>1
  <2> HIDE DEF D, rank
  <2> QED BY <1>0, <1>6, <1>7, <2>1, <2>2 DEF Descends
<1>10. PICK f \in [D -> Part] : Solves(f, G, D)
  <2> HIDE DEF D, rank
  <2> QED BY <1>9, RecursionExists
<1> DEFINE IsScan(g) == g = [i \in D |-> Step(g, i)]
           scan == CHOOSE g : IsScan(g)
           s == scan[begin + 1]
<1>11. IsScan(f)
  BY <1>5, <1>10 DEF Solves
<1>12. LexString(begin) = IF s.wrong = <<>> THEN s ELSE Wrong(s.wrong[1].what, s.wrong[1].at, s.end)
  BY DEF LexString, Stops
<1> HIDE DEF IsScan
<1>13. IsScan(scan)
  BY <1>11
<1> HIDE DEF scan
<1>14. \A i \in D : scan[i] = Step(scan, i)
  BY <1>13 DEF IsScan
<1> DEFINE P == {i \in D : scan[i] \in Part /\ (begin < i => RestAt(scan[i], begin, i))}
<1>15. \A i \in D : (\A m \in D : rank[m] < rank[i] => m \in P) => i \in P
  <2> SUFFICES ASSUME NEW i \in D, \A m \in D : rank[m] < rank[i] => m \in P
               PROVE  i \in P
    OBVIOUS
  <2>1. CASE Stops(i)
    <3>1. scan[i] = Wrong("unterminated string", begin, i)
      BY <1>14, <2>1
    <3> DEFINE w == [what |-> "unterminated string", at |-> begin]
               t == scan[i]
    <3>2. t.kind = "error" /\ t.wrong = <<w>> /\ t.end = i
      BY <1>1, <3>1
    <3>3. w.at = begin /\ i \in i..End
      BY <1>0
    <3>4. t \in Part
      BY <1>1, <3>1
    <3> HIDE DEF w, t
    <3>5. RestAt(t, begin, i)
      BY <3>2, <3>3 DEF RestAt
    <3> QED BY <3>4, <3>5 DEF t
  <2>2. CASE ~Stops(i) /\ Peek(i) = "\""
    <3> DEFINE t == Scanned("string", <<>>, i + 1)
    <3>1. scan[i] = t
      BY <1>14, <2>2
    <3>2. t \in Part /\ t.end \in i + 1..End
      BY <1>2, <2>2 DEF PieceAt
    <3>3. t.kind = "string" /\ t.wrong = <<>>
      BY DEF Scanned
    <3>4. t.end \in i..End /\ Len(t.wrong) = 0
      BY <1>0, <3>2, <3>3
    <3> HIDE DEF t
    <3>5. RestAt(t, begin, i)
      BY <3>3, <3>4 DEF RestAt
    <3> QED BY <3>1, <3>2, <3>5
  <2>3. CASE ~Stops(i) /\ Peek(i) # "\""
    <3> DEFINE p == Piece(i)
               rest == scan[p.end]
    <3>1. PieceAt(p, i) /\ p \in Part /\ p.end \in D /\ rank[p.end] < rank[i] /\ i < p.end
      <4>1. PieceAt(p, i) /\ p \in Part /\ p.end \in D /\ p.end \in i + 1..End
        BY <1>3, <2>3
      <4>2. i < p.end
        BY <4>1
      <4> HIDE DEF D, rank, p, P
      <4> QED BY <1>8, <4>1, <4>2
    <3>2. rest \in Part /\ (begin < p.end => RestAt(rest, begin, p.end))
      BY <3>1
    <3>3. scan[i] = After(p, rest)
      BY <1>14, <2>3 DEF After
    <3>4. scan[i] \in Part
      <4> HIDE DEF p, rest
      <4>1. After(p, rest) \in Part
        BY <1>0, <3>1, <3>2, AfterIs, Zenon
      <4> QED BY <3>3, <4>1
    <3>5. ASSUME begin < i PROVE RestAt(scan[i], begin, i)
      <4>1. begin < p.end
        BY <1>0, <3>1, <3>5
      <4> HIDE DEF p, rest
      <4> QED BY <1>0, <3>1, <3>2, <3>3, <4>1, AfterAt
    <3> QED BY <3>4, <3>5
  <2> QED BY <2>1, <2>2, <2>3
<1>16. \A i \in D : i \in P
  <2> HIDE DEF P, D, rank
  <2> QED BY <1>7, <1>15, RankInduction
<1>17. s \in Part /\ RestAt(s, begin, begin + 1)
  BY <1>0, <1>16
<1> HIDE DEF s
<1>18. s.kind \in {"string", "error"} /\ s.wrong \in Seq(Report) /\ s.end \in begin + 1..End
  BY <1>17 DEF Part, RestAt
<1>19. CASE s.wrong = <<>>
  <2>1. s.kind = "string" /\ s.end \in begin..End /\ begin < s.end
    BY <1>0, <1>17, <1>18, <1>19 DEF RestAt
  <2> QED BY <1>12, <1>19, <2>1 DEF TokenAt
<1>20. CASE s.wrong # <<>>
  <2>1. 1 \in 1..Len(s.wrong)
    BY <1>18, <1>20
  <2>2. s.wrong[1].at \in begin..s.end
    BY <1>0, <1>17, <1>18, <2>1 DEF RestAt
  <2> QED BY <1>0, <1>12, <1>18, <1>20, <2>2, WrongAt
<1> QED BY <1>19, <1>20

LEMMA LexNumberIs ==
  ASSUME IsRow(text), NEW begin \in 0..End, begin # End, Peek(begin) \in Digit \cup {"-"}
  PROVE  TokenAt(LexNumber(begin), begin)
<1> DEFINE int  == IF Peek(begin) = "-" THEN begin + 1 ELSE begin
           frac == IF Peek(int) = "0" THEN int + 1 ELSE While(int, Digit)
           exp  == IF Peek(frac) = "." THEN While(frac + 1, Digit) ELSE frac
           sign == IF Peek(exp + 1) \in {"+", "-"} THEN exp + 2 ELSE exp + 1
           end  == IF Peek(exp) \in {"e", "E"} THEN While(sign, Digit) ELSE exp
           rest == Alpha \cup Digit \cup {".", "+", "-"}
           bad(what, at) == Wrong(what, at, While(at, rest))
<1>0. End \in Nat /\ begin \in Nat /\ begin + 1 \in 0..End
  BY RowLen DEF End
<1>1. "0" # NUL /\ "." # NUL /\ "e" # NUL /\ "E" # NUL /\ "+" # NUL /\ "-" # NUL
  BY DEF NUL
<1>2. int \in begin..End /\ (int = begin => Peek(int) \in Digit)
  BY <1>0
<1> HIDE DEF int
<1>3. frac \in int..End /\ (frac = int => begin < int)
  <2>1. CASE Peek(int) = "0"
    <3>1. int \in 0..End
      BY <1>0, <1>2
    <3>2. int + 1 \in int..End /\ int + 1 # int
      BY <1>1, <2>1, <3>1, PeekIs
    <3> QED BY <2>1, <3>2
  <2>2. CASE Peek(int) # "0"
    <3>1. int \in 0..End
      BY <1>0, <1>2
    <3>2. While(int, Digit) \in int..End /\ (int < End /\ Peek(int) \in Digit => While(int, Digit) > int)
      BY <3>1, WhileIs
    <3>3. int = begin => int < End
      BY <1>0
    <3> QED BY <1>0, <1>2, <2>2, <3>1, <3>2, <3>3
  <2> QED BY <2>1, <2>2
<1> HIDE DEF frac
<1>4. frac \in 0..End /\ begin < frac
  BY <1>0, <1>2, <1>3
<1>5. exp \in frac..End
  <2>1. CASE Peek(frac) = "."
    <3>1. frac + 1 \in 0..End
      BY <1>1, <1>4, <2>1, PeekIs
    <3>2. While(frac + 1, Digit) \in frac + 1..End
      BY <3>1, WhileIs
    <3> QED BY <1>4, <2>1, <3>2
  <2>2. CASE Peek(frac) # "."
    BY <1>4, <2>2
  <2> QED BY <2>1, <2>2
<1> HIDE DEF exp
<1>6. exp \in 0..End /\ begin < exp
  BY <1>4, <1>5
<1>7. Peek(exp) \in {"e", "E"} => sign \in exp + 1..End /\ end \in sign..End
  <2> SUFFICES ASSUME Peek(exp) \in {"e", "E"}
               PROVE  sign \in exp + 1..End /\ end \in sign..End
    OBVIOUS
  <2>1. exp + 1 \in 0..End
    BY <1>1, <1>6, PeekIs
  <2>2. Peek(exp + 1) \in {"+", "-"} => exp + 1 + 1 \in 0..End
    BY <1>1, <2>1, PeekIs
  <2>3. sign \in exp + 1..End /\ sign \in 0..End
    BY <1>6, <2>1, <2>2
  <2> HIDE DEF sign
  <2>4. While(sign, Digit) \in sign..End
    BY <2>3, WhileIs
  <2> QED BY <2>3, <2>4
<1>8. Peek(exp) \notin {"e", "E"} => end = exp
  OBVIOUS
<1> HIDE DEF sign, end, rest
<1>9. end \in begin + 1..End /\ (Peek(exp) \in {"e", "E"} => sign \in begin + 1..End)
  BY <1>0, <1>6, <1>7, <1>8
<1>10. ASSUME NEW what, NEW at \in begin + 1..End PROVE TokenAt(bad(what, at), begin)
  <2>1. at \in 0..End
    BY <1>0
  <2>2. While(at, rest) \in at..End
    BY <2>1, WhileIs
  <2> DEFINE stop == While(at, rest)
  <2>3. stop \in begin + 1..End /\ at \in begin..stop
    BY <1>0, <2>2
  <2>4. TokenAt(Wrong(what, at, stop), begin)
    <3> HIDE DEF stop
    <3> QED BY <1>0, <2>3, WrongAt, SMTT(30)
  <2> QED BY <2>4
<1>11. LexNumber(begin) =
         IF frac = int THEN bad("digit after -", int)
         ELSE IF Peek(int) = "0" /\ Peek(frac) \in Digit THEN bad("leading zero", frac)
         ELSE IF Peek(frac) = "." /\ exp = frac + 1 THEN bad("digit after .", exp)
         ELSE IF Peek(exp) \in {"e", "E"} /\ end = sign THEN bad("digit in exponent", sign)
         ELSE IF Peek(end) \in Alpha \cup {"."} THEN bad("character", end)
         ELSE Scanned("number", SubSeq(text, begin + 1, end), end)
  BY Zenon DEF LexNumber, int, frac, exp, sign, end, rest
<1> HIDE DEF bad
<1>12. frac = int => int \in begin + 1..End
  BY <1>0, <1>2, <1>3
<1>13. frac \in begin + 1..End /\ exp \in begin + 1..End
  BY <1>0, <1>4, <1>6
<1>14. TokenAt(Scanned("number", SubSeq(text, begin + 1, end), end), begin)
  BY <1>0, <1>9, ScannedAt
<1> QED BY <1>9, <1>10, <1>11, <1>12, <1>13, <1>14

WordBegins == Alpha \cup {"_"}

LEMMA LexWordIs ==
  ASSUME IsRow(text), NEW begin \in 0..End, begin # End, Peek(begin) \in WordBegins
  PROVE  TokenAt(LexWord(begin), begin)
<1> DEFINE set  == Alpha \cup Digit \cup {"_"}
           end  == While(begin, set)
           word == Text(SubSeq(text, begin + 1, end))
<1>0. End \in Nat /\ begin \in Int /\ begin \in Nat /\ begin < End
  BY RowLen DEF End
<1>6. Peek(begin) \in set
  BY Zenon DEF WordBegins
<1> HIDE DEF set
<1>1. end \in begin..End /\ end > begin
  BY <1>0, <1>6, WhileIs
<1> HIDE DEF end
<1>2. end \in begin + 1..End /\ begin \in begin..end
  BY <1>0, <1>1
<1> USE DEF end
<1>3. LexWord(begin) = IF word \in {"true", "false", "null"} THEN Scanned(word, <<>>, end)
                       ELSE Wrong("literal", begin, end)
  BY DEF LexWord, set
<1> HIDE DEF word, end
<1>4. CASE word \in {"true", "false", "null"}
  <2>1. word \notin {"eof", "error"}
    BY <1>4
  <2>2. TokenAt(Scanned(word, <<>>, end), begin)
    BY <1>0, <1>2, <2>1, ScannedAt, Zenon
  <2> QED BY <1>3, <1>4, <2>2
<1>5. CASE word \notin {"true", "false", "null"}
  <2>1. TokenAt(Wrong("literal", begin, end), begin)
    BY <1>0, <1>2, WrongAt, Zenon
  <2> QED BY <1>3, <1>5, <2>1
<1> QED BY <1>4, <1>5

(* Every token, whatever the text.                                         *)
LEMMA ScanIs ==
  ASSUME IsRow(text), NEW i \in 0..End
  PROVE  TokenAt(Scan(i), i)
<1> DEFINE c == Peek(i)
<1>0. End \in Nat /\ i \in Nat
  BY RowLen DEF End
<1>1. CASE i = End
  <2> DEFINE s == Scanned("eof", <<>>, i)
  <2>1. Scan(i) = s
    BY <1>1 DEF Scan
  <2>2. s.kind = "eof" /\ s.end = i /\ s.wrong = <<>>
    BY DEF Scanned
  <2> HIDE DEF s
  <2> QED BY <1>0, <1>1, <2>1, <2>2 DEF TokenAt
<1>2. CASE i # End
  <2>0. i + 1 \in i + 1..End /\ i \in i..i + 1
    BY <1>0, <1>2
  <2>1. CASE c \in DOMAIN Punctuation
    <3>1. Scan(i) = Scanned(Punctuation[c], <<>>, i + 1)
      BY <1>2, <2>1 DEF Scan
    <3>2. Punctuation[c] \notin {"eof", "error"}
      BY <2>1 DEF Punctuation
    <3> QED BY <1>0, <2>0, <3>1, <3>2, ScannedAt
  <2>2. CASE c \notin DOMAIN Punctuation /\ c = "\""
    <3>1. Scan(i) = LexString(i)
      BY <1>2, <2>2 DEF Scan
    <3> QED BY <1>2, <3>1, LexStringIs
  <2>3. CASE c \notin DOMAIN Punctuation /\ c # "\"" /\ IsComment(i)
    <3> DEFINE ends == CommentEnd(i) \cup {End}
    <3>1. Scan(i) = Wrong("comment", i, Min(ends))
      BY <1>2, <2>3 DEF Scan
    <3>2. ends \subseteq i + 1..End /\ ends # {}
      <4>1. CommentEnd(i) \subseteq i + 1..End
        BY <2>3, CommentEndIs
      <4>2. End \in i + 1..End
        BY <1>0, <1>2
      <4> QED BY <4>1, <4>2
    <3> HIDE DEF ends
    <3>3. PICK m \in ends : \A k \in ends : m =< k
      <4>1. ends \subseteq Nat
        BY <1>0, <3>2
      <4> QED BY <3>2, <4>1, LeastNat
    <3>4. Min(ends) \in i + 1..End
      BY <3>2, <3>3 DEF Min
    <3>5. i \in i..Min(ends)
      BY <1>0, <3>4
    <3> QED BY <1>0, <3>1, <3>4, <3>5, WrongAt
  <2>4. CASE c \notin DOMAIN Punctuation /\ c # "\"" /\ ~IsComment(i) /\ c \in Digit \cup {"-"}
    <3>1. Scan(i) = LexNumber(i)
      BY <1>2, <2>4 DEF Scan
    <3> QED BY <1>2, <2>4, <3>1, LexNumberIs
  <2>5. CASE /\ c \notin DOMAIN Punctuation /\ c # "\"" /\ ~IsComment(i) /\ c \notin Digit \cup {"-"}
             /\ c \in Alpha \cup {"_"}
    <3>1. Scan(i) = LexWord(i)
      BY <1>2, <2>5 DEF Scan
    <3>2. c \in WordBegins
      BY <2>5, Zenon DEF WordBegins
    <3> QED BY <1>2, <3>1, <3>2, LexWordIs, Zenon
  <2>6. CASE /\ c \notin DOMAIN Punctuation /\ c # "\"" /\ ~IsComment(i) /\ c \notin Digit \cup {"-"}
             /\ c \notin Alpha \cup {"_"}
    <3>1. Scan(i) = Wrong("character", i, i + 1)
      BY <1>2, <2>6 DEF Scan
    <3> QED BY <1>0, <2>0, <3>1, WrongAt
  <2> QED BY <2>1, <2>2, <2>3, <2>4, <2>5, <2>6
<1> QED BY <1>1, <1>2

-----------------------------------------------------------------------------
(* Places of the text: offset, line and column belong to each other.  The  *)
(* lines begin at 0 and behind each newline, in order.                     *)
LEMMA LineStartsAre ==
  ASSUME IsRow(text)
  PROVE  /\ Len(LineStarts) \in Nat \ {0} /\ LineStarts[1] = 0
         /\ \A k \in 2..Len(LineStarts) : LineStarts[k] \in 1..End /\ text[LineStarts[k]] = "\n"
         /\ \A k, m \in 1..Len(LineStarts) : k < m => LineStarts[k] < LineStarts[m]
         /\ \A o \in 1..End : text[o] = "\n" => \E m \in 2..Len(LineStarts) : LineStarts[m] = o
<1> DEFINE ids == [o \in 1..End |-> o]
           P   == {o \in 1..End : text[o] = "\n"}
           t   == Selected(ids, P)
<1>0. End \in Nat
  BY RowLen DEF End
<1>1. ids \in Seq(Nat) /\ Len(ids) = End
  <2>1. \A o \in 1..End : ids[o] \in Nat
    OBVIOUS
  <2> QED BY <1>0, <2>1
<1>2. LineStarts = <<0>> \o t
  BY DEF LineStarts
<1>3. t \in Seq(Nat) /\ Lists(t, ids, End, P)
  <2> HIDE DEF ids, P
  <2> QED BY <1>1, SelectedShape
<1>4. PICK p \in [1..Len(t) -> 1..End] :
        /\ \A k \in 1..Len(t) : t[k] = ids[p[k]] /\ p[k] \in P
        /\ \A k, m \in 1..Len(t) : k < m => p[k] < p[m]
        /\ \A k \in 1..End : k \in P => \E m \in 1..Len(t) : p[m] = k
  <2> HIDE DEF ids, P, t
  <2> QED BY <1>3 DEF Lists
<1>5. \A k \in 1..Len(t) : ids[p[k]] = p[k]
  BY <1>4
<1> HIDE DEF ids, t
<1>15. P \subseteq 1..End
  OBVIOUS
<1> HIDE DEF P
<1>6. Len(t) \in Nat /\ \A k \in 1..Len(t) : t[k] = p[k] /\ t[k] \in P
  <2>1. Len(t) \in Nat
    BY <1>3
  <2> QED BY <1>4, <1>5, <2>1
<1>7. \A k, m \in 1..Len(t) : k < m => t[k] < t[m]
  BY <1>4, <1>6
<1>8. \A o \in P : \E m \in 1..Len(t) : t[m] = o
  BY <1>4, <1>6, <1>15
<1>9. /\ Len(LineStarts) = 1 + Len(t) /\ LineStarts[1] = 0
      /\ \A k \in 1..Len(t) : LineStarts[1 + k] = t[k]
  <2>1. Len(<<0>>) = 1 /\ <<0>> \in Seq(Nat) /\ 1 \in 1..1 /\ <<0>>[1] = 0
    OBVIOUS
  <2> DEFINE z == <<0>>
  <2> HIDE DEF z
  <2>2. z \in Seq(Nat) /\ Len(z) = 1 /\ z[1] = 0 /\ LineStarts = z \o t
    BY <1>2, <2>1 DEF z
  <2>3. /\ Len(z \o t) = Len(z) + Len(t)
        /\ \A n \in 1..Len(z) : (z \o t)[n] = z[n]
        /\ \A n \in 1..Len(t) : (z \o t)[Len(z) + n] = t[n]
    <3>1. t \in Seq(Nat) /\ z \in Seq(Nat)
      BY <1>3, <2>2
    <3> QED BY <3>1, Concat2
  <2> QED BY <2>1, <2>2, <2>3
<1>10. \A k \in 2..Len(LineStarts) : k - 1 \in 1..Len(t) /\ LineStarts[k] = t[k - 1]
  <2> SUFFICES ASSUME NEW k \in 2..Len(LineStarts)
               PROVE  k - 1 \in 1..Len(t) /\ LineStarts[k] = t[k - 1]
    OBVIOUS
  <2>1. k - 1 \in 1..Len(t) /\ k = 1 + (k - 1)
    BY <1>6, <1>9
  <2>2. LineStarts[1 + (k - 1)] = t[k - 1]
    BY <1>9, <2>1
  <2> QED BY <2>1, <2>2
<1>11. P \subseteq 1..End /\ \A o \in 1..End : text[o] = "\n" => o \in P
  BY DEF P
<1>12. \A k \in 2..Len(LineStarts) : LineStarts[k] \in 1..End /\ text[LineStarts[k]] = "\n"
  <2>1. \A k \in 2..Len(LineStarts) : LineStarts[k] \in P
    BY <1>6, <1>10
  <2> QED BY <2>1 DEF P
<1>13. ASSUME NEW k \in 1..Len(LineStarts), NEW m \in 1..Len(LineStarts), k < m
       PROVE  LineStarts[k] < LineStarts[m]
  <2>1. m \in 2..Len(LineStarts)
    BY <1>6, <1>9, <1>13
  <2>2. CASE k = 1
    BY <1>0, <1>9, <1>12, <2>1, <2>2
  <2>3. CASE k # 1
    <3>1. k \in 2..Len(LineStarts) /\ k - 1 < m - 1
      BY <1>6, <1>9, <1>13, <2>3
    <3> QED BY <1>7, <1>10, <2>1, <3>1
  <2> QED BY <2>2, <2>3
<1>14. ASSUME NEW o \in 1..End, text[o] = "\n"
       PROVE  \E m \in 2..Len(LineStarts) : LineStarts[m] = o
  <2>1. PICK k \in 1..Len(t) : t[k] = o
    BY <1>8, <1>11, <1>14
  <2>2. 1 + k \in 2..Len(LineStarts)
    BY <1>6, <1>9
  <2> QED BY <1>9, <2>1, <2>2
<1> QED BY <1>6, <1>9, <1>12, <1>13, <1>14

SourcePos == [offset : Int, line : Int, column : Int]

Located(p) ==
  /\ p \in SourcePos /\ p.offset \in 0..End
  /\ p.line \in 1..Len(LineStarts) /\ LineStarts[p.line] + p.column = p.offset + 1
  /\ LineStarts[p.line] =< p.offset
  /\ p.line < Len(LineStarts) => p.offset < LineStarts[p.line + 1]

LEMMA StartLocated ==
  ASSUME IsRow(text)
  PROVE  Located(Start)
<1>1. End \in Nat
  BY RowLen DEF End
<1>2. Start \in SourcePos /\ Start.offset = 0 /\ Start.line = 1 /\ Start.column = 1
  BY DEF Start, SourcePos
<1>3. /\ Len(LineStarts) \in Nat \ {0} /\ LineStarts[1] = 0
      /\ 2 =< Len(LineStarts) => LineStarts[2] \in 1..End
  <2>1. /\ Len(LineStarts) \in Nat \ {0} /\ LineStarts[1] = 0
        /\ \A k \in 2..Len(LineStarts) : LineStarts[k] \in 1..End
    BY LineStartsAre
  <2> QED BY <2>1
<1> QED BY <1>1, <1>2, <1>3 DEF Located

LEMMA AdvanceIs ==
  ASSUME NEW p \in SourcePos, NEW c
  PROVE  /\ Advance(p, c) \in SourcePos /\ Advance(p, c).offset = p.offset + 1
         /\ c = "\n" => Advance(p, c).line = p.line + 1 /\ Advance(p, c).column = 1
         /\ c # "\n" => Advance(p, c).line = p.line /\ Advance(p, c).column = p.column + 1
BY DEF Advance, SourcePos

(* One character on, the place is that of the next offset.                 *)
LEMMA AdvanceLocated ==
  ASSUME IsRow(text), NEW p, Located(p), p.offset < End
  PROVE  /\ Located(Advance(p, text[p.offset + 1]))
         /\ Advance(p, text[p.offset + 1]).offset = p.offset + 1
<1> DEFINE c == text[p.offset + 1]
           q == Advance(p, c)
           o == p.offset + 1
           n == Len(LineStarts)
           l == p.line
<1>0. End \in Nat /\ n \in Nat \ {0} /\ o \in 1..End
  BY RowLen, LineStartsAre DEF End, Located
<1>1. /\ p \in SourcePos /\ l \in 1..n /\ LineStarts[l] =< p.offset
      /\ LineStarts[l] + p.column = p.offset + 1
      /\ l < n => p.offset < LineStarts[l + 1]
  BY DEF Located
<1>2. /\ q \in SourcePos /\ q.offset = o
      /\ c = "\n" => q.line = l + 1 /\ q.column = 1
      /\ c # "\n" => q.line = l /\ q.column = p.column + 1
  BY <1>1, AdvanceIs
<1>3. \A k \in 1..n : LineStarts[k] \in 0..End
  <2>1. LineStarts[1] = 0 /\ \A k \in 2..n : LineStarts[k] \in 1..End
    BY LineStartsAre
  <2> QED BY <1>0, <2>1
<1>4. \A k, m \in 1..n : k < m => LineStarts[k] < LineStarts[m]
  BY LineStartsAre
<1>5. \A k \in 2..n : LineStarts[k] \in 1..End /\ text[LineStarts[k]] = "\n"
  BY LineStartsAre
<1>6. c = "\n" => \E m \in 2..n : LineStarts[m] = o
  BY <1>0, LineStartsAre
<1>7. p.offset \in Int /\ p.column \in Int /\ l \in Int
  BY <1>1 DEF SourcePos
<1> HIDE DEF q, n, l
<1>8. CASE c # "\n"
  <2>1. q.line = l /\ q.column = p.column + 1
    BY <1>2, <1>8
  <2>2. l < n => o < LineStarts[l + 1]
    <3> SUFFICES ASSUME l < n PROVE o < LineStarts[l + 1]
      OBVIOUS
    <3>1. l + 1 \in 2..n
      BY <1>0, <1>1
    <3>2. LineStarts[l + 1] \in 1..End /\ LineStarts[l + 1] # o /\ p.offset < LineStarts[l + 1]
      BY <1>1, <1>5, <1>8, <3>1
    <3> QED BY <1>7, <3>2
  <2>3. LineStarts[l] \in Int
    BY <1>1, <1>3
  <2>4. LineStarts[l] + q.column = o + 1 /\ LineStarts[l] =< o /\ o \in 0..End
    BY <1>0, <1>1, <1>7, <2>1, <2>3
  <2> HIDE DEF o
  <2>5. Located(q)
    BY <1>1, <1>2, <2>1, <2>2, <2>4 DEF Located, n
  <2> QED BY <1>2, <2>5 DEF o, q
<1>9. CASE c = "\n"
  <2>1. q.line = l + 1 /\ q.column = 1
    BY <1>2, <1>9
  <2>2. PICK m \in 2..n : LineStarts[m] = o
    BY <1>6, <1>9
  <2>3. ~ (m =< l)
    <3>1. m < l => LineStarts[m] < LineStarts[l]
      BY <1>0, <1>1, <1>4
    <3>2. LineStarts[l] \in Int
      BY <1>1, <1>3
    <3> QED BY <1>1, <1>7, <2>2, <3>1, <3>2
  <2>4. l < n /\ l + 1 \in 1..n /\ l + 1 =< m
    BY <1>0, <1>1, <2>3
  <2>5. ~ (l + 1 < m)
    <3>1. l + 1 < m => LineStarts[l + 1] < o
      BY <1>0, <1>4, <2>2, <2>4
    <3>2. LineStarts[l + 1] \in Int /\ p.offset < LineStarts[l + 1]
      BY <1>1, <1>3, <2>4
    <3> QED BY <1>7, <3>1, <3>2
  <2>6. LineStarts[l + 1] = o
    BY <2>2, <2>4, <2>5
  <2>7. l + 1 < n => o < LineStarts[l + 1 + 1]
    <3> SUFFICES ASSUME l + 1 < n PROVE o < LineStarts[l + 1 + 1]
      OBVIOUS
    <3>1. l + 1 + 1 \in 1..n /\ l + 1 < l + 1 + 1
      BY <1>0, <1>1
    <3> QED BY <1>4, <2>4, <2>6, <3>1
  <2>8. o \in 0..End /\ o + 1 = o + q.column /\ o =< o
    BY <1>0, <2>1
  <2> HIDE DEF o
  <2>9. Located(q)
    BY <1>2, <2>1, <2>4, <2>6, <2>7, <2>8 DEF Located, n
  <2> QED BY <1>2, <2>9 DEF o, q
<1> QED BY <1>8, <1>9

(* Any number of characters on.                                            *)
LEMMA ToIs ==
  ASSUME IsRow(text), NEW p, Located(p), NEW offset \in p.offset..End
  PROVE  Located(To(p, offset)) /\ To(p, offset).offset = offset
<1> DEFINE a == p.offset
           D == a..offset
           Step(f, o) == IF o = p.offset THEN p ELSE Advance(f[o - 1], text[o])
           G == [v \in D \X [D -> SourcePos] |-> Step(v[2], v[1])]
           rank == [o \in D |-> o - a]
<1>0. End \in Nat /\ a \in Nat /\ offset \in Nat /\ a =< offset /\ offset =< End /\ p \in SourcePos
  BY RowLen DEF End, Located
<1> HIDE DEF a
<1>1. \A o \in D : o # a => o - 1 \in D /\ rank[o - 1] < rank[o]
  BY <1>0
<1>2. \A o \in D, f \in [D -> SourcePos] : G[<<o, f>>] = Step(f, o) /\ Step(f, o) \in SourcePos
  <2> SUFFICES ASSUME NEW o \in D, NEW f \in [D -> SourcePos]
               PROVE  G[<<o, f>>] = Step(f, o) /\ Step(f, o) \in SourcePos
    OBVIOUS
  <2>1. G[<<o, f>>] = Step(f, o)
    OBVIOUS
  <2>2. CASE o = a
    BY <1>0, <2>1, <2>2 DEF a
  <2>3. CASE o # a
    <3>1. f[o - 1] \in SourcePos
      BY <1>1, <2>3
    <3>2. Step(f, o) = Advance(f[o - 1], text[o])
      BY <2>3 DEF a
    <3> HIDE DEF Step
    <3> QED BY <2>1, <3>1, <3>2, AdvanceIs
  <2> QED BY <2>2, <2>3
<1>3. G \in [D \X [D -> SourcePos] -> SourcePos]
  BY <1>2
<1> HIDE DEF G
<1>4. rank \in [D -> 0..End]
  BY <1>0
<1>5. Descends(G, D, SourcePos, rank, End)
  <2>1. ASSUME NEW o \in D, NEW g \in [D -> SourcePos], NEW h \in [D -> SourcePos],
               \A m \in D : rank[m] < rank[o] => g[m] = h[m]
        PROVE  G[<<o, g>>] = G[<<o, h>>]
    <3>1. Step(g, o) = Step(h, o)
      <4> HIDE DEF D, rank
      <4> QED BY <1>1, <2>1 DEF a
    <3> QED BY <1>2, <3>1
  <2>2. SourcePos # {}
    BY <1>0
  <2> HIDE DEF D, rank
  <2> QED BY <1>0, <1>3, <1>4, <2>1, <2>2 DEF Descends
<1>6. PICK f \in [D -> SourcePos] : Solves(f, G, D)
  <2> HIDE DEF D, rank
  <2> QED BY <1>5, RecursionExists
<1> DEFINE IsAt(g) == g = [o \in D |-> Step(g, o)]
           at == CHOOSE g : IsAt(g)
<1>7. IsAt(f)
  BY <1>2, <1>6, ZenonT(40) DEF Solves
<1>8. To(p, offset) = at[offset]
  BY DEF To, a
<1> HIDE DEF IsAt
<1>9. IsAt(at)
  BY <1>7
<1> HIDE DEF at
<1>10. \A o \in D : at[o] = Step(at, o)
  BY <1>9 DEF IsAt
<1> DEFINE P == {o \in D : Located(at[o]) /\ at[o].offset = o}
<1>11. \A o \in D : (\A m \in D : rank[m] < rank[o] => m \in P) => o \in P
  <2> SUFFICES ASSUME NEW o \in D, \A m \in D : rank[m] < rank[o] => m \in P
               PROVE  o \in P
    OBVIOUS
  <2>1. CASE o = a
    <3>1. at[o] = p
      BY <1>10, <2>1 DEF a
    <3> QED BY <2>1, <3>1 DEF a
  <2>2. CASE o # a
    <3> DEFINE q == at[o - 1]
    <3>1. Located(q) /\ q.offset = o - 1
      BY <1>1, <2>2
    <3>2. at[o] = Advance(q, text[o])
      BY <1>10, <2>2 DEF a
    <3>3. q.offset < End /\ q.offset + 1 = o
      BY <1>0, <3>1
    <3>4. Located(Advance(q, text[o])) /\ Advance(q, text[o]).offset = o
      <4> HIDE DEF q
      <4> QED BY <3>1, <3>3, AdvanceLocated
    <3> QED BY <3>2, <3>4
  <2> QED BY <2>1, <2>2
<1>12. \A o \in D : o \in P
  <2> HIDE DEF P, D, rank
  <2> QED BY <1>4, <1>11, RankInduction
<1>13. offset \in D
  BY <1>0
<1> QED BY <1>8, <1>12, <1>13

(* Line and column lead back to the offset.                                *)
LEMMA LocatedResolves ==
  ASSUME IsRow(text), NEW p, Located(p)
  PROVE  Resolves(p)
<1> DEFINE n == Len(LineStarts)
           lines == {p.line, n}
           line == LineStarts[p.line]
           ends == {End, p.offset}
<1>1. End \in Nat /\ n \in Nat \ {0}
  BY RowLen, LineStartsAre DEF End
<1>2. p.line \in 1..n /\ p.offset \in 0..End /\ line + p.column = p.offset + 1 /\ p.column \in Int
  BY DEF Located, SourcePos
<1>3. line \in Int
  <2>1. LineStarts[1] = 0 /\ \A k \in 2..n : LineStarts[k] \in 1..End
    BY LineStartsAre
  <2> QED BY <1>1, <1>2, <2>1
<1>4. Min(lines) = p.line
  BY <1>1, <1>2 DEF Min
<1>5. line + p.column - 1 = p.offset
  <2> HIDE DEF line
  <2> QED BY <1>2, <1>3
<1>6. Min({End, line + p.column - 1}) = p.offset
  <2>1. Min(ends) = p.offset
    BY <1>1, <1>2 DEF Min
  <2> QED BY <1>5, <2>1
<1> QED BY <1>4, <1>6 DEF Resolves, GetOffset

-----------------------------------------------------------------------------
(* The error tokens and the reports, one by one.                           *)
Bad(ts) == {k \in DOMAIN ts : ts[k].kind = "error"}

Reported(ts, es) ==
  /\ IsRow(ts) /\ IsRow(es) /\ Cardinality(Bad(ts)) = Len(es)
  /\ \A k \in Bad(ts) :
       es[Cardinality(Bad(ts) \cap 1..k)].at.offset \in ts[k].begin.offset..ts[k].end.offset

(* An error token and the error tokens before it are some of them.         *)
LEMMA BadCounted ==
  ASSUME NEW ts, IsRow(ts)
  PROVE  /\ IsFiniteSet(Bad(ts)) /\ Bad(ts) \subseteq 1..Len(ts)
         /\ \A k \in Bad(ts) : Cardinality(Bad(ts) \cap 1..k) \in 1..Cardinality(Bad(ts))
<1> DEFINE n == Len(ts)
<1>1. n \in Nat /\ DOMAIN ts = 1..n
  BY RowLen
<1>2. Bad(ts) \subseteq 1..n
  BY <1>1 DEF Bad
<1>3. IsFiniteSet(1..n)
  <2> HIDE DEF n
  <2> QED BY <1>1, FS_Interval
<1>4. IsFiniteSet(Bad(ts))
  BY <1>2, <1>3, FS_Subset
<1>5. ASSUME NEW k \in Bad(ts)
      PROVE  Cardinality(Bad(ts) \cap 1..k) \in 1..Cardinality(Bad(ts))
  <2> DEFINE B == Bad(ts)
             C == B \cap 1..k
  <2>1. C \subseteq B /\ k \in C
    BY <1>1, <1>2
  <2> HIDE DEF B, C
  <2>2. IsFiniteSet(B) /\ IsFiniteSet(C)
    BY <1>4, <2>1, FS_Subset DEF B
  <2>3. Cardinality(B) \in Nat /\ Cardinality(C) \in Nat /\ Cardinality(C) =< Cardinality(B)
    BY <2>1, <2>2, FS_Subset, FS_CardinalityType
  <2>4. Cardinality(C) # 0
    BY <2>1, <2>2, FS_EmptySet
  <2>5. Cardinality(C) \in 1..Cardinality(B)
    BY <2>3, <2>4
  <2> QED BY <2>5 DEF B, C
<1> QED BY <1>2, <1>4, <1>5

LEMMA ReportedGood ==
  ASSUME NEW ts, NEW es, Reported(ts, es), NEW x, x.kind # "error"
  PROVE  Reported(Append(ts, x), es) /\ Bad(Append(ts, x)) = Bad(ts)
<1> DEFINE us == Append(ts, x)
           n == Len(ts)
<1>1. /\ IsRow(us) /\ Len(us) = n + 1 /\ us[n + 1] = x /\ \A k \in 1..n : us[k] = ts[k]
      /\ n \in Nat /\ DOMAIN ts = 1..n
  BY RowAppend, RowLen DEF Reported
<1> HIDE DEF us, n
<1>2. DOMAIN us = 1..n + 1
  BY <1>1, RowLen
<1>3. Bad(us) = Bad(ts)
  BY <1>1, <1>2 DEF Bad
<1>4. \A k \in Bad(ts) : us[k] = ts[k]
  BY <1>1 DEF Bad
<1> QED BY <1>1, <1>3, <1>4 DEF Reported, us

LEMMA ReportedBad ==
  ASSUME NEW ts, NEW es, Reported(ts, es), NEW x, x.kind = "error",
         NEW e, e.at.offset \in x.begin.offset..x.end.offset
  PROVE  /\ Reported(Append(ts, x), Append(es, e))
         /\ Bad(Append(ts, x)) # {} /\ Append(es, e) # <<>>
<1> DEFINE us == Append(ts, x)
           fs == Append(es, e)
           n == Len(ts)
           m == Len(es)
<1>1. /\ IsRow(us) /\ Len(us) = n + 1 /\ us[n + 1] = x /\ \A k \in 1..n : us[k] = ts[k]
      /\ n \in Nat /\ DOMAIN ts = 1..n
  BY RowAppend, RowLen DEF Reported
<1>2. /\ IsRow(fs) /\ Len(fs) = m + 1 /\ fs[m + 1] = e /\ \A k \in 1..m : fs[k] = es[k]
      /\ m \in Nat
  BY RowAppend, RowLen DEF Reported
<1>3. /\ IsFiniteSet(Bad(ts)) /\ Bad(ts) \subseteq 1..n /\ Cardinality(Bad(ts)) = m
      /\ \A k \in Bad(ts) : Cardinality(Bad(ts) \cap 1..k) \in 1..m
  BY BadCounted DEF Reported
<1>4. \A k \in Bad(ts) :
        es[Cardinality(Bad(ts) \cap 1..k)].at.offset \in ts[k].begin.offset..ts[k].end.offset
  BY DEF Reported
<1> HIDE DEF us, fs, n, m
<1>5. DOMAIN us = 1..n + 1
  BY <1>1, RowLen
<1>6. Bad(us) = Bad(ts) \cup {n + 1}
  BY <1>1, <1>5 DEF Bad
<1>7. n + 1 \notin Bad(ts)
  BY <1>1, <1>3
<1>8. Cardinality(Bad(us)) = m + 1
  BY <1>3, <1>6, <1>7, FS_AddElement
<1>9. ASSUME NEW k \in Bad(us)
      PROVE  fs[Cardinality(Bad(us) \cap 1..k)].at.offset \in us[k].begin.offset..us[k].end.offset
  <2>1. CASE k \in Bad(ts)
    <3>1. k \in 1..n
      BY <1>3, <2>1
    <3>2. Bad(us) \cap 1..k = Bad(ts) \cap 1..k
      BY <1>1, <1>6, <3>1
    <3>3. us[k] = ts[k] /\ fs[Cardinality(Bad(ts) \cap 1..k)] = es[Cardinality(Bad(ts) \cap 1..k)]
      BY <1>1, <1>2, <1>3, <2>1, <3>1
    <3> QED BY <1>4, <2>1, <3>2, <3>3
  <2>2. CASE k \notin Bad(ts)
    <3>1. k = n + 1
      BY <1>6, <2>2
    <3>2. Bad(us) \cap 1..k = Bad(us)
      BY <1>1, <1>3, <1>6, <3>1
    <3> QED BY <1>1, <1>2, <1>8, <3>1, <3>2
  <2> QED BY <2>1, <2>2
<1>10. Bad(us) # {} /\ fs # <<>>
  <2>1. fs # <<>>
    BY <1>2, RowLen
  <2> QED BY <1>6, <2>1
<1> QED BY <1>1, <1>2, <1>8, <1>9, <1>10 DEF Reported, us, fs

(* The tokens follow each other, up to where the lexer is.                 *)
Follows(ts, at) ==
  /\ IsRow(ts)
  /\ \A k \in 1..Len(ts) :
       /\ Located(ts[k].begin) /\ Located(ts[k].end)
       /\ ts[k].begin.offset =< ts[k].end.offset /\ ts[k].end.offset =< at
       /\ ts[k].kind # "eof" => ts[k].begin.offset < ts[k].end.offset
       /\ k > 1 => ts[k - 1].end.offset =< ts[k].begin.offset

LEMMA FollowsAppend ==
  ASSUME IsRow(text), NEW ts, NEW at \in Int, Follows(ts, at), NEW x,
         Located(x.begin), Located(x.end), at =< x.begin.offset, x.begin.offset =< x.end.offset,
         x.kind # "eof" => x.begin.offset < x.end.offset
  PROVE  Follows(Append(ts, x), x.end.offset)
<1> DEFINE us == Append(ts, x)
           n == Len(ts)
<1>1. /\ IsRow(us) /\ Len(us) = n + 1 /\ us[n + 1] = x /\ \A k \in 1..n : us[k] = ts[k]
      /\ n \in Nat
  BY RowAppend, RowLen DEF Follows
<1>2. \A p : Located(p) => p.offset \in Int
  BY DEF Located, SourcePos
<1>3. \A k \in 1..n :
        /\ Located(ts[k].begin) /\ Located(ts[k].end)
        /\ ts[k].begin.offset =< ts[k].end.offset /\ ts[k].end.offset =< at
        /\ ts[k].kind # "eof" => ts[k].begin.offset < ts[k].end.offset
        /\ k > 1 => ts[k - 1].end.offset =< ts[k].begin.offset
  BY DEF Follows
<1> HIDE DEF us, n
<1>4. ASSUME NEW k \in 1..n + 1
      PROVE  /\ Located(us[k].begin) /\ Located(us[k].end)
             /\ us[k].begin.offset =< us[k].end.offset /\ us[k].end.offset =< x.end.offset
             /\ us[k].kind # "eof" => us[k].begin.offset < us[k].end.offset
             /\ k > 1 => us[k - 1].end.offset =< us[k].begin.offset
  <2>1. CASE k \in 1..n
    <3>1. us[k] = ts[k] /\ (k > 1 => us[k - 1] = ts[k - 1])
      BY <1>1, <2>1
    <3>2. ts[k].end.offset \in Int /\ x.begin.offset \in Int /\ x.end.offset \in Int
      BY <1>2, <1>3, <2>1
    <3>3. ts[k].end.offset =< x.end.offset
      BY <1>3, <2>1, <3>2
    <3> QED BY <1>3, <2>1, <3>1, <3>3
  <2>2. CASE k \notin 1..n
    <3>1. k = n + 1 /\ us[k] = x
      BY <1>1, <2>2
    <3>2. x.end.offset \in Int /\ x.begin.offset \in Int
      BY <1>2
    <3>3. k > 1 => us[k - 1].end.offset =< x.begin.offset
      <4> SUFFICES ASSUME k > 1 PROVE us[k - 1].end.offset =< x.begin.offset
        OBVIOUS
      <4>1. k - 1 \in 1..n
        BY <1>1, <3>1
      <4>2. us[k - 1] = ts[k - 1] /\ ts[k - 1].end.offset =< at /\ ts[k - 1].end.offset \in Int
        BY <1>1, <1>2, <1>3, <4>1
      <4> QED BY <3>2, <4>2
    <3> QED BY <3>1, <3>2, <3>3
  <2> QED BY <2>1, <2>2
<1> QED BY <1>1, <1>4 DEF Follows, us

-----------------------------------------------------------------------------
(* The lexer, between two tokens.                                          *)
LexInv ==
  /\ IsRow(text) /\ Located(pos) /\ Follows(tokens, pos.offset)
  /\ Reported(tokens, lexErrors) /\ (hadError <=> Bad(tokens) # {}) /\ hadError \in BOOLEAN
  /\ \A k \in 1..Len(lexErrors) : Located(lexErrors[k].at)

LEMMA LexerBegins ==
  ASSUME IsRow(text), LexerStarts
  PROVE  LexInv
<1>1. tokens = <<>> /\ lexErrors = <<>> /\ hadError = FALSE
  BY DEF LexerStarts
<1>2. Located(pos)
  <2>1. CASE Peek(0) = BOM
    <3>1. End \in Nat /\ 0 \in 0..End
      BY RowLen DEF End
    <3>2. Peek(0) # NUL
      BY <2>1, LexerAssumption
    <3>3. 0 < End
      BY <3>1, <3>2, PeekIs
    <3>4. pos = Advance(Start, text[Start.offset + 1])
      BY <2>1, <3>3 DEF LexerStarts, Peek, Start
    <3>5. Located(Start) /\ Start.offset < End
      BY <3>3, StartLocated DEF Start
    <3> QED BY <3>4, <3>5, AdvanceLocated
  <2>2. CASE Peek(0) # BOM
    <3>1. pos = Start
      BY <2>2 DEF LexerStarts
    <3> QED BY <3>1, StartLocated
  <2> QED BY <2>1, <2>2
<1> DEFINE none == <<>>
<1>3. IsRow(none) /\ Len(none) = 0 /\ DOMAIN none = {}
  BY DEF IsRow
<1>4. Bad(none) = {}
  BY <1>3 DEF Bad
<1>5. Cardinality(Bad(none)) = 0
  BY <1>4, FS_EmptySet
<1> HIDE DEF none
<1>6. Reported(none, none) /\ \A at : Follows(none, at)
  BY <1>3, <1>4, <1>5 DEF Reported, Follows
<1>7. tokens = none /\ lexErrors = none
  BY <1>1 DEF none
<1>8. (hadError <=> Bad(tokens) # {}) /\ hadError \in BOOLEAN
  BY <1>1, <1>4, <1>7, Zenon
<1>9. \A k \in 1..Len(lexErrors) : Located(lexErrors[k].at)
  BY <1>3, <1>7
<1>10. Follows(tokens, pos.offset) /\ Reported(tokens, lexErrors)
  BY <1>6, <1>7, Zenon
<1> QED BY <1>2, <1>8, <1>9, <1>10 DEF LexInv

(* What is found wrong with the next token goes behind what is found.      *)
LEMMA WrongAppended ==
  ASSUME NEW es, IsRow(es), NEW w, NEW e, NEW f, f = [k \in DOMAIN <<w>> |-> e]
  PROVE  es \o f = Append(es, e)
<1>1. PICK S : es \in Seq(S)
  BY DEF IsRow
<1>2. es \in Seq(S \cup {e}) /\ e \in S \cup {e}
  BY <1>1
<1>3. f = <<e>>
  OBVIOUS
<1> QED BY <1>2, <1>3

LEMMA NothingAppended ==
  ASSUME NEW es, IsRow(es), NEW f, DOMAIN f = {}, f = [k \in DOMAIN f |-> f[k]]
  PROVE  es \o f = es
<1>1. PICK S : es \in Seq(S)
  BY DEF IsRow
<1>2. f = <<>>
  OBVIOUS
<1> QED BY <1>1, <1>2

LEMMA LexTokenKeeps ==
  ASSUME LexInv, LexToken
  PROVE  LexInv'
<1>1. /\ IsRow(text) /\ Located(pos) /\ Follows(tokens, pos.offset)
      /\ Reported(tokens, lexErrors) /\ (hadError <=> Bad(tokens) # {}) /\ hadError \in BOOLEAN
      /\ \A k \in 1..Len(lexErrors) : Located(lexErrors[k].at)
      /\ text' = text
  BY ZenonT(40) DEF LexInv, LexToken
<1> DEFINE from  == NextToken(pos.offset)
           begin == To(pos, from)
           s     == Scan(begin.offset)
           end   == To(begin, s.end)
           x     == [kind |-> s.kind, value |-> s.value, begin |-> begin, end |-> end]
           f     == [k \in DOMAIN s.wrong |-> [what |-> s.wrong[k].what, at |-> To(begin, s.wrong[k].at)]]
<1>2. /\ tokens' = Append(tokens, x) /\ pos' = end /\ lexErrors' = lexErrors \o f
      /\ hadError' = (hadError \/ s.wrong # <<>>)
  BY Zenon DEF LexToken
<1>3. End \in Nat /\ pos.offset \in 0..End
  BY <1>1, RowLen DEF End, Located
<1>4. from \in pos.offset..End
  BY <1>1, <1>3, NextTokenIs
<1> HIDE DEF from
<1>5. Located(begin) /\ begin.offset = from
  BY <1>1, <1>4, ToIs
<1>6. begin.offset \in 0..End /\ pos.offset \in Int /\ pos.offset =< begin.offset
  BY <1>3, <1>4, <1>5
<1> HIDE DEF begin
<1>7. TokenAt(s, begin.offset)
  BY <1>1, <1>6, ScanIs
<1> HIDE DEF s
<1>8. s.end \in begin.offset..End /\ (s.kind # "eof" => begin.offset < s.end)
  BY <1>7 DEF TokenAt
<1>9. Located(end) /\ end.offset = s.end
  BY <1>1, <1>5, <1>8, ToIs
<1> HIDE DEF end
<1>10. /\ x.kind = s.kind /\ x.begin = begin /\ x.end = end
  OBVIOUS
<1>11. begin.offset =< end.offset /\ (s.kind # "eof" => begin.offset < end.offset)
  BY <1>6, <1>8, <1>9
<1> HIDE DEF x
<1>12. Follows(Append(tokens, x), end.offset)
  BY <1>1, <1>5, <1>6, <1>9, <1>10, <1>11, FollowsAppend
<1> DEFINE ts == Append(tokens, x)
           es == lexErrors \o f
<1>13. /\ Reported(ts, es) /\ (hadError' <=> Bad(ts) # {})
       /\ \A k \in 1..Len(es) : Located(es[k].at)
  <2>1. CASE s.kind # "error"
    <3>1. s.wrong = <<>>
      BY <1>7, <2>1 DEF TokenAt
    <3>2. DOMAIN f = {} /\ f = [k \in DOMAIN f |-> f[k]]
      BY <3>1
    <3> HIDE DEF f
    <3>3. es = lexErrors
      BY <1>1, <3>2, NothingAppended DEF Reported
    <3>4. Reported(ts, lexErrors) /\ Bad(ts) = Bad(tokens)
      BY <1>1, <1>10, <2>1, ReportedGood
    <3>5. hadError' <=> hadError
      BY <1>2, <3>1
    <3> HIDE DEF es, ts
    <3> QED BY <1>1, <3>3, <3>4, <3>5
  <2>2. CASE s.kind = "error"
    <3>1. PICK w : s.wrong = <<w>> /\ w.at \in begin.offset..s.end
      BY <1>7, <2>2 DEF TokenAt
    <3> DEFINE e == [what |-> w.what, at |-> To(begin, w.at)]
    <3>2. Located(To(begin, w.at)) /\ To(begin, w.at).offset = w.at
      <4>1. w.at \in begin.offset..End
        BY <1>3, <1>6, <1>8, <3>1
      <4> QED BY <1>1, <1>5, <4>1, ToIs
    <3>3. f = [k \in DOMAIN <<w>> |-> e]
      <4>1. DOMAIN <<w>> = {1} /\ <<w>>[1] = w
        OBVIOUS
      <4> QED BY <3>1, <4>1
    <3>4. e.at = To(begin, w.at)
      OBVIOUS
    <3> HIDE DEF e, f
    <3>5. es = Append(lexErrors, e)
      BY <1>1, <3>3, WrongAppended DEF Reported
    <3>6. e.at.offset \in x.begin.offset..x.end.offset
      BY <1>9, <1>10, <3>1, <3>2, <3>4
    <3>7. Reported(ts, Append(lexErrors, e)) /\ Bad(ts) # {}
      BY <1>1, <1>10, <2>2, <3>6, ReportedBad
    <3>8. hadError'
      <4>1. s.wrong # <<>>
        BY <3>1
      <4> QED BY <1>2, <4>1, Zenon
    <3>9. \A k \in 1..Len(es) : Located(es[k].at)
      <4>1. /\ Len(es) = Len(lexErrors) + 1 /\ es[Len(lexErrors) + 1] = e
            /\ \A k \in 1..Len(lexErrors) : es[k] = lexErrors[k]
            /\ Len(lexErrors) \in Nat
        BY <1>1, <3>5, RowAppend, RowLen DEF Reported
      <4>2. \A k \in 1..Len(es) : k \in 1..Len(lexErrors) \/ k = Len(lexErrors) + 1
        BY <4>1
      <4> QED BY <1>1, <3>2, <3>4, <4>1, <4>2
    <3> QED BY <3>5, <3>7, <3>8, <3>9
  <2> QED BY <2>1, <2>2
<1> HIDE DEF ts, es
<1>14. tokens' = ts /\ lexErrors' = es /\ pos' = end
  BY <1>2 DEF ts, es
<1>15. hadError' \in BOOLEAN
  BY <1>2
<1>16. LineStarts' = LineStarts /\ End' = End
  BY <1>1 DEF LineStarts, End
<1>17. \A p : Located(p)' <=> Located(p)
  BY <1>16 DEF Located
<1>18. Follows(ts, end.offset)
  BY <1>12 DEF ts
<1>19. Follows(tokens, pos.offset)'
  BY <1>14, <1>17, <1>18 DEF Follows
<1>20. Located(pos)' /\ IsRow(text)' /\ (\A k \in 1..Len(lexErrors) : Located(lexErrors[k].at))'
  BY <1>1, <1>9, <1>13, <1>14, <1>17
<1>21. Reported(tokens, lexErrors)' /\ (hadError <=> Bad(tokens) # {})'
  BY <1>13, <1>14
<1> QED BY <1>15, <1>19, <1>20, <1>21, SMTT(30) DEF LexInv

(* The lexer stands still.                                                 *)
LEMMA LexerRests ==
  ASSUME LexInv, UNCHANGED lexerVars
  PROVE  LexInv'
<1>1. /\ text' = text /\ tokens' = tokens /\ pos' = pos /\ lexErrors' = lexErrors
      /\ hadError' = hadError
  BY DEF lexerVars
<1>2. LineStarts' = LineStarts /\ End' = End
  BY <1>1 DEF LineStarts, End
<1>3. \A p : Located(p)' <=> Located(p)
  BY <1>2 DEF Located
<1>4. IsRow(text)' /\ Located(pos)' /\ (\A k \in 1..Len(lexErrors) : Located(lexErrors[k].at))'
  BY <1>1, <1>3 DEF LexInv
<1>5. Follows(tokens, pos.offset)'
  BY <1>1, <1>3 DEF LexInv, Follows
<1>6. Reported(tokens, lexErrors)'
  BY <1>1 DEF LexInv
<1>7. (hadError <=> Bad(tokens) # {})' /\ (hadError \in BOOLEAN)'
  BY <1>1 DEF LexInv
<1> QED BY <1>4, <1>5, <1>6, <1>7 DEF LexInv

(* What the lexer hands to the parser is what the parser needs.            *)
LEMMA LexerLaysOut ==
  ASSUME LexInv, LexDone
  PROVE  Base
<1>1. Follows(tokens, pos.offset) /\ IsRow(tokens)
  BY DEF LexInv, Follows
<1>2. tokens # <<>> /\ Last(tokens).kind = "eof"
  BY DEF LexDone
<1>3. End \in Nat /\ DOMAIN tokens = 1..Len(tokens)
  BY <1>1, RowLen DEF LexInv, End
<1>4. ASSUME NEW k \in DOMAIN tokens
      PROVE  LET begin == tokens[k].begin.offset
                 end   == tokens[k].end.offset
             IN /\ begin \in Nat /\ end \in Nat /\ begin =< end
                /\ tokens[k].kind # "eof" => begin < end
                /\ k > 1 => tokens[k - 1].end.offset =< begin
  <2>1. k \in 1..Len(tokens)
    BY <1>3
  <2>2. /\ Located(tokens[k].begin) /\ Located(tokens[k].end)
        /\ tokens[k].begin.offset =< tokens[k].end.offset
        /\ tokens[k].kind # "eof" => tokens[k].begin.offset < tokens[k].end.offset
        /\ k > 1 => tokens[k - 1].end.offset =< tokens[k].begin.offset
    BY <1>1, <2>1 DEF Follows
  <2>3. tokens[k].begin.offset \in Nat /\ tokens[k].end.offset \in Nat
    BY <1>3, <2>2 DEF Located
  <2> QED BY <2>2, <2>3
<1>5. LaidOut
  BY <1>2, <1>4 DEF LaidOut
<1> QED BY <1>1, <1>5 DEF Base

LEMMA LexerReports ==
  ASSUME LexInv
  PROVE  OneReport
<1>1. Reported(tokens, lexErrors) /\ (hadError <=> Bad(tokens) # {}) /\ hadError \in BOOLEAN
  BY DEF LexInv
<1>2. Errors = Bad(tokens)
  BY DEF Errors, Bad
<1>3. hadError = (Errors # {})
  BY <1>1, <1>2, Zenon
<1>4. /\ Cardinality(Errors) = Len(lexErrors)
      /\ \A k \in Errors :
           lexErrors[Cardinality(Errors \cap 1..k)].at.offset
             \in tokens[k].begin.offset..tokens[k].end.offset
  BY <1>1, <1>2 DEF Reported
<1> QED BY <1>3, <1>4 DEF OneReport

LEMMA LexerResolves ==
  ASSUME LexInv
  PROVE  PositionsResolve
<1>1. IsRow(text) /\ IsRow(tokens) /\ IsRow(lexErrors) /\ Follows(tokens, pos.offset)
  BY DEF LexInv, Reported
<1>2. tokens # <<>> => Located(Newest.begin) /\ Located(Newest.end)
  BY <1>1, RowLen DEF Follows, Newest
<1>3. lexErrors # <<>> => Located(Last(lexErrors).at)
  BY <1>1, RowLen DEF LexInv
<1> QED BY <1>1, <1>2, <1>3, LocatedResolves DEF PositionsResolve

(* Nothing was reported exactly when nothing went wrong.                   *)
LEMMA QuietIs ==
  ASSUME LexInv, Told
  PROVE  lexErrors = <<>> /\ errors = <<>> <=> ~hadError /\ ~failed
<1>1. /\ IsRow(tokens) /\ IsRow(lexErrors) /\ Cardinality(Bad(tokens)) = Len(lexErrors)
      /\ (hadError <=> Bad(tokens) # {})
  BY DEF LexInv, Reported
<1>2. IsFiniteSet(Bad(tokens))
  BY <1>1, BadCounted
<1>3. Cardinality(Bad(tokens)) = 0 <=> Bad(tokens) = {}
  BY <1>2, FS_EmptySet
<1>4. lexErrors = <<>> <=> Len(lexErrors) = 0
  BY <1>1, RowLen
<1>5. lexErrors = <<>> <=> ~hadError
  BY <1>1, <1>3, <1>4
<1>6. failed => errors # <<>> \/ Bad(tokens) # {}
  BY <1>1, RowLen DEF Told, FailureReported, Bad, ToSet
<1>7. errors # <<>> => failed
  BY DEF Told
<1> QED BY <1>1, <1>5, <1>6, <1>7

-----------------------------------------------------------------------------
(* The stages in a row.  The lexer keeps to the text; what it hands over   *)
(* is what the parser needs; and the parser does not touch it any more.    *)
FInv ==
  /\ stage \in Stage /\ LexInv
  /\ stage = "lex" => ParserStarts
  /\ stage # "lex" => Base
  /\ IInv /\ Told
  /\ stage # "lex" => Grown

LEMMA FrontEndBegins ==
  ASSUME Init
  PROVE  FInv
<1>1. PICK job \in Jobs : text = job.text
  BY DEF Init
<1>2. IsRow(text)
  BY <1>1, JobsAssumption DEF IsRow
<1>3. LexerStarts /\ ParserStarts /\ stage = "lex"
  BY DEF Init
<1>4. LexInv
  BY <1>2, <1>3, LexerBegins
<1>5. IInv /\ Told
  BY <1>3, ParserInit, ParserSilent
<1> QED BY <1>3, <1>4, <1>5 DEF FInv, Stage

(* The parser stands still.                                                *)
LEMMA ParserRests ==
  ASSUME UNCHANGED <<tokens, parserVars>>
  PROVE  /\ IInv => IInv'
         /\ IInv /\ Grown => Grown'
         /\ IInv /\ Grown /\ Told => Told'
         /\ Told => Told'
         /\ ParserStarts => ParserStarts'
         /\ Base => Base'
<1>1. UNCHANGED parserVars /\ tokens' = tokens
  OBVIOUS
<1>2. IInv => IInv'
  BY ParserKeeps
<1>3. IInv /\ Grown => Grown'
  BY ParserGrows
<1>4. Told => Told'
  BY <1>1 DEF Told, FailureReported, Rooted, parserVars
<1>5. ParserStarts => ParserStarts'
  BY <1>1 DEF ParserStarts, parserVars
<1>6. Base => Base'
  BY <1>1 DEF Base, LaidOut
<1> QED BY <1>2, <1>3, <1>4, <1>5, <1>6

LEMMA FrontEndKeeps ==
  ASSUME FInv, [Next]_vars
  PROVE  FInv'
<1>1. /\ stage \in Stage /\ LexInv /\ IInv /\ Told
      /\ stage = "lex" => ParserStarts
      /\ stage # "lex" => Base /\ Grown
  BY DEF FInv
<1>2. ASSUME UNCHANGED <<lexerVars, parserVars>>, stage # "lex", stage' \in Stage \ {"lex"}
      PROVE  FInv'
  <2>1. LexInv'
    BY <1>1, <1>2, LexerRests
  <2>2. UNCHANGED <<tokens, parserVars>>
    BY <1>2 DEF lexerVars
  <2>3. IInv' /\ Grown' /\ Told' /\ Base'
    BY <1>1, <1>2, <2>2, ParserRests
  <2> QED BY <1>2, <2>1, <2>3 DEF FInv
<1>3. CASE Lexing
  <2>1. /\ stage = "lex" /\ LexToken /\ UNCHANGED parserVars /\ stage' = stage
    BY <1>3 DEF Lexing, driverVars
  <2>2. LexInv'
    BY <1>1, <2>1, LexTokenKeeps
  <2>3. ParserStarts'
    BY <1>1, <2>1 DEF ParserStarts, parserVars
  <2>4. ParserStarts' => IInv' /\ Told'
    BY <2>1, <1>1, <2>3 DEF IInv, Calls, Told, FailureReported, Rooted, ParserStarts, parserVars, Top
  <2> QED BY <1>1, <2>1, <2>2, <2>3, <2>4 DEF FInv
<1>4. CASE EndLexing
  <2>1. /\ stage = "lex" /\ LexDone /\ UNCHANGED <<lexerVars, parserVars>>
        /\ stage' \in Stage \ {"lex"}
    BY <1>4 DEF EndLexing, Leaves, Stage
  <2>2. Base /\ Grown
    BY <1>1, <2>1, LexerLaysOut, ParserPlants
  <2>3. UNCHANGED <<tokens, parserVars>>
    BY <2>1 DEF lexerVars
  <2>4. IInv' /\ Grown' /\ Told' /\ Base'
    BY <1>1, <2>2, <2>3, ParserRests
  <2>5. LexInv'
    BY <1>1, <2>1, LexerRests
  <2> QED BY <2>1, <2>4, <2>5 DEF FInv
<1>5. CASE Parsing
  <2>1. /\ stage = "parse" /\ ParserNext /\ UNCHANGED lexerVars /\ stage' = stage
        /\ tokens' = tokens
    BY <1>5 DEF Parsing, driverVars, lexerVars
  <2>2. LexInv'
    BY <1>1, <2>1, LexerRests
  <2>3. IInv' /\ Grown' /\ Told'
    BY <1>1, <2>1, ParserKeeps, ParserGrows, ParserTells
  <2>4. Base'
    BY <1>1, <2>1 DEF Base, LaidOut
  <2> QED BY <1>1, <2>1, <2>2, <2>3, <2>4 DEF FInv
<1>6. CASE EndParsing
  <2>1. /\ UNCHANGED <<lexerVars, parserVars>> /\ stage = "parse" /\ stage' \in Stage \ {"lex"}
    BY <1>6 DEF EndParsing, Leaves, Stage
  <2> QED BY <1>2, <2>1
<1>7. CASE Importing
  <2>1. /\ UNCHANGED <<lexerVars, parserVars>> /\ stage = "import" /\ stage' \in Stage \ {"lex"}
    BY <1>7 DEF Importing, driverVars, Stage
  <2> QED BY <1>2, <2>1
<1>8. CASE EndImport
  <2>1. /\ UNCHANGED <<lexerVars, parserVars>> /\ stage = "import" /\ stage' \in Stage \ {"lex"}
    BY <1>8 DEF EndImport, Leaves, Stage
  <2> QED BY <1>2, <2>1
<1>9. CASE Canonicalize
  <2>1. /\ UNCHANGED <<lexerVars, parserVars>> /\ stage = "canonicalize" /\ stage' \in Stage \ {"lex"}
    BY <1>9 DEF Canonicalize, Leaves, Stage
  <2> QED BY <1>2, <2>1
<1>10. CASE WriteTrace
  <2>1. /\ UNCHANGED <<lexerVars, parserVars>> /\ stage = "trace" /\ stage' \in Stage \ {"lex"}
    BY <1>10 DEF WriteTrace, Stage
  <2> QED BY <1>2, <2>1
<1>11. CASE UNCHANGED vars
  <2>1. UNCHANGED <<lexerVars, parserVars>> /\ stage' = stage
    BY <1>11 DEF vars, driverVars
  <2>2. CASE stage = "lex"
    <3>1. LexInv'
      BY <1>1, <2>1, LexerRests
    <3>2. UNCHANGED <<tokens, parserVars>>
      BY <2>1 DEF lexerVars
    <3>3. IInv' /\ Told' /\ ParserStarts'
      BY <1>1, <2>2, <3>2, ParserRests
    <3> QED BY <1>1, <2>1, <2>2, <3>1, <3>3 DEF FInv
  <2> QED BY <1>1, <1>2, <2>1, <2>2
<1> QED BY <1>3, <1>4, <1>5, <1>6, <1>7, <1>8, <1>9, <1>10, <1>11 DEF Next

THEOREM FrontEndInvariant == Spec => []FInv
<1>1. Init => FInv
  BY FrontEndBegins
<1>2. FInv /\ [Next]_vars => FInv'
  BY FrontEndKeeps
<1> QED BY <1>1, <1>2, PTL DEF Spec

(* "Lexical errors are reported through the context's diagnostic engine    *)
(* and produce `Error` tokens" (Lexer.h): for every text and every way its *)
(* characters are read, reports and error tokens go together one by one, in*)
(* order, and a report lies in its token.                                  *)
THEOREM FrontEndOneReport == Spec => []OneReport
<1>1. FInv => OneReport
  BY LexerReports DEF FInv
<1> QED BY <1>1, FrontEndInvariant, PTL

(* The line and column of a token and of a report lead back to its offset  *)
(* (getOffset), whatever the lines of the text are.                        *)
THEOREM FrontEndPositionsResolve == Spec => []PositionsResolve
<1>1. FInv => PositionsResolve
  BY LexerResolves DEF FInv
<1> QED BY <1>1, FrontEndInvariant, PTL

(* What the parser needs of tokens, and the theorems about it assume, is   *)
(* what the lexer makes of every text: they follow each other, none is     *)
(* empty but eof, and eof is the last.                                     *)
THEOREM FrontEndLaysOut == Spec => [](stage # "lex" => IsRow(tokens) /\ LaidOut)
<1>1. FInv => (stage # "lex" => IsRow(tokens) /\ LaidOut)
  BY DEF FInv, Base
<1> QED BY <1>1, FrontEndInvariant, PTL

(* So the nodes of the tree nest, whatever the text is, legal or not.      *)
THEOREM FrontEndNodesNest == Spec => []NodesNest
<1>1. FInv => NodesNest
  <2>1. CASE stage = "lex"
    <3>1. ASSUME ParserStarts
          PROVE  NodesNest
      <4>1. DOMAIN nodes = {} /\ call.at # "done"
        BY <3>1 DEF ParserStarts
      <4> QED BY <4>1 DEF NodesNest, Done, At
    <3> QED BY <2>1, <3>1 DEF FInv
  <2>2. CASE stage # "lex"
    BY <2>2, GrownNests DEF FInv
  <2> QED BY <2>1, <2>2
<1> QED BY <1>1, FrontEndInvariant, PTL

(* No text makes the recursion of the parser deeper than the limit allows. *)
THEOREM FrontEndStackBounded == Spec => []StackBounded
<1>1. FInv => StackBounded
  BY CallsBound DEF FInv
<1> QED BY <1>1, FrontEndInvariant, PTL

-----------------------------------------------------------------------------
(* What the exit status says.  Nothing wrong has been reported by the      *)
(* stages that are over, or the stage that goes on would not have begun.   *)
Printed ==
  /\ output = Wanted /\ lexErrors = <<>> /\ errors = <<>> /\ ierrors = {}
  /\ Asks("emit-trace") /\ Wanted = "ir" => canonicalized

Verdict ==
  /\ stage \in {"lex", "parse"} => ierrors = {} /\ ipc = "start"
  /\ stage \in {"lex", "parse", "import"} => output = ""
  /\ stage \in {"lex", "parse", "import", "canonicalize"} => canonicalized = FALSE
  /\ stage \in {"parse", "import", "canonicalize"} => ~Asks("dump-tokens")
  /\ stage \in {"import", "canonicalize"} =>
       ~Asks("dump-ast") /\ ParseAccepted /\ (ipc = "module" => ierrors = {})
  /\ stage = "canonicalize" => Asks("emit-trace") /\ output = "ir" /\ ipc = "module"
  /\ stage = "trace" => Asks("emit-trace") /\ (success <=> Printed)
  /\ stage # "done" => trace = {}
  /\ stage = "done" => (success <=> Printed /\ (Asks("emit-trace") => trace # {}))
  /\ success \in BOOLEAN

LEMMA VerdictBegins ==
  ASSUME Init
  PROVE  Verdict
<1>1. /\ stage = "lex" /\ output = "" /\ canonicalized = FALSE /\ success = FALSE /\ trace = {}
      /\ ierrors = {} /\ ipc = "start"
  BY DEF Init, Import!Idle
<1> QED BY <1>1 DEF Verdict

(* A run of the front end ends with its verdict.                           *)
LEMMA LeavesTells ==
  ASSUME NEW ok \in BOOLEAN, Leaves(ok), ok <=> Printed', trace' = {}, options' = options
  PROVE  Verdict'
<1>1. /\ stage' = (IF Asks("emit-trace") THEN "trace" ELSE "done") /\ success' = ok
      /\ (Asks("emit-trace") <=> Asks("emit-trace")')
  BY DEF Leaves, Asks
<1>2. success' \in BOOLEAN /\ (success' <=> Printed')
  BY <1>1
<1>3. CASE Asks("emit-trace")
  <2>1. stage' = "trace"
    BY <1>1, <1>3
  <2> QED BY <1>1, <1>2, <1>3, <2>1 DEF Verdict
<1>4. CASE ~Asks("emit-trace")
  <2>1. stage' = "done"
    BY <1>1, <1>4
  <2> QED BY <1>1, <1>2, <1>4, <2>1 DEF Verdict
<1> QED BY <1>3, <1>4

(* The importer hands out a module only when it reported nothing.          *)
LEMMA ImportTells ==
  ASSUME Import!Next, ipc' = "module"
  PROVE  ierrors' = {}
<1>1. Import!Finish
  BY DEF Import!Next, Import!Begin, Import!TypeGuard, Import!RejectKeyword, Import!DropKeyword,
     Import!EmitKeyword, Import!EndKeywords, Import!RejectProperty, Import!EnterProperty,
     Import!FinishObject, Import!EnterBranch, Import!Return, Import!At, Import!AtKeyword,
     Import!AtProperty
<1> QED BY <1>1, SMTT(30) DEF Import!Finish

LEMMA VerdictKeeps ==
  ASSUME Verdict, FInv, [Next]_vars
  PROVE  Verdict'
<1>1. LexInv /\ Told /\ stage \in Stage /\ (stage = "lex" => ParserStarts)
  BY DEF FInv
<1>2. lexErrors = <<>> /\ errors = <<>> <=> ~hadError /\ ~failed
  BY <1>1, QuietIs
<1>3. hadError \in BOOLEAN /\ failed \in BOOLEAN
  BY <1>1 DEF LexInv, Told
<1> DEFINE Rest == UNCHANGED <<lexErrors, hadError, errors, failed, root, options>>
<1>4. ASSUME Rest
      PROVE  /\ (ParseAccepted <=> ParseAccepted') /\ Wanted' = Wanted
             /\ \A o : Asks(o) <=> Asks(o)'
  BY <1>4 DEF ParseAccepted, Wanted, Asks
<1>5. CASE Lexing
  <2>1. /\ stage = "lex" /\ stage' = "lex" /\ UNCHANGED <<output, canonicalized, success, trace, ierrors, ipc>>
    BY <1>5 DEF Lexing, driverVars, importerVars
  <2> QED BY <2>1 DEF Verdict
<1>6. CASE EndLexing
  <2>1. /\ stage = "lex" /\ Rest /\ UNCHANGED <<canonicalized, trace, ierrors, ipc>>
    BY <1>6 DEF EndLexing, lexerVars, parserVars, importerVars
  <2>2. /\ output = "" /\ canonicalized = FALSE /\ trace = {} /\ ierrors = {} /\ ipc = "start"
        /\ success \in BOOLEAN /\ errors = <<>> /\ ~failed
    BY <1>1, <2>1 DEF Verdict, ParserStarts
  <2>3. CASE Asks("dump-tokens")
    <3>1. output' = "tokens" /\ Leaves(~hadError)
      BY <1>6, <2>3 DEF EndLexing
    <3>2. Wanted' = "tokens"
      BY <1>4, <2>1, <2>3 DEF Wanted
    <3>3. ~hadError <=> Printed'
      BY <1>2, <2>1, <2>2, <3>1, <3>2 DEF Printed
    <3>4. (~hadError) \in BOOLEAN /\ trace' = {} /\ options' = options
      BY <2>1, <2>2
    <3> QED BY <3>1, <3>3, <3>4, LeavesTells
  <2>4. CASE ~Asks("dump-tokens")
    <3>1. stage' = "parse" /\ output' = output /\ success' = success
      BY <1>6, <2>4 DEF EndLexing
    <3>2. ~Asks("dump-tokens")'
      BY <1>4, <2>1, <2>4
    <3> QED BY <2>1, <2>2, <3>1, <3>2 DEF Verdict
  <2> QED BY <2>3, <2>4
<1>7. CASE Parsing
  <2>1. /\ stage = "parse" /\ stage' = "parse" /\ options' = options
        /\ UNCHANGED <<output, canonicalized, success, trace, ierrors, ipc>>
    BY <1>7 DEF Parsing, driverVars, importerVars
  <2> QED BY <2>1 DEF Verdict, Asks
<1>8. CASE EndParsing
  <2>1. /\ stage = "parse" /\ Done /\ Rest /\ UNCHANGED <<canonicalized, trace, ierrors, ipc>>
    BY <1>8 DEF EndParsing, lexerVars, parserVars
  <2>2. /\ output = "" /\ canonicalized = FALSE /\ trace = {} /\ ierrors = {} /\ ipc = "start"
        /\ success \in BOOLEAN /\ ~Asks("dump-tokens")
    BY <2>1 DEF Verdict
  <2>3. trace' = {} /\ options' = options /\ ~Asks("dump-tokens")' /\ ierrors' = {}
    BY <1>4, <2>1, <2>2
  <2>4. ~failed => root # 0
    BY <1>1, <2>1 DEF Told, Done, At
  <2>5. CASE Asks("dump-ast") /\ output' = (IF root # 0 THEN "ast" ELSE "")
             /\ Leaves(~hadError /\ ~failed)
    <3>1. Wanted' = "ast"
      BY <1>4, <2>1, <2>3, <2>5 DEF Wanted
    <3>2. ~hadError /\ ~failed <=> Printed'
      BY <1>2, <2>1, <2>3, <2>4, <2>5, <3>1 DEF Printed
    <3>3. (~hadError /\ ~failed) \in BOOLEAN
      OBVIOUS
    <3> QED BY <2>3, <2>5, <3>2, <3>3, LeavesTells
  <2>6. CASE ~Asks("dump-ast") /\ ~ParseAccepted /\ Leaves(FALSE) /\ output' = output
    <3>1. Wanted' = "ir"
      BY <1>4, <2>1, <2>3, <2>6 DEF Wanted
    <3>2. ~Printed'
      BY <2>2, <2>6, <3>1 DEF Printed
    <3> QED BY <2>3, <2>6, <3>2, LeavesTells
  <2>7. CASE ~Asks("dump-ast") /\ ParseAccepted /\ stage' = "import" /\ UNCHANGED <<output, success>>
    <3>1. ~Asks("dump-ast")' /\ ParseAccepted'
      BY <1>4, <2>1, <2>7
    <3> QED BY <2>1, <2>2, <2>3, <2>7, <3>1 DEF Verdict
  <2> QED BY <1>8, <2>5, <2>6, <2>7 DEF EndParsing
<1>9. CASE Importing
  <2>1. /\ stage = "import" /\ stage' = "import" /\ Rest /\ Import!Next
        /\ UNCHANGED <<output, canonicalized, success, trace>>
    BY <1>9 DEF Importing, driverVars, lexerVars, parserVars
  <2>2. ipc' = "module" => ierrors' = {}
    BY <2>1, ImportTells
  <2>3. ParseAccepted' /\ ~Asks("dump-ast")' /\ ~Asks("dump-tokens")'
    BY <1>4, <2>1 DEF Verdict
  <2> QED BY <2>1, <2>2, <2>3 DEF Verdict
<1>10. CASE EndImport
  <2>1. /\ stage = "import" /\ Rest /\ UNCHANGED <<canonicalized, trace, ierrors, ipc>>
    BY <1>10 DEF EndImport, lexerVars, parserVars, importerVars
  <2>2. /\ output = "" /\ canonicalized = FALSE /\ trace = {} /\ success \in BOOLEAN
        /\ ~Asks("dump-tokens") /\ ~Asks("dump-ast") /\ ParseAccepted
        /\ ipc = "module" => ierrors = {}
    BY <2>1 DEF Verdict
  <2>3. Wanted' = "ir" /\ trace' = {} /\ options' = options
    BY <1>4, <2>1, <2>2 DEF Wanted
  <2>4. CASE ipc = "none" /\ Leaves(FALSE) /\ UNCHANGED output
    <3>1. ~Printed'
      BY <2>2, <2>3, <2>4 DEF Printed
    <3> QED BY <2>3, <2>4, <3>1, LeavesTells
  <2>5. CASE ipc = "module" /\ output' = "ir" /\ ~Asks("emit-trace") /\ Leaves(TRUE)
    <3>1. ~Asks("emit-trace")'
      BY <1>4, <2>1, <2>5
    <3>2. Printed'
      BY <1>2, <2>1, <2>2, <2>3, <2>5, <3>1 DEF Printed, ParseAccepted
    <3> QED BY <2>3, <2>5, <3>2, LeavesTells
  <2>6. CASE /\ ipc = "module" /\ output' = "ir" /\ Asks("emit-trace")
             /\ stage' = "canonicalize" /\ UNCHANGED success
    <3>1. /\ Asks("emit-trace")' /\ ~Asks("dump-tokens")' /\ ~Asks("dump-ast")' /\ ParseAccepted'
      BY <1>4, <2>1, <2>2, <2>6
    <3> QED BY <2>1, <2>2, <2>6, <3>1 DEF Verdict
  <2> QED BY <1>10, <2>4, <2>5, <2>6 DEF EndImport
<1>11. CASE Canonicalize
  <2>1. PICK ok \in BOOLEAN : canonicalized' = ok /\ Leaves(ok)
    BY <1>11 DEF Canonicalize
  <2>2. /\ stage = "canonicalize" /\ Rest /\ UNCHANGED <<output, trace, ierrors>>
    BY <1>11 DEF Canonicalize, lexerVars, parserVars, importerVars
  <2>3. /\ output = "ir" /\ trace = {} /\ ~Asks("dump-tokens") /\ ~Asks("dump-ast") /\ ParseAccepted
        /\ ierrors = {} /\ Asks("emit-trace")
    BY <2>2 DEF Verdict
  <2>4. Wanted' = "ir" /\ trace' = {} /\ options' = options /\ Asks("emit-trace")'
    BY <1>4, <2>2, <2>3 DEF Wanted
  <2>5. ok <=> Printed'
    BY <1>2, <2>1, <2>2, <2>3, <2>4 DEF Printed, ParseAccepted
  <2> QED BY <2>1, <2>4, <2>5, LeavesTells
<1>12. CASE WriteTrace
  <2>1. /\ stage = "trace" /\ stage' = "done" /\ Rest /\ UNCHANGED <<output, canonicalized, ierrors>>
    BY <1>12 DEF WriteTrace, lexerVars, parserVars, importerVars
  <2>2. Asks("emit-trace") /\ trace = {} /\ (success <=> Printed) /\ success \in BOOLEAN
    BY <2>1 DEF Verdict
  <2>3. (Printed' <=> Printed) /\ Asks("emit-trace")'
    BY <1>4, <2>1, <2>2 DEF Printed
  <2>4. (success' = success /\ trace' # {}) \/ (success' = FALSE /\ trace' = trace)
    BY <1>12 DEF WriteTrace
  <2>5. success' \in BOOLEAN /\ (success' <=> success /\ trace' # {})
    <3>1. CASE success' = success /\ trace' # {}
      BY <2>2, <3>1
    <3>2. CASE success' = FALSE /\ trace' = trace
      BY <2>2, <3>2
    <3> QED BY <2>4, <3>1, <3>2
  <2>6. success' <=> Printed' /\ trace' # {}
    BY <2>2, <2>3, <2>5, Zenon
  <2>7. /\ success' \in BOOLEAN
        /\ success' <=> Printed' /\ (Asks("emit-trace")' => trace' # {})
    BY <2>3, <2>5, <2>6, Zenon
  <2>8. stage' = "done"
    BY <2>1
  <2> QED BY <2>7, <2>8 DEF Verdict
<1>13. CASE UNCHANGED vars
  <2>1. /\ Rest /\ UNCHANGED <<stage, output, canonicalized, success, trace, ierrors, ipc>>
    BY <1>13 DEF vars, driverVars, lexerVars, parserVars, importerVars
  <2>2. (Printed' <=> Printed) /\ (ParseAccepted <=> ParseAccepted')
    BY <1>4, <2>1 DEF Printed
  <2>3. \A o : Asks(o) <=> Asks(o)'
    BY <1>4, <2>1
  <2> HIDE DEF Rest
  <2> QED BY <2>1, <2>2, <2>3 DEF Verdict
<1> QED BY <1>5, <1>6, <1>7, <1>8, <1>9, <1>10, <1>11, <1>12, <1>13 DEF Next

(* The exit status is the verdict on every stage that ran: the tool        *)
(* succeeds exactly when it has printed what was asked for, no stage       *)
(* reported an error, and the trace that was asked for is written          *)
(* (importJsonSchema), whatever the text and the options are; and a parse  *)
(* that failed has been reported.                                          *)
THEOREM FrontEndExitStatus == Spec => []ExitStatus
<1>1. Init => Verdict
  BY VerdictBegins
<1>2. Verdict /\ FInv /\ [Next]_vars => Verdict'
  BY VerdictKeeps
<1>3. FInv /\ Verdict => ExitStatus
  <2>1. ASSUME FInv, Verdict, stage = "done"
        PROVE  ExitStatus
    <3>1. (success <=> Printed /\ (Asks("emit-trace") => trace # {})) /\ FailureReported
      BY <2>1 DEF Verdict, FInv, Told
    <3> QED BY <3>1 DEF ExitStatus, Printed
  <2> QED BY <2>1 DEF ExitStatus
<1> QED BY <1>1, <1>2, <1>3, FrontEndInvariant, PTL DEF Spec

-----------------------------------------------------------------------------
(* What may be ignored, place by place up to j.                            *)
Ignores(f, a, j) ==
  \/ a = j
  \/ Peek(a) \in White /\ f[a + 1]
  \/ allowComments /\ \E b \in a + 2..j : IsWhole(a, b) /\ f[b]

IsIgnores(f, i, j) == f = [a \in i..j |-> Ignores(f, a, j)]

LEMMA IgnoresExists ==
  ASSUME NEW i \in Nat, NEW j \in Nat, i =< j
  PROVE  \E f : IsIgnores(f, i, j)
<1> DEFINE D == i..j
           G == [p \in D \X [D -> BOOLEAN] |-> Ignores(p[2], p[1], j)]
           rank == [a \in D |-> j - a]
<1>1. \A a \in D, f \in [D -> BOOLEAN] : G[<<a, f>>] = Ignores(f, a, j)
  OBVIOUS
<1>2. G \in [D \X [D -> BOOLEAN] -> BOOLEAN]
  BY DEF Ignores
<1> HIDE DEF G
<1>3. rank \in [D -> 0..j] /\ D # {} /\ BOOLEAN # {}
  <2>1. \A a \in D : j - a \in 0..j
    OBVIOUS
  <2>2. i \in D /\ TRUE \in BOOLEAN
    OBVIOUS
  <2> HIDE DEF D
  <2> QED BY <2>1, <2>2
<1>4. ASSUME NEW a \in D, NEW g \in [D -> BOOLEAN], NEW h \in [D -> BOOLEAN],
             \A m \in D : rank[m] < rank[a] => g[m] = h[m]
      PROVE  G[<<a, g>>] = G[<<a, h>>]
  <2>1. CASE a = j
    BY <1>1, <2>1 DEF Ignores
  <2>2. CASE a # j
    <3>1. a + 1 \in D /\ rank[a + 1] < rank[a]
      BY <2>2
    <3>2. \A b \in a + 2..j : b \in D /\ rank[b] < rank[a]
      OBVIOUS
    <3>3. g[a + 1] = h[a + 1] /\ \A b \in a + 2..j : g[b] = h[b]
      BY <1>4, <3>1, <3>2
    <3>4. Ignores(g, a, j) <=> Ignores(h, a, j)
      BY <3>3 DEF Ignores
    <3>5. Ignores(g, a, j) = Ignores(h, a, j)
      BY <3>4 DEF Ignores
    <3> QED BY <1>1, <3>5
  <2> QED BY <2>1, <2>2
<1>5. Descends(G, D, BOOLEAN, rank, j)
  <2> HIDE DEF D, rank
  <2> QED BY <1>2, <1>3, <1>4 DEF Descends
<1>6. PICK f \in [D -> BOOLEAN] : Solves(f, G, D)
  <2> HIDE DEF D, rank
  <2> QED BY <1>5, RecursionExists
<1>7. f = [a \in D |-> Ignores(f, a, j)]
  BY <1>1, <1>6 DEF Solves
<1> QED BY <1>7 DEF IsIgnores

LEMMA IgnoresAgree ==
  ASSUME NEW i \in Nat, NEW k \in Nat, NEW j \in Nat, i =< k, k =< j,
         NEW f, IsIgnores(f, i, j), NEW g, IsIgnores(g, k, j)
  PROVE  \A a \in k..j : f[a] = g[a]
<1> DEFINE P == {a \in 0..j : a \in k..j => f[a] = g[a]}
<1>1. ASSUME NEW a \in 0..j, \A m \in a + 1..j : m \in P
      PROVE  a \in P
  <2>1. SUFFICES ASSUME a \in k..j
                 PROVE  f[a] = g[a]
    OBVIOUS
  <2>2. f[a] = Ignores(f, a, j) /\ g[a] = Ignores(g, a, j)
    <3>1. a \in i..j /\ a \in k..j
      BY <2>1
    <3> QED BY <3>1 DEF IsIgnores
  <2>3. Ignores(f, a, j) <=> Ignores(g, a, j)
    <3>1. CASE a = j
      BY <3>1 DEF Ignores
    <3>2. CASE a # j
      <4>1. a + 1 \in a + 1..j /\ a + 1 \in k..j
        BY <2>1, <3>2
      <4>2. \A b \in a + 2..j : b \in a + 1..j /\ b \in k..j
        BY <2>1
      <4>3. f[a + 1] = g[a + 1] /\ \A b \in a + 2..j : f[b] = g[b]
        BY <1>1, <4>1, <4>2
      <4> QED BY <4>3 DEF Ignores
    <3> QED BY <3>1, <3>2
  <2>4. Ignores(f, a, j) = Ignores(g, a, j)
    BY <2>3 DEF Ignores
  <2> QED BY <2>2, <2>4
<1> HIDE DEF P
<1>2. \A a \in 0..j : a \in P
  BY <1>1, FromTheEnd
<1> QED BY <1>2 DEF P

(* Nothing may be ignored, or one character or comment and then the rest.  *)
LEMMA IgnorableIs ==
  ASSUME NEW i \in Nat, NEW j \in Nat, i =< j
  PROVE  Ignorable(i, j) <=>
           \/ i = j
           \/ i < j /\ Peek(i) \in White /\ Ignorable(i + 1, j)
           \/ allowComments /\ \E b \in i + 2..j : IsWhole(i, b) /\ Ignorable(b, j)
<1> DEFINE of(k) == CHOOSE f : IsIgnores(f, k, j)
<1>1. \A k \in i..j : k \in Nat /\ IsIgnores(of(k), k, j)
  <2> SUFFICES ASSUME NEW k \in i..j
               PROVE  k \in Nat /\ IsIgnores(of(k), k, j)
    OBVIOUS
  <2>1. \E f : IsIgnores(f, k, j)
    BY IgnoresExists
  <2> QED BY <2>1
<1>2. \A k \in Nat : Ignorable(k, j) = of(k)[k]
  BY DEF Ignorable, IsIgnores, Ignores
<1> HIDE DEF of
<1>3. \A k \in i..j : Ignorable(k, j) = of(i)[k]
  <2> SUFFICES ASSUME NEW k \in i..j
               PROVE  Ignorable(k, j) = of(i)[k]
    OBVIOUS
  <2>1. IsIgnores(of(i), i, j) /\ IsIgnores(of(k), k, j) /\ k \in Nat
    BY <1>1
  <2>2. k \in k..j
    OBVIOUS
  <2>3. of(i)[k] = of(k)[k]
    BY <2>1, <2>2, IgnoresAgree
  <2> QED BY <1>2, <2>1, <2>3
<1>4. of(i)[i] = Ignores(of(i), i, j)
  BY <1>1 DEF IsIgnores
<1>5. Ignorable(i, j) <=> Ignores(of(i), i, j)
  BY <1>3, <1>4
<1>6. CASE i = j
  BY <1>5, <1>6 DEF Ignores
<1>7. CASE i # j
  <2>1. i < j /\ i + 1 \in i..j /\ \A b \in i + 2..j : b \in i..j
    BY <1>7
  <2>2. Ignorable(i + 1, j) = of(i)[i + 1] /\ \A b \in i + 2..j : Ignorable(b, j) = of(i)[b]
    BY <1>3, <2>1
  <2> QED BY <1>5, <1>7, <2>1, <2>2 DEF Ignores
<1> QED BY <1>6, <1>7

(* White space in a row may be ignored.                                    *)
LEMMA WhiteIgnored ==
  ASSUME NEW j \in Nat, NEW w \in 0..j, Ignorable(w, j)
  PROVE  \A i \in 0..w : (\A k \in i..w - 1 : Peek(k) \in White) => Ignorable(i, j)
<1> DEFINE P == {i \in 0..w : (\A k \in i..w - 1 : Peek(k) \in White) => Ignorable(i, j)}
<1>1. ASSUME NEW i \in 0..w, \A m \in i + 1..w : m \in P
      PROVE  i \in P
  <2>1. CASE i = w
    BY <2>1
  <2>2. CASE i # w
    <3>1. i + 1 \in i + 1..w /\ i \in Nat /\ i < j /\ i \in i..w - 1
      BY <2>2
    <3>2. SUFFICES ASSUME \A k \in i..w - 1 : Peek(k) \in White
                   PROVE  Ignorable(i, j)
      OBVIOUS
    <3>3. \A k \in i + 1..w - 1 : k \in i..w - 1
      OBVIOUS
    <3>4. Ignorable(i + 1, j) /\ Peek(i) \in White
      BY <1>1, <3>1, <3>2, <3>3
    <3> QED BY <3>1, <3>4, IgnorableIs
  <2> QED BY <2>1, <2>2
<1> HIDE DEF P
<1>2. \A i \in 0..w : i \in P
  BY <1>1, FromTheEnd
<1> QED BY <1>2 DEF P

(* A slice of the text, character by character.                            *)
LEMMA SliceIs ==
  ASSUME IsRow(text), NEW i \in 0..End, NEW j \in i..End
  PROVE  /\ Len(Slice(i, j)) = j - i /\ IsRow(Slice(i, j))
         /\ \A k \in i..j - 1 : Slice(i, j)[k - i + 1] = Peek(k)
         /\ ToSet(Slice(i, j)) = {Peek(k) : k \in i..j - 1}
<1>1. PICK S : text \in Seq(S)
  BY DEF IsRow
<1>2. End \in Nat /\ i \in Nat /\ j \in Nat /\ End = Len(text)
  BY <1>1 DEF End
<1> DEFINE s == SubSeq(text, i + 1, j)
<1>3. /\ s \in Seq(S) /\ Len(s) = j - i
      /\ \A k \in 1..j - i : s[k] = text[i + k]
  BY <1>1, <1>2
<1>4. \A k \in i..j - 1 : k - i + 1 \in 1..j - i /\ k < End /\ i + (k - i + 1) = k + 1
  BY <1>2
<1>5. \A k \in i..j - 1 : s[k - i + 1] = Peek(k)
  BY <1>3, <1>4 DEF Peek
<1>6. DOMAIN s = 1..j - i
  BY <1>2, <1>3
<1>7. \A k \in 1..j - i : i + k - 1 \in i..j - 1 /\ (i + k - 1) - i + 1 = k
  BY <1>2
<1> HIDE DEF s
<1>8. ToSet(s) = {Peek(k) : k \in i..j - 1}
  <2>1. \A k \in i..j - 1 : Peek(k) \in {s[l] : l \in 1..j - i}
    BY <1>4, <1>5
  <2>2. \A l \in 1..j - i : s[l] = Peek(i + l - 1)
    BY <1>5, <1>7
  <2>3. \A l \in 1..j - i : s[l] \in {Peek(k) : k \in i..j - 1}
    BY <1>7, <2>2
  <2>4. ToSet(s) = {s[l] : l \in 1..j - i}
    BY <1>6 DEF ToSet
  <2> QED BY <2>1, <2>3, <2>4
<1>9. IsRow(s)
  BY <1>3 DEF IsRow
<1> QED BY <1>3, <1>5, <1>8, <1>9 DEF Slice, s

(* Two characters of the text.                                             *)
LEMMA PairIs ==
  ASSUME IsRow(text), NEW i \in 0..End, i + 2 \in i..End, NEW c, NEW d
  PROVE  Slice(i, i + 2) = <<c, d>> <=> Peek(i) = c /\ Peek(i + 1) = d
<1> DEFINE s == Slice(i, i + 2)
<1>1. /\ Len(s) = i + 2 - i /\ IsRow(s)
      /\ \A k \in i..i + 2 - 1 : s[k - i + 1] = Peek(k)
  <2> DEFINE j == i + 2
  <2> HIDE DEF j
  <2>1. j \in i..End => /\ Len(Slice(i, j)) = j - i /\ IsRow(Slice(i, j))
                        /\ \A k \in i..j - 1 : Slice(i, j)[k - i + 1] = Peek(k)
    BY SliceIs
  <2> QED BY <2>1 DEF j
<1>2. i \in i..i + 2 - 1 /\ i + 1 \in i..i + 2 - 1 /\ i - i + 1 = 1 /\ i + 1 - i + 1 = 2
  OBVIOUS
<1> HIDE DEF s
<1>3. Len(s) = 2 /\ s[1] = Peek(i) /\ s[2] = Peek(i + 1)
  BY <1>1, <1>2
<1>4. PICK S : s \in Seq(S)
  BY <1>1 DEF IsRow
<1>5. s = <<s[1], s[2]>>
  BY <1>3, <1>4
<1>6. s = <<c, d>> <=> s[1] = c /\ s[2] = d
  BY <1>5
<1> QED BY <1>3, <1>6 DEF s

(* A comment by what the code looks for and by what it is.                 *)
LEMMA WholeComment ==
  ASSUME IsRow(text), NEW i \in 0..End, NEW j \in i..End, IsWhole(i, j)
  PROVE  IsComment(i) /\ CommentEnd(i) = {j} /\ i + 2 =< j
<1>0. End \in Nat /\ i \in Nat /\ j \in Nat
  BY RowLen DEF End
<1> DEFINE two == {i + 2, End}
           open == Slice(i, Min(two))
<1>1. Min(two) \in i..End /\ (Min(two) = i + 2 \/ Min(two) = End) /\ Min(two) =< i + 2
  <2>1. \E m \in two : \A k \in two : m =< k
    BY <1>0
  <2>2. Min(two) \in two /\ \A k \in two : Min(two) =< k
    BY <2>1 DEF Min
  <2> QED BY <1>0, <2>2
<1>2. open = <<"/", "/">> \/ open = <<"/", "*">>
  BY DEF IsWhole
<1>3. Min(two) = i + 2 /\ i + 2 \in i..End
  <2>1. Len(open) = Min(two) - i
    BY <1>1, SliceIs
  <2>2. Len(open) = 2
    <3> HIDE DEF open
    <3> QED BY <1>2
  <2> DEFINE m == Min(two)
  <2>3. m \in i..End /\ m - i = 2
    BY <1>1, <2>1, <2>2
  <2> HIDE DEF m
  <2>4. m = i + 2
    BY ONLY <1>0, <2>3
  <2> QED BY <2>3, <2>4 DEF m
<1>4. open = Slice(i, i + 2)
  BY <1>3
<1> HIDE DEF open, two
<1>5. CASE open = <<"/", "/">>
  <2>1. Peek(i) = "/" /\ Peek(i + 1) = "/"
    BY <1>3, <1>4, <1>5, PairIs
  <2>2. j >= i + 2 /\ (j = End \/ Peek(j) = "\n") /\ "\n" \notin ToSet(Slice(i, j))
    BY <1>5 DEF IsWhole, open, two
  <2> DEFINE line == {c \in ToSet(text) : c # "\n"}
             e == While(i + 1, line)
  <2>3. CommentEnd(i) = {e}
    BY <2>1 DEF CommentEnd
  <2>4. i + 1 \in 0..End
    BY <1>0, <1>3
  <2> HIDE DEF line
  <2>5. /\ e \in i + 1..End /\ \A k \in i + 1..e - 1 : Peek(k) \in line
        /\ e < End => Peek(e) \notin line
    BY <2>4, WhileIs
  <2>6. \A k \in i..j - 1 : Peek(k) # "\n"
    BY <2>2, SliceIs
  <2>7. \A k \in 0..End : k < End /\ Peek(k) # "\n" => Peek(k) \in line
    <3> SUFFICES ASSUME NEW k \in 0..End, k < End, Peek(k) # "\n"
                 PROVE  Peek(k) \in line
      OBVIOUS
    <3>1. Peek(k) = text[k + 1] /\ k + 1 \in DOMAIN text
      BY <1>0, RowLen DEF Peek, End
    <3> QED BY <3>1 DEF line, ToSet
  <2>8. ~(e < j)
    <3>1. SUFFICES ASSUME e < j
                   PROVE  FALSE
      OBVIOUS
    <3>2. e \in i..j - 1 /\ e \in 0..End /\ e < End
      BY <1>0, <2>5, <3>1
    <3> QED BY <2>5, <2>6, <2>7, <3>2
  <2>9. ~(j < e)
    <3>1. SUFFICES ASSUME j < e
                   PROVE  FALSE
      OBVIOUS
    <3>2. j \in i + 1..e - 1 /\ j # End
      BY <1>0, <2>2, <2>5, <3>1
    <3>3. Peek(j) \in line /\ Peek(j) = "\n"
      BY <2>2, <2>5, <3>2
    <3> QED BY <3>3 DEF line
  <2>10. e = j
    BY <1>0, <2>5, <2>8, <2>9
  <2> QED BY <2>1, <2>2, <2>3, <2>10 DEF IsComment
<1>6. CASE open = <<"/", "*">>
  <2>1. Peek(i) = "/" /\ Peek(i + 1) = "*"
    BY <1>3, <1>4, <1>6, PairIs
  <2> DEFINE ends == {m \in i + 2..End - 2 : Peek(m) = "*" /\ Peek(m + 1) = "/"}
             Closes(k) == Slice(k - 2, k) = <<"*", "/">>
  <2>2. {k \in i + 4..j : Closes(k)} = {j}
    BY <1>6 DEF IsWhole, open, two
  <2>3. CommentEnd(i) = {e \in {m + 2 : m \in ends} : \A m \in ends : e =< m + 2}
    BY <2>1 DEF CommentEnd
  <2>4. ASSUME NEW k \in i + 4..End
        PROVE  Closes(k) <=> k - 2 \in ends
    <3>1. k - 2 \in 0..End /\ (k - 2) + 2 \in k - 2..End /\ (k - 2) + 2 = k /\ (k - 2) + 1 = k - 1
      BY <1>0
    <3>2. Closes(k) <=> Peek(k - 2) = "*" /\ Peek(k - 1) = "/"
      BY <3>1, PairIs
    <3>3. k - 2 \in i + 2..End - 2
      BY <1>0
    <3> QED BY <3>1, <3>2, <3>3
  <2> HIDE DEF Closes
  <2>5. j \in i + 4..End /\ Closes(j) /\ \A k \in i + 4..j : Closes(k) => k = j
    BY <1>0, <2>2
  <2>6. j - 2 \in ends /\ (j - 2) + 2 = j
    BY <1>0, <2>4, <2>5
  <2>7. ASSUME NEW m \in ends
        PROVE  j =< m + 2
    <3>1. SUFFICES ASSUME m + 2 < j
                   PROVE  FALSE
      BY <1>0
    <3>2. m + 2 \in i + 4..End /\ m + 2 \in i + 4..j /\ (m + 2) - 2 = m
      BY <1>0, <3>1
    <3> QED BY <1>0, <2>4, <2>5, <3>1, <3>2
  <2>8. \A m \in ends : m \in Int
    BY <1>0
  <2> HIDE DEF ends
  <2>9. CommentEnd(i) = {j}
    <3>1. j \in CommentEnd(i)
      BY <2>3, <2>6, <2>7
    <3>2. ASSUME NEW e \in CommentEnd(i)
          PROVE  e = j
      <4>1. PICK m \in ends : e = m + 2
        BY <2>3
      <4>2. e =< j /\ j =< m + 2
        BY <2>3, <2>6, <2>7
      <4> QED BY <1>0, <2>8, <4>1, <4>2
    <3> QED BY <3>1, <3>2
  <2> QED BY <2>1, <2>5, <2>9, <1>0 DEF IsComment
<1> QED BY <1>2, <1>5, <1>6

LEMMA CommentWhole ==
  ASSUME IsRow(text), NEW i \in 0..End, IsComment(i), NEW j \in CommentEnd(i)
  PROVE  j \in i + 2..End /\ IsWhole(i, j)
<1>0. End \in Nat /\ i \in Nat
  BY RowLen DEF End
<1>1. j \in i + 1..End
  BY CommentEndIs
<1>2. Peek(i) = "/" /\ Peek(i + 1) \in {"/", "*"}
  BY DEF IsComment
<1>3. i + 1 < End
  <2>1. i < End /\ i + 1 \in 0..End
    BY <1>0, <1>1
  <2>2. Peek(i + 1) # NUL
    BY <1>2 DEF NUL
  <2> QED BY <2>1, <2>2, PeekIs
<1>4. i + 2 \in i..End
  BY <1>0, <1>3
<1> DEFINE two == {i + 2, End}
           open == Slice(i, Min(two))
<1>5. open = Slice(i, i + 2)
  <2>1. \A k \in two : i + 2 =< k
    BY <1>0, <1>3
  <2>2. Min(two) \in two /\ \A k \in two : Min(two) =< k
    BY <2>1 DEF Min
  <2>3. Min(two) = i + 2
    BY <1>0, <2>1, <2>2
  <2> QED BY <2>3
<1>6. CASE Peek(i + 1) = "/"
  <2>1. open = <<"/", "/">>
    BY <1>2, <1>4, <1>5, <1>6, PairIs
  <2> DEFINE line == {c \in ToSet(text) : c # "\n"}
  <2>2. j = While(i + 1, line)
    BY <1>6 DEF CommentEnd
  <2>3. i + 1 \in 0..End /\ Peek(i + 1) \in line
    <3>1. i + 1 \in 0..End /\ (i + 1) + 1 \in DOMAIN text /\ Peek(i + 1) = text[(i + 1) + 1]
      BY <1>0, <1>3, RowLen DEF Peek, End
    <3>2. Peek(i + 1) \in ToSet(text)
      BY <3>1 DEF ToSet
    <3> QED BY <1>6, <3>1, <3>2
  <2>4. ASSUME NEW k \in 0..End, k < End, Peek(k) \notin line
        PROVE  Peek(k) = "\n"
    <3>1. k + 1 \in DOMAIN text /\ Peek(k) = text[k + 1]
      BY <1>0, <2>4, RowLen DEF Peek, End
    <3> QED BY <2>4, <3>1 DEF ToSet
  <2>5. \A c \in line : c # "\n"
    OBVIOUS
  <2> HIDE DEF line
  <2>6. /\ j \in i + 1..End /\ j > i + 1 /\ \A k \in i + 1..j - 1 : Peek(k) \in line
        /\ j < End => Peek(j) \notin line
    BY <1>3, <2>2, <2>3, WhileIs
  <2>7. j \in i + 2..End /\ j \in i..End /\ j \in 0..End
    BY <1>0, <2>6
  <2>8. j = End \/ Peek(j) = "\n"
    BY <1>0, <2>4, <2>6, <2>7
  <2>9. \A k \in i..j - 1 : Peek(k) # "\n"
    <3>1. \A k \in i..j - 1 : k = i \/ k \in i + 1..j - 1
      BY <1>0
    <3> QED BY <1>2, <2>5, <2>6, <3>1
  <2>10. ToSet(Slice(i, j)) = {Peek(k) : k \in i..j - 1}
    BY <2>7, SliceIs
  <2>11. "\n" \notin ToSet(Slice(i, j))
    BY <2>9, <2>10
  <2> QED BY <2>1, <2>7, <2>8, <2>11 DEF IsWhole
<1>7. CASE Peek(i + 1) # "/"
  <2>1. open = <<"/", "*">>
    BY <1>2, <1>4, <1>5, <1>7, PairIs
  <2> DEFINE ends == {m \in i + 2..End - 2 : Peek(m) = "*" /\ Peek(m + 1) = "/"}
             Closes(k) == Slice(k - 2, k) = <<"*", "/">>
  <2>2. CommentEnd(i) = {e \in {m + 2 : m \in ends} : \A m \in ends : e =< m + 2}
    BY <1>7 DEF CommentEnd
  <2>3. ASSUME NEW k \in i + 4..End
        PROVE  Closes(k) <=> k - 2 \in ends
    <3>1. k - 2 \in 0..End /\ (k - 2) + 2 \in k - 2..End /\ (k - 2) + 2 = k /\ (k - 2) + 1 = k - 1
      BY <1>0
    <3>2. Closes(k) <=> Peek(k - 2) = "*" /\ Peek(k - 1) = "/"
      BY <3>1, PairIs
    <3>3. k - 2 \in i + 2..End - 2
      BY <1>0
    <3> QED BY <3>1, <3>2, <3>3
  <2> HIDE DEF Closes
  <2>4. \A m \in ends : m \in i + 2..End - 2
    OBVIOUS
  <2> HIDE DEF ends
  <2>5. PICK m \in ends : j = m + 2
    BY <2>2
  <2>6. \A k \in ends : j =< k + 2
    BY <2>2
  <2>7. j \in i + 4..End /\ j - 2 = m
    BY <1>0, <2>4, <2>5
  <2>8. Closes(j)
    BY <2>3, <2>5, <2>7
  <2>9. ASSUME NEW k \in i + 4..j, Closes(k)
        PROVE  k = j
    <3>1. k \in i + 4..End
      BY <1>0, <2>7
    <3>2. k - 2 \in ends
      BY <2>3, <2>9, <3>1
    <3> QED BY <1>0, <2>6, <2>7, <3>2
  <2>10. {k \in i + 4..j : Closes(k)} = {j}
    <3>1. j \in i + 4..j
      BY <1>0, <2>7
    <3> QED BY <2>8, <2>9, <3>1
  <2>11. j \in i + 2..End
    BY <1>0, <2>7
  <2> QED BY <2>1, <2>10, <2>11 DEF IsWhole, Closes
<1> QED BY <1>6, <1>7

(* What is skipped before a token may be ignored; no more may be, and a    *)
(* comment that is whole does not begin there unless it is not allowed.    *)
LEMMA NextTokenTiles ==
  ASSUME IsRow(text), NEW from \in 0..End
  PROVE  LET t == NextToken(from)
         IN /\ Ignorable(from, t)
            /\ t < End => Peek(t) \notin White
            /\ ~(allowComments /\ IsComment(t) /\ CommentEnd(t) # {})
<1> DEFINE Tiles(i, t) == /\ Ignorable(i, t)
                          /\ t < End => Peek(t) \notin White
                          /\ ~(allowComments /\ IsComment(t) /\ CommentEnd(t) # {})
           P == {i \in 0..End : Tiles(i, NextToken(i))}
<1>1. End \in Nat
  BY RowLen DEF End
<1>2. ASSUME NEW i \in 0..End, \A m \in i + 1..End : m \in P
      PROVE  i \in P
  <2> DEFINE w == While(i, White)
  <2>1. /\ w \in i..End /\ (\A k \in i..w - 1 : Peek(k) \in White)
        /\ w < End => Peek(w) \notin White
    BY WhileIs
  <2>2. CASE Skips(i)
    <3> DEFINE b == Behind(i)
               t == NextToken(i)
    <3>1. t = NextToken(b) /\ b \in i + 1..End /\ b \in CommentEnd(w)
      BY <2>2, BehindIs, NextTokenSkips
    <3>2. Tiles(b, t)
      BY <1>2, <3>1
    <3>3. allowComments /\ IsComment(w) /\ w \in 0..End
      BY <1>1, <2>1, <2>2 DEF Skips
    <3> HIDE DEF w, b, t
    <3>4. b \in w + 2..End /\ IsWhole(w, b)
      BY <3>1, <3>3, CommentWhole
    <3>5. b \in 0..End /\ t \in b..End
      <4>1. b \in 0..End
        BY <1>1, <3>1
      <4> QED BY <3>1, <4>1, NextTokenIs
    <3>6. Ignorable(w, t)
      <4>1. w \in Nat /\ t \in Nat /\ w =< t /\ b \in w + 2..t
        BY <1>1, <3>3, <3>4, <3>5
      <4> QED BY <3>2, <3>3, <3>4, <4>1, IgnorableIs
    <3>7. Ignorable(i, t)
      <4>1. t \in Nat /\ w \in 0..t /\ i \in 0..w
        BY <1>1, <2>1, <3>3, <3>4, <3>5
      <4> QED BY <2>1, <3>6, <4>1, WhiteIgnored
    <3>8. Tiles(i, t)
      BY <3>2, <3>7
    <3> QED BY <3>8 DEF t
  <2>3. CASE ~Skips(i)
    <3>1. NextToken(i) = w
      BY <2>3, NextTokenSkips
    <3>2. ~(allowComments /\ IsComment(w) /\ CommentEnd(w) # {})
      BY <2>3 DEF Skips
    <3> HIDE DEF w
    <3>3. w \in Nat /\ Ignorable(w, w) /\ w \in 0..w /\ i \in 0..w
      <4>1. w \in Nat /\ w =< w /\ i \in 0..w
        BY <1>1, <2>1
      <4> QED BY <4>1, IgnorableIs
    <3>4. Ignorable(i, w)
      BY <2>1, <3>3, WhiteIgnored
    <3>5. Tiles(i, w)
      BY <2>1, <3>2, <3>4
    <3> QED BY <3>1, <3>5
  <2> QED BY <2>2, <2>3
<1> HIDE DEF P
<1>3. from \in P
  BY <1>1, <1>2, FromTheEnd
<1> QED BY <1>3 DEF P

(* A comment that is not allowed is one token.                             *)
LEMMA SlashAlone == "/" \notin DOMAIN Punctuation /\ "/" # "\""
<1>1. "/" # "\""
  BY Zenon
<1>2. "/" \notin DOMAIN Punctuation
  BY DEF Punctuation
<1> QED BY <1>1, <1>2, Zenon

LEMMA ScanComment ==
  ASSUME IsRow(text), NEW i \in 0..End, NEW j \in i..End, IsWhole(i, j)
  PROVE  Scan(i).end = j
<1>1. IsComment(i) /\ CommentEnd(i) = {j} /\ i + 2 =< j
  BY WholeComment
<1>2. End \in Nat /\ i # End
  <2>1. End \in Nat
    BY RowLen DEF End
  <2> QED BY <1>1, <2>1
<1>3. Peek(i) = "/"
  BY <1>1 DEF IsComment
<1> DEFINE ends == {j} \cup {End}
<1>4. Peek(i) \notin DOMAIN Punctuation /\ Peek(i) # "\""
  BY <1>3, SlashAlone, Zenon
<1>5. Scan(i) = Wrong("comment", i, Min(ends))
  BY <1>1, <1>2, <1>4, Zenon DEF Scan
<1>6. Min(ends) = j
  <2>1. \A k \in ends : j =< k
    BY <1>2
  <2> QED BY <1>2, <2>1 DEF Min
<1> HIDE DEF ends
<1> QED BY <1>5, <1>6 DEF Wrong

(* The text stays, and with it what of it may be ignored.                  *)
LEMMA WholeStays ==
  ASSUME text' = text
  PROVE  /\ End' = End /\ \A k : Peek(k)' = Peek(k)
         /\ \A i, j : IsWhole(i, j)' <=> IsWhole(i, j)
<1>1. End' = End
  BY DEF End
<1>2. \A k : Peek(k)' = Peek(k)
  BY <1>1 DEF Peek
<1>3. \A i, j : Slice(i, j)' = Slice(i, j)
  BY DEF Slice
<1>4. \A i, j : IsWhole(i, j)' <=> IsWhole(i, j)
  BY <1>1, <1>2, <1>3 DEF IsWhole
<1> QED BY <1>1, <1>2, <1>4

LEMMA IgnorableStays ==
  ASSUME text' = text, allowComments' = allowComments, NEW i \in Nat, NEW j \in Nat, i =< j
  PROVE  Ignorable(i, j)' <=> Ignorable(i, j)
<1> DEFINE Then(f, a) == \/ a = j
                         \/ Peek(a)' \in White /\ f[a + 1]
                         \/ allowComments' /\ \E b \in a + 2..j : IsWhole(a, b)' /\ f[b]
           Later(f) == f = [a \in i..j |-> Then(f, a)]
<1>1. ASSUME NEW f, NEW a
      PROVE  Then(f, a) = Ignores(f, a, j)
  <2>1. Then(f, a) <=> Ignores(f, a, j)
    BY WholeStays DEF Ignores
  <2> QED BY <2>1 DEF Ignores
<1>2. \A f : Later(f) <=> IsIgnores(f, i, j)
  <2> SUFFICES ASSUME NEW f
               PROVE  Later(f) <=> IsIgnores(f, i, j)
    OBVIOUS
  <2> HIDE DEF Then
  <2>1. [a \in i..j |-> Then(f, a)] = [a \in i..j |-> Ignores(f, a, j)]
    BY <1>1
  <2> QED BY <2>1 DEF IsIgnores
<1> DEFINE now  == CHOOSE f : IsIgnores(f, i, j)
           then == CHOOSE f : Later(f)
<1>3. PICK f : IsIgnores(f, i, j)
  BY IgnoresExists
<1>4. IsIgnores(now, i, j)
  BY <1>3
<1>6. Ignorable(i, j) = now[i] /\ Ignorable(i, j)' = then[i]
  BY DEF Ignorable, IsIgnores, Ignores
<1> HIDE DEF Later
<1>5. IsIgnores(then, i, j)
  <2>1. Later(f)
    BY <1>2, <1>3
  <2>2. Later(then)
    BY <2>1
  <2> HIDE DEF then
  <2> QED BY <1>2, <2>2
<1> HIDE DEF now, then
<1>7. now[i] = then[i]
  <2>1. i \in i..j
    OBVIOUS
  <2>2. \A a \in i..j : now[a] = then[a]
    BY <1>4, <1>5, IgnoresAgree
  <2> QED BY <2>1, <2>2
<1> QED BY <1>6, <1>7

(* The token at t and what is skipped before it, from where the token      *)
(* before ended.                                                           *)
First == IF Peek(0) = BOM THEN 1 ELSE 0

TileAt(from, t) ==
  /\ from \in 0..t.begin.offset /\ t.begin.offset \in 0..End /\ Ignorable(from, t.begin.offset)
  /\ t.begin.offset < End => Peek(t.begin.offset) \notin White
  /\ \A j \in t.begin.offset..End : IsWhole(t.begin.offset, j) => ~allowComments /\ t.end.offset = j
  /\ t.kind = "eof" => t.begin.offset = End /\ t.end.offset = End

Tiled ==
  /\ pos.offset = IF tokens = <<>> THEN First ELSE Newest.end.offset
  /\ tokens # <<>> =>
       TileAt(IF Len(tokens) = 1 THEN First ELSE tokens[Len(tokens) - 1].end.offset, Newest)

LEMMA TilesBegin ==
  ASSUME LexerStarts
  PROVE  Tiled
<1>1. tokens = <<>> /\ pos = IF Peek(0) = BOM THEN Advance(Start, BOM) ELSE Start
  BY DEF LexerStarts
<1>2. Advance(Start, BOM).offset = 1 /\ Start.offset = 0
  BY DEF Advance, Start
<1>3. pos.offset = First
  BY <1>1, <1>2 DEF First
<1> QED BY <1>1, <1>3 DEF Tiled

LEMMA TileStays ==
  ASSUME text' = text, allowComments' = allowComments, End \in Nat,
         NEW from, NEW t, TileAt(from, t)
  PROVE  TileAt(from, t)'
<1> DEFINE begin == t.begin.offset
<1>1. from \in 0..begin /\ begin \in 0..End /\ Ignorable(from, begin)
  BY DEF TileAt
<1>2. from \in Nat /\ begin \in Nat /\ from =< begin
  BY <1>1
<1>3. End' = End /\ Peek(begin)' = Peek(begin) /\ \A j : IsWhole(begin, j)' <=> IsWhole(begin, j)
  BY WholeStays
<1>4. Ignorable(from, begin)' <=> Ignorable(from, begin)
  BY <1>2, IgnorableStays
<1>5. White' = White
  BY DEF White
<1> QED BY <1>1, <1>3, <1>4, <1>5 DEF TileAt

LEMMA TileToken ==
  ASSUME LexInv, Tiled, LexToken
  PROVE  Tiled'
<1>1. /\ IsRow(text) /\ Located(pos) /\ IsRow(tokens) /\ text' = text
      /\ allowComments' = allowComments
  BY ZenonT(40) DEF LexInv, LexToken, Follows
<1> DEFINE from  == NextToken(pos.offset)
           begin == To(pos, from)
           s     == Scan(begin.offset)
           end   == To(begin, s.end)
           x     == [kind |-> s.kind, value |-> s.value, begin |-> begin, end |-> end]
<1>2. tokens' = Append(tokens, x) /\ pos' = end
  BY Zenon DEF LexToken
<1>3. End \in Nat /\ pos.offset \in 0..End
  BY <1>1, RowLen DEF End, Located
<1>4. /\ from \in pos.offset..End /\ Ignorable(pos.offset, from)
      /\ from < End => Peek(from) \notin White
      /\ ~(allowComments /\ IsComment(from) /\ CommentEnd(from) # {})
  BY <1>1, <1>3, NextTokenIs, NextTokenTiles
<1> HIDE DEF from
<1>5. Located(begin) /\ begin.offset = from
  BY <1>1, <1>4, ToIs
<1>6. begin.offset \in 0..End /\ pos.offset \in 0..begin.offset
  BY <1>3, <1>4, <1>5
<1> HIDE DEF begin
<1>7. TokenAt(s, begin.offset)
  BY <1>1, <1>6, ScanIs
<1>8. ASSUME NEW j \in begin.offset..End, IsWhole(begin.offset, j)
      PROVE  ~allowComments /\ s.end = j
  <2>1. s.end = j
    BY <1>1, <1>6, <1>8, ScanComment
  <2>2. IsComment(begin.offset) /\ CommentEnd(begin.offset) = {j}
    BY <1>1, <1>6, <1>8, WholeComment
  <2> QED BY <1>4, <1>5, <2>1, <2>2
<1> HIDE DEF s
<1>9. s.end \in begin.offset..End /\ (s.kind = "eof" => begin.offset = End /\ s.end = End)
  BY <1>7 DEF TokenAt
<1>10. Located(end) /\ end.offset = s.end
  BY <1>1, <1>5, <1>9, ToIs
<1> HIDE DEF end
<1>11. x.kind = s.kind /\ x.begin = begin /\ x.end = end
  OBVIOUS
<1> HIDE DEF x
<1>12. TileAt(pos.offset, x)
  BY <1>4, <1>5, <1>6, <1>8, <1>9, <1>10, <1>11 DEF TileAt
<1>13. /\ IsRow(tokens') /\ Len(tokens') = Len(tokens) + 1 /\ tokens'[Len(tokens) + 1] = x
       /\ \A k \in 1..Len(tokens) : tokens'[k] = tokens[k]
       /\ Len(tokens) \in Nat /\ (tokens # <<>> <=> Len(tokens) > 0)
  BY <1>1, <1>2, RowAppend, RowLen
<1>14. tokens' # <<>> /\ Newest' = x
  <2>1. tokens' # <<>> <=> Len(tokens') > 0
    BY <1>13, RowLen
  <2>2. tokens' # <<>> => Last(tokens') = tokens'[Len(tokens')]
    BY <1>13, RowLen
  <2> QED BY <1>13, <2>1, <2>2 DEF Newest
<1>15. First' = First
  BY <1>1, WholeStays DEF First
<1>16. (IF Len(tokens) = 1 THEN First ELSE tokens[Len(tokens) - 1].end.offset)' = pos.offset
  <2>1. CASE tokens = <<>>
    <3>1. Len(tokens') = 1
      BY <1>13, <2>1
    <3> QED BY <1>15, <2>1, <3>1 DEF Tiled
  <2>2. CASE tokens # <<>>
    <3>1. Len(tokens') # 1 /\ Len(tokens') - 1 = Len(tokens) /\ Len(tokens) \in 1..Len(tokens)
      BY <1>13, <2>2
    <3>2. tokens'[Len(tokens)] = tokens[Len(tokens)] /\ Newest = tokens[Len(tokens)]
      BY <1>1, <1>13, <2>2, <3>1, RowLen DEF Newest
    <3>3. pos.offset = Newest.end.offset
      BY <2>2 DEF Tiled
    <3> QED BY <3>1, <3>2, <3>3
  <2> QED BY <2>1, <2>2
<1>17. pos'.offset = Newest'.end.offset
  BY <1>2, <1>11, <1>14
<1>18. PICK f, t : f = pos.offset /\ t = x
  OBVIOUS
<1>19. TileAt(f, t)
  BY <1>12, <1>18
<1>20. TileAt(f, t)'
  BY <1>1, <1>3, <1>19, TileStays
<1>21. f = (IF Len(tokens) = 1 THEN First ELSE tokens[Len(tokens) - 1].end.offset)'
  BY <1>16, <1>18
<1>22. t = Newest'
  BY <1>14, <1>18
<1> QED BY <1>14, <1>17, <1>20, <1>21, <1>22, SMTT(30) DEF Tiled

(* So the tokens make up the text.                                         *)
LEMMA TilesText ==
  ASSUME LexInv, Tiled
  PROVE  TokensTile
<1> DEFINE n     == Len(tokens)
           first == IF Peek(0) = BOM THEN 1 ELSE 0
           from  == IF n = 1 THEN first ELSE tokens[n - 1].end.offset
           begin == Newest.begin.offset
           end   == Newest.end.offset
<1>1. SUFFICES ASSUME tokens # <<>>
               PROVE  /\ Ignorable(from, begin)
                      /\ begin = End \/ ~Ignorable(begin, begin + 1)
                      /\ \A j \in begin..End : IsWhole(begin, j) => ~allowComments /\ end = j
                      /\ IF Newest.kind = "eof" THEN begin = End /\ end = End /\ LaidOut
                                               ELSE begin < end /\ end =< End
  BY DEF TokensTile
<1>2. TileAt(from, Newest)
  BY <1>1 DEF Tiled, First
<1>3. IsRow(tokens) /\ Newest = tokens[n] /\ n \in 1..n
  BY <1>1, RowLen DEF LexInv, Follows, Newest
<1>4. /\ Located(Newest.end) /\ (Newest.kind # "eof" => begin < end)
  <2>1. Follows(tokens, pos.offset)
    BY DEF LexInv
  <2> QED BY <1>3, <2>1 DEF Follows
<1>5. End \in Nat
  BY RowLen DEF LexInv, End
<1>6. end \in 0..End
  BY <1>4 DEF Located
<1>7. begin = End \/ ~Ignorable(begin, begin + 1)
  <2>1. SUFFICES ASSUME begin # End, Ignorable(begin, begin + 1)
                 PROVE  FALSE
    OBVIOUS
  <2>2. begin \in Nat /\ begin + 1 \in Nat /\ begin < begin + 1 /\ begin + 2..begin + 1 = {}
        /\ begin < End
    BY <1>2, <1>5, <2>1 DEF TileAt
  <2>3. Peek(begin) \notin White
    BY <1>2, <2>2 DEF TileAt
  <2> HIDE DEF begin
  <2> QED BY <2>1, <2>2, <2>3, IgnorableIs
<1>8. Newest.kind = "eof" => LaidOut
  <2>1. Newest.kind = "eof" => LexDone
    BY <1>1 DEF LexDone, Newest
  <2> QED BY <2>1, LexerLaysOut DEF Base
<1> HIDE DEF from, begin, end
<1> QED BY <1>2, <1>4, <1>5, <1>6, <1>7, <1>8 DEF TileAt, begin, end

(* The tokens, and what may be ignored between them, make up the whole     *)
(* text: nothing of it is skipped that is not white space or a comment that*)
(* is allowed, no comment is cut, and the last token is eof, at its end;   *)
(* for every text and every way its characters are read.                   *)
THEOREM FrontEndTokensTile == Spec => []TokensTile
<1>1. Init => Tiled
  BY TilesBegin DEF Init
<1>2. Tiled /\ FInv /\ [Next]_vars => Tiled'
  <2> SUFFICES ASSUME Tiled, FInv, [Next]_vars
               PROVE  Tiled'
    OBVIOUS
  <2>1. CASE Lexing
    BY <2>1, TileToken DEF Lexing, FInv
  <2>2. CASE ~Lexing
    <3>1. UNCHANGED lexerVars
      BY <2>2 DEF Next, EndLexing, Parsing, EndParsing, Importing, EndImport, Canonicalize,
                  WriteTrace, vars
    <3>2. text' = text /\ allowComments' = allowComments /\ tokens' = tokens /\ pos' = pos
      BY <3>1 DEF lexerVars
    <3>3. Newest' = Newest /\ First' = First
      BY <3>2, WholeStays DEF Newest, First
    <3>4. CASE tokens = <<>>
      BY <3>2, <3>3, <3>4 DEF Tiled
    <3>5. CASE tokens # <<>>
      <4>1. PICK f, t : /\ f = IF Len(tokens) = 1 THEN First ELSE tokens[Len(tokens) - 1].end.offset
                        /\ t = Newest
        OBVIOUS
      <4>2. TileAt(f, t) /\ End \in Nat
        BY <3>5, <4>1, RowLen DEF Tiled, FInv, LexInv, End
      <4>3. TileAt(f, t)'
        BY <3>2, <4>2, TileStays
      <4>4. f = (IF Len(tokens) = 1 THEN First ELSE tokens[Len(tokens) - 1].end.offset)'
        BY <3>2, <3>3, <4>1
      <4>5. (pos.offset = IF tokens = <<>> THEN First ELSE Newest.end.offset)'
        BY <3>2, <3>3 DEF Tiled
      <4> QED BY <3>3, <4>1, <4>3, <4>4, <4>5 DEF Tiled
    <3> QED BY <3>4, <3>5
  <2> QED BY <2>1, <2>2
<1>3. FInv /\ Tiled => TokensTile
  BY TilesText DEF FInv
<1> QED BY <1>1, <1>2, <1>3, FrontEndInvariant, PTL DEF Spec

=============================================================================
