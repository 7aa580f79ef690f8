----------------------------- MODULE MCFrontEnd -----------------------------
(***************************************************************************)
(* Small texts for FrontEnd: pieces in every order, for the lexer; and     *)
(* schema documents with one token or two cut or put, for the rest.        *)
(* Numbers are counted in halves (2 is the double 1.0).                    *)
(***************************************************************************)
EXTENDS FrontEnd

Words     == {"true", "null"}
MCAlpha   == {"a", "e", "E"} \cup Words
MCHexUnit ==
  ("0041" :> 65) @@ ("d7ff" :> 55295) @@ ("d800" :> 55296) @@ ("dbff" :> 56319)
  @@ ("dc00" :> 56320) @@ ("dfff" :> 57343) @@ ("e000" :> 57344)
MCUtf8 ==
  (65 :> "A") @@ (55295 :> "U+D7FF") @@ (57344 :> "U+E000") @@ (65536 :> "U+10000")
  @@ (66559 :> "U+103FF") @@ (1113088 :> "U+10FC00") @@ (1114111 :> "U+10FFFF")

MCNumber  == -2..10
MCNone    == {}
MCWhole   == {n \in MCNumber : n % 2 = 0}
MCDoubles ==
  (<<"-", "1">> :> -2) @@ (<<"0">> :> 0) @@ (<<"1">> :> 2) @@ (<<"1", ".", "5">> :> 3)
  @@ (<<"4">> :> 8) @@ (<<"5">> :> 10) @@ (<<"1", "e", "9">> :> 99)
MCIntegers == [n \in MCWhole |-> n \div 2]
MCStem     == <<"a">>

Docs ==
  {[kind |-> "string", length |-> 0, matches |-> {}, formats |-> {}],
   [kind |-> "string", length |-> 2, matches |-> {"a"}, formats |-> {}],
   [kind |-> "number", x |-> 2], [kind |-> "number", x |-> 3]}
  \cup [kind : {"object", "null"}]

Sequences(set, n) == UNION {[1..k -> set] : k \in 0..n}
Texts(set, n)     == {FlattenSeq(s) : s \in Sequences(set, n)}

-----------------------------------------------------------------------------
(* Texts for the lexer. *)
NumberLike == Sequences({"-", "0", "1", ".", "e", "+", "a"}, 4)

U(unit)  == <<"\\", "u", unit>>
Escapes  == {<<"a">>, <<"\\", "n">>, <<"\\", "a">>, <<"\\", "u", "zz">>, <<"\t">>, <<"\n">>}
Quoted   ==
  {<<"\"">> \o s \o close :
     s \in Texts({U(unit) : unit \in DOMAIN MCHexUnit} \cup Escapes, 2), close \in {<<>>, <<"\"">>}}
  \cup {<<"\"">> \o s \o close : s \in Texts({U("d800"), U("dfff"), <<"\\">>, <<"a">>}, 3),
                                close \in {<<>>, <<"\"">>, <<"\"", "{">>}}

Commented ==
  {bom \o s : bom \in {<<>>, <<"BOM">>},
              s \in Texts({<<"/", "*">>, <<"*", "/">>, <<"/", "/">>, <<"/">>, <<"\n">>, <<" ">>, <<"{">>}, 3)}
  \cup Texts({<<"true">>, <<"null">>, <<"a">>, <<"_">>, <<"0">>, <<"@">>, <<" ">>}, 3)

Job(t, comments, asked) == [text |-> t, allowComments |-> comments, options |-> asked]

-----------------------------------------------------------------------------
(* Documents, as lists of spelled tokens. *)
S(name)   == <<"\"", name, "\"">>
Uno == <<"1">>
Half      == <<"1", ".", "5">>

Joined(parts) ==
  FlattenSeq([k \in DOMAIN parts |-> IF k = 1 THEN parts[1] ELSE <<<<",">>>> \o parts[k]])
Obj(members) == <<<<"{">>>> \o Joined(members) \o <<<<"}">>>>
Arr(items)   == <<<<"[">>>> \o Joined(items) \o <<<<"]">>>>
M(key, value) == <<S(key), <<":">>>> \o value

(* The tokens of an odd document are set apart by spaces; in an even one a *)
(* comma ends the line, and only a number has a space after it.            *)
Written(ts) ==
  FlattenSeq([k \in DOMAIN ts |->
    ts[k] \o (IF Len(ts) % 2 = 1 \/ ts[k] \in DOMAIN MCDoubles THEN <<" ">> ELSE IF ts[k] = <<",">> THEN <<"\n">> ELSE <<>>)])

Documents ==
  {Obj(<<M("type", <<S("string")>>), M("minLength", <<Uno>>)>>),
   Obj(<<M("type", Arr(<<<<S("string")>>, <<S("null")>>>>))>>),
   Obj(<<M("type", <<S("object")>>), M("properties", Obj(<<M("a", Obj(<<>>)), M("b", Obj(<<M("title", <<S("a")>>)>>))>>)),
         M("required", Arr(<<<<S("a")>>, <<S("b")>>>>))>>),
   Obj(<<M("allOf", Arr(<<Obj(<<M("minimum", <<Half>>)>>), Obj(<<M("type", <<S("number")>>)>>)>>))>>),
   Obj(<<M("allOf", Arr(<<Obj(<<M("allOf", Arr(<<Obj(<<>>)>>))>>)>>))>>),
   Obj(<<M("default", Obj(<<M("a", Arr(<<<<Uno>>>>))>>)), M("a", Arr(<<Obj(<<>>)>>)),
         M("$schema", <<S("draft7")>>)>>),
   Obj(<<M("properties", Obj(<<M("a", Obj(<<M("a", Arr(<<Arr(<<>>)>>))>>))>>))>>),
   Obj(<<M("properties", Obj(<<M("a", Obj(<<M("properties", Obj(<<M("b", <<Uno>>), M("b", Obj(<<>>))>>))>>))>>))>>),
   Obj(<<M("pattern", <<S("a")>>), M("title", <<<<"null">>>>), M("$schema", <<S("draft2020")>>)>>)}
  \cup {Obj(<<M(k, <<n>>)>>) : k \in {"maxLength", "maximum"}, n \in DOMAIN MCDoubles}

(* At a place of a document some tokens are cut (one, or all that follow)  *)
(* and one is put.  In the smallest document brackets and commas are cut   *)
(* and put at two places.                                                  *)
Structure == {<<"{">>, <<"}">>, <<"[">>, <<"]">>, <<",">>}
Spare     == Structure \cup {<<":">>, <<"@">>, S("a"), S("type"), Uno}

Places(ds) == UNION {{<<d, k>> : k \in 1..Len(d) + 1} : d \in ds}
Changed(ps, spare, cuts) ==
  {SubSeq(p[1], 1, p[2] - 1) \o put \o SubSeq(p[1], p[2] + cut, Len(p[1])) :
     p \in ps, cut \in cuts, put \in {<<>>} \cup {<<t>> : t \in spare}}

Once  == Changed(Places(Documents), Spare, {0, 1, 99})
Small == Changed(Places({Obj(<<M("allOf", Arr(<<Obj(<<>>)>>))>>)}), Structure, {0, 1, 99})
Twice == Changed(Places(Small), Structure, {0, 1})

(* Every option on the documents and on a few changes of them. *)
Asked == {{"dump-tokens"}, {"dump-ast"}, {"emit-trace"}, {"dump-ast", "emit-trace"}}

SomeJobs ==
  {Job(t, comments, {"dump-tokens"}) : t \in NumberLike \cup Quoted, comments \in {FALSE}}
  \cup {Job(t, comments, {"dump-tokens"}) : t \in Commented, comments \in BOOLEAN}
  \cup {Job(Written(d), FALSE, {}) : d \in Once \cup Twice}
  \cup {Job(Written(d), FALSE, o) : d \in Documents \cup Small, o \in Asked}

=============================================================================
