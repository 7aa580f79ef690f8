----------------------------- MODULE MCLowering -----------------------------
(***************************************************************************)
(* Small modules for Lowering.  Numbers are counted in halves (2 is the    *)
(* double 1.0).  The pattern "name" and the property "name" are the same   *)
(* literal.                                                                *)
(***************************************************************************)
EXTENDS Lowering

MCNumber    == -2..13
MCIntegral  == {p \in MCNumber \X MCNumber : p[2] > 0 /\ p[1] % p[2] = 0}
MCVanishing == {p \in MCIntegral : p[1] = 0}
MCWhole     == {k \in MCNumber : k % 2 = 0}

Str(lo, hi, pat, fmt) ==
  [op |-> "validate",
   lat |-> [kind |-> "string", minLength |-> lo, maxLength |-> hi,
            pattern |-> pat, format |-> fmt]]

Num(lo, hi, mult, xlo, xhi, int) ==
  [op |-> "validate",
   lat |-> [kind |-> "number", minimum |-> lo, maximum |-> hi, multipleOf |-> mult,
            exclusiveMin |-> xlo, exclusiveMax |-> xhi, integral |-> int]]

Struct(fields, results, required) ==
  [op |-> "struct", fields |-> fields, results |-> results, required |-> required]

Validations ==
  {Str({1}, {3}, {"name"}, {"f"}), Str({}, {}, {"q"}, {}), Str({2}, {}, {}, {"f"}),
   Num({0}, {6}, {}, TRUE, FALSE, TRUE), Num({1}, {6}, {3}, FALSE, TRUE, FALSE)}

Structs ==
  {Struct(<<"name", "age">>, <<1, 2>>, r) : r \in {<<>>, <<"age">>, <<"age", "name">>}}

Last == {Str({}, {}, {"q"}, {"f"}), Struct(<<"name">>, <<3>>, <<"name">>)}

OneModule(late) ==
  {[ops |-> <<a, b, c, d>>, late |-> late] :
     a, b \in Validations, c \in Structs, d \in Last}

(* Late functions of which the first set needs no literal. *)
Plain ==
  {[ops |-> <<a, b, c, d>>, late |-> {4}] :
     a, b \in Validations, c \in Structs,
     d \in {Str({1}, {}, {}, {}), Struct(<<"name">>, <<3>>, <<>>)}}

AtOnce == OneModule({}) \cup Plain
Linked == OneModule({4})

Docs ==
  [kind : {"string"}, length : {0, 3}, matches : {{"name"}, {"q"}}, formats : {{}, {"f"}}]
  \cup [kind : {"number"}, x : {-2, 0, 1, 2, 3, 6}]
  \cup [kind : {"object"}]

Symbols == {"kind", "as_f64", "str_len", "str_matches", "str_format", "has_field"}

=============================================================================
