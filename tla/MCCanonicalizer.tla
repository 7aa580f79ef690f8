-------------------------- MODULE MCCanonicalizer --------------------------
(***************************************************************************)
(* Small functions for Canonicalizer.  Numbers are counted in halves (2 is *)
(* the double 1.0), and their division is exact.                           *)
(***************************************************************************)
EXTENDS Canonicalizer

CONSTANTS x, y, z     \* SSA values of type !schema.value

MCNumber    == -2..25
MCIntegral  == {p \in MCNumber \X MCNumber : p[2] > 0 /\ p[1] % p[2] = 0}
MCVanishing == {p \in MCIntegral : p[1] = 0}
MCWhole     == {n \in MCNumber : n % 2 = 0}

Str(lo, hi, pat, fmt) ==
  [kind |-> "string", minLength |-> lo, maxLength |-> hi,
   pattern |-> pat, format |-> fmt]

Num(lo, hi, mult, xlo, int) ==
  [kind |-> "number", minimum |-> lo, maximum |-> hi, multipleOf |-> mult,
   exclusiveMin |-> xlo, exclusiveMax |-> FALSE, integral |-> int]

V(in, l)  == [op |-> "validate", input |-> {in}, lat |-> {l}, args |-> <<>>]
And(a, b) == [op |-> "and", input |-> {}, lat |-> {}, args |-> <<a, b>>]
Struct(in, fields) == [op |-> "struct", input |-> {in}, lat |-> {}, args |-> fields]
True      == [op |-> "true", input |-> {}, lat |-> {}, args |-> <<>>]
Arg       == [op |-> "arg", input |-> {}, lat |-> {}, args |-> <<>>]

Function(body, results) ==
  [ops |-> body, order |-> [n \in DOMAIN body |-> n], ret |-> results]

-----------------------------------------------------------------------------
(* Validations as the importer makes them, one per keyword, and some as    *)
(* they are written by hand or left by an earlier run of the pass.         *)

Keywords ==
  {V(x, Str({2}, {}, {}, {})), V(x, Str({}, {5}, {}, {})),
   V(x, Str({}, {}, {"p"}, {})), V(x, Str({}, {}, {"q"}, {})),
   V(x, Num({}, {}, {2}, FALSE, TRUE)), V(x, Num({}, {}, {4}, FALSE, FALSE)),
   True}

Few ==
  {V(x, Str({2}, {}, {}, {})), V(x, Str({}, {5}, {}, {})), V(x, Str({2}, {5}, {}, {})),
   V(y, Str({0}, {}, {}, {})), Arg}

(* allOf and keyword conjunctions: ((a & b) & c) and (a & (b & c)). *)
Conjunctions ==
  {Function(<<a, b, c, And(1, 2), And(4, 3)>>, <<5>>) : a, b, c \in Keywords}
  \cup {Function(<<a, b, c, And(2, 3), And(1, 4)>>, <<5>>) : a, b, c \in Few}

(* An object schema, as the importer makes it: the object and its          *)
(* properties are different inputs.  A struct over verdicts, conjoined with *)
(* another keyword; and a struct one of whose verdicts is a tree.          *)
Structs ==
  {Function(<<a, b, c, Struct(z, <<1, 2, 3>>), d, And(5, 4)>>, <<6>>)
     : a, b, c \in Few, d \in {V(y, Str({2}, {}, {}, {}))}}
  \cup {Function(<<a, b, And(1, 2), c, Struct(z, <<3, 4>>)>>, <<5>>) : a, b, c \in Few}

(* Operations used more than once: a repeated leaf, a shared conjunction,  *)
(* validations that are also returned, a conjunction used by a struct.     *)
DagPrograms ==
  {Function(<<a, b, c, And(1, 2), And(4, 3), And(5, 1)>>, <<6, 2>>)
     : a, b \in Few, c \in {Arg, V(x, Str({2}, {5}, {}, {}))}}
  \cup {Function(<<a, b, And(1, 2), c, And(3, 4), And(4, 3), Struct(y, <<5, 6, 1>>)>>, <<7>>)
          : a, b \in Few, c \in {Arg}}
  \cup {Function(<<a, b, And(1, 2), And(1, 1), Struct(y, <<3, 2, 4>>), And(2, 1)>>, <<5, 2>>)
          : a, b \in Few}

(* Both validations of a conjunction are returned as well, so neither dies *)
(* when the conjunction becomes one validation.                            *)
KeptAlive ==
  {Function(<<a, b, And(1, 2)>>, <<3, 1, 2>>) : a, b \in Few}
  \cup {Function(<<a, b, c, And(1, 2), And(4, 3)>>, <<5, 1, 2, 3>>) : a, b, c \in Few}

(* One value with a second use: a validation returned as well, a           *)
(* conjunction returned twice, and one that two others conjoin further.    *)
SharedOnce ==
  {Function(<<a, b, And(1, 2)>>, <<3, 1>>) : a, b \in Few}
  \cup {Function(<<a, b, And(1, 2)>>, <<3, 3>>) : a, b \in Few}
  \cup {Function(<<a, b, c, V(x, Str({}, {}, {"p"}, {})), And(1, 2), And(5, 3), And(5, 4)>>,
                 <<6, 7>>) : a, b, c \in {V(x, Str({2}, {}, {}, {})), V(x, Str({}, {5}, {}, {}))}}

Functions == Conjunctions \cup DagPrograms \cup KeptAlive \cup SharedOnce

StringDocs ==
  [kind : {"string"}, length : {0, 2, 6}, matches : {{"p"}, {"q"}}, formats : {{}}]

NumberDocs == [kind : {"number"}, x : {0, 1, 2, 4}]

Docs == StringDocs \cup NumberDocs \cup [kind : {"object"}]
FewDocs ==
  {[kind |-> "string", length |-> n, matches |-> {}, formats |-> {}] : n \in {0, 3, 6}}
  \cup [kind : {"object"}]

=============================================================================
