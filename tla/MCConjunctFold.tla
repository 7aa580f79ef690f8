--------------------------- MODULE MCConjunctFold ---------------------------
(***************************************************************************)
(* Small trees for ConjunctFold.  Numbers are counted in halves (2 is the  *)
(* double 1.0), and their division is exact.  Huge is the greatest double: *)
(* it is a whole number, as is its quotient by any number here, but its    *)
(* quotient by 0.5 is infinite.                                            *)
(***************************************************************************)
EXTENDS MojoLattice, TLC

CONSTANTS a, b, c, d,   \* SSA values of type i1
          x, y          \* SSA values of type !schema.value

Huge          == 100
MCNumber      == -3..25 \cup {Huge}
MCIntegral    == {p \in (-3..25) \X (1..25) : p[1] % p[2] = 0}
                 \cup ({Huge} \X (1..25 \cup {Huge})) \cup {<<0, Huge>>}
MCVanishing   == {p \in MCIntegral : p[1] = 0}
MCOverflowing == {<<Huge, 1>>}
MCWhole       == {n \in MCNumber : n % 2 = 0}

Str(lo, hi, pat, fmt) ==
  [kind |-> "string", minLength |-> lo, maxLength |-> hi,
   pattern |-> pat, format |-> fmt]

Num(lo, hi, mult, xlo, xhi, int) ==
  [kind |-> "number", minimum |-> lo, maximum |-> hi, multipleOf |-> mult,
   exclusiveMin |-> xlo, exclusiveMax |-> xhi, integral |-> int]

MCStrings ==
  {Str({5}, {}, {}, {}), Str({2}, {}, {}, {}), Str({2}, {5}, {}, {}),
   Str({}, {4}, {}, {}), Str({}, {}, {"p"}, {}), Str({}, {5}, {"p"}, {"f"}),
   Str({}, {}, {"q"}, {}), Str({2}, {}, {}, {"f"})}

MCNumbers ==
  {Num({0}, {}, {}, FALSE, FALSE, FALSE), Num({0}, {}, {}, TRUE, FALSE, FALSE),
   Num({3}, {12}, {}, FALSE, TRUE, FALSE), Num({}, {12}, {}, FALSE, FALSE, TRUE),
   Num({}, {}, {4}, FALSE, FALSE, FALSE), Num({}, {}, {6}, FALSE, FALSE, TRUE),
   Num({}, {}, {12}, FALSE, FALSE, FALSE), Num({}, {}, {3}, FALSE, FALSE, FALSE)}

On(in, lats) == {[input |-> {in}, lat |-> {l}] : l \in lats}
Opaque == [input |-> {}, lat |-> {}]

(* Every length with all patterns and formats, every pattern and format at *)
(* one length: the constraints of an operation are independent.            *)
StringDocs ==
  [kind : {"string"}, length : {1, 2, 4, 6}, matches : {{"p", "q"}}, formats : {{"f"}}]
  \cup [kind : {"string"}, length : {5}, matches : {{"p"}, {"q"}, {"p", "q"}},
         formats : {{}, {"f"}}]
  \cup [kind : {"null"}]

NumberDocs ==
  [kind : {"number"}, x : {-2, 0, 1, 2, 3, 4, 6, 8, 12, 24, Huge}]
  \cup [kind : {"object"}]

(* A tree is given by the operations of three values; the fourth, when it  *)
(* is not given, repeats the first.                                        *)
Three(D) == {f @@ (d :> f[a]) : f \in [{a, b, c} -> D]}

StringTrees == Three(On(x, MCStrings)) \X {<<a, b, c>>, <<a, b, a>>}

NumberTrees == Three(On(x, MCNumbers)) \X {<<a, b, c>>, <<a, a, b>>}

(* Divisors whose quotient overflows: neither is a multiple of the other.  *)
HugeTrees ==
  Three(On(x, {Num({}, {}, {1}, FALSE, FALSE, FALSE), Num({}, {}, {Huge}, FALSE, FALSE, TRUE),
               Num({}, {}, {Huge}, FALSE, FALSE, FALSE), Num({0}, {}, {}, FALSE, FALSE, TRUE)}))
  \X {<<a, b, c>>}

(* Two inputs, both kinds and opaque leaves in one tree.                   *)
MixedDefs ==
  On(x, {Str({5}, {}, {}, {}), Num({0}, {}, {}, TRUE, FALSE, FALSE)})
  \cup On(y, {Str({2}, {}, {}, {}), Num({3}, {12}, {}, FALSE, TRUE, FALSE)})
  \cup {Opaque}

MixedTrees ==
  (Three(MixedDefs) \X {<<a, b, c>>, <<a, b, a, c, b>>})
  \cup {<<f, <<a, b, c, d>>>> : f \in {g \in [{a, b, c, d} -> MixedDefs] :
                                     /\ g[a].input = {x} /\ g[c].input = {x}
                                     /\ g[b].input = {y} /\ g[d].input = {y}}}

SomeTrees == StringTrees \cup NumberTrees \cup HugeTrees \cup MixedTrees
SomeDocs  == StringDocs \cup NumberDocs

-----------------------------------------------------------------------------
(* Division as a processor computes it, on the doubles 0.0, 0.03, 0.3, 0.9 *)
(* and 1.0, named 0 to 4: 0.3 / 0.03 is 10.0 and 0.9 / 0.3 is 3.0, but     *)
(* 0.9 / 0.03 is 30.000000000000004.                                       *)
RoundedNumber    == 0..4
RoundedIntegral  == {<<0, m>> : m \in 1..4} \cup {<<m, m>> : m \in 1..4}
                    \cup {<<2, 1>>, <<3, 2>>}
RoundedVanishing == {<<0, m>> : m \in 1..4}
RoundedWhole     == {0, 4}

RoundedLattices == {Num({}, {}, m, FALSE, FALSE, FALSE) : m \in {{}, {1}, {2}, {3}, {4}}}
RoundedTrees    == Three(On(x, RoundedLattices)) \X {<<a, b, c>>}
RoundedDocs     == [kind : {"number"}, x : RoundedNumber]

=============================================================================
