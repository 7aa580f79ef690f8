----------------------------- MODULE SchemaOps -----------------------------
(***************************************************************************)
(* The two validation operations of the schema dialect: their constraint   *)
(* attributes, the verifier that says which attribute sets are legal, and  *)
(* the verdict an operation gives on a JSON value.                         *)
(*                                                                         *)
(* An optional attribute is a set with at most one element: {} when it is  *)
(* absent.  A double is an integer order key (finite doubles embed in the  *)
(* integers in order); what the hardware computes for x / m is the         *)
(* relations Integral, Vanishing and Overflowing, so that an instance      *)
(* decides whether division is exact, rounds or leaves the finite doubles. *)
(***************************************************************************)
EXTENDS Integers

CONSTANTS Pattern,    \* the valid, non-empty regular expressions in use
          Format,     \* the non-empty format names in use
          Number,     \* the finite doubles in use
          Integral,   \* <<x, m>> : the computed x / m is an integer (or zero)
          Vanishing,  \* <<x, m>> : the computed x / m is zero
          Overflowing, \* <<x, m>> : the computed x / m is infinite, its own trunc
          Whole,      \* x : x = trunc(x)
          One,        \* the double 1.0
          Zero        \* the double 0.0

ASSUME NumberAssumption ==
  /\ Number \subseteq Int /\ One \in Number /\ Zero \in Number /\ Zero < One
  /\ Integral \subseteq Number \X Number
  /\ Vanishing \subseteq Integral /\ Overflowing \subseteq Integral
  /\ Whole \subseteq Number

Opt(S) == {s \in SUBSET S : \A x, y \in s : x = y}

-----------------------------------------------------------------------------
(* Constraint attributes of schema.validate_string and _number.            *)

StringLattice ==
  [kind : {"string"}, minLength : Opt(Int), maxLength : Opt(Int),
   pattern : Opt(Pattern), format : Opt(Format)]

NumberLattice ==
  [kind : {"number"}, minimum : Opt(Number), maximum : Opt(Number),
   multipleOf : Opt(Number),
   exclusiveMin : BOOLEAN, exclusiveMax : BOOLEAN, integral : BOOLEAN]

Lattice == StringLattice \cup NumberLattice

StringVerifies(c) ==
  /\ \A n \in c.minLength \cup c.maxLength : n >= 0
  /\ \A lo \in c.minLength, hi \in c.maxLength : lo <= hi

NumberVerifies(c) ==
  /\ \A lo \in c.minimum, hi \in c.maximum : lo <= hi
  /\ c.exclusiveMin => c.minimum # {}
  /\ c.exclusiveMax => c.maximum # {}
  /\ \A m \in c.multipleOf : m > Zero

Verifies(c) == IF c.kind = "string" THEN StringVerifies(c) ELSE NumberVerifies(c)

-----------------------------------------------------------------------------
(* JSON values, as far as a validation can tell them apart, and verdicts.  *)

StringValue == [kind : {"string"}, length : Nat,
                matches : SUBSET Pattern, formats : SUBSET Format]
NumberValue == [kind : {"number"}, x : Number]
OtherValue  == [kind : {"null", "boolean", "object", "array"}]
JsonValue   == StringValue \cup NumberValue \cup OtherValue

StringAccepts(c, v) ==
  /\ \A n \in c.minLength : v.length >= n
  /\ \A n \in c.maxLength : v.length =< n
  /\ c.pattern \subseteq v.matches
  /\ c.format  \subseteq v.formats

NumberAccepts(c, v) ==
  /\ \A b \in c.minimum : IF c.exclusiveMin THEN v.x > b ELSE v.x >= b
  /\ \A b \in c.maximum : IF c.exclusiveMax THEN v.x < b ELSE v.x =< b
  /\ \A m \in c.multipleOf : <<v.x, m>> \in Integral
  /\ c.integral => v.x \in Whole

(* A value of another kind is rejected before any constraint is looked at. *)
Accepts(c, v) ==
  /\ v.kind = c.kind
  /\ IF c.kind = "string" THEN StringAccepts(c, v) ELSE NumberAccepts(c, v)

=============================================================================
