------------------------------ MODULE Lattices ------------------------------
(***************************************************************************)
(* The constraint lattices of schema-canonicalize: when one validation     *)
(* subsumes another, and the single validation (if there is one) that      *)
(* stands for the conjunction of two.                                      *)
(***************************************************************************)
EXTENDS SchemaOps

TightestLower(a, b) == {x \in a \cup b : \A y \in a \cup b : x >= y}
TightestUpper(a, b) == {x \in a \cup b : \A y \in a \cup b : x =< y}

(* Bug: the two divisors the wrong way round. *)
IsIntegralMultipleOf_Swapped(a, b) ==
  <<b, a>> \in Integral \ (Vanishing \cup Overflowing)

(* The quotient of two divisors counts only when it is an integer other    *)
(* than zero: a tiny value over a huge one underflows to an integral zero, *)
(* a huge one over a tiny one overflows.  The divisors are finite: the     *)
(* parser refuses a number that is not.                                    *)
IsIntegralMultipleOf(a, b) ==
  <<a, b>> \in Integral \ (Vanishing \cup Overflowing)

-----------------------------------------------------------------------------
StringSubsumes(a, b) ==
  /\ \A n \in b.minLength : \E m \in a.minLength : m >= n
  /\ \A n \in b.maxLength : \E m \in a.maxLength : m =< n
  /\ b.pattern # {} => a.pattern = b.pattern
  /\ b.format  # {} => a.format  = b.format

Compatible(a, b) == a = {} \/ b = {} \/ a = b

StringMeet(a, b) ==
  IF Compatible(a.pattern, b.pattern) /\ Compatible(a.format, b.format)
  THEN {[kind      |-> "string",
         minLength |-> TightestLower(a.minLength, b.minLength),
         maxLength |-> TightestUpper(a.maxLength, b.maxLength),
         pattern   |-> IF a.pattern # {} THEN a.pattern ELSE b.pattern,
         format    |-> IF a.format  # {} THEN a.format  ELSE b.format]}
  ELSE {}

-----------------------------------------------------------------------------
LowerAtLeastAsStrict(a, aExcl, b, bExcl) ==
  \A y \in b : \E x \in a : x > y \/ (x = y /\ (aExcl \/ ~bExcl))

UpperAtLeastAsStrict(a, aExcl, b, bExcl) ==
  \A y \in b : \E x \in a : x < y \/ (x = y /\ (aExcl \/ ~bExcl))

NumberSubsumes(a, b) ==
  /\ LowerAtLeastAsStrict(a.minimum, a.exclusiveMin, b.minimum, b.exclusiveMin)
  /\ UpperAtLeastAsStrict(a.maximum, a.exclusiveMax, b.maximum, b.exclusiveMax)
  /\ \A n \in b.multipleOf : \E m \in a.multipleOf : IsIntegralMultipleOf(m, n)
  /\ b.integral => a.integral

(* The divisor that stands for both, as a set of at most one optional:     *)
(* empty when neither divisor is a multiple of the other.                  *)
DivisorMeet(a, b) ==
  IF a = {} \/ b = {} THEN {a \cup b}
  ELSE IF \A m \in a, n \in b : IsIntegralMultipleOf(m, n) THEN {a}
  ELSE IF \A m \in a, n \in b : IsIntegralMultipleOf(n, m) THEN {b}
  ELSE {}

(* Bugs: a meet integral only when both sides are; the laxer upper bound. *)
NumberMeet_IntegralIfBoth(a, b) ==
  {[kind |-> "number",
    minimum |-> a.minimum, exclusiveMin |-> a.exclusiveMin,
    maximum |-> a.maximum, exclusiveMax |-> a.exclusiveMax,
    multipleOf |-> d, integral |-> a.integral /\ b.integral]
   : d \in DivisorMeet(a.multipleOf, b.multipleOf)}

NumberMeet_LaxerUpper(a, b) ==
  LET lo == IF LowerAtLeastAsStrict(a.minimum, a.exclusiveMin,
                                    b.minimum, b.exclusiveMin) THEN a ELSE b
      hi == IF UpperAtLeastAsStrict(a.maximum, a.exclusiveMax,
                                    b.maximum, b.exclusiveMax) THEN b ELSE a
  IN {[kind |-> "number",
       minimum |-> lo.minimum, exclusiveMin |-> lo.exclusiveMin,
       maximum |-> hi.maximum, exclusiveMax |-> hi.exclusiveMax,
       multipleOf |-> d, integral |-> a.integral \/ b.integral]
      : d \in DivisorMeet(a.multipleOf, b.multipleOf)}

NumberMeet(a, b) ==
  LET lo == IF LowerAtLeastAsStrict(a.minimum, a.exclusiveMin,
                                    b.minimum, b.exclusiveMin) THEN a ELSE b
      hi == IF UpperAtLeastAsStrict(a.maximum, a.exclusiveMax,
                                    b.maximum, b.exclusiveMax) THEN a ELSE b
  IN {[kind |-> "number",
       minimum |-> lo.minimum, exclusiveMin |-> lo.exclusiveMin,
       maximum |-> hi.maximum, exclusiveMax |-> hi.exclusiveMax,
       multipleOf |-> d, integral |-> a.integral \/ b.integral]
      : d \in DivisorMeet(a.multipleOf, b.multipleOf)}

-----------------------------------------------------------------------------
(* Only lattices of one kind are ever compared or merged.                  *)

Subsumes(a, b) ==
  /\ a.kind = b.kind
  /\ IF a.kind = "string" THEN StringSubsumes(a, b) ELSE NumberSubsumes(a, b)

Meet(a, b) ==
  IF a.kind # b.kind THEN {}
  ELSE IF a.kind = "string" THEN StringMeet(a, b) ELSE NumberMeet(a, b)

StrictlyStronger(a, b) == Subsumes(a, b) /\ ~Subsumes(b, a)

(* What exact arithmetic guarantees and a rounding division need not.      *)
DivisionExact ==
  /\ \A x, m, n \in Number :
        /\ <<x, m>> \in Integral /\ IsIntegralMultipleOf(m, n)
        => <<x, n>> \in Integral
  /\ \A x, m, n \in Number :
        /\ IsIntegralMultipleOf(x, m) /\ IsIntegralMultipleOf(m, n)
        => IsIntegralMultipleOf(x, n)
  /\ \A m \in Number : m > Zero => IsIntegralMultipleOf(m, m)
  /\ \A x \in Number : <<x, One>> \in Integral <=> x \in Whole

=============================================================================
