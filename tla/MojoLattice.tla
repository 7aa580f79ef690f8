---------------------------- MODULE MojoLattice ----------------------------
(***************************************************************************)
(* The Mojo library of the repository repeats the constraint lattices by   *)
(* hand.  Its operations are written here as they stand in that library,   *)
(* with early returns as disjuncts, so that they can be compared with the  *)
(* lattices the compiler folds with (Lattices).  The library has no kind:  *)
(* its caller has looked at the type of the JSON value.                    *)
(***************************************************************************)
EXTENDS ConjunctFold

The(o) == CHOOSE v \in o : TRUE

(* Bug: the smaller of two lower bounds. *)
MojoMaxOpt_Smaller(a, b) ==
  IF a = {} THEN b ELSE IF b = {} THEN a
  ELSE IF The(a) =< The(b) THEN a ELSE b

MojoMaxOpt(a, b) ==
  IF a = {} THEN b ELSE IF b = {} THEN a
  ELSE IF The(a) >= The(b) THEN a ELSE b

MojoMinOpt(a, b) ==
  IF a = {} THEN b ELSE IF b = {} THEN a
  ELSE IF The(a) =< The(b) THEN a ELSE b

MojoCovers(a, b) == b = {} \/ (a # {} /\ The(a) = The(b))

MojoStringSubsumes(a, b) ==
  /\ b.minLength # {} => a.minLength # {} /\ ~(The(a.minLength) < The(b.minLength))
  /\ b.maxLength # {} => a.maxLength # {} /\ ~(The(a.maxLength) > The(b.maxLength))
  /\ MojoCovers(a.pattern, b.pattern)
  /\ MojoCovers(a.format, b.format)

MojoConflict(a, b) == a # {} /\ b # {} /\ The(a) # The(b)

MojoStringMeet(a, b) ==
  IF MojoConflict(a.pattern, b.pattern) \/ MojoConflict(a.format, b.format) THEN {}
  ELSE {[kind      |-> "string",
         minLength |-> MojoMaxOpt(a.minLength, b.minLength),
         maxLength |-> MojoMinOpt(a.maxLength, b.maxLength),
         pattern   |-> IF a.pattern = {} THEN b.pattern ELSE a.pattern,
         format    |-> IF a.format = {} THEN b.format ELSE a.format]}

(* Equality is subsumption both ways. *)
MojoStringEq(a, b) == MojoStringSubsumes(a, b) /\ MojoStringSubsumes(b, a)

(* validate has no regular expressions: only the lengths are checked.      *)
MojoStringValidates(a) == a.pattern = {} /\ a.format = {}

MojoStringValidate(a, v) ==
  /\ a.minLength # {} => ~(v.length < The(a.minLength))
  /\ a.maxLength # {} => ~(v.length > The(a.maxLength))

MojoStringVacuous(a) ==
  a.minLength = {} /\ a.maxLength = {} /\ a.pattern = {} /\ a.format = {}

-----------------------------------------------------------------------------
MojoLowerAtLeastAsStrict(a, aExcl, b, bExcl) ==
  b = {} \/ /\ a # {}
            /\ \/ The(a) > The(b)
               \/ ~(The(a) < The(b)) /\ (aExcl \/ ~bExcl)

MojoUpperAtLeastAsStrict(a, aExcl, b, bExcl) ==
  b = {} \/ /\ a # {}
            /\ \/ The(a) < The(b)
               \/ ~(The(a) > The(b)) /\ (aExcl \/ ~bExcl)

(* Bug: an infinite quotient equals its trunc and is let through.          *)
MojoIsIntegralMultipleOf_NotFinite(a, b) ==
  b # Zero /\ <<a, b>> \notin Vanishing /\ <<a, b>> \in Integral

(* _is_finite of a and of b holds of every double here; of the quotient it *)
(* fails when the quotient overflows.                                      *)
MojoIsIntegralMultipleOf(a, b) ==
  b # Zero /\ <<a, b>> \notin Overflowing \cup Vanishing /\ <<a, b>> \in Integral

MojoNumberSubsumes(a, b) ==
  /\ MojoLowerAtLeastAsStrict(a.minimum, a.exclusiveMin, b.minimum, b.exclusiveMin)
  /\ MojoUpperAtLeastAsStrict(a.maximum, a.exclusiveMax, b.maximum, b.exclusiveMax)
  /\ b.multipleOf # {} =>
       a.multipleOf # {} /\ MojoIsIntegralMultipleOf(The(a.multipleOf), The(b.multipleOf))
  /\ a.integral \/ ~b.integral

MojoDivisor(a, b) ==
  IF a = {} THEN {b} ELSE IF b = {} THEN {a}
  ELSE IF MojoIsIntegralMultipleOf(The(a), The(b)) THEN {a}
  ELSE IF MojoIsIntegralMultipleOf(The(b), The(a)) THEN {b}
  ELSE {}

MojoNumberMeet(a, b) ==
  LET lo == IF MojoLowerAtLeastAsStrict(a.minimum, a.exclusiveMin,
                                        b.minimum, b.exclusiveMin) THEN a ELSE b
      hi == IF MojoUpperAtLeastAsStrict(a.maximum, a.exclusiveMax,
                                        b.maximum, b.exclusiveMax) THEN a ELSE b
  IN {[kind |-> "number",
       minimum |-> lo.minimum, exclusiveMin |-> lo.exclusiveMin,
       maximum |-> hi.maximum, exclusiveMax |-> hi.exclusiveMax,
       multipleOf |-> d, integral |-> a.integral \/ b.integral]
      : d \in MojoDivisor(a.multipleOf, b.multipleOf)}

MojoNumberEq(a, b) ==
  /\ a.minimum = b.minimum /\ a.maximum = b.maximum /\ a.multipleOf = b.multipleOf
  /\ a.exclusiveMin = b.exclusiveMin /\ a.exclusiveMax = b.exclusiveMax
  /\ a.integral = b.integral

MojoNumberValidate(a, v) ==
  /\ a.minimum # {} => IF a.exclusiveMin THEN v.x > The(a.minimum) ELSE v.x >= The(a.minimum)
  /\ a.maximum # {} => IF a.exclusiveMax THEN v.x < The(a.maximum) ELSE v.x =< The(a.maximum)
  /\ a.multipleOf # {} => <<v.x, The(a.multipleOf)>> \in Integral
  /\ a.integral => v.x \in Whole

MojoNumberVacuous(a) ==
  a.minimum = {} /\ a.maximum = {} /\ a.multipleOf = {} /\ ~a.integral

-----------------------------------------------------------------------------
(* The library and the compiler agree on lattices a and b, and on v.       *)

StringsAgree(a, b) ==
  /\ MojoStringSubsumes(a, b) <=> Subsumes(a, b)
  /\ MojoStringMeet(a, b) = Meet(a, b)
  /\ MojoStringEq(a, b) <=> a = b

NumbersAgree(a, b) ==
  /\ MojoNumberSubsumes(a, b) <=> Subsumes(a, b)
  /\ MojoNumberMeet(a, b) = Meet(a, b)
  /\ MojoNumberEq(a, b) <=> a = b

Agree(a, b) == IF a.kind = "string" THEN StringsAgree(a, b) ELSE NumbersAgree(a, b)

(* validate, where it does not raise, answers what the compiled validator  *)
(* answers, and a lattice is vacuous only when it accepts all of its kind. *)
AgreeOn(a, v) ==
  IF a.kind = "string"
  THEN /\ MojoStringValidates(a) => (MojoStringValidate(a, v) <=> Accepts(a, v))
       /\ MojoStringVacuous(a) => Accepts(a, v)
  ELSE /\ MojoNumberValidate(a, v) <=> Accepts(a, v)
       /\ MojoNumberVacuous(a) => Accepts(a, v)

(* "same rules as SchemaCanonicalizerPass.cpp" (lattice.mojo:284): on any  *)
(* two lattices the fold meets, the library subsumes, merges, compares and *)
(* validates like the compiler.                                            *)
MojoAgrees ==
  \A k, l \in DOMAIN conj : \A a \in conj[k].lat, b \in conj[l].lat :
    /\ a.kind = b.kind => Agree(a, b)
    /\ \A v \in {d \in Document : d.kind = a.kind} : AgreeOn(a, v)

=============================================================================
