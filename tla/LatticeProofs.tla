---------------------------- MODULE LatticeProofs ----------------------------
(***************************************************************************)
(* Facts about the constraint lattices, for every lattice and every value. *)
(* Where a fact needs divisors to divide as exact arithmetic has it, it    *)
(* assumes DivisionExact; nothing else is assumed of the doubles.          *)
(***************************************************************************)
EXTENDS Lattices, TLAPS

(* An optional is empty or holds one value.                                *)
LEMMA OptCases ==
  ASSUME NEW S, NEW s \in Opt(S), s # {}
  PROVE  \E p \in S : s = {p}
<1>1. PICK p \in s : TRUE
  OBVIOUS
<1>2. p \in S /\ \A q \in s : q = p
  BY <1>1 DEF Opt
<1>3. s = {p}
  BY <1>1, <1>2
<1> QED BY <1>2, <1>3

(* An optional holds at most one value, so the tightest of two optionals   *)
(* is an optional again.                                                   *)
LEMMA TightestType ==
  ASSUME NEW a \in Opt(Int), NEW b \in Opt(Int)
  PROVE  TightestLower(a, b) \in Opt(Int) /\ TightestUpper(a, b) \in Opt(Int)
<1>1. /\ TightestLower(a, b) \subseteq Int /\ TightestUpper(a, b) \subseteq Int
  BY DEF TightestLower, TightestUpper, Opt
<1>2. \A x, y \in TightestLower(a, b) : x = y
  <2> SUFFICES ASSUME NEW x \in TightestLower(a, b), NEW y \in TightestLower(a, b)
               PROVE  x = y
    OBVIOUS
  <2>1. x \in Int /\ y \in Int /\ x >= y /\ y >= x
    BY DEF TightestLower, Opt
  <2> QED BY <2>1
<1>3. \A x, y \in TightestUpper(a, b) : x = y
  <2> SUFFICES ASSUME NEW x \in TightestUpper(a, b), NEW y \in TightestUpper(a, b)
               PROVE  x = y
    OBVIOUS
  <2>1. x \in Int /\ y \in Int /\ x =< y /\ y =< x
    BY DEF TightestUpper, Opt
  <2> QED BY <2>1
<1> QED BY <1>1, <1>2, <1>3 DEF Opt

(* The tightest of two optional bounds is as strict as both together.      *)
LEMMA TightestExact ==
  ASSUME NEW a \in Opt(Int), NEW b \in Opt(Int), NEW n \in Int
  PROVE  /\ (\A x \in TightestLower(a, b) : n >= x)
              <=> (\A x \in a : n >= x) /\ (\A x \in b : n >= x)
         /\ (\A x \in TightestUpper(a, b) : n =< x)
              <=> (\A x \in a : n =< x) /\ (\A x \in b : n =< x)
<1>1. CASE a = {} \/ b = {}
  BY <1>1 DEF TightestLower, TightestUpper, Opt
<1>2. CASE a # {} /\ b # {}
  <2>1. PICK p \in Int : a = {p}
    BY <1>2, OptCases
  <2>2. PICK q \in Int : b = {q}
    BY <1>2, OptCases
  <2>3. TightestLower(a, b) = {IF p >= q THEN p ELSE q}
    BY <2>1, <2>2 DEF TightestLower
  <2>4. TightestUpper(a, b) = {IF p =< q THEN p ELSE q}
    BY <2>1, <2>2 DEF TightestUpper
  <2>5. /\ (\A x \in TightestLower(a, b) : n >= x) <=> n >= p /\ n >= q
        /\ (\A x \in TightestUpper(a, b) : n =< x) <=> n =< p /\ n =< q
    BY <2>3, <2>4
  <2> QED BY <2>1, <2>2, <2>5
<1> QED BY <1>1, <1>2

(* A meet of strings is a string lattice.                                  *)
LEMMA StringMeetType ==
  ASSUME NEW a \in StringLattice, NEW b \in StringLattice
  PROVE  StringMeet(a, b) \subseteq StringLattice
<1>1. TightestLower(a.minLength, b.minLength) \in Opt(Int)
  BY TightestType DEF StringLattice
<1>2. TightestUpper(a.maxLength, b.maxLength) \in Opt(Int)
  BY TightestType DEF StringLattice
<1> QED BY <1>1, <1>2 DEF StringMeet, StringLattice

(* The meet of two string lattices, where there is one, accepts exactly    *)
(* the strings both accept.                                                *)
LEMMA StringMeetExact ==
  ASSUME NEW a \in StringLattice, NEW b \in StringLattice,
         NEW v \in StringValue, NEW m \in StringMeet(a, b)
  PROVE  StringAccepts(m, v) <=> StringAccepts(a, v) /\ StringAccepts(b, v)
<1> DEFINE lo == TightestLower(a.minLength, b.minLength)
           hi == TightestUpper(a.maxLength, b.maxLength)
<1>1. /\ v.length \in Int
      /\ a.minLength \in Opt(Int) /\ b.minLength \in Opt(Int)
      /\ a.maxLength \in Opt(Int) /\ b.maxLength \in Opt(Int)
  BY DEF StringLattice, StringValue
<1>2. /\ (\A n \in lo : v.length >= n)
           <=> (\A n \in a.minLength : v.length >= n)
               /\ (\A n \in b.minLength : v.length >= n)
      /\ (\A n \in hi : v.length =< n)
           <=> (\A n \in a.maxLength : v.length =< n)
               /\ (\A n \in b.maxLength : v.length =< n)
  BY <1>1, TightestExact
<1>3. /\ m.minLength = lo /\ m.maxLength = hi
      /\ m.pattern = (IF a.pattern # {} THEN a.pattern ELSE b.pattern)
      /\ m.format = (IF a.format # {} THEN a.format ELSE b.format)
      /\ Compatible(a.pattern, b.pattern) /\ Compatible(a.format, b.format)
  BY DEF StringMeet
<1>4. /\ m.pattern \subseteq v.matches
           <=> a.pattern \subseteq v.matches /\ b.pattern \subseteq v.matches
      /\ m.format \subseteq v.formats
           <=> a.format \subseteq v.formats /\ b.format \subseteq v.formats
  BY <1>3 DEF Compatible
<1> HIDE DEF lo, hi
<1> QED BY <1>2, <1>3, <1>4 DEF StringAccepts

-----------------------------------------------------------------------------
(* A stricter lower bound implies a laxer one; of two lower bounds one is  *)
(* at least as strict as the other.                                        *)
LEMMA LowerStrict ==
  ASSUME NEW a \in Opt(Int), NEW b \in Opt(Int),
         NEW aExcl \in BOOLEAN, NEW bExcl \in BOOLEAN
  PROVE  /\ \/ LowerAtLeastAsStrict(a, aExcl, b, bExcl)
            \/ LowerAtLeastAsStrict(b, bExcl, a, aExcl)
         /\ LowerAtLeastAsStrict(a, aExcl, b, bExcl) =>
              \A n \in Int :
                 (\A y \in a : IF aExcl THEN n > y ELSE n >= y)
                 => (\A y \in b : IF bExcl THEN n > y ELSE n >= y)
<1>1. \/ LowerAtLeastAsStrict(a, aExcl, b, bExcl)
      \/ LowerAtLeastAsStrict(b, bExcl, a, aExcl)
  <2>1. CASE a = {} \/ b = {}
    BY <2>1 DEF LowerAtLeastAsStrict
  <2>2. CASE a # {} /\ b # {}
    <3>1. PICK p \in Int : a = {p}
      BY <2>2, OptCases
    <3>2. PICK q \in Int : b = {q}
      BY <2>2, OptCases
    <3> QED BY <3>1, <3>2 DEF LowerAtLeastAsStrict
  <2> QED BY <2>1, <2>2
<1>2. ASSUME LowerAtLeastAsStrict(a, aExcl, b, bExcl), NEW n \in Int,
             \A y \in a : IF aExcl THEN n > y ELSE n >= y, NEW y \in b
      PROVE  IF bExcl THEN n > y ELSE n >= y
  <2>1. PICK x \in a : x > y \/ (x = y /\ (aExcl \/ ~bExcl))
    BY <1>2 DEF LowerAtLeastAsStrict
  <2>2. x \in Int /\ y \in Int
    BY DEF Opt
  <2>3. IF aExcl THEN n > x ELSE n >= x
    BY <1>2
  <2> QED BY <2>1, <2>2, <2>3
<1> QED BY <1>1, <1>2

(* The same for upper bounds.                                              *)
LEMMA UpperStrict ==
  ASSUME NEW a \in Opt(Int), NEW b \in Opt(Int),
         NEW aExcl \in BOOLEAN, NEW bExcl \in BOOLEAN
  PROVE  /\ \/ UpperAtLeastAsStrict(a, aExcl, b, bExcl)
            \/ UpperAtLeastAsStrict(b, bExcl, a, aExcl)
         /\ UpperAtLeastAsStrict(a, aExcl, b, bExcl) =>
              \A n \in Int :
                 (\A y \in a : IF aExcl THEN n < y ELSE n =< y)
                 => (\A y \in b : IF bExcl THEN n < y ELSE n =< y)
<1>1. \/ UpperAtLeastAsStrict(a, aExcl, b, bExcl)
      \/ UpperAtLeastAsStrict(b, bExcl, a, aExcl)
  <2>1. CASE a = {} \/ b = {}
    BY <2>1 DEF UpperAtLeastAsStrict
  <2>2. CASE a # {} /\ b # {}
    <3>1. PICK p \in Int : a = {p}
      BY <2>2, OptCases
    <3>2. PICK q \in Int : b = {q}
      BY <2>2, OptCases
    <3> QED BY <3>1, <3>2 DEF UpperAtLeastAsStrict
  <2> QED BY <2>1, <2>2
<1>2. ASSUME UpperAtLeastAsStrict(a, aExcl, b, bExcl), NEW n \in Int,
             \A y \in a : IF aExcl THEN n < y ELSE n =< y, NEW y \in b
      PROVE  IF bExcl THEN n < y ELSE n =< y
  <2>1. PICK x \in a : x < y \/ (x = y /\ (aExcl \/ ~bExcl))
    BY <1>2 DEF UpperAtLeastAsStrict
  <2>2. x \in Int /\ y \in Int
    BY DEF Opt
  <2>3. IF aExcl THEN n < x ELSE n =< x
    BY <1>2
  <2> QED BY <2>1, <2>2, <2>3
<1> QED BY <1>1, <1>2

(* The divisor that stands for two optional divisors is one of them, and   *)
(* exact division makes it divide exactly what both divide.                *)
LEMMA DivisorMeetExact ==
  ASSUME NEW a \in Opt(Number), NEW b \in Opt(Number), NEW d \in DivisorMeet(a, b)
  PROVE  /\ d = a \/ d = b
         /\ a # {} => d # {}
         /\ b # {} => d # {}
         /\ DivisionExact =>
              \A x \in Number :
                 (\A m \in d : <<x, m>> \in Integral)
                   <=> /\ \A m \in a : <<x, m>> \in Integral
                       /\ \A m \in b : <<x, m>> \in Integral
<1>1. CASE a = {} \/ b = {}
  <2>1. d = a \cup b
    BY <1>1 DEF DivisorMeet
  <2> QED BY <1>1, <2>1
<1>2. CASE a # {} /\ b # {}
  <2>1. PICK p \in Number : a = {p}
    BY <1>2, OptCases
  <2>2. PICK q \in Number : b = {q}
    BY <1>2, OptCases
  <2>3. \/ d = a /\ IsIntegralMultipleOf(p, q)
        \/ d = b /\ IsIntegralMultipleOf(q, p)
    BY <1>2, <2>1, <2>2 DEF DivisorMeet
  <2>4. ASSUME DivisionExact, NEW x \in Number
        PROVE  /\ <<x, p>> \in Integral /\ IsIntegralMultipleOf(p, q)
                    => <<x, q>> \in Integral
               /\ <<x, q>> \in Integral /\ IsIntegralMultipleOf(q, p)
                    => <<x, p>> \in Integral
    BY <2>4 DEF DivisionExact
  <2> QED BY <1>2, <2>1, <2>2, <2>3, <2>4
<1> QED BY <1>1, <1>2

(* The shape of a meet of numbers: each bound with its exclusivity comes   *)
(* whole from one side, the one at least as strict.                        *)
LEMMA NumberMeetShape ==
  ASSUME NEW a \in NumberLattice, NEW b \in NumberLattice, NEW m \in NumberMeet(a, b)
  PROVE  /\ m \in NumberLattice
         /\ \/ /\ m.minimum = a.minimum /\ m.exclusiveMin = a.exclusiveMin
               /\ LowerAtLeastAsStrict(a.minimum, a.exclusiveMin,
                                       b.minimum, b.exclusiveMin)
            \/ /\ m.minimum = b.minimum /\ m.exclusiveMin = b.exclusiveMin
               /\ LowerAtLeastAsStrict(b.minimum, b.exclusiveMin,
                                       a.minimum, a.exclusiveMin)
         /\ \/ /\ m.maximum = a.maximum /\ m.exclusiveMax = a.exclusiveMax
               /\ UpperAtLeastAsStrict(a.maximum, a.exclusiveMax,
                                       b.maximum, b.exclusiveMax)
            \/ /\ m.maximum = b.maximum /\ m.exclusiveMax = b.exclusiveMax
               /\ UpperAtLeastAsStrict(b.maximum, b.exclusiveMax,
                                       a.maximum, a.exclusiveMax)
         /\ m.multipleOf \in DivisorMeet(a.multipleOf, b.multipleOf)
         /\ m.integral = (a.integral \/ b.integral)
<1> DEFINE loA == LowerAtLeastAsStrict(a.minimum, a.exclusiveMin,
                                       b.minimum, b.exclusiveMin)
           loB == LowerAtLeastAsStrict(b.minimum, b.exclusiveMin,
                                       a.minimum, a.exclusiveMin)
           hiA == UpperAtLeastAsStrict(a.maximum, a.exclusiveMax,
                                       b.maximum, b.exclusiveMax)
           hiB == UpperAtLeastAsStrict(b.maximum, b.exclusiveMax,
                                       a.maximum, a.exclusiveMax)
           lo == IF loA THEN a ELSE b
           hi == IF hiA THEN a ELSE b
<1>1. /\ a.minimum \in Opt(Int) /\ b.minimum \in Opt(Int)
      /\ a.maximum \in Opt(Int) /\ b.maximum \in Opt(Int)
      /\ a.exclusiveMin \in BOOLEAN /\ b.exclusiveMin \in BOOLEAN
      /\ a.exclusiveMax \in BOOLEAN /\ b.exclusiveMax \in BOOLEAN
  BY NumberAssumption DEF NumberLattice, Opt
<1>2. (loA \/ loB) /\ (hiA \/ hiB)
  BY <1>1, LowerStrict, UpperStrict, SMTT(30)
<1>3. PICK d \in DivisorMeet(a.multipleOf, b.multipleOf) :
        m = [kind |-> "number",
             minimum |-> lo.minimum, exclusiveMin |-> lo.exclusiveMin,
             maximum |-> hi.maximum, exclusiveMax |-> hi.exclusiveMax,
             multipleOf |-> d, integral |-> a.integral \/ b.integral]
  BY DEF NumberMeet
<1> HIDE DEF loA, loB, hiA, hiB
<1>4. d \in Opt(Number)
  BY DivisorMeetExact DEF NumberLattice
<1>5. m \in NumberLattice
  BY <1>3, <1>4 DEF NumberLattice
<1>6. m.multipleOf = d /\ m.integral = (a.integral \/ b.integral)
  BY <1>3
<1>7. /\ m.minimum = lo.minimum /\ m.exclusiveMin = lo.exclusiveMin
      /\ m.maximum = hi.maximum /\ m.exclusiveMax = hi.exclusiveMax
  BY <1>3
<1> QED BY <1>2, <1>5, <1>6, <1>7 DEF loA, loB, hiA, hiB

(* With exact division, the meet of two number lattices, where there is    *)
(* one, accepts exactly the numbers both accept.                           *)
LEMMA NumberMeetExact ==
  ASSUME DivisionExact,
         NEW a \in NumberLattice, NEW b \in NumberLattice,
         NEW v \in NumberValue, NEW m \in NumberMeet(a, b)
  PROVE  NumberAccepts(m, v) <=> NumberAccepts(a, v) /\ NumberAccepts(b, v)
<1> DEFINE Lo(c) == \A y \in c.minimum : IF c.exclusiveMin THEN v.x > y ELSE v.x >= y
           Hi(c) == \A y \in c.maximum : IF c.exclusiveMax THEN v.x < y ELSE v.x =< y
           Mu(c) == \A y \in c.multipleOf : <<v.x, y>> \in Integral
           In(c) == c.integral => v.x \in Whole
<1>1. /\ a.minimum \in Opt(Int) /\ b.minimum \in Opt(Int)
      /\ a.maximum \in Opt(Int) /\ b.maximum \in Opt(Int)
      /\ a.exclusiveMin \in BOOLEAN /\ b.exclusiveMin \in BOOLEAN
      /\ a.exclusiveMax \in BOOLEAN /\ b.exclusiveMax \in BOOLEAN
      /\ a.integral \in BOOLEAN /\ b.integral \in BOOLEAN
      /\ a.multipleOf \in Opt(Number) /\ b.multipleOf \in Opt(Number)
      /\ v.x \in Number /\ v.x \in Int
  BY NumberAssumption DEF NumberLattice, NumberValue, Opt
<1>2. Lo(m) <=> Lo(a) /\ Lo(b)
  <2>1. CASE /\ m.minimum = a.minimum /\ m.exclusiveMin = a.exclusiveMin
             /\ LowerAtLeastAsStrict(a.minimum, a.exclusiveMin,
                                     b.minimum, b.exclusiveMin)
    BY <1>1, <2>1, LowerStrict
  <2>2. CASE /\ m.minimum = b.minimum /\ m.exclusiveMin = b.exclusiveMin
             /\ LowerAtLeastAsStrict(b.minimum, b.exclusiveMin,
                                     a.minimum, a.exclusiveMin)
    BY <1>1, <2>2, LowerStrict, SMTT(30)
  <2> QED BY <2>1, <2>2, NumberMeetShape
<1>3. Hi(m) <=> Hi(a) /\ Hi(b)
  <2>1. CASE /\ m.maximum = a.maximum /\ m.exclusiveMax = a.exclusiveMax
             /\ UpperAtLeastAsStrict(a.maximum, a.exclusiveMax,
                                     b.maximum, b.exclusiveMax)
    BY <1>1, <2>1, UpperStrict, SMTT(30)
  <2>2. CASE /\ m.maximum = b.maximum /\ m.exclusiveMax = b.exclusiveMax
             /\ UpperAtLeastAsStrict(b.maximum, b.exclusiveMax,
                                     a.maximum, a.exclusiveMax)
    BY <1>1, <2>2, UpperStrict, SMTT(30)
  <2> QED BY <2>1, <2>2, NumberMeetShape
<1>4. Mu(m) <=> Mu(a) /\ Mu(b)
  BY <1>1, NumberMeetShape, DivisorMeetExact, DivisionExact
<1>5. In(m) <=> In(a) /\ In(b)
  BY <1>1, NumberMeetShape
<1> HIDE DEF Lo, Hi, Mu, In
<1>6. /\ NumberAccepts(m, v) <=> Lo(m) /\ Hi(m) /\ Mu(m) /\ In(m)
      /\ NumberAccepts(a, v) <=> Lo(a) /\ Hi(a) /\ Mu(a) /\ In(a)
      /\ NumberAccepts(b, v) <=> Lo(b) /\ Hi(b) /\ Mu(b) /\ In(b)
  BY DEF Lo, Hi, Mu, In, NumberAccepts
<1> QED BY <1>2, <1>3, <1>4, <1>5, <1>6

-----------------------------------------------------------------------------
(* A meet is a lattice of the same kind as both.                           *)
LEMMA MeetType ==
  ASSUME NEW a \in Lattice, NEW b \in Lattice, NEW m \in Meet(a, b)
  PROVE  m \in Lattice /\ m.kind = a.kind /\ m.kind = b.kind
<1>1. a.kind = b.kind
  BY DEF Meet
<1>2. CASE a.kind = "string"
  <2>1. a \in StringLattice /\ b \in StringLattice
    BY <1>1, <1>2 DEF Lattice, StringLattice, NumberLattice
  <2>2. m \in StringLattice
    BY <1>1, <1>2, <2>1, StringMeetType DEF Meet
  <2> QED BY <2>1, <2>2 DEF Lattice, StringLattice
<1>3. CASE a.kind # "string"
  <2>1. a \in NumberLattice /\ b \in NumberLattice
    BY <1>1, <1>3 DEF Lattice, StringLattice, NumberLattice
  <2>2. m \in NumberLattice
    BY <1>1, <1>3, <2>1, NumberMeetShape DEF Meet
  <2> QED BY <2>1, <2>2 DEF Lattice, NumberLattice
<1> QED BY <1>2, <1>3

(* C1 AND C2 == meet(C1, C2): with exact division a meet accepts exactly   *)
(* the JSON values that both validations accept.                           *)
THEOREM MeetExact ==
  ASSUME DivisionExact, NEW a \in Lattice, NEW b \in Lattice,
         NEW v \in JsonValue, NEW m \in Meet(a, b)
  PROVE  Accepts(m, v) <=> Accepts(a, v) /\ Accepts(b, v)
<1>1. m.kind = a.kind /\ m.kind = b.kind
  BY MeetType
<1>2. CASE v.kind # a.kind
  BY <1>1, <1>2 DEF Accepts
<1>3. CASE v.kind = a.kind /\ a.kind = "string"
  <2>1. a \in StringLattice /\ b \in StringLattice /\ v \in StringValue
    BY <1>1, <1>3 DEF Lattice, StringLattice, NumberLattice,
                      JsonValue, StringValue, NumberValue, OtherValue
  <2>2. m \in StringMeet(a, b)
    BY <1>1, <1>3 DEF Meet
  <2> QED BY <1>1, <1>3, <2>1, <2>2, StringMeetExact DEF Accepts
<1>4. CASE v.kind = a.kind /\ a.kind # "string"
  <2>1. a \in NumberLattice /\ b \in NumberLattice /\ v \in NumberValue
    BY <1>1, <1>4 DEF Lattice, StringLattice, NumberLattice,
                      JsonValue, StringValue, NumberValue, OtherValue
  <2>2. m \in NumberMeet(a, b)
    BY <1>1, <1>4 DEF Meet
  <2> QED BY <1>1, <1>4, <2>1, <2>2, NumberMeetExact, DivisionExact DEF Accepts
<1> QED BY <1>2, <1>3, <1>4

-----------------------------------------------------------------------------
(* subsumes(a, b) is sound: with exact division, whatever a accepts, b     *)
(* accepts too.                                                            *)
THEOREM SubsumesSound ==
  ASSUME DivisionExact, NEW a \in Lattice, NEW b \in Lattice, Subsumes(a, b),
         NEW v \in JsonValue, Accepts(a, v)
  PROVE  Accepts(b, v)
<1>1. v.kind = a.kind /\ a.kind = b.kind
  BY DEF Subsumes, Accepts
<1>2. CASE a.kind = "string"
  <2>1. a \in StringLattice /\ b \in StringLattice /\ v \in StringValue
    BY <1>1, <1>2 DEF Lattice, StringLattice, NumberLattice,
                      JsonValue, StringValue, NumberValue, OtherValue
  <2>2. StringSubsumes(a, b) /\ StringAccepts(a, v)
    BY <1>2 DEF Subsumes, Accepts
  <2>3. /\ v.length \in Int
        /\ a.minLength \subseteq Int /\ b.minLength \subseteq Int
        /\ a.maxLength \subseteq Int /\ b.maxLength \subseteq Int
    BY <2>1 DEF StringLattice, StringValue, Opt
  <2>4. \A n \in b.minLength : v.length >= n
    BY <2>2, <2>3 DEF StringSubsumes, StringAccepts
  <2>5. \A n \in b.maxLength : v.length =< n
    BY <2>2, <2>3 DEF StringSubsumes, StringAccepts
  <2>6. b.pattern \subseteq v.matches /\ b.format \subseteq v.formats
    BY <2>2 DEF StringSubsumes, StringAccepts
  <2> QED BY <1>1, <1>2, <2>4, <2>5, <2>6 DEF StringAccepts, Accepts
<1>3. CASE a.kind # "string"
  <2>1. a \in NumberLattice /\ b \in NumberLattice /\ v \in NumberValue
    BY <1>1, <1>3 DEF Lattice, StringLattice, NumberLattice,
                      JsonValue, StringValue, NumberValue, OtherValue
  <2>2. NumberSubsumes(a, b) /\ NumberAccepts(a, v)
    BY <1>3 DEF Subsumes, Accepts
  <2>3. /\ v.x \in Number /\ v.x \in Int
        /\ a.minimum \in Opt(Int) /\ b.minimum \in Opt(Int)
        /\ a.maximum \in Opt(Int) /\ b.maximum \in Opt(Int)
        /\ a.exclusiveMin \in BOOLEAN /\ b.exclusiveMin \in BOOLEAN
        /\ a.exclusiveMax \in BOOLEAN /\ b.exclusiveMax \in BOOLEAN
        /\ a.multipleOf \subseteq Number /\ b.multipleOf \subseteq Number
    BY <2>1, NumberAssumption DEF NumberLattice, NumberValue, Opt
  <2>4. \A y \in b.minimum : IF b.exclusiveMin THEN v.x > y ELSE v.x >= y
    BY <2>2, <2>3, LowerStrict DEF NumberSubsumes, NumberAccepts
  <2>5. \A y \in b.maximum : IF b.exclusiveMax THEN v.x < y ELSE v.x =< y
    BY <2>2, <2>3, UpperStrict DEF NumberSubsumes, NumberAccepts
  <2>6. \A n \in b.multipleOf : <<v.x, n>> \in Integral
    BY <2>2, <2>3, DivisionExact DEF NumberSubsumes, NumberAccepts, DivisionExact
  <2>7. b.integral => v.x \in Whole
    BY <2>2 DEF NumberSubsumes, NumberAccepts
  <2> QED BY <1>1, <1>3, <2>4, <2>5, <2>6, <2>7 DEF NumberAccepts, Accepts
<1> QED BY <1>2, <1>3

(* At least as strict as, twice over, is at least as strict as.            *)
LEMMA SubsumesTransitive ==
  ASSUME DivisionExact, NEW a \in Lattice, NEW b \in Lattice, NEW c \in Lattice,
         Subsumes(a, b), Subsumes(b, c)
  PROVE  Subsumes(a, c)
<1>1. a.kind = b.kind /\ b.kind = c.kind
  BY DEF Subsumes
<1>2. CASE a.kind = "string"
  <2>1. /\ a.minLength \subseteq Int /\ b.minLength \subseteq Int /\ c.minLength \subseteq Int
        /\ a.maxLength \subseteq Int /\ b.maxLength \subseteq Int /\ c.maxLength \subseteq Int
    BY <1>1, <1>2 DEF Lattice, StringLattice, NumberLattice, Opt
  <2>2. StringSubsumes(a, b) /\ StringSubsumes(b, c)
    BY <1>1, <1>2 DEF Subsumes
  <2>3. \A n \in c.minLength : \E m \in a.minLength : m >= n
    <3> SUFFICES ASSUME NEW n \in c.minLength
                 PROVE  \E m \in a.minLength : m >= n
      OBVIOUS
    <3>1. PICK l \in b.minLength : l >= n
      BY <2>2 DEF StringSubsumes
    <3>2. PICK m \in a.minLength : m >= l
      BY <2>2 DEF StringSubsumes
    <3> QED BY <2>1, <3>1, <3>2
  <2>4. \A n \in c.maxLength : \E m \in a.maxLength : m =< n
    <3> SUFFICES ASSUME NEW n \in c.maxLength
                 PROVE  \E m \in a.maxLength : m =< n
      OBVIOUS
    <3>1. PICK l \in b.maxLength : l =< n
      BY <2>2 DEF StringSubsumes
    <3>2. PICK m \in a.maxLength : m =< l
      BY <2>2 DEF StringSubsumes
    <3> QED BY <2>1, <3>1, <3>2
  <2>5. /\ c.pattern # {} => a.pattern = c.pattern
        /\ c.format # {} => a.format = c.format
    BY <2>2 DEF StringSubsumes
  <2> QED BY <1>1, <1>2, <2>3, <2>4, <2>5 DEF Subsumes, StringSubsumes
<1>3. CASE a.kind # "string"
  <2>1. /\ a.minimum \subseteq Int /\ b.minimum \subseteq Int /\ c.minimum \subseteq Int
        /\ a.maximum \subseteq Int /\ b.maximum \subseteq Int /\ c.maximum \subseteq Int
        /\ a.multipleOf \subseteq Number /\ b.multipleOf \subseteq Number
        /\ c.multipleOf \subseteq Number
    BY <1>1, <1>3, NumberAssumption DEF Lattice, StringLattice, NumberLattice, Opt
  <2>2. NumberSubsumes(a, b) /\ NumberSubsumes(b, c)
    BY <1>1, <1>3 DEF Subsumes
  <2>3. LowerAtLeastAsStrict(a.minimum, a.exclusiveMin, c.minimum, c.exclusiveMin)
    <3> SUFFICES ASSUME NEW y \in c.minimum
                 PROVE  \E x \in a.minimum :
                          x > y \/ (x = y /\ (a.exclusiveMin \/ ~c.exclusiveMin))
      BY DEF LowerAtLeastAsStrict
    <3>1. PICK z \in b.minimum : z > y \/ (z = y /\ (b.exclusiveMin \/ ~c.exclusiveMin))
      BY <2>2 DEF NumberSubsumes, LowerAtLeastAsStrict
    <3>2. PICK x \in a.minimum : x > z \/ (x = z /\ (a.exclusiveMin \/ ~b.exclusiveMin))
      BY <2>2 DEF NumberSubsumes, LowerAtLeastAsStrict
    <3> QED BY <2>1, <3>1, <3>2
  <2>4. UpperAtLeastAsStrict(a.maximum, a.exclusiveMax, c.maximum, c.exclusiveMax)
    <3> SUFFICES ASSUME NEW y \in c.maximum
                 PROVE  \E x \in a.maximum :
                          x < y \/ (x = y /\ (a.exclusiveMax \/ ~c.exclusiveMax))
      BY DEF UpperAtLeastAsStrict
    <3>1. PICK z \in b.maximum : z < y \/ (z = y /\ (b.exclusiveMax \/ ~c.exclusiveMax))
      BY <2>2 DEF NumberSubsumes, UpperAtLeastAsStrict
    <3>2. PICK x \in a.maximum : x < z \/ (x = z /\ (a.exclusiveMax \/ ~b.exclusiveMax))
      BY <2>2 DEF NumberSubsumes, UpperAtLeastAsStrict
    <3> QED BY <2>1, <3>1, <3>2
  <2>5. \A n \in c.multipleOf : \E m \in a.multipleOf : IsIntegralMultipleOf(m, n)
    <3> SUFFICES ASSUME NEW n \in c.multipleOf
                 PROVE  \E m \in a.multipleOf : IsIntegralMultipleOf(m, n)
      OBVIOUS
    <3>1. PICK l \in b.multipleOf : IsIntegralMultipleOf(l, n)
      BY <2>2 DEF NumberSubsumes
    <3>2. PICK m \in a.multipleOf : IsIntegralMultipleOf(m, l)
      BY <2>2 DEF NumberSubsumes
    <3> QED BY <2>1, <3>1, <3>2, DivisionExact DEF DivisionExact
  <2>6. c.integral => a.integral
    BY <2>2 DEF NumberSubsumes
  <2> QED BY <1>1, <1>3, <2>3, <2>4, <2>5, <2>6 DEF Subsumes, NumberSubsumes
<1> QED BY <1>2, <1>3

-----------------------------------------------------------------------------
(* The verifier admits only positive divisors, and a meet invents none.    *)
PositiveDivisor(c) == c.kind = "number" => \A m \in c.multipleOf : m > Zero

LEMMA MeetPositive ==
  ASSUME NEW a \in Lattice, NEW b \in Lattice, NEW m \in Meet(a, b),
         PositiveDivisor(a), PositiveDivisor(b)
  PROVE  PositiveDivisor(m)
<1>1. m.kind = a.kind /\ m.kind = b.kind
  BY MeetType
<1>2. CASE m.kind = "number"
  <2>1. a \in NumberLattice /\ b \in NumberLattice /\ m \in NumberMeet(a, b)
    BY <1>1, <1>2 DEF Lattice, StringLattice, NumberLattice, Meet
  <2>2. m.multipleOf = a.multipleOf \/ m.multipleOf = b.multipleOf
    BY <2>1, NumberMeetShape, DivisorMeetExact DEF NumberLattice
  <2> QED BY <1>1, <2>2 DEF PositiveDivisor
<1> QED BY <1>2 DEF PositiveDivisor

(* A meet is at least as strict as each of the two.                        *)
LEMMA MeetStricter ==
  ASSUME DivisionExact, NEW a \in Lattice, NEW b \in Lattice, NEW m \in Meet(a, b),
         PositiveDivisor(a), PositiveDivisor(b)
  PROVE  Subsumes(m, a) /\ Subsumes(m, b)
<1>1. m.kind = a.kind /\ m.kind = b.kind
  BY MeetType
<1>2. CASE a.kind = "string"
  <2>1. a \in StringLattice /\ b \in StringLattice /\ m \in StringMeet(a, b)
    BY <1>1, <1>2 DEF Lattice, StringLattice, NumberLattice, Meet
  <2>2. /\ m.minLength = TightestLower(a.minLength, b.minLength)
        /\ m.maxLength = TightestUpper(a.maxLength, b.maxLength)
        /\ m.pattern = (IF a.pattern # {} THEN a.pattern ELSE b.pattern)
        /\ m.format = (IF a.format # {} THEN a.format ELSE b.format)
        /\ Compatible(a.pattern, b.pattern) /\ Compatible(a.format, b.format)
    BY <2>1 DEF StringMeet
  <2>3. /\ a.minLength \in Opt(Int) /\ b.minLength \in Opt(Int)
        /\ a.maxLength \in Opt(Int) /\ b.maxLength \in Opt(Int)
    BY <2>1 DEF StringLattice
  <2>4. ASSUME NEW s \in Opt(Int), NEW t \in Opt(Int)
        PROVE  /\ \A n \in s \cup t : \E l \in TightestLower(s, t) : l >= n
               /\ \A n \in s \cup t : \E l \in TightestUpper(s, t) : l =< n
    <3>1. CASE s = {} \/ t = {}
      BY <3>1 DEF TightestLower, TightestUpper, Opt
    <3>2. CASE s # {} /\ t # {}
      <4>1. PICK p \in Int : s = {p}
        BY <3>2, OptCases
      <4>2. PICK q \in Int : t = {q}
        BY <3>2, OptCases
      <4>3. /\ TightestLower(s, t) = {IF p >= q THEN p ELSE q}
            /\ TightestUpper(s, t) = {IF p =< q THEN p ELSE q}
        BY <4>1, <4>2 DEF TightestLower, TightestUpper
      <4> QED BY <4>1, <4>2, <4>3
    <3> QED BY <3>1, <3>2
  <2>5. /\ \A n \in a.minLength \cup b.minLength : \E l \in m.minLength : l >= n
        /\ \A n \in a.maxLength \cup b.maxLength : \E l \in m.maxLength : l =< n
    BY <2>2, <2>3, <2>4
  <2>6. /\ a.pattern # {} => m.pattern = a.pattern
        /\ b.pattern # {} => m.pattern = b.pattern
        /\ a.format # {} => m.format = a.format
        /\ b.format # {} => m.format = b.format
    BY <2>2 DEF Compatible
  <2> QED BY <1>1, <1>2, <2>5, <2>6 DEF Subsumes, StringSubsumes
<1>3. CASE a.kind # "string"
  <2>1. a \in NumberLattice /\ b \in NumberLattice /\ m \in NumberMeet(a, b)
    BY <1>1, <1>3 DEF Lattice, StringLattice, NumberLattice, Meet
  <2>2. /\ a.minimum \in Opt(Int) /\ b.minimum \in Opt(Int)
        /\ a.maximum \in Opt(Int) /\ b.maximum \in Opt(Int)
        /\ a.exclusiveMin \in BOOLEAN /\ b.exclusiveMin \in BOOLEAN
        /\ a.exclusiveMax \in BOOLEAN /\ b.exclusiveMax \in BOOLEAN
        /\ a.multipleOf \in Opt(Number) /\ b.multipleOf \in Opt(Number)
    BY <2>1, NumberAssumption DEF NumberLattice, Opt
  <2>3. /\ LowerAtLeastAsStrict(m.minimum, m.exclusiveMin, a.minimum, a.exclusiveMin)
        /\ LowerAtLeastAsStrict(m.minimum, m.exclusiveMin, b.minimum, b.exclusiveMin)
    BY <2>1, <2>2, NumberMeetShape, LowerStrict, SMTT(30) DEF LowerAtLeastAsStrict
  <2>4. /\ UpperAtLeastAsStrict(m.maximum, m.exclusiveMax, a.maximum, a.exclusiveMax)
        /\ UpperAtLeastAsStrict(m.maximum, m.exclusiveMax, b.maximum, b.exclusiveMax)
    BY <2>1, <2>2, NumberMeetShape, UpperStrict DEF UpperAtLeastAsStrict
  <2>5. \A n \in a.multipleOf \cup b.multipleOf :
           \E l \in m.multipleOf : IsIntegralMultipleOf(l, n)
    <3>1. /\ \A n \in a.multipleOf : IsIntegralMultipleOf(n, n)
          /\ \A n \in b.multipleOf : IsIntegralMultipleOf(n, n)
      <4>1. a.kind = "number" /\ b.kind = "number"
        BY <2>1 DEF NumberLattice
      <4> QED BY <2>2, <4>1, DivisionExact DEF DivisionExact, PositiveDivisor, Opt
    <3>2. m.multipleOf \in DivisorMeet(a.multipleOf, b.multipleOf)
      BY <2>1, NumberMeetShape
    <3>3. CASE a.multipleOf = {} \/ b.multipleOf = {}
      BY <3>1, <3>2, <3>3 DEF DivisorMeet
    <3>4. CASE a.multipleOf # {} /\ b.multipleOf # {}
      <4>1. PICK p \in Number : a.multipleOf = {p}
        BY <2>2, <3>4, OptCases
      <4>2. PICK q \in Number : b.multipleOf = {q}
        BY <2>2, <3>4, OptCases
      <4> QED BY <3>1, <3>2, <3>4, <4>1, <4>2 DEF DivisorMeet
    <3> QED BY <3>3, <3>4
  <2>6. m.integral = (a.integral \/ b.integral)
    BY <2>1, NumberMeetShape
  <2> QED BY <1>1, <1>3, <2>3, <2>4, <2>5, <2>6 DEF Subsumes, NumberSubsumes
<1> QED BY <1>2, <1>3

(* Whether there is a meet does not depend on the order of the two.        *)
LEMMA RefusedBothWays ==
  ASSUME NEW a, NEW b, Meet(a, b) = {}
  PROVE  Meet(b, a) = {}
<1>1. CASE a.kind # b.kind
  BY <1>1 DEF Meet
<1>2. CASE a.kind = b.kind /\ a.kind = "string"
  BY <1>2 DEF Meet, StringMeet, Compatible
<1>3. CASE a.kind = b.kind /\ a.kind # "string"
  <2>1. NumberMeet(a, b) = {}
    BY <1>3 DEF Meet
  <2>2. DivisorMeet(a.multipleOf, b.multipleOf) = {}
    BY <2>1 DEF NumberMeet
  <2>3. /\ a.multipleOf # {} /\ b.multipleOf # {}
        /\ ~(\A m \in a.multipleOf, n \in b.multipleOf : IsIntegralMultipleOf(m, n))
        /\ ~(\A m \in a.multipleOf, n \in b.multipleOf : IsIntegralMultipleOf(n, m))
    BY <2>2 DEF DivisorMeet
  <2>4. DivisorMeet(b.multipleOf, a.multipleOf) = {}
    BY <2>3 DEF DivisorMeet
  <2>5. NumberMeet(b, a) = {}
    BY <2>4 DEF NumberMeet
  <2> QED BY <1>3, <2>5 DEF Meet
<1> QED BY <1>1, <1>2, <1>3

=============================================================================
