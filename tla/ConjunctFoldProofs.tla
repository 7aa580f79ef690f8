------------------------- MODULE ConjunctFoldProofs -------------------------
(***************************************************************************)
(* Theorems about the conjunct fold, for every set of trees, inputs and    *)
(* documents; and, at the end, that the Mojo library's lattices are the    *)
(* compiler's, whatever division computes.                                 *)
(***************************************************************************)
EXTENDS MojoLattice, LatticeProofs, SequenceTheorems, FiniteSetTheorems

(* Inputs and lattices come together, and every divisor is positive.       *)
WellFormed(c) == /\ c.lat = {} <=> c.input = {}
                 /\ \A l \in c.lat : PositiveDivisor(l)

(* What keeps the conjuncts current: a clean one is expressed by its SSA   *)
(* value, and the sweep dirties only what it has passed or is at.          *)
Current ==
  \A k \in 1..Len(conj) :
    /\ ~conj[k].dirty => /\ defs[conj[k].value].lat = conj[k].lat
                         /\ defs[conj[k].value].input = conj[k].input
    /\ conj[k].dirty => conj[k].lat # {}
    /\ k > i => ~conj[k].dirty
    /\ pc = "classify" => ~conj[k].dead /\ ~conj[k].dirty

IInv == /\ TypeOK
        /\ \A v \in Value : WellFormed(defs[v])
        /\ \A k \in 1..Len(conj) : WellFormed(conj[k])
        /\ Current

-----------------------------------------------------------------------------
(* A fold that is about to start, on definitions that are well formed.     *)
Fresh ==
  /\ defs \in [Value -> Def] /\ leaves \in Seq(Value)
  /\ \A v \in Value : WellFormed(defs[v])
  /\ conj = <<>> /\ next = 1 /\ i = 1 /\ j = 2 /\ changed = FALSE /\ pc = "classify"

LEMMA FreshIInv == Fresh => IInv
<1> SUFFICES ASSUME Fresh PROVE IInv
  OBVIOUS
<1>1. TypeOK
  <2>1. defs \in [Value -> Def] /\ leaves \in Seq(Value) /\ Len(leaves) \in Nat
    BY DEF Fresh
  <2>2. conj = <<>> /\ next = 1 /\ i = 1 /\ j = 2 /\ changed = FALSE /\ pc = "classify"
    BY DEF Fresh
  <2>3. conj \in Seq(Conjunct) /\ Len(conj) = 0
    BY <2>2
  <2>4. /\ next \in 1..Len(leaves) + 1
        /\ i \in 1..Len(conj) + 1 /\ j \in Nat /\ i < j
    BY <2>1, <2>2, <2>3
  <2>5. changed \in BOOLEAN /\ pc \in {"classify", "sweep", "done"}
    BY <2>2
  <2> QED BY <2>1, <2>3, <2>4, <2>5 DEF TypeOK
<1>2. Len(conj) = 0
  BY DEF Fresh
<1> QED BY <1>1, <1>2 DEF Fresh, IInv, Current

(* The definitions in a tree are well formed, because the verifier passed. *)
LEMMA InitIInv == Init => IInv
<1> SUFFICES ASSUME Init PROVE IInv
  OBVIOUS
<1>1. PICK t \in Trees : defs = t[1] /\ leaves = t[2]
  BY DEF Init
<1>2. defs \in [Value -> Def] /\ leaves \in Seq(Value)
  BY <1>1, TreesAssumption
<1>3. \A v \in Value : WellFormed(defs[v])
  <2> SUFFICES ASSUME NEW v \in Value PROVE WellFormed(defs[v])
    OBVIOUS
  <2>1. /\ (defs[v].lat = {}) = (defs[v].input = {})
        /\ \A c \in defs[v].lat : Verifies(c)
    BY <1>1, TreesAssumption
  <2>2. ASSUME NEW c \in defs[v].lat PROVE PositiveDivisor(c)
    BY <2>1 DEF Verifies, NumberVerifies, PositiveDivisor
  <2> QED BY <2>1, <2>2 DEF WellFormed
<1>4. Fresh
  BY <1>2, <1>3 DEF Init, Fresh
<1> QED BY <1>4, FreshIInv

(* What an absorption does to the array.                                   *)
LEMMA AbsorbShape ==
  ASSUME IInv, Absorb
  PROVE  \E a \in Lattice, b \in Lattice, m \in Lattice, x \in Input :
           /\ conj[i].lat = {a} /\ conj[j].lat = {b} /\ m \in Meet(a, b)
           /\ conj[i].input = {x} /\ conj[j].input = {x}
           /\ i \in 1..Len(conj) /\ j \in 1..Len(conj) /\ i # j
           /\ ~conj[i].dead /\ ~conj[j].dead
           /\ conj' \in Seq(Conjunct) /\ Len(conj') = Len(conj)
           /\ conj'[j] = [conj[j] EXCEPT !.dead = TRUE]
           /\ conj'[i].lat = {m} /\ conj'[i].input = {x} /\ ~conj'[i].dead
           /\ conj'[i].loc = conj[i].loc \cup conj[j].loc
           /\ conj'[i] = Absorbing(m)
           /\ \A k \in 1..Len(conj) : k # i /\ k # j => conj'[k] = conj[k]
<1>1. /\ i \in 1..Len(conj) /\ j \in 1..Len(conj) /\ i # j
      /\ conj \in Seq(Conjunct) /\ conj[i] \in Conjunct /\ conj[j] \in Conjunct
      /\ ~conj[i].dead /\ ~conj[j].dead /\ conj[i].lat # {}
      /\ conj[j].input = conj[i].input
  BY DEF IInv, TypeOK, Absorb, AtPair, SameInput, CanAbsorb
<1>2. PICK m \in Merged : conj' = [conj EXCEPT ![i] = Absorbing(m), ![j].dead = TRUE]
  BY DEF Absorb
<1>3. PICK a \in conj[i].lat, b \in conj[j].lat : m \in Meet(a, b)
  BY <1>2 DEF Merged
<1>4. conj[i].lat \in Opt(Lattice) /\ conj[j].lat \in Opt(Lattice)
  BY <1>1 DEF Conjunct
<1>5. /\ conj[i].lat = {a} /\ conj[j].lat = {b}
      /\ a \in Lattice /\ b \in Lattice
  BY <1>3, <1>4 DEF Opt
<1>6. m \in Lattice
  BY <1>3, <1>5, MeetType
<1>7. PICK x \in Input : conj[i].input = {x}
  <2>1. conj[i].input # {} /\ conj[i].input \in Opt(Input)
    BY <1>1 DEF IInv, WellFormed, Conjunct
  <2> QED BY <2>1, OptCases
<1>8. {m} \in Opt(Lattice)
  BY <1>6, SMTT(30) DEF Opt
<1>9. /\ Absorbing(m) \in Conjunct
      /\ Absorbing(m).lat = {m} /\ Absorbing(m).input = conj[i].input
      /\ Absorbing(m).dead = conj[i].dead
      /\ Absorbing(m).loc = conj[i].loc \cup conj[j].loc
  BY <1>1, <1>8 DEF Absorbing, Conjunct
<1>10. /\ conj' \in Seq(Conjunct) /\ Len(conj') = Len(conj)
       /\ conj'[i] = Absorbing(m) /\ conj'[j] = [conj[j] EXCEPT !.dead = TRUE]
       /\ \A k \in 1..Len(conj) : k # i /\ k # j => conj'[k] = conj[k]
  <2>1. [conj[j] EXCEPT !.dead = TRUE] \in Conjunct
    BY <1>1 DEF Conjunct
  <2>2. conj' = [[conj EXCEPT ![i] = Absorbing(m)]
                   EXCEPT ![j] = [conj[j] EXCEPT !.dead = TRUE]]
    <3>1. [conj EXCEPT ![i] = Absorbing(m)][j] = conj[j]
      BY <1>1
    <3> QED BY <1>2, <3>1
  <2>3. /\ [conj EXCEPT ![i] = Absorbing(m)] \in Seq(Conjunct)
        /\ Len([conj EXCEPT ![i] = Absorbing(m)]) = Len(conj)
        /\ \A k \in 1..Len(conj) :
             [conj EXCEPT ![i] = Absorbing(m)][k] =
               IF k = i THEN Absorbing(m) ELSE conj[k]
    BY <1>1, <1>9, ExceptSeq
  <2> HIDE DEF Conjunct
  <2> QED BY <1>1, <2>1, <2>2, <2>3, ExceptSeq
<1> QED BY <1>1, <1>3, <1>5, <1>6, <1>7, <1>9, <1>10

(* What a classification does to the array.                                *)
LEMMA ClassifyShape ==
  ASSUME IInv, Classify
  PROVE  /\ leaves[next] \in Value /\ next \in 1..Len(leaves)
         /\ conj' \in Seq(Conjunct) /\ Len(conj') = Len(conj) + 1
         /\ conj'[Len(conj) + 1] = Classified(leaves[next])
         /\ \A k \in 1..Len(conj) : conj'[k] = conj[k]
<1>1. /\ conj \in Seq(Conjunct) /\ next \in 1..Len(leaves)
      /\ leaves \in Seq(Value) /\ defs \in [Value -> Def]
  BY DEF IInv, TypeOK, Classify
<1>2. leaves[next] \in Value /\ defs[leaves[next]] \in Def
  BY <1>1
<1>3. Classified(leaves[next]) \in Conjunct
  BY <1>2 DEF Classified, Conjunct, Def
<1>4. conj' = Append(conj, Classified(leaves[next]))
  BY DEF Classify
<1> HIDE DEF Conjunct
<1> QED BY <1>1, <1>2, <1>3, <1>4, AppendProperties

(* IInv is inductive.                                                      *)
LEMMA NextIInv == IInv /\ [Next]_vars => IInv'
<1> SUFFICES ASSUME IInv, [Next]_vars PROVE IInv'
  OBVIOUS
<1>1. CASE Classify
  <2>1. UNCHANGED <<defs, leaves, i, j, changed, pc>> /\ next' = next + 1 /\ pc = "classify"
    BY <1>1 DEF Classify, tree
  <2>2. TypeOK'
    BY <1>1, <2>1, ClassifyShape DEF IInv, TypeOK
  <2>3. \A v \in Value : WellFormed(defs[v])'
    BY <2>1 DEF IInv, WellFormed
  <2>4. ASSUME NEW k \in 1..Len(conj') PROVE WellFormed(conj'[k])
    <3>1. CASE k \in 1..Len(conj)
      BY <1>1, <3>1, ClassifyShape DEF IInv
    <3>2. CASE k = Len(conj) + 1
      BY <1>1, <3>2, ClassifyShape DEF IInv, WellFormed, Classified
    <3> QED BY <1>1, <3>1, <3>2, ClassifyShape DEF IInv, TypeOK
  <2>5. Current'
    <3>1. \A k \in 1..Len(conj) :
             /\ ~conj[k].dead /\ ~conj[k].dirty
             /\ defs[conj[k].value].lat = conj[k].lat
             /\ defs[conj[k].value].input = conj[k].input
      BY <2>1 DEF IInv, Current
    <3>2. LET c == conj'[Len(conj) + 1]
          IN ~c.dead /\ ~c.dirty /\ defs[c.value].lat = c.lat /\ defs[c.value].input = c.input
      BY <1>1, ClassifyShape DEF Classified
    <3>3. \A k \in 1..Len(conj') : k \in 1..Len(conj) \/ k = Len(conj) + 1
      BY <1>1, ClassifyShape DEF IInv, TypeOK
    <3> QED BY <1>1, <2>1, <3>1, <3>2, <3>3, ClassifyShape DEF Current
  <2> QED BY <2>2, <2>3, <2>4, <2>5 DEF IInv
<1>2. CASE Deduplicate
  BY <1>2, SMTT(30) DEF Deduplicate, tree, IInv, TypeOK, WellFormed, Current
<1>3. CASE StartSweep
  BY <1>3 DEF StartSweep, tree, IInv, TypeOK, WellFormed, Current
<1>4. CASE NextDst
  BY <1>4, SMTT(30) DEF NextDst, tree, IInv, TypeOK, WellFormed, Current
<1>5. CASE SkipSrc
  <2>1. UNCHANGED <<defs, leaves, conj, next, i, changed, pc>> /\ j' = j + 1
    BY <1>5 DEF SkipSrc, tree
  <2>2. TypeOK'
    BY <2>1 DEF IInv, TypeOK
  <2> QED BY <2>1, <2>2 DEF IInv, WellFormed, Current
<1>6. CASE Absorb
  <2>1. PICK a \in Lattice, b \in Lattice, m \in Lattice, x \in Input :
          /\ conj[i].lat = {a} /\ conj[j].lat = {b} /\ m \in Meet(a, b)
          /\ conj[i].input = {x} /\ conj[j].input = {x}
          /\ i \in 1..Len(conj) /\ j \in 1..Len(conj) /\ i # j
          /\ conj' \in Seq(Conjunct) /\ Len(conj') = Len(conj)
          /\ conj'[j] = [conj[j] EXCEPT !.dead = TRUE]
          /\ conj'[i].lat = {m} /\ conj'[i].input = {x}
          /\ conj'[i] = Absorbing(m)
          /\ \A k \in 1..Len(conj) : k # i /\ k # j => conj'[k] = conj[k]
    BY <1>6, AbsorbShape
  <2>2. /\ UNCHANGED <<defs, leaves, next, i, pc>> /\ changed' = TRUE /\ j' = j + 1
        /\ pc = "sweep" /\ i < j
    BY <1>6 DEF Absorb, AtPair, tree, IInv, TypeOK
  <2>3. TypeOK'
    BY <2>1, <2>2 DEF IInv, TypeOK
  <2>4. \A v \in Value : WellFormed(defs[v])'
    BY <2>2 DEF IInv, WellFormed
  <2>5. conj[i] \in Conjunct /\ conj[j] \in Conjunct /\ conj'[j] \in Conjunct
    BY <2>1 DEF IInv, TypeOK
  <2>6. ASSUME NEW k \in 1..Len(conj') PROVE WellFormed(conj'[k])
    <3>1. CASE k = i
      <4>1. PositiveDivisor(a) /\ PositiveDivisor(b)
        BY <2>1 DEF IInv, WellFormed
      <4>2. PositiveDivisor(m)
        BY <2>1, <4>1, MeetPositive
      <4> QED BY <2>1, <3>1, <4>2 DEF WellFormed
    <3>2. CASE k = j
      <4>1. conj'[j].lat = conj[j].lat /\ conj'[j].input = conj[j].input
        BY <2>1, <2>5 DEF Conjunct
      <4> QED BY <2>1, <3>2, <4>1 DEF IInv, WellFormed
    <3>3. CASE k # i /\ k # j
      BY <2>1, <3>3 DEF IInv
    <3> QED BY <3>1, <3>2, <3>3
  <2>7. Current'
    <3> SUFFICES ASSUME NEW k \in 1..Len(conj')
                 PROVE  /\ ~conj'[k].dirty => /\ defs[conj'[k].value].lat = conj'[k].lat
                                              /\ defs[conj'[k].value].input = conj'[k].input
                        /\ conj'[k].dirty => conj'[k].lat # {}
                        /\ k > i => ~conj'[k].dirty
      BY <2>2 DEF Current
    <3>1. CASE k = i
      <4>1. /\ conj'[i].value = (IF {m} # {a} /\ {m} = {b} THEN conj[j].value ELSE conj[i].value)
            /\ conj'[i].dirty = (IF {m} # {a} /\ {m} = {b} THEN FALSE
                                 ELSE conj[i].dirty \/ ({m} # {a} /\ {m} # {b}))
        BY <2>1, <2>5 DEF Absorbing, Conjunct
      <4>2. /\ ~conj[i].dirty => /\ defs[conj[i].value].lat = {a}
                                 /\ defs[conj[i].value].input = {x}
            /\ defs[conj[j].value].lat = {b} /\ defs[conj[j].value].input = {x}
        BY <2>1, <2>2 DEF IInv, Current
      <4>3. conj'[i].lat = {m} /\ conj'[i].input = {x} /\ ~(i > i)
        BY <2>1 DEF IInv, TypeOK
      <4>4. CASE {m} # {a} /\ {m} = {b}
        BY <3>1, <4>1, <4>2, <4>3, <4>4
      <4>5. CASE {m} = {a}
        BY <3>1, <4>1, <4>2, <4>3, <4>5
      <4>6. CASE {m} # {a} /\ {m} # {b}
        BY <3>1, <4>1, <4>2, <4>3, <4>6
      <4> QED BY <4>4, <4>5, <4>6
    <3>2. CASE k = j
      <4>1. /\ conj'[j].lat = conj[j].lat /\ conj'[j].input = conj[j].input
            /\ conj'[j].value = conj[j].value /\ conj'[j].dirty = conj[j].dirty
        BY <2>1, <2>5 DEF Conjunct
      <4> QED BY <2>1, <3>2, <4>1 DEF IInv, Current
    <3>3. CASE k # i /\ k # j
      BY <2>1, <3>3 DEF IInv, Current
    <3> QED BY <3>1, <3>2, <3>3
  <2> QED BY <2>3, <2>4, <2>6, <2>7 DEF IInv
<1>7. CASE FinishSweep
  BY <1>7 DEF FinishSweep, tree, IInv, TypeOK, WellFormed, Current
<1>8. CASE UNCHANGED vars
  BY <1>8 DEF vars, IInv, TypeOK, WellFormed, Current
<1> QED BY <1>1, <1>2, <1>3, <1>4, <1>5, <1>6, <1>7, <1>8 DEF Next, FoldStep

(* The types, the loop indices and the bookkeeping of the sweep.           *)
THEOREM FoldInvariant == Spec => []IInv
BY InitIInv, NextIInv, PTL DEF Spec

(* The fold stays in its types.                                            *)
THEOREM FoldTypeOK == Spec => []TypeOK
<1>1. IInv => TypeOK
  BY DEF IInv
<1> QED BY <1>1, FoldInvariant, PTL

(* A live conjunct that will be rebuilt from its SSA value is expressed by *)
(* that value, whatever was kept, adopted or fused on the way.             *)
THEOREM FoldCleanMeansCurrent == Spec => []CleanMeansCurrent
<1>1. IInv => CleanMeansCurrent
  BY DEF IInv, Current, CleanMeansCurrent, Live
<1> QED BY <1>1, FoldInvariant, PTL

-----------------------------------------------------------------------------
(* A clean conjunct accepts what the leaf behind its SSA value accepts.    *)
LEMMA CleanHolds ==
  ASSUME IInv, NEW k \in 1..Len(conj), ~conj[k].dirty, NEW e \in Env
  PROVE  ConjunctHolds(conj[k], e) <=> LeafHolds(conj[k].value, e)
BY DEF IInv, Current, ConjunctHolds, LeafHolds

(* The only steps that touch verdicts: a classification adds a leaf to     *)
(* both sides, a duplicate adds nothing to either, and an absorption       *)
(* replaces two conjuncts by their meet.                                   *)
LEMMA VerdictStep ==
  ASSUME DivisionExact, IInv, VerdictPreserved, [Next]_vars
  PROVE  VerdictPreserved'
<1>00. defs' = defs
  BY DEF vars, tree, Next, FoldStep, Classify, Deduplicate,
         StartSweep, NextDst, SkipSrc, Absorb, FinishSweep
<1> SUFFICES ASSUME NEW e \in Env
             PROVE  ((\A n \in 1..next - 1 : LeafHolds(leaves[n], e))
                     <=> (\A k \in Live : ConjunctHolds(conj[k], e)))'
  BY <1>00 DEF VerdictPreserved, Env
<1>0. /\ (\A n \in 1..next - 1 : LeafHolds(leaves[n], e))
           <=> (\A k \in Live : ConjunctHolds(conj[k], e))
      /\ defs' = defs /\ leaves' = leaves
  BY DEF VerdictPreserved, vars, tree, Next, FoldStep, Classify, Deduplicate,
         StartSweep, NextDst, SkipSrc, Absorb, FinishSweep
<1>1. CASE Classify
  <2>1. next' = next + 1 /\ next \in Nat \ {0} /\ pc = "classify" /\ Len(conj) \in Nat
    BY <1>1 DEF Classify, IInv, TypeOK
  <2>2. Live' = Live \cup {Len(conj) + 1}
    BY <1>1, <2>1, ClassifyShape DEF Live, Classified
  <2>3. \A k \in Live : conj'[k] = conj[k]
    BY <1>1, ClassifyShape DEF Live
  <2>4. ConjunctHolds(conj'[Len(conj) + 1], e) <=> LeafHolds(leaves[next], e)
    BY <1>1, ClassifyShape DEF Classified, ConjunctHolds, LeafHolds
  <2>5. 1..next' - 1 = (1..next - 1) \cup {next}
    BY <2>1
  <2>6. (\A n \in 1..next - 1 : LeafHolds(leaves[n], e))'
           <=> (\A n \in 1..next - 1 : LeafHolds(leaves[n], e)) /\ LeafHolds(leaves[next], e)
    BY <1>0, <2>5 DEF LeafHolds
  <2>7. (\A k \in Live : ConjunctHolds(conj[k], e))'
           <=> \A k \in Live' : ConjunctHolds(conj'[k], e)
    BY DEF ConjunctHolds
  <2>8. (\A k \in Live' : ConjunctHolds(conj'[k], e))
           <=> (\A k \in Live : ConjunctHolds(conj[k], e)) /\ LeafHolds(leaves[next], e)
    BY <2>2, <2>3, <2>4
  <2> QED BY <1>0, <2>6, <2>7, <2>8
<1>2. CASE Deduplicate
  <2>1. /\ next' = next + 1 /\ conj' = conj /\ pc = "classify" /\ next \in Nat \ {0}
    BY <1>2 DEF Deduplicate, IInv, TypeOK
  <2>2. PICK k \in 1..Len(conj) : conj[k].value = leaves[next]
    BY <1>2 DEF Deduplicate, Seen
  <2>3. k \in Live /\ ~conj[k].dirty
    BY <2>1 DEF IInv, Current, Live
  <2>4. ConjunctHolds(conj[k], e) <=> LeafHolds(leaves[next], e)
    BY <2>2, <2>3, CleanHolds
  <2>5. 1..next' - 1 = (1..next - 1) \cup {next}
    BY <2>1
  <2>6. (\A n \in 1..next - 1 : LeafHolds(leaves[n], e))'
           <=> (\A n \in 1..next - 1 : LeafHolds(leaves[n], e)) /\ LeafHolds(leaves[next], e)
    BY <1>0, <2>5 DEF LeafHolds
  <2>7. (\A l \in Live : ConjunctHolds(conj[l], e))'
           <=> (\A l \in Live : ConjunctHolds(conj[l], e))
    BY <2>1 DEF Live, ConjunctHolds
  <2> QED BY <1>0, <2>3, <2>4, <2>6, <2>7
<1>3. CASE Absorb
  <2>1. PICK a \in Lattice, b \in Lattice, m \in Lattice, x \in Input :
          /\ conj[i].lat = {a} /\ conj[j].lat = {b} /\ m \in Meet(a, b)
          /\ conj[i].input = {x} /\ conj[j].input = {x}
          /\ i \in 1..Len(conj) /\ j \in 1..Len(conj) /\ i # j
          /\ ~conj[i].dead /\ ~conj[j].dead
          /\ conj' \in Seq(Conjunct) /\ Len(conj') = Len(conj)
          /\ conj'[j] = [conj[j] EXCEPT !.dead = TRUE]
          /\ conj'[i].lat = {m} /\ conj'[i].input = {x} /\ ~conj'[i].dead
          /\ \A k \in 1..Len(conj) : k # i /\ k # j => conj'[k] = conj[k]
    BY <1>3, AbsorbShape
  <2>2. next' = next
    BY <1>3 DEF Absorb
  <2>3. e.doc[x] \in JsonValue
    BY DocumentAssumption DEF Env
  <2>4. Accepts(m, e.doc[x]) <=> Accepts(a, e.doc[x]) /\ Accepts(b, e.doc[x])
    BY <2>1, <2>3, MeetExact, DivisionExact
  <2>5. /\ ConjunctHolds(conj[i], e) <=> Accepts(a, e.doc[x])
        /\ ConjunctHolds(conj[j], e) <=> Accepts(b, e.doc[x])
        /\ ConjunctHolds(conj'[i], e) <=> Accepts(m, e.doc[x])
    BY <2>1 DEF ConjunctHolds
  <2>6. conj'[j].dead
    <3>1. conj[j] \in Conjunct
      BY <2>1 DEF IInv, TypeOK
    <3> QED BY <2>1, <3>1 DEF Conjunct
  <2>7. Live' = Live \ {j} /\ i \in Live /\ j \in Live
    BY <2>1, <2>6 DEF Live
  <2>8. \A k \in Live \ {i, j} : conj'[k] = conj[k]
    BY <2>1 DEF Live
  <2>9. (\A k \in Live : ConjunctHolds(conj[k], e))'
           <=> \A k \in Live \ {j} : ConjunctHolds(conj'[k], e)
    BY <2>7 DEF ConjunctHolds
  <2>10. (\A n \in 1..next - 1 : LeafHolds(leaves[n], e))'
           <=> (\A n \in 1..next - 1 : LeafHolds(leaves[n], e))
    BY <1>0, <2>2 DEF LeafHolds
  <2>11. (\A k \in Live \ {j} : ConjunctHolds(conj'[k], e))
           <=> (\A k \in Live : ConjunctHolds(conj[k], e))
    BY <2>1, <2>4, <2>5, <2>7, <2>8
  <2> QED BY <1>0, <2>9, <2>10, <2>11
<1>4. CASE UNCHANGED <<conj, next>>
  BY <1>0, <1>4 DEF Live, LeafHolds, ConjunctHolds
<1> QED BY <1>1, <1>2, <1>3, <1>4
     DEF Next, FoldStep, StartSweep, NextDst, SkipSrc, FinishSweep, vars

(* C1 AND C2 == meet(C1, C2), all the way: with exact division the live    *)
(* conjuncts always accept exactly what the classified leaves accept.      *)
THEOREM FoldVerdictPreserved ==
  ASSUME DivisionExact PROVE Spec => []VerdictPreserved
<1>1. Init => VerdictPreserved
  BY DEF Init, VerdictPreserved, Live
<1>2. IInv /\ VerdictPreserved /\ [Next]_vars => VerdictPreserved'
  BY VerdictStep, DivisionExact
<1> QED BY <1>1, <1>2, FoldInvariant, PTL DEF Spec

-----------------------------------------------------------------------------
(* Conjunct c covers leaf n: it is the leaf, or it validates the same      *)
(* input at least as strictly.                                             *)
Covers(c, n) ==
  \/ c.value = leaves[n] /\ ~c.dirty
  \/ /\ c.input = defs[leaves[n]].input
     /\ \E a \in c.lat, b \in defs[leaves[n]].lat : Subsumes(a, b)

LEMMA NothingLostStep ==
  ASSUME DivisionExact, IInv, NothingLost, [Next]_vars
  PROVE  NothingLost'
<1>0. /\ defs' = defs /\ leaves' = leaves
      /\ \A l \in 1..next - 1 : \E k \in Live : Covers(conj[k], l)
  BY DEF NothingLost, Covers, vars, tree, Next, FoldStep, Classify, Deduplicate,
         StartSweep, NextDst, SkipSrc, Absorb, FinishSweep
<1> SUFFICES ASSUME NEW n \in 1..next' - 1
             PROVE  \E k \in Live' : Covers(conj'[k], n)
  BY <1>0 DEF NothingLost, Covers
<1>1. CASE Classify
  <2>1. next' = next + 1 /\ next \in Nat \ {0} /\ Len(conj) \in Nat
    BY <1>1 DEF Classify, IInv, TypeOK
  <2>2. Live' = Live \cup {Len(conj) + 1} /\ \A k \in Live : conj'[k] = conj[k]
    BY <1>1, <2>1, ClassifyShape DEF Live, Classified
  <2>3. CASE n = next
    <3> DEFINE K == Len(conj) + 1
    <3>1. conj'[K].value = leaves[n] /\ ~conj'[K].dirty /\ K \in Live'
      BY <1>1, <2>2, <2>3, ClassifyShape DEF Classified
    <3> HIDE DEF K
    <3> QED BY <1>0, <3>1 DEF Covers
  <2>4. CASE n \in 1..next - 1
    <3>1. PICK k \in Live : Covers(conj[k], n)
      BY <1>0, <2>4
    <3> QED BY <1>0, <2>2, <3>1 DEF Covers
  <2> QED BY <2>1, <2>3, <2>4
<1>2. CASE Deduplicate
  <2>1. next' = next + 1 /\ next \in Nat \ {0} /\ conj' = conj /\ pc = "classify"
    BY <1>2 DEF Deduplicate, IInv, TypeOK
  <2>2. CASE n = next
    <3>1. PICK k \in 1..Len(conj) : conj[k].value = leaves[n]
      BY <1>2, <2>2 DEF Deduplicate, Seen
    <3>2. k \in Live /\ ~conj[k].dirty
      BY <2>1 DEF IInv, Current, Live
    <3> QED BY <1>0, <2>1, <3>1, <3>2 DEF Covers, Live
  <2>3. CASE n \in 1..next - 1
    <3>1. PICK k \in Live : Covers(conj[k], n)
      BY <1>0, <2>3
    <3> QED BY <1>0, <2>1, <3>1 DEF Covers, Live
  <2> QED BY <2>1, <2>2, <2>3
<1>3. CASE Absorb
  <2>1. PICK a \in Lattice, b \in Lattice, m \in Lattice, x \in Input :
          /\ conj[i].lat = {a} /\ conj[j].lat = {b} /\ m \in Meet(a, b)
          /\ conj[i].input = {x} /\ conj[j].input = {x}
          /\ i \in 1..Len(conj) /\ j \in 1..Len(conj) /\ i # j
          /\ ~conj[i].dead /\ ~conj[j].dead
          /\ Len(conj') = Len(conj)
          /\ conj'[j] = [conj[j] EXCEPT !.dead = TRUE]
          /\ conj'[i].lat = {m} /\ conj'[i].input = {x} /\ ~conj'[i].dead
          /\ \A k \in 1..Len(conj) : k # i /\ k # j => conj'[k] = conj[k]
    BY <1>3, AbsorbShape
  <2>2. next' = next /\ next \in 1..Len(leaves) + 1 /\ leaves \in Seq(Value)
    BY <1>3 DEF Absorb, IInv, TypeOK
  <2>3. PICK k \in Live : Covers(conj[k], n)
    BY <1>0, <2>2
  <2>4. PositiveDivisor(a) /\ PositiveDivisor(b)
    BY <2>1 DEF IInv, WellFormed
  <2>5. Subsumes(m, a) /\ Subsumes(m, b)
    BY <2>1, <2>4, MeetStricter, DivisionExact
  <2>6. i \in Live'
    BY <2>1 DEF Live
  <2>7. CASE k \in {i, j}
    <3>1. PICK l \in Lattice : /\ conj[k].lat = {l} /\ conj[k].input = {x}
                               /\ Subsumes(m, l)
      BY <2>1, <2>5, <2>7
    <3>2. /\ defs[leaves[n]].input = {x}
          /\ \E c \in defs[leaves[n]].lat : Subsumes(m, c)
      <4>1. CASE conj[k].value = leaves[n] /\ ~conj[k].dirty
        BY <3>1, <4>1 DEF IInv, Current, Live
      <4>2. CASE /\ conj[k].input = defs[leaves[n]].input
                 /\ \E p \in conj[k].lat, c \in defs[leaves[n]].lat : Subsumes(p, c)
        <5>1. PICK c \in defs[leaves[n]].lat : Subsumes(l, c)
          BY <3>1, <4>2
        <5>2. c \in Lattice
          <6>1. leaves[n] \in Value
            BY <2>2
          <6>2. defs[leaves[n]] \in Def
            BY <6>1 DEF IInv, TypeOK
          <6> QED BY <6>2 DEF Def, Opt
        <5>3. Subsumes(m, c)
          BY <3>1, <5>1, <5>2, SubsumesTransitive, DivisionExact
        <5> QED BY <3>1, <4>2, <5>3
      <4> QED BY <2>3, <4>1, <4>2 DEF Covers
    <3>3. Covers(conj'[i], n)
      BY <1>0, <2>1, <3>2 DEF Covers
    <3> QED BY <2>6, <3>3
  <2>8. CASE k \notin {i, j}
    <3>1. conj'[k] = conj[k] /\ k \in Live'
      BY <2>1, <2>8 DEF Live
    <3> QED BY <1>0, <2>3, <3>1 DEF Covers
  <2> QED BY <2>7, <2>8
<1>4. CASE UNCHANGED <<conj, next>>
  BY <1>0, <1>4 DEF Live, Covers
<1> QED BY <1>1, <1>2, <1>3, <1>4
     DEF Next, FoldStep, StartSweep, NextDst, SkipSrc, FinishSweep, vars

(* Every leaf is at every moment covered by a live conjunct.               *)
THEOREM FoldNothingLost ==
  ASSUME DivisionExact PROVE Spec => []NothingLost
<1>1. Init => NothingLost
  BY DEF Init, NothingLost
<1>2. IInv /\ NothingLost /\ [Next]_vars => NothingLost'
  BY NothingLostStep, DivisionExact
<1> QED BY <1>1, <1>2, FoldInvariant, PTL DEF Spec

(* No step revives a conjunct, moves one to another input or weakens it.   *)
THEOREM FoldOnlyStricter ==
  ASSUME DivisionExact PROVE Spec => OnlyStricter
<1> DEFINE Stricter ==
      \A k \in 1..Len(conj) :
        /\ conj[k].dead => conj'[k].dead
        /\ conj'[k].input = conj[k].input
        /\ \A a \in conj'[k].lat, b \in conj[k].lat : a = b \/ Subsumes(a, b)
<1>1. IInv /\ [Next]_vars => [Stricter]_vars
  <2> SUFFICES ASSUME IInv, Next PROVE Stricter
    OBVIOUS
  <2>0. \A k \in 1..Len(conj) : conj[k] \in Conjunct
    BY DEF IInv, TypeOK
  <2>1. ASSUME NEW k \in 1..Len(conj), conj'[k] = conj[k]
        PROVE  \A a \in conj'[k].lat, b \in conj[k].lat : a = b
    BY <2>0, <2>1 DEF Conjunct, Opt
  <2>2. CASE Classify
    BY <2>1, <2>2, ClassifyShape
  <2>3. CASE Absorb
    <3>1. PICK a \in Lattice, b \in Lattice, m \in Lattice, x \in Input :
            /\ conj[i].lat = {a} /\ conj[j].lat = {b} /\ m \in Meet(a, b)
            /\ conj[i].input = {x} /\ conj[j].input = {x}
            /\ i \in 1..Len(conj) /\ j \in 1..Len(conj) /\ i # j
            /\ ~conj[i].dead
            /\ conj'[j] = [conj[j] EXCEPT !.dead = TRUE]
            /\ conj'[i].lat = {m} /\ conj'[i].input = {x} /\ ~conj'[i].dead
            /\ \A k \in 1..Len(conj) : k # i /\ k # j => conj'[k] = conj[k]
      BY <2>3, AbsorbShape
    <3>2. PositiveDivisor(a) /\ PositiveDivisor(b)
      BY <3>1 DEF IInv, WellFormed
    <3>3. Subsumes(m, a)
      BY <3>1, <3>2, MeetStricter, DivisionExact
    <3>4. conj'[j].dead /\ conj'[j].lat = {b} /\ conj'[j].input = {x}
      BY <2>0, <3>1 DEF Conjunct
    <3>5. ASSUME NEW k \in 1..Len(conj)
          PROVE  /\ conj[k].dead => conj'[k].dead
                 /\ conj'[k].input = conj[k].input
                 /\ \A p \in conj'[k].lat, q \in conj[k].lat : p = q \/ Subsumes(p, q)
      <4>1. CASE k = i
        BY <3>1, <3>3, <4>1
      <4>2. CASE k = j
        BY <3>1, <3>4, <4>2
      <4>3. CASE k # i /\ k # j
        BY <2>1, <3>1, <4>3
      <4> QED BY <4>1, <4>2, <4>3
    <3> QED BY <3>5
  <2>4. CASE UNCHANGED conj
    BY <2>1, <2>4
  <2> QED BY <2>2, <2>3, <2>4
       DEF Next, FoldStep, Deduplicate, StartSweep, NextDst, SkipSrc, FinishSweep
<1>2. OnlyStricter <=> [][Stricter]_vars
  BY PTL DEF OnlyStricter
<1> QED BY <1>1, <1>2, FoldInvariant, PTL DEF Spec

-----------------------------------------------------------------------------
(* Which conjuncts are alive after a step that changes it.                 *)
LEMMA LiveStep ==
  ASSUME IInv, [Next]_vars
  PROVE  /\ leaves' = leaves /\ next \in Nat \ {0} /\ Len(conj) \in Nat
         /\ \/ /\ Classify /\ next' = next + 1 /\ changed' = changed
               /\ Live' = Live \cup {Len(conj) + 1} /\ Len(conj) + 1 \notin Live
            \/ /\ Deduplicate /\ next' = next + 1 /\ changed' = TRUE
               /\ Live' = Live /\ conj' = conj
            \/ /\ Absorb /\ next' = next /\ changed' = TRUE
               /\ Live' = Live \ {j} /\ i \in Live /\ j \in Live /\ i # j
            \/ Live' = Live /\ UNCHANGED <<conj, next, changed>>
<1>0. leaves' = leaves /\ next \in Nat \ {0} /\ Len(conj) \in Nat
  BY DEF IInv, TypeOK, vars, tree, Next, FoldStep, Classify, Deduplicate,
         StartSweep, NextDst, SkipSrc, Absorb, FinishSweep
<1>1. CASE Classify
  <2>1. Live' = Live \cup {Len(conj) + 1} /\ Len(conj) + 1 \notin Live
    BY <1>0, <1>1, ClassifyShape DEF Live, Classified
  <2> QED BY <1>0, <1>1, <2>1 DEF Classify
<1>2. CASE Deduplicate
  BY <1>0, <1>2 DEF Deduplicate, Live
<1>3. CASE Absorb
  <2>1. /\ i \in 1..Len(conj) /\ j \in 1..Len(conj) /\ i # j
        /\ ~conj[i].dead /\ ~conj[j].dead
        /\ Len(conj') = Len(conj) /\ ~conj'[i].dead
        /\ conj'[j] = [conj[j] EXCEPT !.dead = TRUE]
        /\ \A k \in 1..Len(conj) : k # i /\ k # j => conj'[k] = conj[k]
    BY <1>3, AbsorbShape
  <2>2. conj'[j].dead
    <3>1. conj[j] \in Conjunct
      BY <2>1 DEF IInv, TypeOK
    <3> QED BY <2>1, <3>1 DEF Conjunct
  <2>3. Live' = Live \ {j} /\ i \in Live /\ j \in Live
    BY <2>1, <2>2 DEF Live
  <2> QED BY <1>0, <1>3, <2>1, <2>3 DEF Absorb
<1>4. CASE UNCHANGED <<conj, next, changed>>
  BY <1>0, <1>4 DEF Live
<1> QED BY <1>1, <1>2, <1>3, <1>4
     DEF Next, FoldStep, StartSweep, NextDst, SkipSrc, FinishSweep, vars

(* A conjunct is never without the location of its own value, so a leaf    *)
(* that is dropped as a duplicate has its location with the first one.     *)
Located == LocationsCovered /\ \A k \in 1..Len(conj) : conj[k].value \in conj[k].loc

LEMMA LocatedStep ==
  ASSUME IInv, Located, [Next]_vars
  PROVE  Located'
<1>0. leaves' = leaves /\ next \in Nat \ {0} /\ Len(conj) \in Nat
  BY LiveStep
<1> SUFFICES /\ \A n \in 1..next' - 1 : \E k \in Live' : leaves[n] \in conj'[k].loc
             /\ \A k \in 1..Len(conj') : conj'[k].value \in conj'[k].loc
  BY <1>0 DEF Located, LocationsCovered
<1>1. CASE Classify /\ next' = next + 1 /\ Live' = Live \cup {Len(conj) + 1}
  <2>1. /\ Len(conj') = Len(conj) + 1
        /\ conj'[Len(conj) + 1].value = leaves[next] /\ conj'[Len(conj) + 1].loc = {leaves[next]}
        /\ \A k \in 1..Len(conj) : conj'[k] = conj[k]
    BY <1>1, ClassifyShape DEF Classified
  <2>2. \A n \in 1..next' - 1 : n \in 1..next - 1 \/ n = next
    BY <1>0, <1>1
  <2>3. \A k \in 1..Len(conj') : k \in 1..Len(conj) \/ k = Len(conj) + 1
    BY <1>0, <2>1
  <2>4. \A k \in Live : k \in 1..Len(conj)
    BY DEF Live
  <2> QED BY <1>1, <2>1, <2>2, <2>3, <2>4 DEF Located, LocationsCovered
<1>2. CASE Deduplicate
  <2>1. next' = next + 1 /\ Live' = Live /\ conj' = conj /\ pc = "classify"
    BY <1>2 DEF Deduplicate, Live
  <2>2. PICK k \in 1..Len(conj) : conj[k].value = leaves[next]
    BY <1>2 DEF Deduplicate, Seen
  <2>3. k \in Live /\ leaves[next] \in conj[k].loc
    BY <2>1, <2>2 DEF IInv, Current, Live, Located
  <2>4. \A n \in 1..next' - 1 : n \in 1..next - 1 \/ n = next
    BY <1>0, <2>1
  <2> QED BY <2>1, <2>3, <2>4 DEF Located, LocationsCovered
<1>3. CASE Absorb /\ next' = next /\ Live' = Live \ {j} /\ i \in Live /\ j \in Live /\ i # j
  <2>1. PICK m \in Lattice :
          /\ i \in 1..Len(conj) /\ j \in 1..Len(conj) /\ Len(conj') = Len(conj)
          /\ conj'[j] = [conj[j] EXCEPT !.dead = TRUE]
          /\ conj'[i] = Absorbing(m) /\ conj'[i].loc = conj[i].loc \cup conj[j].loc
          /\ \A k \in 1..Len(conj) : k # i /\ k # j => conj'[k] = conj[k]
    BY <1>3, AbsorbShape
  <2>2. conj[i] \in Conjunct /\ conj[j] \in Conjunct
    BY <2>1 DEF IInv, TypeOK
  <2>3. conj'[i].value \in {conj[i].value, conj[j].value}
    BY <2>1, <2>2 DEF Absorbing, Conjunct
  <2>4. conj'[j].value = conj[j].value /\ conj'[j].loc = conj[j].loc
    BY <2>1, <2>2 DEF Conjunct
  <2>5. \A k \in 1..Len(conj') : conj'[k].value \in conj'[k].loc
    BY <2>1, <2>3, <2>4 DEF Located
  <2>6. \A k \in Live : \E l \in Live \ {j} : conj[k].loc \subseteq conj'[l].loc
    BY <1>3, <2>1 DEF Live
  <2>7. ASSUME NEW n \in 1..next - 1 PROVE \E l \in Live \ {j} : leaves[n] \in conj'[l].loc
    <3>1. PICK k \in Live : leaves[n] \in conj[k].loc
      BY DEF Located, LocationsCovered
    <3> QED BY <2>6, <3>1
  <2> QED BY <1>3, <2>5, <2>7
<1>4. CASE UNCHANGED <<conj, next>>
  BY <1>4 DEF Located, LocationsCovered, Live
<1> QED BY <1>1, <1>2, <1>3, <1>4, LiveStep

(* No location is lost while conjuncts absorb each other: what is lost is  *)
(* lost when the operations are emitted.                                   *)
THEOREM FoldLocationsCovered == Spec => []LocationsCovered
<1>1. Init => Located
  BY DEF Init, Located, LocationsCovered
<1>2. IInv /\ Located /\ [Next]_vars => Located'
  BY LocatedStep
<1>3. Located => LocationsCovered
  BY DEF Located
<1> QED BY <1>1, <1>2, <1>3, FoldInvariant, PTL DEF Spec

-----------------------------------------------------------------------------
(* The leaves looked at are as many as the live conjuncts, and those       *)
(* dropped and absorbed.                                                   *)
Counted == /\ IsFiniteSet(Live) /\ Cardinality(Live) =< next - 1
           /\ ChangedMeansSmaller

LEMMA CountedStep ==
  ASSUME IInv, Counted, [Next]_vars
  PROVE  Counted'
<1> SUFFICES /\ IsFiniteSet(Live') /\ Cardinality(Live') =< next' - 1
             /\ changed' <=> Cardinality(Live') < next' - 1
  BY DEF Counted, ChangedMeansSmaller
<1>0. /\ next \in Nat \ {0} /\ Cardinality(Live) \in Nat /\ IsFiniteSet(Live)
      /\ Cardinality(Live) =< next - 1 /\ (changed <=> Cardinality(Live) < next - 1)
  BY LiveStep, FS_CardinalityType DEF Counted, ChangedMeansSmaller
<1>1. CASE /\ next' = next + 1 /\ changed' = changed
           /\ Live' = Live \cup {Len(conj) + 1} /\ Len(conj) + 1 \notin Live
  <2>1. IsFiniteSet(Live') /\ Cardinality(Live') = Cardinality(Live) + 1
    BY <1>0, <1>1, FS_AddElement
  <2> QED BY <1>0, <1>1, <2>1
<1>2. CASE next' = next + 1 /\ changed' = TRUE /\ Live' = Live
  BY <1>0, <1>2
<1>3. CASE next' = next /\ changed' = TRUE /\ Live' = Live \ {j} /\ j \in Live
  <2>1. IsFiniteSet(Live') /\ Cardinality(Live') = Cardinality(Live) - 1
    BY <1>0, <1>3, FS_RemoveElement
  <2> QED BY <1>0, <1>3, <2>1
<1>4. CASE Live' = Live /\ UNCHANGED <<next, changed>>
  BY <1>0, <1>4
<1> QED BY <1>1, <1>2, <1>3, <1>4, LiveStep

(* Success is reported exactly when there are fewer conjuncts than leaves. *)
THEOREM FoldChangedMeansSmaller == Spec => []ChangedMeansSmaller
<1>1. Init => Counted
  <2> SUFFICES ASSUME Init PROVE Counted
    OBVIOUS
  <2>1. Live = {} /\ next = 1 /\ changed = FALSE
    BY DEF Init, Live
  <2>2. IsFiniteSet(Live) /\ Cardinality(Live) = 0
    BY <2>1, FS_EmptySet
  <2> QED BY <2>1, <2>2 DEF Counted, ChangedMeansSmaller
<1>2. IInv /\ Counted /\ [Next]_vars => Counted'
  BY CountedStep
<1>3. Counted => ChangedMeansSmaller
  BY DEF Counted
<1> QED BY <1>1, <1>2, <1>3, FoldInvariant, PTL DEF Spec

-----------------------------------------------------------------------------
(* Two strings that have no meet disagree on a pattern or a format, and a  *)
(* meet keeps both of what it is made of: what was refused stays refused.  *)
LEMMA RefusedStays ==
  ASSUME NEW a \in Lattice, NEW b \in Lattice, NEW c \in Lattice, NEW m \in Meet(a, b)
  PROVE  /\ m.kind = a.kind
         /\ a.kind = "string" /\ Meet(a, c) = {} => Meet(m, c) = {}
         /\ c.kind = "string" /\ Meet(c, a) = {} => Meet(c, m) = {}
<1>1. CASE a.kind = "string"
  <2>1. /\ m.kind = "string"
        /\ a.pattern # {} => m.pattern = a.pattern
        /\ a.format # {} => m.format = a.format
    BY <1>1 DEF Meet, StringMeet
  <2>2. ASSUME NEW p \in Lattice, NEW q \in Lattice, p.kind = "string"
        PROVE  Meet(p, q) = {}
                 <=> \/ q.kind # "string"
                     \/ ~Compatible(p.pattern, q.pattern)
                     \/ ~Compatible(p.format, q.format)
    BY <2>2 DEF Meet, StringMeet
  <2>3. m \in Lattice
    BY MeetType
  <2> QED BY <1>1, <2>1, <2>2, <2>3 DEF Compatible
<1>2. CASE a.kind # "string"
  <2>1. a.kind = b.kind /\ m \in NumberMeet(a, b) /\ a.kind = "number"
    BY <1>2 DEF Meet, Lattice, StringLattice, NumberLattice
  <2>2. m.kind = "number"
    BY <2>1 DEF NumberMeet
  <2> QED BY <1>2, <2>1, <2>2 DEF Meet
<1> QED BY <1>1, <1>2

(* Conjuncts c and d are not two strings of one input with a meet.         *)
Refused(c, d) ==
  \A a \in c.lat, b \in d.lat :
    a.kind = "string" /\ c.input = d.input => Meet(a, b) = {}

(* The pairs the sweep has passed are refused, those of conj[i] up to j.   *)
Swept ==
  /\ pc = "classify" => i = 1 /\ j = 2
  /\ pc = "done" => i > Len(conj)
  /\ \A k, l \in Live : k < l /\ (k < i \/ (k = i /\ l < j)) => Refused(conj[k], conj[l])

LEMMA SweptStep ==
  ASSUME IInv, Swept, [Next]_vars
  PROVE  Swept'
<1>0. /\ i \in Nat /\ j \in Nat /\ Len(conj) \in Nat /\ i < j
      /\ \A k \in Live : k \in 1..Len(conj) /\ k \in Nat
      /\ \A k \in 1..Len(conj) : conj[k] \in Conjunct
  BY DEF IInv, TypeOK, Live
<1>1. CASE Classify
  <2>1. /\ i = 1 /\ j = 2 /\ i' = i /\ j' = j /\ pc' = pc /\ pc = "classify"
    BY <1>1 DEF Classify, Swept
  <2>2. \A k \in Live' : k \in Nat /\ k > 0
    BY <1>0, <1>1, ClassifyShape DEF Live
  <2> QED BY <2>1, <2>2 DEF Swept
<1>2. CASE Deduplicate
  BY <1>2 DEF Deduplicate, Swept, Live, Refused
<1>3. CASE StartSweep
  BY <1>3 DEF StartSweep, Swept, Live, Refused
<1>4. CASE NextDst
  <2>1. /\ pc = "sweep" /\ pc' = pc /\ conj' = conj /\ i' = i + 1 /\ j' = i + 2
        /\ ~CanAbsorb(i) \/ j > Len(conj)
    BY <1>4 DEF NextDst
  <2>2. Live' = Live
    BY <2>1 DEF Live
  <2>3. ASSUME NEW k \in Live, NEW l \in Live, k < l, k < i' \/ (k = i' /\ l < j')
        PROVE  Refused(conj[k], conj[l])
    <3>1. CASE k < i
      BY <3>1, <2>3 DEF Swept
    <3>2. CASE k = i /\ j > Len(conj)
      BY <1>0, <2>3, <3>2 DEF Swept
    <3>3. CASE k = i /\ ~CanAbsorb(i)
      BY <3>3 DEF CanAbsorb, Refused, Live
    <3>4. k < i \/ k = i
      BY <1>0, <2>1, <2>3
    <3> QED BY <2>1, <3>1, <3>2, <3>3, <3>4
  <2> QED BY <2>1, <2>2, <2>3 DEF Swept, Refused
<1>5. CASE SkipSrc
  <2>1. /\ pc = "sweep" /\ pc' = pc /\ conj' = conj /\ i' = i /\ j' = j + 1
        /\ ~SameInput \/ Merged = {}
    BY <1>5 DEF SkipSrc, AtPair
  <2>2. Live' = Live
    BY <2>1 DEF Live
  <2>3. j \in Live => Refused(conj[i], conj[j])
    BY <2>1 DEF SameInput, Merged, Refused, Live
  <2>4. ASSUME NEW k \in Live, NEW l \in Live, k < l, k < i \/ (k = i /\ l < j')
        PROVE  Refused(conj[k], conj[l])
    <3>1. CASE k < i \/ (k = i /\ l < j)
      BY <3>1, <2>4 DEF Swept
    <3>2. CASE k = i /\ l = j
      BY <2>3, <3>2
    <3> QED BY <1>0, <2>1, <2>4, <3>1, <3>2
  <2> QED BY <2>1, <2>2, <2>4 DEF Swept, Refused
<1>6. CASE Absorb
  <2>1. PICK a \in Lattice, b \in Lattice, m \in Lattice, x \in Input :
          /\ conj[i].lat = {a} /\ conj[j].lat = {b} /\ m \in Meet(a, b)
          /\ conj[i].input = {x} /\ conj[j].input = {x}
          /\ i \in 1..Len(conj) /\ j \in 1..Len(conj) /\ i # j
          /\ ~conj[i].dead /\ Len(conj') = Len(conj)
          /\ conj'[i].lat = {m} /\ conj'[i].input = {x}
          /\ \A k \in 1..Len(conj) : k # i /\ k # j => conj'[k] = conj[k]
    BY <1>6, AbsorbShape
  <2>2. /\ pc' = pc /\ pc = "sweep" /\ i' = i /\ j' = j + 1
    BY <1>6 DEF Absorb, AtPair
  <2>3. Live' = Live \ {j} /\ i \in Live
    <3>1. conj' # conj
      <4>1. conj[j] \in Conjunct /\ conj'[j] = [conj[j] EXCEPT !.dead = TRUE] /\ ~conj[j].dead
        BY <1>0, <1>6, AbsorbShape
      <4> QED BY <4>1 DEF Conjunct
    <3> QED BY <1>6, <2>2, <3>1, LiveStep DEF Classify, Deduplicate
  <2>4. ASSUME NEW k \in Live', NEW l \in Live', k < l, k < i \/ (k = i /\ l < j + 1)
        PROVE  Refused(conj'[k], conj'[l])
    <3>1. Refused(conj[k], conj[l]) /\ k \in 1..Len(conj) /\ l \in 1..Len(conj)
      BY <1>0, <2>3, <2>4 DEF Swept
    <3>2. \A c \in conj[k].lat \cup conj[l].lat : c \in Lattice
      BY <1>0, <3>1 DEF Conjunct, Opt
    <3>3. CASE k = i
      <4>1. conj'[l] = conj[l]
        BY <2>1, <2>3, <2>4, <3>1, <3>3
      <4>2. \A c \in conj[l].lat :
              m.kind = a.kind /\ (a.kind = "string" /\ Meet(a, c) = {} => Meet(m, c) = {})
        BY <2>1, <3>2, RefusedStays
      <4> QED BY <2>1, <3>1, <3>3, <4>1, <4>2 DEF Refused
    <3>4. CASE l = i
      <4>1. conj'[k] = conj[k]
        BY <1>0, <2>1, <2>3, <2>4, <3>1, <3>4
      <4>2. \A c \in conj[k].lat : c.kind = "string" /\ Meet(c, a) = {} => Meet(c, m) = {}
        BY <2>1, <3>2, RefusedStays
      <4> QED BY <2>1, <3>1, <3>4, <4>1, <4>2 DEF Refused
    <3>5. CASE k # i /\ l # i
      BY <2>1, <2>3, <3>1, <3>5
    <3> QED BY <3>3, <3>4, <3>5
  <2> QED BY <2>2, <2>4 DEF Swept, Refused
<1>7. CASE FinishSweep
  BY <1>7 DEF FinishSweep, Swept, Live, Refused
<1>8. CASE UNCHANGED vars
  BY <1>8 DEF vars, Swept, Live, Refused
<1> QED BY <1>1, <1>2, <1>3, <1>4, <1>5, <1>6, <1>7, <1>8 DEF Next, FoldStep

(* One sweep merges all the string validations of an input that can be     *)
(* merged: a pair the sweep refused has no meet at its end either.         *)
THEOREM FoldStringsCollapse == Spec => []StringsCollapse
<1>1. Init => Swept
  BY DEF Init, Swept, Live
<1>2. IInv /\ Swept /\ [Next]_vars => Swept'
  BY SweptStep
<1>3. IInv /\ Swept => StringsCollapse
  <2> SUFFICES ASSUME IInv, Swept, pc = "done", NEW k \in Live, NEW l \in Live,
                      NEW a \in conj[k].lat, NEW b \in conj[l].lat,
                      k # l, a.kind = "string", conj[k].input = conj[l].input
               PROVE  Meet(a, b) = {}
    BY DEF StringsCollapse
  <2>1. k \in 1..Len(conj) /\ l \in 1..Len(conj) /\ Len(conj) \in Nat /\ i \in Nat /\ i > Len(conj)
    BY DEF IInv, TypeOK, Live, Swept
  <2>2. CASE k < l
    BY <2>1, <2>2 DEF Swept, Refused
  <2>3. CASE l < k
    <3>1. Refused(conj[l], conj[k])
      BY <2>1, <2>3 DEF Swept
    <3>2. b.kind = "string" => Meet(b, a) = {}
      BY <3>1 DEF Refused
    <3> QED BY <3>2 DEF Meet, StringMeet, Compatible
  <2> QED BY <2>1, <2>2, <2>3
<1> QED BY <1>1, <1>2, <1>3, FoldInvariant, PTL DEF Spec

-----------------------------------------------------------------------------
(* What the rewrite that emits the conjuncts relies on: each has the value *)
(* of a leaf and the input of a leaf, one is alive as soon as there was a  *)
(* leaf, and once the sweep starts every leaf has been looked at.          *)
Placed ==
  /\ \A k \in 1..Len(conj) :
       /\ \E n \in 1..Len(leaves) : conj[k].value = leaves[n]
       /\ \E n \in 1..Len(leaves) : conj[k].input = defs[leaves[n]].input
  /\ next > 1 => Live # {}
  /\ pc # "classify" => next = Len(leaves) + 1

LEMMA FreshPlaced == Fresh => Placed /\ VerdictPreserved
<1> SUFFICES ASSUME Fresh PROVE Placed /\ VerdictPreserved
  OBVIOUS
<1>1. Len(conj) = 0 /\ 1..next - 1 = {} /\ 1..Len(conj) = {}
  BY DEF Fresh
<1>2. Live = {}
  BY <1>1 DEF Live
<1> QED BY <1>1, <1>2 DEF Fresh, Placed, VerdictPreserved

LEMMA PlacedStep ==
  ASSUME IInv, Placed, [Next]_vars
  PROVE  Placed'
<1> DEFINE HasPlace(c) == /\ \E n \in 1..Len(leaves) : c.value = leaves[n]
                          /\ \E n \in 1..Len(leaves) : c.input = defs[leaves[n]].input
<1>0. /\ leaves' = leaves /\ defs' = defs /\ next \in Nat \ {0} /\ Len(conj) \in Nat
      /\ Len(leaves) \in Nat /\ next \in 1..Len(leaves) + 1
      /\ \A k \in 1..Len(conj) : HasPlace(conj[k])
  BY DEF Placed, IInv, TypeOK, vars, tree, Next, FoldStep, Classify, Deduplicate,
         StartSweep, NextDst, SkipSrc, Absorb, FinishSweep
<1> SUFFICES /\ \A k \in 1..Len(conj') : HasPlace(conj'[k])
             /\ next' > 1 => Live' # {}
             /\ pc' # "classify" => next' = Len(leaves) + 1
  BY <1>0 DEF Placed
<1>1. CASE Classify /\ next' = next + 1 /\ Live' = Live \cup {Len(conj) + 1}
  <2>1. /\ leaves[next] \in Value /\ next \in 1..Len(leaves) /\ Len(conj') = Len(conj) + 1
        /\ conj'[Len(conj) + 1] = Classified(leaves[next])
        /\ \A k \in 1..Len(conj) : conj'[k] = conj[k]
    BY <1>1, ClassifyShape
  <2>2. HasPlace(Classified(leaves[next]))
    BY <2>1 DEF Classified
  <2> HIDE DEF HasPlace
  <2>3. \A k \in 1..Len(conj') : k \in 1..Len(conj) \/ k = Len(conj) + 1
    BY <1>0, <2>1
  <2>4. pc' = "classify"
    BY <1>1 DEF Classify
  <2> HIDE DEF HasPlace
  <2> QED BY <1>0, <1>1, <2>1, <2>2, <2>3, <2>4
<1>2. CASE Deduplicate /\ conj' = conj /\ Live' = Live
  <2>1. pc' = "classify" /\ pc = "classify"
    BY <1>2 DEF Deduplicate
  <2>2. PICK k \in 1..Len(conj) : conj[k].value = leaves[next]
    BY <1>2 DEF Deduplicate, Seen
  <2>3. k \in Live
    BY <2>1, <2>2 DEF IInv, Current, Live
  <2> QED BY <1>0, <1>2, <2>1, <2>3
<1>3. CASE Absorb /\ next' = next /\ Live' = Live \ {j} /\ i \in Live /\ j \in Live /\ i # j
  <2>1. PICK m \in Lattice :
          /\ i \in 1..Len(conj) /\ j \in 1..Len(conj) /\ Len(conj') = Len(conj)
          /\ conj'[j] = [conj[j] EXCEPT !.dead = TRUE]
          /\ conj'[i] = Absorbing(m)
          /\ \A k \in 1..Len(conj) : k # i /\ k # j => conj'[k] = conj[k]
    BY <1>3, AbsorbShape
  <2>2. conj[i] \in Conjunct /\ conj[j] \in Conjunct
    BY <2>1 DEF IInv, TypeOK
  <2>3. /\ conj'[i].value \in {conj[i].value, conj[j].value} /\ conj'[i].input = conj[i].input
        /\ conj'[j].value = conj[j].value /\ conj'[j].input = conj[j].input
    BY <2>1, <2>2 DEF Absorbing, Conjunct
  <2>4. HasPlace(conj'[i]) /\ HasPlace(conj'[j])
    <3>1. HasPlace(conj[i]) /\ HasPlace(conj[j])
      BY <1>0, <2>1
    <3>2. HasPlace(conj'[i])
      BY <2>3, <3>1
    <3>3. HasPlace(conj'[j])
      BY <2>3, <3>1
    <3> QED BY <3>2, <3>3
  <2>5. pc' = pc /\ pc = "sweep"
    BY <1>3 DEF Absorb, AtPair
  <2> HIDE DEF HasPlace
  <2> QED BY <1>0, <1>3, <2>1, <2>4, <2>5 DEF Placed
<1>4. CASE StartSweep
  BY <1>0, <1>4 DEF StartSweep, Placed, Live
<1>5. CASE NextDst \/ SkipSrc \/ FinishSweep \/ UNCHANGED vars
  <2>1. UNCHANGED <<conj, next>> /\ (pc' # "classify" => pc # "classify")
    BY <1>5 DEF NextDst, SkipSrc, AtPair, FinishSweep, vars
  <2>2. Live' = Live
    BY <2>1 DEF Live
  <2> QED BY <1>0, <2>1, <2>2 DEF Placed
<1>6. CASE Classify
  <2>1. Live' = Live \cup {Len(conj) + 1}
    BY <1>0, <1>6, ClassifyShape DEF Live, Classified
  <2> QED BY <1>1, <1>6, <2>1 DEF Classify
<1>7. CASE Deduplicate
  BY <1>2, <1>7 DEF Deduplicate, Live
<1>8. CASE Absorb
  <2>1. /\ ~Classify /\ ~Deduplicate /\ conj' # conj
    <3>0. pc = "sweep" /\ j \in 1..Len(conj)
      BY <1>8, AbsorbShape DEF Absorb, AtPair
    <3>1. ~Classify /\ ~Deduplicate
      BY <3>0 DEF Classify, Deduplicate
    <3>2. conj[j] \in Conjunct /\ conj'[j] = [conj[j] EXCEPT !.dead = TRUE] /\ ~conj[j].dead
      <4>1. conj'[j] = [conj[j] EXCEPT !.dead = TRUE] /\ ~conj[j].dead
        BY <1>8, AbsorbShape
      <4> QED BY <3>0, <4>1 DEF IInv, TypeOK
    <3>3. conj'[j].dead
      BY <3>2 DEF Conjunct
    <3> QED BY <3>1, <3>2, <3>3
  <2> QED BY <1>3, <1>8, <2>1, LiveStep
<1> QED BY <1>4, <1>5, <1>6, <1>7, <1>8 DEF Next, FoldStep

-----------------------------------------------------------------------------
(* A fold that changes nothing has shown that there is nothing to change:  *)
(* as long as it has not, the conjuncts are the leaves looked at, no leaf  *)
(* came twice, and no pair the sweep has passed has a meet.                *)
NoMeet(c, d) ==
  c.input = d.input => \A a \in c.lat, b \in d.lat : Meet(a, b) = {}

Untouched ==
  /\ pc = "classify" => i = 1 /\ j = 2
  /\ pc = "done" => i > Len(conj)
  /\ ~changed =>
       /\ Len(conj) = next - 1
       /\ \A k \in 1..Len(conj) : conj[k] = Classified(leaves[k])
       /\ \A k, l \in 1..Len(conj) : k < l => leaves[k] # leaves[l]
       /\ \A k, l \in 1..Len(conj) :
            k < l /\ (k < i \/ (k = i /\ l < j)) => NoMeet(conj[k], conj[l])

LEMMA FreshUntouched == Fresh => Untouched
BY DEF Fresh, Untouched

LEMMA UntouchedStep ==
  ASSUME IInv, Untouched, [Next]_vars
  PROVE  Untouched'
<1>0. /\ i \in Nat /\ j \in Nat /\ Len(conj) \in Nat /\ i < j /\ next \in Nat
      /\ leaves' = leaves /\ defs' = defs
  BY DEF IInv, TypeOK, vars, tree, Next, FoldStep, Classify, Deduplicate,
         StartSweep, NextDst, SkipSrc, Absorb, FinishSweep
<1>1. CASE Classify
  <2>1. /\ i = 1 /\ j = 2 /\ i' = i /\ j' = j /\ pc' = pc /\ pc = "classify"
        /\ next' = next + 1 /\ changed' = changed /\ ~Seen(leaves[next])
    BY <1>1 DEF Classify, Untouched
  <2>2. /\ Len(conj') = Len(conj) + 1
        /\ conj'[Len(conj) + 1] = Classified(leaves[next])
        /\ \A k \in 1..Len(conj) : conj'[k] = conj[k]
    BY <1>1, ClassifyShape
  <2> SUFFICES ASSUME ~changed
               PROVE  /\ Len(conj') = next' - 1
                      /\ \A k \in 1..Len(conj') : conj'[k] = Classified(leaves[k])
                      /\ \A k, l \in 1..Len(conj') : k < l => leaves[k] # leaves[l]
                      /\ \A k, l \in 1..Len(conj') : ~(k < l /\ (k < i \/ (k = i /\ l < j)))
    BY <1>0, <2>1 DEF Untouched, Classified
  <2>3. /\ Len(conj) = next - 1
        /\ \A k \in 1..Len(conj) : conj[k] = Classified(leaves[k])
        /\ \A k, l \in 1..Len(conj) : k < l => leaves[k] # leaves[l]
    BY DEF Untouched
  <2>4. \A k \in 1..Len(conj') : k \in 1..Len(conj) \/ k = Len(conj) + 1
    BY <1>0, <2>2
  <2>5. \A k \in 1..Len(conj) : leaves[k] # leaves[next]
    BY <2>1, <2>3 DEF Seen, Classified
  <2>6. \A k, l \in 1..Len(conj') : k < l => k \in 1..Len(conj)
    BY <1>0, <2>2
  <2>7. \A k, l \in 1..Len(conj') : k < l => leaves[k] # leaves[l]
    BY <1>0, <2>3, <2>4, <2>5, <2>6
  <2>8. \A k \in 1..Len(conj') : conj'[k] = Classified(leaves[k])
    BY <1>0, <2>2, <2>3, <2>4
  <2> QED BY <1>0, <2>1, <2>2, <2>3, <2>7, <2>8
<1>2. CASE Deduplicate \/ Absorb
  BY <1>2 DEF Deduplicate, Absorb, AtPair, Untouched
<1>3. CASE StartSweep \/ FinishSweep
  <2>1. UNCHANGED <<conj, next, i, j, changed>> /\ pc' # "classify" /\ (pc' = "done" => i > Len(conj))
    BY <1>3 DEF StartSweep, FinishSweep
  <2> QED BY <1>0, <2>1 DEF Untouched, NoMeet, Classified
<1>4. CASE NextDst
  <2>1. /\ pc = "sweep" /\ pc' = pc /\ UNCHANGED <<conj, next, changed>> /\ i' = i + 1 /\ j' = i + 2
        /\ ~CanAbsorb(i) \/ j > Len(conj)
    BY <1>4 DEF NextDst
  <2> SUFFICES ASSUME ~changed, NEW k \in 1..Len(conj), NEW l \in 1..Len(conj),
                      k < l, k < i' \/ (k = i' /\ l < j')
               PROVE  NoMeet(conj[k], conj[l])
    BY <1>0, <2>1 DEF Untouched, NoMeet, Classified
  <2>2. k < i \/ k = i
    BY <1>0, <2>1
  <2>3. CASE k < i
    BY <2>3 DEF Untouched
  <2>4. CASE k = i /\ j > Len(conj)
    BY <1>0, <2>4 DEF Untouched
  <2>5. CASE k = i /\ ~CanAbsorb(i)
    <3>1. conj[k] = Classified(leaves[k])
      BY DEF Untouched
    <3>2. ~conj[k].dead
      BY <3>1 DEF Classified
    <3> QED BY <2>5, <3>2 DEF CanAbsorb, NoMeet
  <2> QED BY <2>1, <2>2, <2>3, <2>4, <2>5
<1>5. CASE SkipSrc
  <2>1. /\ pc = "sweep" /\ pc' = pc /\ UNCHANGED <<conj, next, changed>> /\ i' = i /\ j' = j + 1
        /\ ~SameInput \/ Merged = {}
    BY <1>5 DEF SkipSrc, AtPair
  <2> SUFFICES ASSUME ~changed, NEW k \in 1..Len(conj), NEW l \in 1..Len(conj),
                      k < l, k < i \/ (k = i /\ l < j + 1)
               PROVE  NoMeet(conj[k], conj[l])
    BY <1>0, <2>1 DEF Untouched, NoMeet, Classified
  <2>2. CASE k < i \/ (k = i /\ l < j)
    BY <2>2 DEF Untouched
  <2>3. CASE k = i /\ l = j
    <3>1. conj[l] = Classified(leaves[l])
      BY DEF Untouched
    <3>2. ~conj[l].dead
      BY <3>1 DEF Classified
    <3> QED BY <2>1, <2>3, <3>2 DEF SameInput, Merged, NoMeet
  <2> QED BY <1>0, <2>2, <2>3
<1>6. CASE UNCHANGED vars
  BY <1>0, <1>6 DEF vars, Untouched, NoMeet, Classified
<1> QED BY <1>1, <1>2, <1>3, <1>4, <1>5, <1>6 DEF Next, FoldStep

(* A fold that ends without a change: its leaves are distinct, and no two  *)
(* of one input have a meet.                                               *)
LEMMA NothingToFold ==
  ASSUME IInv, Placed, Untouched, pc = "done", ~changed
  PROVE  \A k, l \in 1..Len(leaves) : k # l =>
           /\ leaves[k] # leaves[l]
           /\ defs[leaves[k]].input = defs[leaves[l]].input =>
                \A a \in defs[leaves[k]].lat, b \in defs[leaves[l]].lat : Meet(a, b) = {}
<1>1. /\ Len(leaves) \in Nat /\ i \in Nat /\ j \in Nat /\ Len(conj) = Len(leaves) /\ i > Len(conj)
      /\ next = Len(leaves) + 1
      /\ \A k \in 1..Len(leaves) : conj[k] = Classified(leaves[k])
      /\ \A k, l \in 1..Len(leaves) : k < l => leaves[k] # leaves[l]
  <2>1. Len(leaves) \in Nat /\ Len(conj) \in Nat /\ i \in Nat /\ j \in Nat
    BY DEF IInv, TypeOK
  <2>2. next = Len(leaves) + 1
    BY DEF Placed
  <2>3. /\ i > Len(conj) /\ Len(conj) = next - 1
        /\ \A k \in 1..Len(conj) : conj[k] = Classified(leaves[k])
        /\ \A k, l \in 1..Len(conj) : k < l => leaves[k] # leaves[l]
    BY DEF Untouched
  <2>4. Len(conj) = Len(leaves)
    BY <2>1, <2>2, <2>3
  <2> QED BY <2>1, <2>2, <2>3, <2>4
<1>2. ASSUME NEW k \in 1..Len(leaves), NEW l \in 1..Len(leaves), k < l,
             defs[leaves[k]].input = defs[leaves[l]].input,
             NEW a \in defs[leaves[k]].lat, NEW b \in defs[leaves[l]].lat
      PROVE  Meet(a, b) = {} /\ Meet(b, a) = {}
  <2>1. NoMeet(conj[k], conj[l])
    BY <1>1, <1>2 DEF Untouched
  <2>2. conj[k] = Classified(leaves[k]) /\ conj[l] = Classified(leaves[l])
    BY <1>1
  <2>3. /\ conj[k].input = conj[l].input
        /\ conj[k].lat = defs[leaves[k]].lat /\ conj[l].lat = defs[leaves[l]].lat
    BY <1>2, <2>2 DEF Classified
  <2>4. Meet(a, b) = {}
    BY <1>2, <2>1, <2>3 DEF NoMeet
  <2> QED BY <2>4, RefusedBothWays
<1>3. \A k, l \in 1..Len(leaves) : k # l => k < l \/ l < k
  BY <1>1
<1> QED BY <1>1, <1>2, <1>3

-----------------------------------------------------------------------------
(* The Mojo library's lattices.                                            *)

(* The value of an optional that has one.                                  *)
LEMMA TheValue == ASSUME NEW p PROVE The({p}) = p
BY DEF The

(* An optional is empty or is the set of its value.                        *)
LEMMA OptThe ==
  ASSUME NEW S, NEW s \in Opt(S)
  PROVE  s = {} \/ (The(s) \in S /\ s = {The(s)})
<1>1. CASE s # {}
  <2>1. PICK p \in S : s = {p}
    BY <1>1, OptCases
  <2>2. The({p}) = p
    BY TheValue
  <2> QED BY <2>1, <2>2
<1> QED BY <1>1

(* The tightest of two optional lengths, computed either way.              *)
LEMMA TightestAgree ==
  ASSUME NEW a \in Opt(Int), NEW b \in Opt(Int)
  PROVE  /\ MojoMaxOpt(a, b) = TightestLower(a, b)
         /\ MojoMinOpt(a, b) = TightestUpper(a, b)
<1>1. CASE a = {}
  <2>1. b = {} \/ (The(b) \in Int /\ b = {The(b)})
    BY OptThe
  <2> QED BY <1>1, <2>1 DEF MojoMaxOpt, MojoMinOpt, TightestLower, TightestUpper
<1>2. CASE b = {}
  <2>1. a = {} \/ (The(a) \in Int /\ a = {The(a)})
    BY OptThe
  <2> QED BY <1>2, <2>1 DEF MojoMaxOpt, MojoMinOpt, TightestLower, TightestUpper
<1>3. CASE a # {} /\ b # {}
  <2>1. PICK p \in Int : a = {p}
    BY <1>3, OptCases
  <2>2. PICK q \in Int : b = {q}
    BY <1>3, OptCases
  <2>3. The(a) = p /\ The(b) = q
    BY <2>1, <2>2, TheValue
  <2>4. /\ TightestLower(a, b) = IF p >= q THEN {p} ELSE {q}
        /\ TightestUpper(a, b) = IF p =< q THEN {p} ELSE {q}
    BY <2>1, <2>2 DEF TightestLower, TightestUpper
  <2> QED BY <1>3, <2>1, <2>2, <2>3, <2>4 DEF MojoMaxOpt, MojoMinOpt
<1> QED BY <1>1, <1>2, <1>3

(* Patterns and formats: covering, and the conflict that refuses a meet.   *)
LEMMA NamesAgree ==
  ASSUME NEW S, NEW a \in Opt(S), NEW b \in Opt(S)
  PROVE  /\ MojoCovers(a, b) <=> (b # {} => a = b)
         /\ MojoConflict(a, b) <=> ~Compatible(a, b)
<1>1. a = {} \/ a = {The(a)}
  BY OptThe
<1>2. b = {} \/ b = {The(b)}
  BY OptThe
<1> QED BY <1>1, <1>2 DEF MojoCovers, MojoConflict, Compatible

(* Lengths, compared as the library compares them.                         *)
LEMMA LengthsAgree ==
  ASSUME NEW a \in Opt(Int), NEW b \in Opt(Int)
  PROVE  /\ (b # {} => a # {} /\ ~(The(a) < The(b)))
              <=> \A n \in b : \E m \in a : m >= n
         /\ (b # {} => a # {} /\ ~(The(a) > The(b)))
              <=> \A n \in b : \E m \in a : m =< n
<1>1. a = {} \/ (The(a) \in Int /\ a = {The(a)})
  BY OptThe
<1>2. b = {} \/ (The(b) \in Int /\ b = {The(b)})
  BY OptThe
<1>3. CASE a # {} /\ b # {}
  <2>1. PICK p \in Int : a = {p} /\ The(a) = p
    BY <1>1, <1>3
  <2>2. PICK q \in Int : b = {q} /\ The(b) = q
    BY <1>2, <1>3
  <2> QED BY <2>1, <2>2
<1> QED BY <1>1, <1>2, <1>3

(* Two optional lengths, each at least as strict as the other, are equal.  *)
LEMMA LengthsEqual ==
  ASSUME NEW a \in Opt(Int), NEW b \in Opt(Int)
  PROVE  /\ /\ \A n \in b : \E m \in a : m >= n
            /\ \A n \in a : \E m \in b : m >= n
            => a = b
         /\ /\ \A n \in b : \E m \in a : m =< n
            /\ \A n \in a : \E m \in b : m =< n
            => a = b
<1>1. CASE a = {} \/ b = {}
  BY <1>1
<1>2. CASE a # {} /\ b # {}
  <2>1. PICK p \in Int : a = {p}
    BY <1>2, OptCases
  <2>2. PICK q \in Int : b = {q}
    BY <1>2, OptCases
  <2> QED BY <2>1, <2>2
<1> QED BY <1>1, <1>2

(* Two string lattices: subsumption, meet and equality.                    *)
LEMMA StringLatticesAgree ==
  ASSUME NEW a \in StringLattice, NEW b \in StringLattice
  PROVE  StringsAgree(a, b)
<1>1. /\ a.kind = "string" /\ b.kind = "string"
      /\ a.minLength \in Opt(Int) /\ b.minLength \in Opt(Int)
      /\ a.maxLength \in Opt(Int) /\ b.maxLength \in Opt(Int)
      /\ a.pattern \in Opt(Pattern) /\ b.pattern \in Opt(Pattern)
      /\ a.format \in Opt(Format) /\ b.format \in Opt(Format)
  BY DEF StringLattice
<1>2. /\ MojoStringSubsumes(a, b) <=> StringSubsumes(a, b)
      /\ MojoStringSubsumes(b, a) <=> StringSubsumes(b, a)
  <2>1. /\ MojoCovers(a.pattern, b.pattern) <=> (b.pattern # {} => a.pattern = b.pattern)
        /\ MojoCovers(b.pattern, a.pattern) <=> (a.pattern # {} => b.pattern = a.pattern)
        /\ MojoCovers(a.format, b.format) <=> (b.format # {} => a.format = b.format)
        /\ MojoCovers(b.format, a.format) <=> (a.format # {} => b.format = a.format)
    BY <1>1, NamesAgree
  <2> QED BY <1>1, <2>1, LengthsAgree, ZenonT(40) DEF MojoStringSubsumes, StringSubsumes
<1>3. MojoStringMeet(a, b) = StringMeet(a, b)
  <2>1. /\ MojoConflict(a.pattern, b.pattern) <=> ~Compatible(a.pattern, b.pattern)
        /\ MojoConflict(a.format, b.format) <=> ~Compatible(a.format, b.format)
    BY <1>1, NamesAgree
  <2>2. /\ MojoMaxOpt(a.minLength, b.minLength) = TightestLower(a.minLength, b.minLength)
        /\ MojoMinOpt(a.maxLength, b.maxLength) = TightestUpper(a.maxLength, b.maxLength)
    BY <1>1, TightestAgree
  <2> QED BY <2>1, <2>2 DEF MojoStringMeet, StringMeet
<1>4. MojoStringEq(a, b) <=> a = b
  <2>1. ASSUME StringSubsumes(a, b), StringSubsumes(b, a) PROVE a = b
    <3>1. a.minLength = b.minLength
      BY <1>1, <2>1, LengthsEqual DEF StringSubsumes
    <3>2. a.maxLength = b.maxLength
      BY <1>1, <2>1, LengthsEqual DEF StringSubsumes
    <3>3. a.pattern = b.pattern /\ a.format = b.format
      BY <2>1 DEF StringSubsumes
    <3> QED BY <3>1, <3>2, <3>3 DEF StringLattice
  <2>2. StringSubsumes(a, a)
    BY <1>1 DEF StringSubsumes, Opt
  <2> QED BY <1>2, <2>1, <2>2 DEF MojoStringEq
<1> QED BY <1>1, <1>2, <1>3, <1>4 DEF StringsAgree, Subsumes, Meet

-----------------------------------------------------------------------------
(* Two bounds, compared as the library compares them.                      *)
LEMMA BoundsAgree ==
  ASSUME NEW a \in Opt(Number), NEW b \in Opt(Number),
         NEW aExcl \in BOOLEAN, NEW bExcl \in BOOLEAN
  PROVE  /\ MojoLowerAtLeastAsStrict(a, aExcl, b, bExcl)
              <=> LowerAtLeastAsStrict(a, aExcl, b, bExcl)
         /\ MojoUpperAtLeastAsStrict(a, aExcl, b, bExcl)
              <=> UpperAtLeastAsStrict(a, aExcl, b, bExcl)
<1>1. CASE a = {} \/ b = {}
  BY <1>1 DEF MojoLowerAtLeastAsStrict, LowerAtLeastAsStrict,
              MojoUpperAtLeastAsStrict, UpperAtLeastAsStrict
<1>2. CASE a # {} /\ b # {}
  <2>1. PICK p \in Number : a = {p}
    BY <1>2, OptCases
  <2>2. PICK q \in Number : b = {q}
    BY <1>2, OptCases
  <2>3. The(a) = p /\ The(b) = q /\ p \in Int /\ q \in Int
    BY <2>1, <2>2, TheValue, NumberAssumption
  <2>4. /\ LowerAtLeastAsStrict(a, aExcl, b, bExcl)
             <=> (p > q \/ (p = q /\ (aExcl \/ ~bExcl)))
        /\ UpperAtLeastAsStrict(a, aExcl, b, bExcl)
             <=> (p < q \/ (p = q /\ (aExcl \/ ~bExcl)))
    BY <2>1, <2>2 DEF LowerAtLeastAsStrict, UpperAtLeastAsStrict
  <2>5. /\ MojoLowerAtLeastAsStrict(a, aExcl, b, bExcl)
             <=> (p > q \/ (~(p < q) /\ (aExcl \/ ~bExcl)))
        /\ MojoUpperAtLeastAsStrict(a, aExcl, b, bExcl)
             <=> (p < q \/ (~(p > q) /\ (aExcl \/ ~bExcl)))
    BY <1>2, <2>3 DEF MojoLowerAtLeastAsStrict, MojoUpperAtLeastAsStrict
  <2> QED BY <2>3, <2>4, <2>5
<1> QED BY <1>1, <1>2

(* Two positive divisors: the one that stands for both, and subsumption.   *)
LEMMA DivisorsAgree ==
  ASSUME NEW a \in Opt(Number), NEW b \in Opt(Number),
         \A m \in a \cup b : m > Zero
  PROVE  /\ MojoDivisor(a, b) = DivisorMeet(a, b)
         /\ (b # {} => a # {} /\ MojoIsIntegralMultipleOf(The(a), The(b)))
              <=> \A n \in b : \E m \in a : IsIntegralMultipleOf(m, n)
<1>1. CASE a = {} \/ b = {}
  BY <1>1 DEF MojoDivisor, DivisorMeet
<1>2. CASE a # {} /\ b # {}
  <2>1. PICK p \in Number : a = {p}
    BY <1>2, OptCases
  <2>2. PICK q \in Number : b = {q}
    BY <1>2, OptCases
  <2>3. The(a) = p /\ The(b) = q
    BY <2>1, <2>2, TheValue
  <2>4. p # Zero /\ q # Zero
    BY <2>1, <2>2, NumberAssumption
  <2>5. /\ MojoIsIntegralMultipleOf(p, q) <=> IsIntegralMultipleOf(p, q)
        /\ MojoIsIntegralMultipleOf(q, p) <=> IsIntegralMultipleOf(q, p)
    BY <2>4 DEF MojoIsIntegralMultipleOf, IsIntegralMultipleOf
  <2> HIDE DEF MojoIsIntegralMultipleOf, IsIntegralMultipleOf
  <2> QED BY <1>2, <2>1, <2>2, <2>3, <2>5 DEF MojoDivisor, DivisorMeet
<1> QED BY <1>1, <1>2

(* Two number lattices: subsumption, meet and equality.                    *)
LEMMA NumberLatticesAgree ==
  ASSUME NEW a \in NumberLattice, NEW b \in NumberLattice,
         PositiveDivisor(a), PositiveDivisor(b)
  PROVE  NumbersAgree(a, b)
<1>1. /\ a.kind = "number" /\ b.kind = "number"
      /\ a.minimum \in Opt(Number) /\ b.minimum \in Opt(Number)
      /\ a.maximum \in Opt(Number) /\ b.maximum \in Opt(Number)
      /\ a.multipleOf \in Opt(Number) /\ b.multipleOf \in Opt(Number)
      /\ a.exclusiveMin \in BOOLEAN /\ b.exclusiveMin \in BOOLEAN
      /\ a.exclusiveMax \in BOOLEAN /\ b.exclusiveMax \in BOOLEAN
      /\ a.integral \in BOOLEAN /\ b.integral \in BOOLEAN
  BY DEF NumberLattice
<1>2. \A m \in a.multipleOf \cup b.multipleOf : m > Zero
  BY <1>1 DEF PositiveDivisor
<1>3. /\ MojoDivisor(a.multipleOf, b.multipleOf) = DivisorMeet(a.multipleOf, b.multipleOf)
      /\ (b.multipleOf # {} =>
            a.multipleOf # {}
            /\ MojoIsIntegralMultipleOf(The(a.multipleOf), The(b.multipleOf)))
         <=> \A n \in b.multipleOf : \E m \in a.multipleOf : IsIntegralMultipleOf(m, n)
  BY <1>1, <1>2, DivisorsAgree
<1>4. /\ MojoLowerAtLeastAsStrict(a.minimum, a.exclusiveMin, b.minimum, b.exclusiveMin)
            <=> LowerAtLeastAsStrict(a.minimum, a.exclusiveMin, b.minimum, b.exclusiveMin)
      /\ MojoUpperAtLeastAsStrict(a.maximum, a.exclusiveMax, b.maximum, b.exclusiveMax)
            <=> UpperAtLeastAsStrict(a.maximum, a.exclusiveMax, b.maximum, b.exclusiveMax)
  BY <1>1, BoundsAgree
<1>5. MojoNumberSubsumes(a, b) <=> NumberSubsumes(a, b)
  BY <1>1, <1>3, <1>4 DEF MojoNumberSubsumes, NumberSubsumes
<1>6. MojoNumberMeet(a, b) = NumberMeet(a, b)
  BY <1>3, <1>4 DEF MojoNumberMeet, NumberMeet
<1>7. MojoNumberEq(a, b) <=> a = b
  BY DEF MojoNumberEq, NumberLattice
<1> QED BY <1>1, <1>5, <1>6, <1>7 DEF NumbersAgree, Subsumes, Meet

(* The library's validate answers what the compiled validator answers.     *)
LEMMA ValidateAgrees ==
  ASSUME NEW a \in Lattice, NEW v \in JsonValue, v.kind = a.kind
  PROVE  AgreeOn(a, v)
<1>1. CASE a \in StringLattice
  <2>1. /\ a.kind = "string" /\ v \in StringValue
        /\ a.minLength \in Opt(Int) /\ a.maxLength \in Opt(Int)
    BY <1>1 DEF StringLattice, JsonValue, StringValue, NumberValue, OtherValue
  <2>2. v.length \in Int
    BY <2>1 DEF StringValue
  <2>3. /\ a.minLength = {} \/ (The(a.minLength) \in Int /\ a.minLength = {The(a.minLength)})
        /\ a.maxLength = {} \/ (The(a.maxLength) \in Int /\ a.maxLength = {The(a.maxLength)})
    BY <2>1, OptThe
  <2>4. /\ (a.minLength # {} => ~(v.length < The(a.minLength)))
             <=> \A n \in a.minLength : v.length >= n
        /\ (a.maxLength # {} => ~(v.length > The(a.maxLength)))
             <=> \A n \in a.maxLength : v.length =< n
    BY <2>2, <2>3
  <2> QED BY <2>1, <2>4 DEF AgreeOn, Accepts, StringAccepts, MojoStringValidates,
                            MojoStringValidate, MojoStringVacuous
<1>2. CASE a \in NumberLattice
  <2>1. /\ a.kind = "number" /\ v \in NumberValue
        /\ a.minimum \in Opt(Number) /\ a.maximum \in Opt(Number)
        /\ a.multipleOf \in Opt(Number)
    BY <1>2 DEF NumberLattice, JsonValue, StringValue, NumberValue, OtherValue
  <2>2. /\ a.minimum = {} \/ (The(a.minimum) \in Number /\ a.minimum = {The(a.minimum)})
        /\ a.maximum = {} \/ (The(a.maximum) \in Number /\ a.maximum = {The(a.maximum)})
        /\ a.multipleOf = {}
           \/ (The(a.multipleOf) \in Number /\ a.multipleOf = {The(a.multipleOf)})
    BY <2>1, OptThe
  <2>3. MojoNumberValidate(a, v) <=> NumberAccepts(a, v)
    BY <2>2 DEF MojoNumberValidate, NumberAccepts
  <2>4. MojoNumberVacuous(a) => NumberAccepts(a, v)
    BY DEF MojoNumberVacuous, NumberAccepts
  <2> QED BY <2>1, <2>3, <2>4 DEF AgreeOn, Accepts
<1> QED BY <1>1, <1>2 DEF Lattice

(* Two lattices of one kind, with positive divisors: the library's         *)
(* subsumes, meet and __eq__ are the compiler's; and on every value of the *)
(* kind validate, unless it raises for a pattern or a format, answers what *)
(* the compiled validator answers, and a lattice that is_vacuous calls     *)
(* vacuous accepts the value.                                              *)
THEOREM LatticesAgree ==
  ASSUME NEW a \in Lattice, NEW b \in Lattice, a.kind = b.kind,
         PositiveDivisor(a), PositiveDivisor(b)
  PROVE  /\ Agree(a, b)
         /\ \A v \in JsonValue : v.kind = a.kind => AgreeOn(a, v) /\ AgreeOn(b, v)
<1>1. CASE a \in StringLattice
  <2>1. a.kind = "string" /\ b \in StringLattice
    BY <1>1 DEF Lattice, StringLattice, NumberLattice
  <2> QED BY <1>1, <2>1, StringLatticesAgree, ValidateAgrees DEF Agree
<1>2. CASE a \in NumberLattice
  <2>1. a.kind # "string" /\ b \in NumberLattice
    BY <1>2 DEF Lattice, StringLattice, NumberLattice
  <2> QED BY <1>2, <2>1, NumberLatticesAgree, ValidateAgrees DEF Agree
<1> QED BY <1>1, <1>2 DEF Lattice

(* Whatever the fold meets, the Mojo library would fold it the same way.   *)
THEOREM FoldMojoAgrees == Spec => []MojoAgrees
<1>1. IInv => MojoAgrees
  <2> SUFFICES ASSUME IInv, NEW k \in DOMAIN conj, NEW l \in DOMAIN conj,
                      NEW a \in conj[k].lat, NEW b \in conj[l].lat
               PROVE  /\ a.kind = b.kind => Agree(a, b)
                      /\ \A v \in {d \in Document : d.kind = a.kind} : AgreeOn(a, v)
    BY DEF MojoAgrees
  <2>1. conj[k] \in Conjunct /\ conj[l] \in Conjunct /\ DOMAIN conj = 1..Len(conj)
    BY DEF IInv, TypeOK
  <2>2. a \in Lattice /\ b \in Lattice
    BY <2>1 DEF Conjunct, Opt
  <2>3. PositiveDivisor(a) /\ PositiveDivisor(b)
    BY <2>1 DEF IInv, WellFormed
  <2>4. a.kind = b.kind => Agree(a, b)
    BY <2>2, <2>3, LatticesAgree
  <2>5. ASSUME NEW v \in Document, v.kind = a.kind PROVE AgreeOn(a, v)
    BY <2>2, <2>5, DocumentAssumption, ValidateAgrees
  <2> QED BY <2>4, <2>5
<1> QED BY <1>1, FoldInvariant, PTL

=============================================================================
