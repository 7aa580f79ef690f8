---------------------------- MODULE ConjunctFold ----------------------------
(***************************************************************************)
(* The heart of schema-canonicalize: given the leaves of one arith.andi    *)
(* tree, classify them into an array of conjuncts without duplicates and   *)
(* sweep the array pairwise, absorbing every conjunct that has a meet with *)
(* an earlier one on the same input.  What is left alive at the end is     *)
(* what the tree is rebuilt from.                                          *)
(*                                                                         *)
(* A leaf is an SSA value of type i1; defs gives the operation defining    *)
(* it: a validation has an input and a lattice, anything else has neither  *)
(* and is opaque.  A location is the set of operations it was fused from,  *)
(* each named by the value it defines.                                     *)
(***************************************************************************)
EXTENDS Lattices, Sequences, FiniteSets

CONSTANTS Value,   \* i1 SSA values
          Input,   \* !schema.value SSA values
          Document, \* the JSON values the inputs may hold
          Trees    \* the flattened trees: <<definitions, leaves>>

Def == [input : Opt(Input), lat : Opt(Lattice)]

ASSUME DocumentAssumption == Document \subseteq JsonValue

ASSUME TreesAssumption ==
  \A t \in Trees : /\ t[1] \in [Value -> Def]
                   /\ t[2] \in Seq(Value) \ {<<>>}
                   /\ \A v \in Value : /\ (t[1][v].lat = {}) = (t[1][v].input = {})
                                       /\ \A c \in t[1][v].lat : Verifies(c)

VARIABLES
  defs,     \* the defining operation of each value (never changed here)
  leaves,   \* the flattened tree, duplicates included (never changed here)
  conj,     \* the conjuncts, in order of first occurrence
  next,     \* next leaf to classify
  i, j,     \* the pair the sweep looks at: conj[i] may absorb conj[j]
  changed,  \* something was deduplicated or absorbed
  pc        \* "classify", "sweep" or "done"

tree == <<defs, leaves>>
fold == <<conj, next, i, j, changed, pc>>
vars == <<defs, leaves, conj, next, i, j, changed, pc>>

Conjunct == [value : Value, input : Opt(Input), lat : Opt(Lattice),
             loc : SUBSET Value, dead : BOOLEAN, dirty : BOOLEAN]

Classified(v) == [value |-> v, input |-> defs[v].input, lat |-> defs[v].lat,
                  loc |-> {v}, dead |-> FALSE, dirty |-> FALSE]

Init ==
  /\ \E t \in Trees : defs = t[1] /\ leaves = t[2]
  /\ conj = <<>> /\ next = 1 /\ i = 1 /\ j = 2
  /\ changed = FALSE /\ pc = "classify"

-----------------------------------------------------------------------------
(* Deduplication: x && x == x.                                             *)

Seen(v) == \E k \in 1..Len(conj) : conj[k].value = v

Classify ==
  /\ pc = "classify" /\ next =< Len(leaves)
  /\ ~Seen(leaves[next])
  /\ conj' = Append(conj, Classified(leaves[next]))
  /\ next' = next + 1
  /\ UNCHANGED <<tree, i, j, changed, pc>>

(* Bug: dropping a duplicate is not counted as a change. *)
Deduplicate_Silent ==
  /\ pc = "classify" /\ next =< Len(leaves)
  /\ Seen(leaves[next])
  /\ next' = next + 1
  /\ UNCHANGED <<tree, conj, i, j, changed, pc>>

Deduplicate ==
  /\ pc = "classify" /\ next =< Len(leaves)
  /\ Seen(leaves[next])
  /\ changed' = TRUE
  /\ next' = next + 1
  /\ UNCHANGED <<tree, conj, i, j, pc>>

StartSweep ==
  /\ pc = "classify" /\ next > Len(leaves)
  /\ pc' = "sweep"
  /\ UNCHANGED <<tree, conj, next, i, j, changed>>

-----------------------------------------------------------------------------
(* The pairwise sweep.                                                     *)

CanAbsorb(k) == ~conj[k].dead /\ conj[k].lat # {}

(* Bug: the inner loop starts at the conjunct itself. *)
NextDst_FromItself ==
  /\ pc = "sweep" /\ i =< Len(conj)
  /\ ~CanAbsorb(i) \/ j > Len(conj)
  /\ i' = i + 1 /\ j' = i + 1
  /\ UNCHANGED <<tree, conj, next, changed, pc>>

NextDst ==
  /\ pc = "sweep" /\ i =< Len(conj)
  /\ ~CanAbsorb(i) \/ j > Len(conj)
  /\ i' = i + 1 /\ j' = i + 2
  /\ UNCHANGED <<tree, conj, next, changed, pc>>

AtPair == pc = "sweep" /\ i =< Len(conj) /\ CanAbsorb(i) /\ j =< Len(conj)

SameInput == ~conj[j].dead /\ conj[j].input = conj[i].input

(* The meet of the two conjuncts: no element when they are not combinable. *)
Merged == UNION {Meet(a, b) : a \in conj[i].lat, b \in conj[j].lat}

(* Bug: a pair that is not combinable is retried. *)
SkipSrc_Retry ==
  /\ AtPair
  /\ ~SameInput \/ Merged = {}
  /\ UNCHANGED vars

SkipSrc ==
  /\ AtPair
  /\ ~SameInput \/ Merged = {}
  /\ j' = j + 1
  /\ UNCHANGED <<tree, conj, next, i, changed, pc>>

(* Bugs: an adopted value is not taken over; the locations are not fused. *)
Absorbing_KeepValue(m) ==
  LET dst == conj[i]
      src == conj[j]
      fuses == {m} # dst.lat /\ {m} # src.lat
  IN [dst EXCEPT !.lat = {m}, !.dirty = @ \/ fuses, !.loc = @ \cup src.loc]

Absorbing_OwnLocation(m) ==
  LET dst == conj[i]
      src == conj[j]
      adopts == {m} # dst.lat /\ {m} = src.lat
      fuses  == {m} # dst.lat /\ {m} # src.lat
  IN [dst EXCEPT !.lat   = {m},
                 !.value = IF adopts THEN src.value ELSE @,
                 !.dirty = IF adopts THEN FALSE ELSE @ \/ fuses]

(* conj[i] becomes the meet m.  It keeps its SSA value when it already     *)
(* expressed m, adopts the value of conj[j] when that one does, and is     *)
(* marked dirty, to be materialized afresh, when neither does.             *)
Absorbing(m) ==
  LET dst == conj[i]
      src == conj[j]
      adopts == {m} # dst.lat /\ {m} = src.lat
      fuses  == {m} # dst.lat /\ {m} # src.lat
  IN [dst EXCEPT !.lat   = {m},
                 !.value = IF adopts THEN src.value ELSE @,
                 !.dirty = IF adopts THEN FALSE ELSE @ \/ fuses,
                 !.loc   = @ \cup src.loc]

(* Bug: a conjunct absorbs at most one other. *)
Absorb_ThenBreak ==
  /\ AtPair /\ SameInput
  /\ \E m \in Merged :
       conj' = [conj EXCEPT ![i] = Absorbing(m), ![j].dead = TRUE]
  /\ changed' = TRUE
  /\ j' = Len(conj) + 1
  /\ UNCHANGED <<tree, next, i, pc>>

Absorb ==
  /\ AtPair /\ SameInput
  /\ \E m \in Merged :
       conj' = [conj EXCEPT ![i] = Absorbing(m), ![j].dead = TRUE]
  /\ changed' = TRUE
  /\ j' = j + 1
  /\ UNCHANGED <<tree, next, i, pc>>

FinishSweep ==
  /\ pc = "sweep" /\ i > Len(conj)
  /\ pc' = "done"
  /\ UNCHANGED <<tree, conj, next, i, j, changed>>

FoldStep == \/ Classify \/ Deduplicate \/ StartSweep
            \/ NextDst \/ SkipSrc \/ Absorb \/ FinishSweep

Next == FoldStep

Spec     == Init /\ [][Next]_vars
FairSpec == Spec /\ WF_vars(Next)

-----------------------------------------------------------------------------
(* Verdicts.  An environment gives every input a JSON value and every      *)
(* opaque leaf a truth value.                                              *)

Env == [doc : [Input -> Document], opaque : [{v \in Value : defs[v].lat = {}} -> BOOLEAN]]

LeafHolds(v, e) ==
  IF defs[v].lat = {} THEN e.opaque[v]
  ELSE \A c \in defs[v].lat, x \in defs[v].input : Accepts(c, e.doc[x])

ConjunctHolds(c, e) ==
  IF c.lat = {} THEN e.opaque[c.value]
  ELSE \A l \in c.lat, x \in c.input : Accepts(l, e.doc[x])

Live == {k \in 1..Len(conj) : ~conj[k].dead}

-----------------------------------------------------------------------------
(* The variables of the fold have their types, and the sweep's indices     *)
(* stay where the loops of matchAndRewrite keep them.                      *)
TypeOK ==
  /\ defs \in [Value -> Def] /\ leaves \in Seq(Value)
  /\ conj \in Seq(Conjunct)
  /\ next \in 1..Len(leaves) + 1
  /\ i \in 1..Len(conj) + 1 /\ j \in Nat /\ i < j
  /\ changed \in BOOLEAN
  /\ pc \in {"classify", "sweep", "done"}

(* At every moment of the fold the live conjuncts together accept exactly  *)
(* what the leaves classified so far accept: C1 AND C2 == meet(C1, C2).    *)
VerdictPreserved ==
  \A e \in Env : (\A k \in 1..next - 1 : LeafHolds(leaves[k], e))
                 <=> (\A k \in Live : ConjunctHolds(conj[k], e))

(* A conjunct that is not dirty is rebuilt from its SSA value alone, so    *)
(* the operation behind that value must express the current lattice on the *)
(* current input, whatever was kept, adopted or fused before.              *)
CleanMeansCurrent ==
  \A k \in Live :
    ~conj[k].dirty => /\ defs[conj[k].value].lat = conj[k].lat
                      /\ defs[conj[k].value].input = conj[k].input

(* No leaf is lost: at every moment some live conjunct is the leaf itself, *)
(* or validates the same input at least as strictly.                       *)
NothingLost ==
  \A n \in 1..next - 1 : \E k \in Live :
    \/ conj[k].value = leaves[n] /\ ~conj[k].dirty
    \/ /\ conj[k].input = defs[leaves[n]].input
       /\ \E a \in conj[k].lat, b \in defs[leaves[n]].lat : Subsumes(a, b)

(* The location of every leaf is part of the location of a live conjunct.  *)
LocationsCovered ==
  \A n \in 1..next - 1 : \E k \in Live : leaves[n] \in conj[k].loc

(* changed is what tells the driver a rewrite happened: it is set exactly  *)
(* when the tree shrinks, so a fold that reports success always leaves     *)
(* fewer leaves than it found and repeated folding cannot go on for ever.  *)
ChangedMeansSmaller ==
  changed <=> Cardinality(Live) < next - 1

(* String validations of one input that can be merged are merged by a      *)
(* single sweep: a merge that was refused stays impossible.                *)
StringsCollapse ==
  pc = "done" =>
    \A k, l \in Live : \A a \in conj[k].lat, b \in conj[l].lat :
      /\ k # l /\ a.kind = "string" /\ conj[k].input = conj[l].input
      => Meet(a, b) = {}

(* Whatever conjunct k ends up as is legal IR: a fused conjunct is emitted *)
(* as one validation, so its lattice passes the verifier.  The comment on  *)
(* StringLattice::meet says a meet is refused "when not representable as a *)
(* single schema.validate_string"; two bounds that exclude each other are  *)
(* merged all the same.                                                    *)
FusedVerifies ==
  pc = "done" =>
    \A k \in Live : conj[k].dirty => \A c \in conj[k].lat : Verifies(c)

(* What the README says of a finished fold: it "keeps every keyword's      *)
(* location in a FusedLoc".  The operation emitted for conjunct k carries  *)
(* the fused location only when it is materialized afresh.                 *)
EmittedLoc(k) == IF conj[k].dirty THEN conj[k].loc ELSE {conj[k].value}

LocationsKept ==
  pc = "done" => \A n \in 1..Len(leaves) : \E k \in Live : leaves[n] \in EmittedLoc(k)

(* A step never revives a dead conjunct, never moves one to another input, *)
(* and leaves every lattice at least as strict as it was.                  *)
OnlyStricter ==
  [][\A k \in 1..Len(conj) :
       /\ conj[k].dead => conj'[k].dead
       /\ conj'[k].input = conj[k].input
       /\ \A a \in conj'[k].lat, b \in conj[k].lat : a = b \/ Subsumes(a, b)]_vars

(* The sweep ends.                                                         *)
Terminates == <>(pc = "done")

=============================================================================
