--------------------------- MODULE Canonicalizer ---------------------------
(***************************************************************************)
(* schema-canonicalize on one function: the operations in the function's   *)
(* block, the rewrite patterns of the pass, and the greedy driver that     *)
(* applies them.  The driver is MLIR's; of it the module keeps what the    *)
(* pass relies on: a worklist processed in some order, dead pure           *)
(* operations erased, arith.andi folded, operations queued again when      *)
(* something about them changed, and rounds until one changes nothing or   *)
(* max-iterations is reached.                                              *)
(***************************************************************************)
EXTENDS Lattices, Selection

CONSTANTS Input,                 \* the !schema.value arguments
          Document,              \* the JSON values they may hold
          Value,                 \* SSA names: an initial segment of 1, 2, ...
          Programs,              \* the functions given to the pass
          MaxIterations,         \* the max-iterations option
          NormalizeConstraints   \* the normalize-constraints option

(* An operation has one i1 result and is named by it.  "arg" stands for    *)
(* whatever defines an i1 value the pass knows nothing of, "true" for      *)
(* arith.constant true.                                                    *)
Op ==
  [op : {"arg", "true"}, input : {{}}, lat : {{}}, args : {<<>>}]
  \cup [op : {"validate"}, input : Opt(Input) \ {{}}, lat : Opt(Lattice) \ {{}}, args : {<<>>}]
  \cup [op : {"and"}, input : {{}}, lat : {{}}, args : [1..2 -> Value]]
  \cup [op : {"struct"}, input : Opt(Input) \ {{}}, lat : {{}}, args : Seq(Value)]

(* A function with operations o in the order ord that returns r: the block *)
(* lists each operation once, an operand is defined before it is used.     *)
IsFunction(o, ord, r) ==
  /\ DOMAIN o \subseteq Value /\ o \in [DOMAIN o -> Op]
  /\ ord \in Seq(DOMAIN o) /\ IsInjective(ord) /\ ToSet(ord) = DOMAIN o
  /\ r \in Seq(DOMAIN o)
  /\ \A n \in DOMAIN ord : ToSet(o[ord[n]].args) \subseteq {ord[m] : m \in 1..n - 1}

ASSUME CanonicalizerAssumption ==
  /\ MaxIterations \in Nat \ {0} /\ NormalizeConstraints \in BOOLEAN
  /\ Value \subseteq Nat /\ Document \subseteq JsonValue /\ Document # {}
  /\ \A p \in Programs : /\ IsFunction(p.ops, p.order, p.ret)
                         /\ \A v \in DOMAIN p.ops : \A c \in p.ops[v].lat : Verifies(c)

VARIABLES
  program,    \* the function as it was given (history)
  ops,        \* the operations alive, by the value they define
  order,      \* their order in the block
  ret,        \* the operands of func.return
  worklist,   \* operations the driver has still to look at in this round
  rewritten,  \* something was rewritten in this round
  iteration,  \* the number of the round
  root,       \* the andi being folded
  leaves, conj, next, i, j, changed,   \* the fold of that andi
  pc          \* "idle", the fold's stages, "converged" or "failed"

ir     == <<program, ops, order, ret>>
driver == <<worklist, rewritten, iteration>>
fold   == <<root, leaves, conj, next, i, j, changed>>
vars   == <<program, ops, order, ret, worklist, rewritten, iteration,
            root, leaves, conj, next, i, j, changed, pc>>

(* classify() sees validations only; any other definition is opaque.       *)
Defs == [v \in Value |->
           IF v \in DOMAIN ops /\ ops[v].op = "validate"
           THEN [input |-> ops[v].input, lat |-> ops[v].lat]
           ELSE [input |-> {}, lat |-> {}]]

Fold == INSTANCE ConjunctFold WITH defs <- Defs, Trees <- {}

-----------------------------------------------------------------------------
(* The def-use graph.                                                      *)

Users(o, v)  == {u \in DOMAIN o : v \in ToSet(o[u].args)}
Places(s, v) == {k \in DOMAIN s : s[k] = v}
Uses(v) ==   \* as operand k of func.return, or of an operation
  ({{}} \X Places(ret, v)) \cup UNION {{{u}} \X Places(ops[u].args, v) : u \in DOMAIN ops}
HasOneUse(v) == \E use \in Uses(v) : Uses(v) = {use}
Unused(o, r, v) == Users(o, v) = {} /\ v \notin ToSet(r)

(* What every rewrite does to the driver: the operation it looked at, those *)
(* it created and those that use something new are queued again, and so    *)
(* are the operands of an erased operation that have at most one user left. *)
Requeue(touched, erased) ==
  LET orphans == {v \in UNION {ToSet(ops[e].args) : e \in erased} :
                    Cardinality(Users(ops, v) \ erased) =< 1}
  IN /\ worklist' = (worklist \cup touched \cup orphans) \cap DOMAIN ops'
     /\ rewritten' = TRUE
     /\ UNCHANGED iteration

Keep(dom) == [v \in dom |-> ops[v]]

Without(erased) == Selected(order, {n \in DOMAIN order : order[n] \notin erased})

(* Replaces every use of v by w in operations o and drops v.               *)
ReplaceIn(o, v, w) ==
  [u \in DOMAIN o \ {v} |-> [o[u] EXCEPT !.args = ReplaceAll(@, v, w)]]

-----------------------------------------------------------------------------
(* The driver tries, in this order: erasing a dead operation, folding it,  *)
(* and the patterns registered for its kind.                               *)

(* Bug: the validations are not Pure.                                      *)
Dead_Impure(o) == ops[o].op \in {"and", "true"} /\ Unused(ops, ret, o)

Dead(o) == ops[o].op # "arg" /\ Unused(ops, ret, o)

EraseDead(o) ==
  /\ Dead(o)
  /\ ops' = Keep(DOMAIN ops \ {o})
  /\ order' = Without({o})
  /\ Requeue({}, {o})
  /\ UNCHANGED <<program, ret, fold, pc>>

(* x && x and x && true are x; x && (x && y) is x && y. *)
FoldsTo(o) ==
  LET l == ops[o].args[1]
      r == ops[o].args[2]
  IN IF ops[o].op # "and" THEN {}
     ELSE IF l = r \/ ops[r].op = "true" THEN {l}
     ELSE IF ops[l].op = "true" THEN {r}
     ELSE IF ops[l].op = "and" /\ r \in ToSet(ops[l].args) THEN {l}
     ELSE IF ops[r].op = "and" /\ l \in ToSet(ops[r].args) THEN {r}
     ELSE {}

FoldAnd(o) ==
  /\ ~Dead(o)
  /\ \E v \in FoldsTo(o) :
       /\ ops' = ReplaceIn(ops, o, v)
       /\ ret' = ReplaceAll(ret, o, v)
  /\ order' = Without({o})
  /\ Requeue(Users(ops, o), {o})
  /\ UNCHANGED <<program, fold, pc>>

(* Neither dead nor foldable: the patterns for its kind are tried. *)
Tries(o, kind) == ~Dead(o) /\ FoldsTo(o) = {} /\ ops[o].op = kind

-----------------------------------------------------------------------------
(* FoldConjunctiveValidations.                                             *)

Interior(v) == \E u \in Users(ops, v) : ops[u].op = "and"

(* Bug: the tree is not flattened. *)
CollectConjuncts_Flat(v) == <<v>>

(* The leaves under v: an andi is entered only when it has a single use.   *)
CollectConjuncts(v) ==
  LET leavesOf[w \in DOMAIN ops] ==
        IF ops[w].op = "and" /\ HasOneUse(w)
        THEN leavesOf[ops[w].args[1]] \o leavesOf[ops[w].args[2]]
        ELSE <<w>>
  IN leavesOf[v]

StartFold(o) ==
  /\ Tries(o, "and") /\ ~Interior(o)
  /\ root' = o
  /\ leaves' = CollectConjuncts(ops[o].args[1]) \o CollectConjuncts(ops[o].args[2])
  /\ pc' = "classify"
  /\ worklist' = worklist \ {o}
  /\ UNCHANGED <<ir, rewritten, iteration, conj, next, i, j, changed>>

SweepStep ==
  /\ UNCHANGED <<ir, driver, root>>
  /\ Fold!FoldStep

ResetFold ==
  /\ root' = 0 /\ leaves' = <<>> /\ conj' = <<>>
  /\ next' = 1 /\ i' = 1 /\ j' = 2 /\ changed' = FALSE
  /\ pc' = "idle"

NothingRedundant ==
  /\ pc = "done" /\ ~changed
  /\ ResetFold
  /\ UNCHANGED <<ir, driver>>

Position(v) == CHOOSE n \in DOMAIN order : order[n] = v

(* The names of new operations: the free ones, in order. *)
Free(k) ==
  CHOOSE v \in Value \ DOMAIN ops : Cardinality((1..v) \ DOMAIN ops) = k

(* Bug: no insertion point is set, and the block's end is taken. *)
InPlaceOf_AtEnd(v, new) == Without({v}) \o new

InPlaceOf(v, new) ==
  SubSeq(order, 1, Position(v) - 1) \o new \o SubSeq(order, Position(v) + 1, Len(order))

(* The live conjuncts become the operands of a left-associated conjunction *)
(* put before the root; a dirty one is materialized there first.  Of the   *)
(* free names, conjunct k has the k-th, and the conjunction of the first k *)
(* conjuncts the k-th after those.  An \E over one value is a LET that is  *)
(* evaluated once.                                                         *)
Operand(live, name, k) == IF live[k].dirty THEN name[k] ELSE live[k].value

Joined(live, name, k) ==
  IF k = 1 THEN Operand(live, name, 1) ELSE name[Len(live) + k - 1]

Created(live) == {k \in DOMAIN live : live[k].dirty} \cup (Len(live) + 1..2 * Len(live) - 1)

CreatedOp(live, name, n) ==
  IF n =< Len(live)
  THEN [op |-> "validate", input |-> live[n].input, lat |-> live[n].lat, args |-> <<>>]
  ELSE LET k == n - Len(live)
       IN [op |-> "and", input |-> {}, lat |-> {},
           args |-> <<Joined(live, name, k), Operand(live, name, k + 1)>>]

WithCreated(live, name) ==
  [v \in DOMAIN ops \cup {name[n] : n \in Created(live)} |->
     IF v \in DOMAIN ops THEN ops[v]
     ELSE CreatedOp(live, name, CHOOSE n \in Created(live) : name[n] = v)]

RebuildFrom(live, name) ==
  \E with \in {WithCreated(live, name)}, new \in {Selected(name, Created(live))},
     result \in {Joined(live, name, Len(live))} :
    /\ ops' = ReplaceIn(with, root, result)
    /\ ret' = ReplaceAll(ret, root, result)
    /\ order' = InPlaceOf(root, new)
    /\ Requeue(ToSet(new) \cup Users(ops, root), {root})

Rebuild ==
  /\ pc = "done" /\ changed
  /\ \E live \in {Selected(conj, Fold!Live)} :
     \E name \in {[n \in 1..2 * Len(live) - 1 |-> Free(n)]} : RebuildFrom(live, name)
  /\ ResetFold
  /\ UNCHANGED program

-----------------------------------------------------------------------------
(* DropSubsumedStructValidators.                                           *)

(* Bug: the inputs are not compared. *)
StrongerValue_AnyInput(s, w) ==
  /\ s # w /\ ops[s].op = "validate" /\ ops[w].op = "validate"
  /\ \E a \in ops[s].lat, b \in ops[w].lat : StrictlyStronger(a, b)

StrongerValue(s, w) ==
  /\ s # w /\ ops[s].op = "validate" /\ ops[w].op = "validate"
  /\ ops[s].input = ops[w].input
  /\ \E a \in ops[s].lat, b \in ops[w].lat : StrictlyStronger(a, b)

(* The operands after the loop: each in turn gives way to the first one    *)
(* strictly stronger, the replacements made so far included.               *)
Updated(args) ==
  LET after[k \in 0..Len(args)] ==
        IF k = 0 THEN args
        ELSE LET u == after[k - 1]
                 stronger == {l \in DOMAIN u \ {k} : StrongerValue(u[l], u[k])}
             IN IF stronger = {} THEN u ELSE [u EXCEPT ![k] = u[Min(stronger)]]
  IN after[Len(args)]

(* The validations that were replaced and that nothing uses any more.      *)
Orphaned(with, args, updated) == {v \in ToSet(args) \ ToSet(updated) : Unused(with, ret, v)}

DropSubsumed(o) ==
  /\ Tries(o, "struct")
  /\ \E updated \in {Updated(ops[o].args)} :
     \E with \in {[ops EXCEPT ![o].args = updated]} :
     \E erased \in {Orphaned(with, ops[o].args, updated)} :
       /\ updated # ops[o].args
       /\ ops' = [v \in DOMAIN ops \ erased |-> with[v]]
       /\ order' = Without(erased)
       /\ Requeue({o}, erased)
  /\ UNCHANGED <<program, ret, fold, pc>>

-----------------------------------------------------------------------------
(* NormalizeStringConstraints and NormalizeNumberConstraints.              *)

(* Bug: any multiple_of is taken to be implied by integral. *)
Normalized_AnyMultiple(c) ==
  IF c.kind = "string" /\ c.minLength = {0} THEN [c EXCEPT !.minLength = {}]
  ELSE IF c.kind = "number" /\ c.integral /\ c.multipleOf # {}
       THEN [c EXCEPT !.multipleOf = {}]
  ELSE c

(* Bug: integral is also spelled as multiple_of 1, which is then dropped.  *)
Normalized_BothWays(c) ==
  IF c.kind = "string" /\ c.minLength = {0} THEN [c EXCEPT !.minLength = {}]
  ELSE IF c.kind = "number" /\ c.integral /\ c.multipleOf \in {{}, {One}}
       THEN [c EXCEPT !.multipleOf = {One} \ @]
  ELSE c

Normalized(c) ==
  IF c.kind = "string" /\ c.minLength = {0} THEN [c EXCEPT !.minLength = {}]
  ELSE IF c.kind = "number" /\ c.integral /\ c.multipleOf = {One}
       THEN [c EXCEPT !.multipleOf = {}]
  ELSE c

Normalize(o) ==
  /\ NormalizeConstraints /\ Tries(o, "validate")
  /\ \E c \in ops[o].lat :
       /\ Normalized(c) # c
       /\ ops' = [ops EXCEPT ![o].lat = {Normalized(c)}]
  /\ Requeue({o}, {})
  /\ UNCHANGED <<program, order, ret, fold, pc>>

-----------------------------------------------------------------------------
(* An operation to which nothing applies leaves the worklist.              *)
NoMatch(o) ==
  /\ ~Dead(o) /\ FoldsTo(o) = {}
  /\ ops[o].op = "and" => Interior(o)
  /\ ops[o].op = "struct" => Updated(ops[o].args) = ops[o].args
  /\ ops[o].op = "validate" /\ NormalizeConstraints =>
       \A c \in ops[o].lat : Normalized(c) = c
  /\ worklist' = worklist \ {o}
  /\ UNCHANGED <<ir, rewritten, iteration, fold, pc>>

Visit(o) == \/ EraseDead(o) \/ FoldAnd(o) \/ StartFold(o)
            \/ DropSubsumed(o) \/ Normalize(o) \/ NoMatch(o)

(* The end of a round: if it rewrote nothing the pass is done, otherwise   *)
(* there is another one, or a failure when the option allows no more.      *)
RoundOver == pc = "idle" /\ worklist = {}

Converge ==
  /\ RoundOver /\ ~rewritten
  /\ pc' = "converged"
  /\ UNCHANGED <<ir, driver, fold>>

NextRound ==
  /\ RoundOver /\ rewritten /\ iteration < MaxIterations
  /\ worklist' = DOMAIN ops /\ rewritten' = FALSE /\ iteration' = iteration + 1
  /\ UNCHANGED <<ir, fold, pc>>

GiveUp ==
  /\ RoundOver /\ rewritten /\ iteration = MaxIterations
  /\ pc' = "failed"
  /\ UNCHANGED <<ir, driver, fold>>

Init ==
  /\ program \in Programs
  /\ ops = program.ops /\ order = program.order /\ ret = program.ret
  /\ worklist = DOMAIN ops /\ rewritten = FALSE /\ iteration = 1
  /\ root = 0 /\ leaves = <<>> /\ conj = <<>>
  /\ next = 1 /\ i = 1 /\ j = 2 /\ changed = FALSE /\ pc = "idle"

Next ==
  \/ pc = "idle" /\ \E o \in worklist : Visit(o)
  \/ SweepStep \/ NothingRedundant \/ Rebuild
  \/ Converge \/ NextRound \/ GiveUp

Spec     == Init /\ [][Next]_vars
FairSpec == Spec /\ WF_vars(Next)

-----------------------------------------------------------------------------
(* Verdicts of a function with operations o and returned values r.         *)

Args   == {v \in DOMAIN program.ops : program.ops[v].op = "arg"}
Inputs == UNION {program.ops[v].input : v \in DOMAIN program.ops}
Env    == [doc : [Inputs -> Document], arg : [Args -> BOOLEAN]]

(* What an operation that defines v says itself, and with its operands.    *)
Own(op, v, e) ==
  /\ op.op = "arg" => e.arg[v]
  /\ op.op = "struct" => \A x \in op.input : e.doc[x].kind = "object"
  /\ \A c \in op.lat, x \in op.input : Accepts(c, e.doc[x])

Verdict(o, r, e) ==
  LET holds[v \in DOMAIN o] ==
        /\ Own(o[v], v, e)
        /\ \A k \in DOMAIN o[v].args : holds[o[v].args[k]]
  IN [k \in DOMAIN r |-> holds[r[k]]]

Verdicts(o, r) == [e \in Env |-> Verdict(o, r, e)]

(* How heavy a function is: its operations the result depends on, and the  *)
(* constraints they carry.                                                 *)
Reachable(o, r) ==
  LET below[v \in DOMAIN o] == {v} \cup UNION {below[a] : a \in ToSet(o[v].args)}
  IN UNION {below[v] : v \in ToSet(r)}

Constraints(c) ==
  IF c.kind = "string"
  THEN Cardinality(c.minLength) + Cardinality(c.maxLength)
       + Cardinality(c.pattern) + Cardinality(c.format)
  ELSE Cardinality(c.minimum) + Cardinality(c.maximum)
       + Cardinality(c.multipleOf) + (IF c.integral THEN 1 ELSE 0)

Weight(o, r) ==
  MapThenSumSet(LAMBDA v : 1 + MapThenSumSet(Constraints, o[v].lat), Reachable(o, r))

Validations(o) == {v \in DOMAIN o : o[v].op = "validate"}

(* The difference of the counts before and after the pass. *)
ValidationsRemoved ==
  Cardinality(Validations(program.ops)) - Cardinality(Validations(ops))

-----------------------------------------------------------------------------
(* The variables have their types, and the block stays a function: every   *)
(* operation is listed once, every operand is defined before its use.      *)
TypeOK ==
  /\ worklist \subseteq DOMAIN ops /\ rewritten \in BOOLEAN
  /\ iteration \in 1..MaxIterations
  /\ pc \in {"idle", "classify", "sweep", "done", "converged", "failed"}

WellFormedIR == TypeOK /\ IsFunction(ops, order, ret)

(* Every rewrite keeps every verdict the function returns, on every        *)
(* document; so also a function the pass gives up on is a correct one.     *)
VerdictKept ==
  pc \in {"idle", "converged", "failed"} => \A e \in Env : Verdict(ops, ret, e) = Verdict(program.ops, program.ret, e)

(* A converged function is in normal form: the leaves of a conjunction are *)
(* distinct and no two of them have a meet, no operand of a struct is      *)
(* strictly weaker than another, and nothing dead is left.  A conjunction  *)
(* is an andi no andi uses, with the single-use andis under it; its leaves *)
(* are distinct when there is one more of them than of its andis.          *)
Mergeable(v, w) ==
  /\ v # w /\ ops[v].op = "validate" /\ ops[w].op = "validate"
  /\ ops[v].input = ops[w].input
  /\ \E a \in ops[v].lat, b \in ops[w].lat : Meet(a, b) # {}

Andis(v) ==
  LET under[w \in DOMAIN ops] ==
        {w} \cup UNION {under[a] : a \in {b \in ToSet(ops[w].args) :
                                             ops[b].op = "and" /\ HasOneUse(b)}}
  IN under[v]

Leaves(v) == (UNION {ToSet(ops[w].args) : w \in Andis(v)}) \ Andis(v)

NormalForm ==
  pc = "converged" =>
    \A v \in DOMAIN ops :
      /\ ops[v].op # "arg" => Users(ops, v) # {} \/ v \in ToSet(ret)
      /\ ops[v].op = "and" /\ (\A u \in Users(ops, v) : ops[u].op # "and") =>
           /\ Cardinality(Leaves(v)) = Cardinality(Andis(v)) + 1
           /\ \A l, m \in Leaves(v) : ~Mergeable(l, m)
      /\ ops[v].op = "struct" =>
           \A s, w \in ToSet(ops[v].args) :
             Mergeable(s, w) => \A a \in ops[s].lat, b \in ops[w].lat :
               ~StrictlyStronger(a, b)

(* "Number of `schema` validation operations eliminated"                   *)
(* (SchemaCanonicalizerPass.cpp:636): what the pass adds to the unsigned   *)
(* statistic validations-removed is a count, unless two values of the      *)
(* function had a second use.  Then validations may stay alive beside the  *)
(* one they were merged into, and the statistic goes down.  The operations *)
(* of an imported function have one use each.                              *)
SharedValues ==
  {v \in DOMAIN program.ops :
     /\ program.ops[v].op \in {"validate", "and"}
     /\ Cardinality(Places(program.ret, v))
        + MapThenSumSet(LAMBDA u : Cardinality(Places(program.ops[u].args, v)),
                        DOMAIN program.ops) > 1}

EliminatedIsACount ==
  pc = "converged" => ValidationsRemoved \in Nat \/ Cardinality(SharedValues) > 1

(* The pass comes to an end, and within max-iterations.                    *)
Converges == <>(pc = "converged")

(* A rewrite that is done leaves the verdict alone and makes the function  *)
(* lighter: on trees the pass implements Rewriting, which is why no order  *)
(* in which the driver applies the patterns goes on for ever.              *)
Promise == INSTANCE Rewriting WITH
             verdict <- Verdicts(ops, ret),
             weight  <- Weight(ops, ret)

KeepsPromise == Promise!Spec

=============================================================================
