# A TLA+ development of json-schema-mlir

json-schema-mlir compiles JSON Schema documents into native validators: a front
end imports a schema into an MLIR dialect with one operation per keyword,
`schema-canonicalize` merges the operations that constrain the same value, and
`lower-schema-to-std` replaces them by calls to a small runtime. What has to be
right is the same at each stage: *the verdict on every JSON document survives*.
The modules in this directory model the way of a schema from the characters of
its document to lowered code, TLC checks them on small instances, and TLAPS
proves the results that matter most for every value of the constants. Line numbers below are those of `src/`.

## 1. Inventory

| Component | Source | State | Operations | Modelled |
| --- | --- | --- | --- | --- |
| Dialect | `include/Schema/SchemaOps.td`, `lib/Schema/SchemaOps.cpp`, `SchemaDialect.cpp` | attributes of `validate_string`, `validate_number`, `struct` | verifiers | `SchemaOps`, parts of `Importer` and `Lowering` |
| Constraint lattices | `lib/Schema/SchemaCanonicalizerPass.cpp` 78-312 | none | `subsumes`, `meet`, `strictlyStronger` | `Lattices` |
| Conjunction fold | same file, 313-493 | the array of conjuncts, their `dead` and `dirty` flags, `changed` | classify, deduplicate, absorb, rebuild | `ConjunctFold`, `Canonicalizer` |
| Canonicalizer pass | same file, 400-690 | the function's operations and use lists; the driver's worklist and round counter | fold, drop subsumed struct validators, normalize, dead-code removal, statistics | `Canonicalizer`, `Rewriting` |
| Lowering | `lib/Schema/LowerToStandard.cpp`, `include/Schema/SchemaPasses.h` | the module, the string pool of a run, the attribute `schema.string_pool` | one conversion pattern per operation, interning, runtime declarations | `Lowering` |
| Importer | `lib/Schema/Import/Importer.cpp`, `AST.h` | the calls under way, arguments by instance path, operations, diagnostics | `collectKind`, `importSchema`, `importObject`, `emitKeyword`, `checkBounds` | `Importer`, `SchemaAST` |
| Parser | `lib/Schema/Import/Parser.cpp` | current token, depth, ids, `failed`, the place of the last diagnostic | recursive descent with recovery and two depth limits | `Parser`, `SchemaGrammar` |
| Lexer | `lib/Schema/Import/Lexer.cpp` | position, `failed` | tokens, escapes, surrogates, numbers, comments | `Tokens`, `Lexer` |
| Translation | `lib/Schema/Import/Translation.cpp` | what each stage produced so far | chains the stages, `--dump-tokens`, `--dump-ast`, `--emit-trace` | `FrontEnd` |
| Trace | `lib/Schema/Import/Trace.cpp` | tokens and nodes by line and column | nodes of an operation, diagnostics, stages | `FrontEnd`, without the JSON layout |
| Mojo lattice | `mojo/schema/lattice.mojo` | none | the lattices a second time, and `validate` | `MojoLattice` |
| Tools, build, tests | `tools/`, `test/`, `CMakeLists.txt` | | registration, drivers | no |
| Runtime | not in the repository | | kind, number, length, match, format, field | external, from the calls the lowering emits |

The stages run one after the other in one thread and talk through data: the
parser's tree goes to the importer, the importer's module to the canonicalizer,
the canonical module to the lowering. What makes them hard is not
concurrency:

* **Order.** MLIR's greedy driver and its dialect conversion choose the order in
  which patterns are applied, to operations that did not exist when the pass
  began. Nothing in the code fixes that order; every order has to give an
  equivalent function.
* **Stale state.** A conjunct is described by an SSA value, a lattice and a flag
  that says whether the first still expresses the second; a decision to fold is
  taken from the use lists of the moment; string ids point into a table that a
  later run of the pass replaces.
* **Termination.** Patterns that rebuild what they match can feed each other.
* **Partial failure.** Lexer, parser and importer go on after an error and leave
  tokens, trees and operations behind; the canonicalizer may stop at
  `max-iterations` half way.
* **Recovery.** After a syntax error the parser has to find the separator of the
  bracket it is in, in a document whose brackets need not match.
* **Arithmetic.** Inclusive and exclusive bounds at one number, divisors of
  divisors, divisions of doubles that round.

`PROJECT.json` lists every hazard at its line, with the property aimed at it or
the reason there is none yet.

What makes each component correct:

* lattices: a meet accepts exactly what both operands accept; subsumption is
  sound;
* fold: no leaf is lost, no constraint weakened, the value rebuilt is current,
  success is reported exactly when something shrank;
* canonicalizer: every rewrite keeps every returned verdict, the block stays
  well formed, the pass converges, and what it converges to is the normal form
  the README of the repository describes;
* lowering: what is lowered answers what the schema operation answered, and its
  ids mean what they meant when they were emitted;
* lexer: the tokens and what may be ignored make up the whole text, each token is
  what RFC 8259 reads there, each fault is reported once, where it is;
* parser: it accepts exactly the schema documents, returns the tree they mean,
  and recovers in the bracket of an error, with a bounded stack;
* translation: the exit status is success exactly when what was asked for was
  printed and nothing was reported; the module printed decides the document;
* importer: a schema imported without errors is decided by the function; each
  instance location has one argument; an error is justified.

## 2. The modules

```
SchemaOps ── Lattices ── ConjunctFold ── ConjunctFoldProofs
    │            │  │        └── MojoLattice ──┘
    │            │  └─ LatticeProofs (used by both)
    │            └─ Canonicalizer ── (Selection; INSTANCE ConjunctFold, Rewriting)
    │                   └── CanonicalizerProofs ── (INSTANCE ConjunctFoldProofs; DataLemmas)
    ├─ Lowering ── LoweringProofs
    │              ┌── ImporterProofs ── (DataLemmas)
    └─ SchemaAST ── Importer ── (Selection) ────┐ INSTANCE
           └──────── Parser ── SchemaGrammar ── FrontEnd ── FrontEndProofs
              Tokens ──┤ └ ParserProofs ────────│──────────────┘ (DataLemmas)
                       └──── Lexer ─────────────┘
```

Conventions throughout: an optional attribute is a set with at most one element.
A double is an integer key (the order of the doubles is all that bounds need),
and what the machine computes for `x / m` is given by three relations, `Integral`
(the quotient is its own `trunc`), `Vanishing` (it is zero) and `Overflowing` (it is
infinite), so that an instance may choose exact or rounding division, and divisors at
the edge of the range. A pattern or format is an opaque name; a
string value has a length and the sets of patterns and formats it matches.

**SchemaOps** holds the attributes of the two validations, their verifiers, and
the verdict `Accepts` on a JSON value.

**Lattices** is `StringLattice` and `NumberLattice`: `Subsumes`, `Meet` (empty
when the code returns `nullopt`), `StrictlyStronger`. The formula
`DivisionExact` names what exact arithmetic guarantees about divisors.

**ConjunctFold** is `FoldConjunctiveValidations::matchAndRewrite` on the leaves
of one `andi` tree, one action per step of its loops: `Classify` and
`Deduplicate` for the loop over leaves, `NextDst`, `SkipSrc` and `Absorb` for the
pair loops (`i`, `j` are `dst` and `src`). `conj` is the `SmallVector<Conjunct>`,
with the code's `dead`, `dirty`, `value` and `loc`.

**MojoLattice** is the Mojo library's lattices, written as they stand there, and
the comparison with `Lattices` on any two lattices the fold meets.

**Canonicalizer** is the whole pass on one function: operations in SSA form,
their block order, the returned values. `StartFold` is the part of
`matchAndRewrite` before the loops, the steps of the fold are those of
`ConjunctFold` by instance, `Rebuild` is the part after them.
`DropSubsumed` and `Normalize` are the other patterns. The driver is MLIR's and
external: a worklist taken in any order, dead pure operations erased, `andi`
folded, the operations whose uses changed queued again, rounds until one changes
nothing or `max-iterations` is reached (`Converge`, `NextRound`, `GiveUp`).

**Rewriting** is the abstract promise of the pass: the verdict never changes,
and each rewrite makes the function lighter. `KeepsPromise` states that the
canonicalizer implements it, the verdict being the truth value of every returned
value in every environment, and the weight counting live operations and
constraints.

**Lowering** is `lower-schema-to-std` on one module, run any number of times
with functions joining the module between runs (`Link`). `LowerNumber`,
`LowerString` and the steps of a struct are the conversion patterns; `Intern` is
`StringPool::intern`; `Finish` leaves the attribute. The emitted code is a set
of checks under a guard on the kind, and `StdVerdict` evaluates it.

**Importer** is `importSchema` and `importObject` with the recursion made
explicit: `stack` has a frame per schema being imported, `at` says which loop the
frame is in. `CollectKind` is the pass over a conjunction before anything is
emitted. Errors are reported and the import goes on, as in the code; `Finish`
verifies the module. Property names are sequences of characters because paths
are escaped; every other string is a name. Schemas satisfy what the parser
guarantees (`SchemasAssumption`). **SchemaAST** is the tree they are given as.
**Selection** goes through a sequence and keeps the members at given positions:
the required names an object declares, the conjuncts still alive after a fold.

**Tokens** holds the token stream and the positions in it, shared by the lexer
and the parser. **Lexer** makes one token per step (`LexToken`), its scanning
functions being operators over the text; the four digits of a `\u` escape are
one character, and so are the bytes of a UTF-8 character. What RFC 8259 says is
defined beside it without scanning: `Readings` gives the tokens a piece of text
may be, `Spelled` the values of a string, `Ignorable` white space and comments.

**Parser** is the recursive descent with one frame per bracket being parsed
(`stack`) and `call` for the function that looks at the current token next; one
action per branch of each function, a skip to a separator being part of the
action that asks for it. `nodes` holds every node made, also those of keywords
that are refused later, because ids count them. `Schema` is what the importer
reads off the tree. **SchemaGrammar** says what a schema document is, as a grammar of
token spans without a parse, and the tree it means (`Meaning`).

**FrontEnd** is `importJsonSchema`: the lexer, the parser and, by instance, the
importer run one after the other, with the options that stop early. What the
parser is given are the tokens the lexer made, and what the importer is given is
the tree the parser made: what one module assumes, the run shows the other
to provide (a stream that ends with `eof`; `WellFormedSchema`). The copy of the module canonicalized for a trace succeeds
or fails; `WriteTrace` finds the nodes of each operation by line and column.

## 3. What is model-checked

| Run | What it asks | Instance |
| --- | --- | --- |
| `FoldTrees` | Does the fold keep the verdict, stay current, lose nothing, never weaken, merge all strings in one sweep, set `changed` exactly when the tree shrinks, fuse the locations, end? Does the Mojo library agree on all lattices met? | every assignment of 8 string or 8 number lattices to three leaves of one input, with and without a repeated leaf; 5 definitions, two inputs, both kinds and opaque leaves in trees of up to four values; trees whose divisors are 0.5 and the greatest double |
| `CanonFunctions` | In every order of rewriting: same verdicts, normal form, convergence within three rounds; when can the statistic go down? | conjunctions of three operands out of seven, both ways of putting them in brackets; functions in which a leaf is repeated, a conjunction shared, one, two or three of the conjoined validations also returned |
| `CanonStructs` | Does the block stay well formed, and does each step implement `Rewriting`, also when the pass gives up? | object schemas over three verdicts, with a conjunction as an operand; `max-iterations` 1 |
| `LowerModule` | Do lowered operations answer what the schema operations did, is the table exact, do ids keep their meaning? | 300 modules of two validations, a struct and a fourth operation, lowered in every order, again, and after a function without literals joined |
| `ImportSchemas` | Does an import without errors decide the schema, with one argument per location, and are the errors justified? | 1775 schemas: two keywords under each type, `allOf` in `allOf`, objects with property names that are hard to keep apart, the same location through two branches, properties, required or not, whose schema is a conjunction; instances that leave out any set of properties |
| `FrontEnd` | Are the tokens those of RFC 8259? Does the parser accept exactly the schema documents, return what they mean and recover in the right bracket? Does the module decide the document, and the exit status tell what happened? Does the tool end? | 15 603 texts and options, see below |

Six more runs show where the code does not do what its documentation says; see
section 6.

**Instances.** An instance of the importer's runs (`Instance`) gives every location
of the schema a value and leaves out any set of properties, required or not, of
the object or of an object in it. A property that is left out is missing for JSON
Schema (`Valid`) and for the imported function (`Verdict`): `validate_struct` is
taken at its word, by which a missing property that is not required is vacuously
valid (`SchemaOps.td:113-114`). So `DecidesSchema` and `DecidesDocument` say that the
importer chose the right operations of the dialect, for objects with and without
each property. That the *lowering* of the struct does not honour the word is the subject
of `LowerOptional`. `ContradictionReal` speaks of the instances that have a value
at the schema where the contradiction is reported (`HasValue`): a contradiction under an
optional property leaves `{}` valid, and the importer refuses the schema all the
same, as its message, "no value satisfies both", has it of that value.

**Bounds.** A meet looks at two lattices, so three leaves show a meet of a meet
and every order of two absorptions; four show a pair that is looked at after an
unrelated one. The lattices cover every attribute absent, present, equal and
different, both exclusive flags at an equal bound, divisors that divide each
other and that do not. The documents of `FoldTrees` hold a value on each side of every bound.
One double is the greatest there is: divided by 0.5 it overflows, and both
libraries refuse the infinite quotient. It is a divisor only in trees whose other
divisor is 0.5: among those the division is as exact as `DivisionExact` asks.
In the canonicalizer an operation refers to others only through its operands and
users; the functions have a leaf, a conjunction and a validation with two users,
of which one may be a struct or the return. SSA names are reused when free, so the twelve
names are never exhausted. The lowering interns at most four literals, more than
one operation needs, with a pattern and a property that are the same literal.
The schemas of the importer have at most four nodes: a node, its branch, the
branch of that, and a sibling.

The texts of `FrontEnd` are of two kinds. For the lexer: every sequence of up to
four characters out of sign, zero, one, point, exponent, plus and a letter;
strings of up to two pieces out of all escapes that matter (a plain one, a wrong
one, missing digits, every boundary of the surrogate ranges), of up to three out
of a surrogate of each kind, a backslash and a letter, closed or not; comments,
slashes, stars, line ends and the byte order mark in every order up to three, with and
without `--allow-comments`. For the rest: documents that use every keyword, kind
of bracket and kind of value, with any token cut, all tokens from a place on cut,
and any of ten tokens put; in a small document brackets and commas are cut and
put at two places, so that one error is met while the parser recovers from another.
`MaxDepth` is 2: the documents nest one level above, at and below the limit, in
schemas and in skipped values; a property given twice at the limit makes the deepest stack
`StackBounded` allows. Every option is tried on the unchanged documents
and on a few changed ones. `MaxExactInteger` is the double 4.0, with 4.0 and 5.0
among the lengths.

**Deadlock.** The fold, the canonicalizer, the import and the front end stop, so their runs do
not ask for a next step. The lowering can always be run again, and is checked
for deadlock.

**Fairness.** `Terminates`, `Converges` and `Ends` assume `WF_vars(Next)` and nothing
else: the program is one sequential program that runs until it returns. No
particular rewrite is assumed to be taken; convergence holds in whatever order
the driver works.

**Not asked.** `NormalForm` is about a conjunction as the fold sees it, an `andi`
no `andi` uses with the single-use ones under it; a conjunction used by two other
conjunctions is folded neither by itself nor with them. `DiagnosedFirst`
excepts an empty `title`: the struct is named by it and the verifier refuses
the module without an error at a keyword. `RecoversInBracket` is asked of
documents whose brackets match and whose nesting the depth limit does not cut: at
the limit `skipNested` called on a closing bracket swallows what follows.

## 4. What is proved

All proofs are for arbitrary values, inputs, documents, trees and modules.

*LatticeProofs.* `MeetExact`: the meet accepts exactly what both sides accept.
`SubsumesSound`: what the stronger side accepts, the weaker one does. Both under
`DivisionExact`, since for doubles whose quotient rounds neither holds in
general. Further lemmas: subsumption is transitive, a meet is at least as strict
as its operands, and meets keep divisors positive.

*ConjunctFoldProofs.* The fold keeps its types (`FoldTypeOK`), a live clean
conjunct is expressed by its SSA value (`FoldCleanMeansCurrent`), the verdict
survives every step (`FoldVerdictPreserved`), every leaf stays covered
(`FoldNothingLost`), no step weakens a conjunct (`FoldOnlyStricter`); the last
three under `DivisionExact`. `CleanMeansCurrent` is not inductive: when `Absorb`
adopts the value of `conj[j]` it needs that one clean, although nothing in its
guard says so. The invariant (`FoldInvariant`) adds that only conjuncts the sweep
has reached are ever dirty, that a dirty one has a lattice, and that divisors
are positive because the verifier saw every leaf. With it, and without
`DivisionExact`: every location is in a live conjunct (`FoldLocationsCovered`,
which needs that a conjunct always has the location of its own value, also one it
adopted), and `changed` is set exactly when conjuncts are fewer than leaves
(`FoldChangedMeansSmaller`, by counting: a leaf looked at is a live conjunct, or was
dropped or absorbed). One sweep is enough for strings (`FoldStringsCollapse`): a
pair of string conjuncts the sweep has looked at and left alone has no meet, and
a meet that is refused stays refused when either side is met with a third,
since only patterns and formats refuse one and a meet keeps them. For
numbers that is false: `multipleOf` 4 refuses 6 and then becomes 12, which does not.
`LatticesAgree`: subsumption, meet and equality of the Mojo library are those of the
compiler, for every two lattices of one kind whose divisors are positive; and on every value
of that kind `validate`, where it does not raise for a pattern or a format, answers as the compiled
validator does, and a lattice `is_vacuous` calls vacuous accepts the value. The
quotients both refuse are part of it: those that round to zero and those that are infinite.
`FoldMojoAgrees`: on any two lattices the fold meets, for every tree, with the
invariant of the fold.

*CanonicalizerProofs.* `CanonicalizerWellFormedIR`: in every order of rewrites, for every
function the verifier accepts, the block lists every operation once, an operand
is defined before its user, and what is returned is there.
`CanonicalizerVerdictKept`: the function answers on every instance what the
function answered that the pass was given, also when the pass gives up; under
`DivisionExact`. The order of definitions is what makes a verdict
well defined, so the first is the ground of the second: a value holds or not by
recursion along operands, and `BlockRecursion` gives that recursion a solution,
`BlockInduction` shows it to be the only one. The invariant `IInv` says, beside
the types, that divisors are positive and every input is one the original
function has (`Sound`), and, while a conjunction is being folded, that its root is
still an `andi`, that the leaves collected are defined before the root and say
together what it says (`Gathered`: the recursion of `collectConjuncts` looks
through conjunctions used once), and that the fold satisfies its own
invariants. The theorems of *ConjunctFoldProofs* are used for the fold inside the
pass, through an instance in which the definitions the fold reads are those of the
block; its assumptions are proved of that instance (`FoldAssumptions`). `Rebuild`
is where most can go wrong: operations created before the root, some for
conjuncts and some for their conjunctions, named by the free names in order
(`FreshNames`), used by each other, and put in the root's place (`RebuildSupplies`).
`CanonicalizerNormalForm`: when the driver stops by itself, nothing is left that the
patterns could merge, drop or normalize, in whatever order it worked. A worklist
does not look at everything again: what was looked at in vain stays out of it while
other operations change around it. The invariant (`NInv`) says that every
operation outside the worklist is `Quiet`: a fold started at it would change
nothing. Two things carry it. A fold that changes nothing met nothing, which the fold
itself shows (`NothingToFold`: conjuncts left alone are pairwise without a meet in either order,
`RefusedBothWays`); and a rewrite that touches none of the operations collected under a
conjunction leaves its fold as it was (`Untouched`), while whatever it touches is
queued. It needs no `DivisionExact`. All three theorems take `Value = Nat \ {0}`: SSA
names do not run out in the compiler, whereas an instance for TLC has twelve.

*ImporterProofs.* `ImporterTreeShaped`: for every set of parsed schemas, each
operation of an imported function has exactly one user, made after it, except the
returned one, which has none. So the canonicalizer sees every conjunction of an
imported function whole. While the import runs an operation may have no user
yet; the invariant (`Tree`) says that it then has a *holder*: each operation made is
an operand of one later operation, or a conjunct or verdict of one call under way,
or what the function returns, and is that only once (`OneHolder`). An operation made takes
operands from the innermost call alone, which holds it instead (`TakeHolder`);
a chain of `andi` takes all the call holds (`JoinHolder`); a call that returns
passes the one operation it is left with to its caller (`PopHolder`).
`ImporterDiagnosedFirst`: an import that the verifier would refuse has reported
an error, unless a title is empty. Its invariant (`Diagnosed`) says, as long as there is no
error, that every operation made is one the verifier takes, and for every call that
its divisors were checked before its keywords are emitted, that its fields are
the names of the properties entered so far, none empty, and that a verdict is
missing for the last of them exactly while its call is under way. That no two
fields are alike and that what is required is declared once comes from the
parser and the selection.
`ImporterOneArgumentPerPlace`: two operations look at one argument exactly when
their schemas are of the same location of the instance. The importer compares
strings, JSON pointers; so the proof has to take a pointer apart again. Escaping is
injective and leaves no `/` in a name, a pointer can be split before its last `/` in one way
only, hence different locations have different pointers (`PathInjective`).
`Place`, which is recursive from the root, is shown to have a value (`PlaceIs`),
and the invariant (`Placed`) says that every argument, call and operation is at the
pointer of its schema's place.
`ImporterContradictionReal`: when a contradiction between types is reported at a schema,
every instance that has a value there is refused; whatever else it leaves out,
and every instance at all when the schema is the root or one of its branches. `CollectKind` is a recursion over the branches
within a recursion over the nodes; both are shown to have one solution
(`CollectIs`). Whether an instance agrees with every type named in a
conjunction is the greatest set closed under branches (`Agree`), and an agreeing
instance is of the kind collected, with no contradiction (`AgreeKnows`). The
invariant (`Borne`): while there is an instance that satisfies the root, every
schema being imported whose place has a value in it (`HasValue`) is satisfied there, the value being
of the kind the call was given; and a contradiction is reported only at
the place of a schema whose kind is being collected (`ContradictsAt`), where a valid instance has no value.
`ImporterNeedsTypeReal`: a keyword refused for want of a type belongs to a conjunction
in which no schema names one. What the import knows at a node comes from
above and from branches before it, what the property speaks of also from those after; the
collection at the top of the conjunction has seen them all (`AnyIsBare`), and a
node under a bare one is bare (`BareBelow`). The invariant (`Open`) says it of every call
without a kind and of every error so far.
`ImporterDecidesSchema`, the property the importer is for: when a module is handed out,
its function answers of every instance, whichever properties it leaves out, what JSON Schema says. `Valid` and
`Verdict` are recursions that need not have an answer on every graph; each has one as a
fixed point of a monotone step (`FixedPoint`), and the theorem is shown of any
solution of the first against any of the second, so nothing depends on which one is chosen. Within a
call the conjuncts say too little: a keyword that applies to another kind has been
dropped, and a type that a sibling names is not tested again. The invariant
(`Decided`) says what is nevertheless true of the conjuncts of each call, as long as there is no error:
together they hold only of an instance that has the types seen so far, and, of an
instance of the kind the call was given, exactly of those that satisfy the types,
keywords, properties and branches seen so far (`Means`). The struct asks its operands by the names it collected, so the invariant also
holds that these are the names of the properties seen, in order (`Tallied`). At the root and at a property the
kind is what the schema itself gives, so an instance of another kind fails both
sides, and the verdict is exact (`EndDecides`); at a branch it is as good
as the caller needs (`CallerMeans`). That the schemas named one type or none follows from the
absence of errors (`Clean`), not from the parser.

*DataLemmas.* Facts about sequences, sets of numbers and recursive functions that
the other proofs need: concatenation, splicing and flattening, the k-th number
outside a finite set, that a function defined by recursion along a rank
exists and is unique, induction along a rank (`RankInduction`), and that a
selection keeps the order and repeats nothing.

*ParserProofs.* `ParserStackBounded`: for every stream of tokens, a document or
not, and every `kMaxDepth`, the recursion is at most twice `kMaxDepth` and one
deep. The limit is not a limit on the stack: it is a number that six functions
hand to each other, and the statement needs to know which of them adds a level.
The invariant (`ParserInvariant`) says that a bracket parsed at depth d is at
most the (2d + 1)-th when it is a schema's, the next when it is a keyword's, and one
more when it is in a value that is skipped, and bounds the stack by the depth
in every call before the bracket is opened. Nothing is assumed of the tokens.
`ParserNodesNest`: ids are in the order of the text, children lie in their
parent and siblings follow each other, also in the partial tree of a document with
errors, wherever a value is skipped, a keyword dropped or a bracket left open.
Ids are given when a node is made, ends when its value is over, and children
when the parser returns, so the statement about the finished tree says nothing of
the tree while it grows. The invariant (`ParserGrown`) does: every node belongs
to a bracket under way, or to the keyword or property that bracket awaits, or is
done, ends before the current token and holds its children (`Nested`). The
brackets' nodes increase along the stack, a keyword's bracket has the node the schema
around it awaits and any other lies after it (`Ordered`), so the node that is adopted is
always the last one open and begins after all its parent has. While a keyword is
parsed its node is still to be made, at a token the parser has passed; the tree
is then said to reach only that key. The hypothesis is about the tokens: they follow
each other, none is empty but `eof`, and `eof` is the last (`LaidOut`), which
*FrontEndProofs* shows of the lexer; the theorem also shows that the
parser then never reads past `eof` (`index` stays in range, skipping ends).
`ParserFailureReported`: a parse that failed has reported an error, or there is an
error token, which the lexer reported; a parse that did not fail has a root. The
invariant is `Told`.

*FrontEndProofs.* The lexer, the parser and the stages after them, as one
program, for every text and all options. The invariant (`FInv`) joins that of the lexer (`LexInv`), those of
*ParserProofs*, and what each stage leaves to the next. `FrontEndLaysOut`: the tokens the
parser is given are `LaidOut`; with it `FrontEndNodesNest` and `FrontEndStackBounded` hold of the
whole program without a hypothesis. `FrontEndOneReport`: the lexer has as many
reports as error tokens, the k-th of the one within the k-th of the other
(`Reported`; the statement counts, so the proof needs that the error tokens before
an error token are fewer). `FrontEndPositionsResolve`: line and column of every position
lead back to its offset; a position in a line is said by where the line starts and where
the next one does (`Located`), which is kept character by character.
`FrontEndExitStatus`: success means that what was asked for was printed and nothing
was reported. Its invariant (`Verdict`) says of each stage what the ones before
have left undone; it needs that a lexer error reaches the parser as a token
(`Told`) and that an import with an error hands out no module (`QuietIs`).
`FrontEndTokensTile`: the tokens, with white space and comments between them,
are the text. The invariant (`Tiled`) is about the newest token and the place the lexer
is at. What may lie between two tokens is a recursion over the text (`Ignorable`), and
the code's loops (`IsWhole` of a comment, skipping to the next token) are other
recursions over it; each is shown to have one solution, and `NextToken` and
`CommentEnd` to stop where `Ignorable` says the gap ends.

*LoweringProofs.* For every module, whatever functions join it between two runs: type
correctness (`LoweringTypeOK`) and that an id keeps its meaning to the end of the
run that gave it out (`LoweringPoolGrows`). Their invariant (`Typed`) adds that
the pool has no literal twice. For every module whose late functions need no literal
(`LateNeedNoLiteral`): `LoweringVerdictsAgree` and `LoweringTableExact`; without
that hypothesis both are false, as `LowerTwice` shows. The table that counts is not there while the pass runs. The invariant
(`LoweringInvariant`) therefore speaks of the attribute the run *will* leave,
`Pending`: the pool if it is not empty, the old attribute otherwise; every
lowered operation is right in that one, and once there is an attribute nothing
still to be lowered needs a literal, so the pool stays empty and the
attribute is never replaced. `TableExact` needs the other half: no entry is there
that no operation asked about, where the struct being lowered has asked about
its fields so far.

Assumptions: only those on the constants stated in the modules (each checked on
the instances; `SchemasAssumption` says what the parser guarantees of a schema,
`LexerAssumption` that NUL is neither the byte order mark nor a group of digits, `JobsAssumption` that
texts are sequences), `DivisionExact` and `LateNeedNoLiteral` as hypotheses of the
theorems they are needed for.

Without `DivisionExact` the theorems about divisors fail: `FoldRounding` is an
instance with three doubles whose quotients round.

Only model-checked: `Terminates`, `Converges` and `Ends` (liveness); `EliminatedIsACount`; `TokensLegal`,
`DecidesGrammar`, `TreeOfText`, `RecoversInBracket` and `DecidesDocument`: which
texts are tokens and documents, what they mean and where the parser recovers, all compared with
definitions that are recursive operators over the text, which the provers cannot
be given; `TraceFindsNodes`; the types of `FrontEnd`; and that a rewrite makes a
function lighter (so the refinement of `Rewriting` as a whole, of which
`CanonicalizerVerdictKept` is the other half), since it counts the operations alive
after a rewrite, by a sum over a finite set. The provers have no
induction principle they could apply to a definition; where a recursive function had to
be reasoned about, *DataLemmas* takes a least counterexample instead, or its
solutions are compared as sets.

## 5. What is not modelled

* Wording and order of diagnostics, names of functions, the printed forms
  (`--dump-tokens`, `--dump-ast`, the JSON layout of a trace), and locations
  other than those the fold keeps or drops and those of tokens, nodes and
  operations of an imported module.
* Which nodes the operations of the canonicalized copy list in a trace: the
  canonicalizer is a success or a failure in `FrontEnd`; what it does with
  locations is in `ConjunctFold`.
* Characters below the level the lexer tells apart: the bytes of one UTF-8
  character, the single digits of a `\u` escape, and so what is reported when
  fewer than four digits follow.
* The value of a number spelling (`getAsDouble`): a table, one entry of which is
  out of range.
* MLIR itself: the rollback of a failed conversion, the conversion of
  signatures, and the pipeline to LLVM.
* The tools (registration and a call of MLIR's main), tests and build files.

## 6. Where code and documentation disagree

| Run | Property | What happens |
| --- | --- | --- |
| `FoldContradiction` | `FusedVerifies` | Bounds that exclude each other in two branches of `allOf` are merged into one validation, which its verifier rejects. A meet is said to be refused when it is not representable. |
| `FoldLocations` | `LocationsKept` | When one validation already expresses the merge it is kept as it is, and the locations of those merged into it are dropped; the README promises every keyword's location. |
| `FoldRounding` | `VerdictPreserved` | Whether one divisor subsumes another is decided by dividing two doubles, and the emitted check divides another pair: `multipleOf` 0.3 absorbs `multipleOf` 0.03, and 0.9, which the two together reject, is accepted afterwards. |
| `LowerTwice` | `IdsResolve` | A second run of the lowering that interns anything replaces the table the first run's ids point into. |
| `LowerOptional` | `OptionalMayBeMissing` | The verdict of an optional property is conjoined whether or not the object has it. |
| `ImportBounds` | `BoundsErrorReal` | Unsatisfiable bounds are an error even where the keywords have no effect (`minimum` above `maximum` in a schema for strings). |

Met on the way, without a run of their own:

* Subsumption is not complete: an integral number with `multipleOf` 2 and one
  that only has `multipleOf` 2 are equivalent and not equal.
* A conjunction that two conjunctions use is never folded
  (`SchemaCanonicalizerPass.cpp:414`), and mergeable validations of one input
  remain, although `src/README.md` speaks of one operation per value.
* The statistic validations-removed, the "number of `schema` validation operations
  eliminated" (`SchemaCanonicalizerPass.cpp:636`), is unsigned and adds the validations
  before less those after (`:656`). Validations that are merged and also used elsewhere
  stay alive beside the merged one: a function that returns `a`, `b` and `a && b` has two
  validations before and three after, and the statistic goes down. `EliminatedIsACount`
  bounds this to functions in which two values have a second use; an imported
  function has none.
* Arguments follow the order in which locations are entered, with all properties
  of a schema before its `allOf`, whatever the order in the document.
* With `--emit-trace` the module is printed before a copy of it is
  canonicalized; when that fails the tool fails after having printed a module,
  as `ExitStatus` has it.
* At the depth limit a missing value makes `skipNested` swallow the brackets
  around it (`Parser.cpp:233-243`): the rest of the document is skipped without
  a further diagnostic, although `Parser.h` promises recovery at the next `,`, `}` or `]`.
* `{"title": ,}` has two diagnostics at one comma: `error` does not suppress a
  second one at the same token as `errorAtToken` does. So has a bracket that is not
  closed when white space precedes the end (`errorUnclosed` compares the place
  of the last diagnostic with the end, and reports at the last token).
* The importer is reached only without an error of lexer and parser; a tree with an
  error token in it always has `failed` set, so `hadError` adds nothing there
  (an error token the parser skips over while it recovers is in a document that failed already).

## 7. Plan

Done: the lattices and the fold with their proofs, rounding division, the Mojo
library, the canonicalizer with its proofs (verdicts, block order, normal form), the lowering with its
proofs, the importer with the proof of every property its run checks, the
parser, the lexer and the front end that composes them, the bound on the
parser's stack, the nesting of its nodes, the tiling of the text, the reports and the exit status for every document.

Left, in this order:

1. Proofs: that the canonicalizer never makes a function heavier, and the nodes a trace finds.
2. The composition of the canonicalizer and the lowering with the importer in one
   module, so that a schema document is followed to the standard dialect.
