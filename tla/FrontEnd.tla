------------------------------ MODULE FrontEnd ------------------------------
(***************************************************************************)
(* The front end of --import-json-schema: lexer, parser and importer in a  *)
(* row, each run to its end, with the options that stop early and with the *)
(* trace of all of it.                                                     *)
(*                                                                         *)
(* The importer has its own stack, errors and pc here.  The canonicalizer, *)
(* which a trace runs on a copy of the module, succeeds or fails.          *)
(***************************************************************************)
EXTENDS Lexer, SchemaGrammar

CONSTANTS Jobs,             \* [text, allowComments, options]
          Stem, Document    \* of Importer

Option == {"dump-tokens", "dump-ast", "emit-trace"}

ASSUME JobsAssumption ==
  \A job \in Jobs : /\ job.text \in Seq(ToSet(job.text))
                    /\ job.allowComments \in BOOLEAN /\ job.options \subseteq Option

VARIABLES
  options,        \* the options that are given, never changed
  stage,
  output,         \* what is printed, "" while nothing is
  canonicalized,  \* the canonicalized copy was made
  success,
  trace,          \* {} while there is none
  ischema, istack, ops, args, ret, ierrors, ipc

Import == INSTANCE Importer
  WITH Schemas <- {}, schema <- ischema, stack <- istack, errors <- ierrors, pc <- ipc

importerVars == <<ischema, istack, ops, args, ret, ierrors, ipc>>
driverVars   == <<options, stage, output, canonicalized, success, trace>>
vars         == <<lexerVars, parserVars, importerVars, driverVars>>

Stage  == {"lex", "parse", "import", "canonicalize", "trace", "done"}
Asks(option) == option \in options

(* runFrontEnd returns; a trace is written before the tool ends. *)
Leaves(ok) ==
  stage' = (IF Asks("emit-trace") THEN "trace" ELSE "done") /\ success' = ok

Lexing ==
  /\ stage = "lex" /\ LexToken
  /\ UNCHANGED <<parserVars, importerVars, driverVars>>

EndLexing ==
  /\ stage = "lex" /\ LexDone
  /\ IF Asks("dump-tokens") THEN output' = "tokens" /\ Leaves(~hadError)
                             ELSE stage' = "parse" /\ UNCHANGED <<output, success>>
  /\ UNCHANGED <<lexerVars, parserVars, importerVars, options, canonicalized, trace>>

Parsing ==
  /\ stage = "parse" /\ ParserNext
  /\ UNCHANGED <<lexerVars, importerVars, driverVars>>

(* Bug: a failed parse is imported as long as there is a root. *)
ParseAccepted_Root == root # 0 /\ ~hadError

ParseAccepted == root # 0 /\ ~hadError /\ ~failed

EndParsing ==
  /\ stage = "parse" /\ Done
  /\ \/ /\ Asks("dump-ast")
        /\ output' = IF root # 0 THEN "ast" ELSE ""
        /\ Leaves(~hadError /\ ~failed)
        /\ UNCHANGED ischema
     \/ /\ ~Asks("dump-ast") /\ ~ParseAccepted
        /\ Leaves(FALSE)
        /\ UNCHANGED <<output, ischema>>
     \/ /\ ~Asks("dump-ast") /\ ParseAccepted
        /\ ischema' = Schema /\ stage' = "import"
        /\ UNCHANGED <<output, success>>
  /\ UNCHANGED <<lexerVars, parserVars, istack, ops, args, ret, ierrors, ipc,
                 options, canonicalized, trace>>

Importing ==
  /\ stage = "import" /\ Import!Next
  /\ UNCHANGED <<lexerVars, parserVars, driverVars>>

EndImport ==
  /\ stage = "import"
  /\ \/ ipc = "none"   /\ Leaves(FALSE) /\ UNCHANGED output
     \/ /\ ipc = "module" /\ output' = "ir"
        /\ IF Asks("emit-trace") THEN stage' = "canonicalize" /\ UNCHANGED success
                                 ELSE Leaves(TRUE)
  /\ UNCHANGED <<lexerVars, parserVars, importerVars, options, canonicalized, trace>>

Canonicalize ==
  /\ stage = "canonicalize"
  /\ \E ok \in BOOLEAN : canonicalized' = ok /\ Leaves(ok)
  /\ UNCHANGED <<lexerVars, parserVars, importerVars, options, output, trace>>

-----------------------------------------------------------------------------
(* The trace.                                                              *)

(* The nodes of the tree, parents first. *)
Walk ==
  LET walk[n \in DOMAIN nodes] ==
        <<n>> \o FlattenSeq([k \in DOMAIN nodes[n].children |-> walk[nodes[n].children[k]]])
  IN IF root = 0 THEN <<>> ELSE walk[root]

(* The first node at a line and column. *)
NodeAt(p) ==
  LET found == SelectSeq(Walk, LAMBDA n : nodes[n].begin.line = p.line /\ nodes[n].begin.column = p.column)
  IN IF found = <<>> THEN 0 ELSE found[1]

(* An operation is located at its schema or at a keyword of it. *)
Origins(v) ==
  LET n == SchemaNodes[ops[v].loc] IN {n} \cup ToSet(nodes[n].children)

WriteTrace ==
  /\ stage = "trace"
  /\ \/ /\ success' = success
        /\ trace' = {[diagnostics |-> lexErrors \o errors,
                      stages |-> (IF ipc = "module" THEN {"import"} ELSE {})
                                 \cup (IF canonicalized THEN {"schema-canonicalize"} ELSE {}),
                      astNodes |-> IF ipc # "module" THEN <<>>
                                   ELSE [v \in DOMAIN ops |-> {NodeAt(nodes[n].begin) : n \in Origins(v)}]]}
     \/ success' = FALSE /\ UNCHANGED trace   \* the file cannot be opened
  /\ stage' = "done"
  /\ UNCHANGED <<lexerVars, parserVars, importerVars, options, output, canonicalized>>

-----------------------------------------------------------------------------
Init ==
  /\ \E job \in Jobs :
       text = job.text /\ allowComments = job.allowComments /\ options = job.options
  /\ LexerStarts /\ ParserStarts
  /\ ischema = <<>> /\ Import!Idle
  /\ stage = "lex" /\ output = "" /\ canonicalized = FALSE /\ success = FALSE /\ trace = {}

Next ==
  \/ Lexing \/ EndLexing \/ Parsing \/ EndParsing \/ Importing \/ EndImport
  \/ Canonicalize \/ WriteTrace

Spec     == Init /\ [][Next]_vars
FairSpec == Spec /\ WF_vars(Next)

-----------------------------------------------------------------------------
(* The variables have their types, the parser's and importer's included.   *)
TypeOK ==
  /\ ParserTypeOK /\ Import!TypeOK
  /\ options \subseteq Option /\ stage \in Stage /\ success \in BOOLEAN /\ canonicalized \in BOOLEAN
  /\ output \in {"", "tokens", "ast", "ir"}
  /\ \A t \in ToSet(tokens) : t.kind \in TokenKind
  /\ stage \in {"lex", "parse"} => Import!Idle

(* The tool succeeds exactly when it has printed what was asked for and no *)
(* stage it ran reported an error, the trace that was asked for and its    *)
(* canonicalization included (importJsonSchema).  A parse that failed has  *)
(* been reported, although diagnostics are suppressed.                     *)
Wanted == IF Asks("dump-tokens") THEN "tokens" ELSE IF Asks("dump-ast") THEN "ast" ELSE "ir"

ExitStatus ==
  stage = "done" =>
    /\ success <=> /\ output = Wanted
                   /\ lexErrors = <<>> /\ errors = <<>> /\ ierrors = {}
                   /\ Asks("emit-trace") => trace # {} /\ (Wanted = "ir" => canonicalized)
    /\ FailureReported

(* A module is printed only for a document of the grammar, and it decides  *)
(* the schema that is written there.                                       *)
DecidesDocument ==
  output = "ir" => IsDocument /\ ischema = Meaning /\ Import!DecidesSchema

(* An operation of the trace lists the node it is located at, found again  *)
(* by its line and column: "no two nodes start at the same position"       *)
(* (Trace.cpp), nor do two positions of the text look the same.            *)
TraceFindsNodes ==
  \A t \in trace : \A v \in DOMAIN t.astNodes : t.astNodes[v] = Origins(v)

(* The tool ends on every text.                                            *)
Ends == <>(stage = "done")

=============================================================================
