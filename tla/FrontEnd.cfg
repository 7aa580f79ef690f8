\* Texts of every kind of token, and documents with one token wrong.
CONSTANTS
  Jobs <- SomeJobs
  Alpha   <- MCAlpha
  HexUnit <- MCHexUnit
  Utf8    <- MCUtf8
  BOM = "BOM"
  MaxDepth = 2
  MaxExactInteger = 8
  AsDouble  <- MCDoubles
  AsInteger <- MCIntegers
  Drafts = {"draft2020"}
  Stem     <- MCStem
  Document <- Docs
  Char    = {"a", "b", "type"}
  Invalid = {}
  Pattern = {"a", "type"}
  Format  = {"a", "type"}
  Number    <- MCNumber
  Integral  <- MCNone
  Vanishing <- MCNone
  Overflowing = {}
  Whole     <- MCWhole
  One  = 2
  Zero = 0
SPECIFICATION FairSpec
CHECK_DEADLOCK FALSE
INVARIANTS TypeOK TokensTile TokensLegal OneReport PositionsResolve
           DecidesGrammar TreeOfText NodesNest StackBounded RecoversInBracket
           ExitStatus DecidesDocument TraceFindsNodes
PROPERTY Ends
