\* One schema of every kind the front end takes.
CONSTANTS
  Char     = {"a", "/", "~", "0", "1"}
  Invalid  = {"("}
  Stem     <- MCStem
  Document <- Docs
  Schemas  <- SomeSchemas
  Pattern = {"p"}
  Format  = {"f"}
  Number    <- MCNumber
  Integral  <- MCIntegral
  Vanishing <- MCVanishing
  Overflowing = {}
  Whole     <- MCWhole
  One  = 2
  Zero = 0
SPECIFICATION Spec
CHECK_DEADLOCK FALSE
INVARIANTS DecidesSchema OneArgumentPerPlace TreeShaped
           DiagnosedFirst ContradictionReal NeedsTypeReal
