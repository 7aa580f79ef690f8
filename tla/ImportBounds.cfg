\* Refuted: bounds of a keyword that has no effect are refused.
CONSTANTS
  Char     = {"a", "/", "~", "0", "1"}
  Invalid  = {"("}
  Stem     <- MCStem
  Document <- Docs
  Schemas  <- Bounded
  Pattern = {"p"}
  Format  = {"f"}
  Number    <- MCNumber
  Integral  <- MCIntegral
  Vanishing <- MCVanishing
  Overflowing = {}
  Whole     <- MCWhole
  One  = 2
  Zero = 0
SPECIFICATION Spec
CHECK_DEADLOCK FALSE
INVARIANT BoundsErrorReal
