\* Three keywords conjoined, and functions that use a value more than once.
CONSTANTS
  x = x  y = y  z = z
  Input    = {x, y}
  Document <- Docs
  Programs <- Functions
  Value = {1, 2, 3, 4, 5, 6, 7, 8, 9, 10, 11, 12}
  MaxIterations = 3
  NormalizeConstraints = TRUE
  Pattern = {"p", "q"}
  Format  = {"f"}
  Number    <- MCNumber
  Integral  <- MCIntegral
  Vanishing <- MCVanishing
  Overflowing = {}
  Whole     <- MCWhole
  One  = 2
  Zero = 0
SPECIFICATION FairSpec
CHECK_DEADLOCK FALSE
INVARIANTS VerdictKept NormalForm EliminatedIsACount
PROPERTY Converges
