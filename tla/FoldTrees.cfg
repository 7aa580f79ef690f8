\* Trees of three string or three number validations of one input, and trees with
\* two inputs, both kinds, opaque leaves and duplicates.
CONSTANTS
  a = a  b = b  c = c  d = d  x = x  y = y
  Value    = {a, b, c, d}
  Input    = {x, y}
  Document <- SomeDocs
  Trees    <- SomeTrees
  Pattern = {"p", "q"}
  Format  = {"f"}
  Number    <- MCNumber
  Integral  <- MCIntegral
  Vanishing <- MCVanishing
  Overflowing <- MCOverflowing
  Whole     <- MCWhole
  One  = 2
  Zero = 0
SPECIFICATION FairSpec
CHECK_DEADLOCK FALSE
INVARIANTS TypeOK VerdictPreserved CleanMeansCurrent NothingLost StringsCollapse
  ChangedMeansSmaller LocationsCovered MojoAgrees
PROPERTIES OnlyStricter Terminates
