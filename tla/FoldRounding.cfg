\* Refuted: divisors are compared by a division that rounds.
CONSTANTS
  a = a  b = b  c = c  d = d  x = x  y = y
  Value    = {a, b, c, d}
  Input    = {x}
  Document <- RoundedDocs
  Trees    <- RoundedTrees
  Pattern = {"p", "q"}
  Format  = {"f"}
  Number    <- RoundedNumber
  Integral  <- RoundedIntegral
  Vanishing <- RoundedVanishing
  Overflowing = {}
  Whole     <- RoundedWhole
  One  = 4
  Zero = 0
SPECIFICATION Spec
CHECK_DEADLOCK FALSE
INVARIANT VerdictPreserved
