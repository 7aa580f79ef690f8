\* Refuted: bounds that exclude each other are merged into one validation.
CONSTANTS
  a = a  b = b  c = c  d = d  x = x  y = y
  Value    = {a, b, c, d}
  Input    = {x}
  Document <- StringDocs
  Trees    <- StringTrees
  Pattern = {"p", "q"}
  Format  = {"f"}
  Number    <- MCNumber
  Integral  <- MCIntegral
  Vanishing <- MCVanishing
  Overflowing <- MCOverflowing
  Whole     <- MCWhole
  One  = 2
  Zero = 0
SPECIFICATION Spec
CHECK_DEADLOCK FALSE
INVARIANT FusedVerifies
