\* A function joins a lowered module, which is lowered again.
CONSTANTS
  Value = {1, 2, 3, 4}
  Name = {"name", "age"}
  Pattern = {"name", "q"}
  Format  = {"f"}
  Document <- Docs
  Runtime  <- Symbols
  Modules  <- Linked
  Number    <- MCNumber
  Integral  <- MCIntegral
  Vanishing <- MCVanishing
  Overflowing = {}
  Whole     <- MCWhole
  One  = 2
  Zero = 0
SPECIFICATION Spec
INVARIANT IdsResolve
