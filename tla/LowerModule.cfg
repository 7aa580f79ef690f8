\* A module lowered in every order, and lowered again.
CONSTANTS
  Value = {1, 2, 3, 4}
  Name = {"name", "age"}
  Pattern = {"name", "q"}
  Format  = {"f"}
  Document <- Docs
  Runtime  <- Symbols
  Modules  <- AtOnce
  Number    <- MCNumber
  Integral  <- MCIntegral
  Vanishing <- MCVanishing
  Overflowing = {}
  Whole     <- MCWhole
  One  = 2
  Zero = 0
SPECIFICATION Spec
INVARIANTS TypeOK VerdictsAgree TableExact
PROPERTY PoolGrows
