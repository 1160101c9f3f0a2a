SPECIFICATION RulesSpec
CONSTANTS
  WarningsAllowed = 1
  Lights = 2
  MaxSanction = 3
INVARIANT FalseStartOncePerStart
