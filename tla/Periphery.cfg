CONSTANTS
  MaxHooks = 4
  Row = {r1}
  MaxAsked = 5
  Contents <- MCContents
  Caps <- MCCaps
  OtherBodies <- MCNested
  Roots <- MCRoots
  Paths <- MCPaths
  Types <- MCTypes
  Levels <- MCLevels
  Funcs <- MCFuncs
  Lines <- MCLines
SPECIFICATION Spec
CHECK_DEADLOCK FALSE
INVARIANTS TypeOK OthersAreKept OpenIsHooked LastClickWins QuietPageIsCurrent TagsBalanced EscapedWhenParsed OnlyTheTailIsLost SameErrors
