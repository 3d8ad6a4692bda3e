CONSTANTS
  c = c
  d = d
  None = None
  Null = Null
  Undeclared = Undeclared
  NoAlias = NoAlias
  NoFetch = NoFetch
  NoType = NoType
  NoTerm = NoType
  Most32 = 4
  Most64 = 7
  Absolute <- MCAbsolute
  Datatypes <- MCDatatypes
  LanguageLists <- MCLanguages
  EmptyGraphs <- MCGraphs
  ArrayValues <- ValuesOf
  ObjectsSaid <- MCObjects
  Lower <- MCLower
  Upper <- MCUpper
  Functions <- MCFunctions
  CastTypes <- MCCastTypes
  Arity = 2
  MostDepth = 2
  NoRefusal = NoRefusal
  N = 2
  Limit = 4
  Word = 6
  Requests = {1, 3}
  MostHeld = 4
  MostOperators = 6
  Parts = {"relations"}
  Most = 3
  Segments <- MCSegments
  Locations <- MCLocations
  Prefixes <- MCPrefixes
  Authorities <- MCAuthorities
  Web = {"w"}
  Connections = {c, d}
  Hosts <- MCHosts
  Clients <- MCClients
  Types <- MCTypes
  Columns <- MCColumns
  Ranges <- MCRanges
  Single = {"name", "knows"}
  Iris = {1, 2}
  Relative = {9}
  Term <- MCTerm
  MayWrite <- MCMayWrite
  MayHold <- MCMayHold
  MostVertices = 2
  Sources <- MCSources
SPECIFICATION MCSpec
INVARIANT AggregatesPlanned
CHECK_DEADLOCK FALSE
