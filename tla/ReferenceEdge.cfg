CONSTANTS
  NotDescribed = NotDescribed
  Slots <- MCSlots
  Catalogue <- MCCatalogue
  Templates <- MCTemplates
  Most = 3
  Depth = 3
  Letters = {"x", "n", "_"}
  Digits = {"1"}
  Keywords <- MCKeywords
  Longest = 3
  Providers <- MCProviders
  Contents <- MCContents
  LocalName <- MCLocalName
  CatalogueRows <- MCEntries
  Codepoints <- MCCodepoints
  Blanks = {"_:b", "_:c"}
  Undeclared = {"x:A"}
  Prefixed = {"pre:A", "pre:p"}
  Narrower <- MCNarrower
  Lattice <- MCLattice
  Primitives <- MCPrimitives
  TypeIri <- MCTypeIri
  Largest = 7
  Deepest = 3
SPECIFICATION MCSpec
INVARIANT ReferenceIsEdge
CHECK_DEADLOCK FALSE
