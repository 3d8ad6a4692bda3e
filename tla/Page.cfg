CONSTANTS
  NotDescribed = NotDescribed
  Slots <- MCSlots
  Catalogue <- MCCatalogue
  Templates <- MCTemplates
  Most = 3
  Depth = 3
  Letters = {"x", "n", "_"}
  Digits = {"1"}
  Keywords <- MCKeywords
  Longest = 3
  Providers <- MCProviders
  Contents <- MCContents
  LocalName <- MCLocalName
  CatalogueRows <- MCEntries
  Codepoints <- MCCodepoints
  Blanks = {"_:b", "_:c"}
  Undeclared = {"x:A"}
  Prefixed = {"pre:A", "pre:p"}
  Narrower <- MCNarrower
  Lattice <- MCLattice
  Primitives <- MCPrimitives
  TypeIri <- MCTypeIri
  Largest = 7
  Deepest = 3
  m1 = m1
  m2 = m2
  s1 = s1
  a1 = a1
  a2 = a2
  None = None
  Mounts = {m1, m2}
  Keys = {s1, a1, a2}
  Lent = {a1, a2}
  Names = {"secret", "file"}
  NameOf <- Naming
  Hosts <- AllHosts
  MaxVersion = 2
SPECIFICATION PageSpec
INVARIANTS WrittenAsMeant SilenceAccepts ReadsBack ParserAnswers TextReadsBack LoweredOrSaid CheckedIsRun DecodedAsWritten RulesHold HeldIsHeld SecretUntilRelease RenewalReaches
CHECK_DEADLOCK FALSE
