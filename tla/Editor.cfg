CONSTANTS
  t1 = t1
  t2 = t2
  d1 = d1
  d2 = d2
  c1 = c1
  c2 = c2
  c3 = c3
  s1 = s1
  s2 = s2
  k1 = k1
  k2 = k2
  Null = Null
  Public = Public
  Local = Local
  Sources = {s1, s2}
  Connections = {k1, k2}
  Primitives = {"int", "float"}
  Unkeyable = {"float"}
  Datas <- MCDatas
  Options <- MCOptions
  Via <- MCVia
  Texts = {t1, t2}
  Documents = {d1, d2}
  Names <- MCNames
  Calls = {c1, c2, c3}
  Edits = 1
  here = here
  a1 = a1
  program = program
  shapes = shapes
  None = None
  Nowhere = Nowhere
  Aliases = {a1}
  Bases = {b2}
  Joined = {b2}
  FileNames = {shapes}
  Paths <- MCPaths
  Claimed <- MCClaimed
  FileTexts <- MCFileTexts
  ColumnLists = {x1}
  Problems = {y1}
  Runs = {r1}
  MostOpened = 2
SPECIFICATION MCSpec
INVARIANTS MissingIsSaid ProfileExact DescribeReturns ToldTrue RunReadsOneProgram
PROPERTIES EditorSettles RegistryKept
CHECK_DEADLOCK FALSE
