CONSTANTS
  r1 = r1
  r2 = r2
  person = person
  placed = placed
  p1 = p1
  p2 = p2
  Runs = {r1, r2}
  Prefixes = {p1, p2}
  Types = {person, placed}
  Vertices <- VerticesOf
  Edges <- EdgesOf
  Sinks <- AllSinks
  MaxReads = 1
  None = None
SPECIFICATION FairSpec
INVARIANTS ListedPresent EndsAsTold
PROPERTIES RunSettles
CHECK_DEADLOCK FALSE
