CONSTANTS
  r1 = r1
  r2 = r2
  person = person
  placed = placed
  p1 = p1
  p2 = p2
  Runs = {r1}
  Prefixes = {p1}
  Types = {person, placed}
  Vertices <- VerticesOf
  Edges <- EdgesOf
  Sinks <- OneSink
  MaxReads = 1
  None = None
SPECIFICATION Spec
INVARIANT StoppedLeavesNoGraph
CHECK_DEADLOCK FALSE
