---------------------------- MODULE MCGraphWrite ----------------------------
(* GraphWrite on small instances: two runs that may write to one prefix, two  *)
(* programs of which one has an edge table the other has not, and a run that  *)
(* writes N-Triples.                                                          *)
EXTENDS GraphWrite

CONSTANTS r1, r2, p1, p2, person, placed

VerticesOf == [r \in Runs |-> <<person>>]
EdgesOf    == [r \in Runs |-> IF r = r1 THEN <<placed>> ELSE <<>>]
Graphs     == [r \in Runs |-> "graphar"]
Mixed      == [Graphs EXCEPT ![r2] = "ntriples"]
AllSinks   == {Graphs, Mixed}
OneSink    == {Graphs}
=============================================================================
