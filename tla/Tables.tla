------------------------------- MODULE Tables -------------------------------
(***************************************************************************)
(* What a run makes of a program's mappings: fossil_exec::execute_graph,   *)
(* which merges the mappings of one type into one vertex table and of one  *)
(* relation into one edge table, the GraphAr layout of the result and the  *)
(* N-Triples of it.                                                        *)
(*                                                                         *)
(* A mapping is the relation it reads, row by row, and the columns it      *)
(* writes.  A cell is the values row_per_value makes of it: one for a      *)
(* scalar, one each for a list, NULL among them.  Batches are left out, a  *)
(* table is its rows, and a subject stands for its place in the order of   *)
(* strings.  What a running sum or a sort gives is said by counting: the   *)
(* first id of a type is the rows of the types opened before, a subject's  *)
(* place the subjects before it.                                           *)
(***************************************************************************)
EXTENDS Integers, Sequences, FiniteSets, Functions, FiniteSetsExt

CONSTANTS
    Types,          \* the vertex types of the program's graph type
    Columns,        \* what a mapping may write
    Ranges,         \* the destination types of a column; none for a property
    Single,         \* the columns declared with at most one value
    Iris,           \* the subjects that are absolute IRIs, in their order
    Relative,       \* the subjects that are not
    Term(_),        \* the RDF term a value is written as
    Null,
    MostVertices,   \* u32::MAX
    MayWrite(_),    \* the columns a mapping of a type may write
    MayHold(_)      \* what the cells of those columns may be

ASSUME TablesAssumption ==
    /\ Ranges \in [Columns -> SUBSET Types]
    /\ Iris \subseteq Int /\ Relative \subseteq Int /\ Null \notin Int
    /\ MostVertices \in Nat
    /\ \A t \in Types : MayWrite(t) \subseteq SUBSET Columns
    /\ \A w \in SUBSET Columns : MayHold(w) \subseteq [w -> Seq({Null} \cup Int)]

VARIABLE mappings

\* Programs are built a mapping and a row at a time.
TablesInit == mappings = <<>>

AddMapping ==
    \E t \in Types : \E w \in MayWrite(t) :
        mappings' = Append(mappings, [type |-> t, writes |-> w, rows |-> <<>>])

AddRow ==
    /\ mappings # <<>>
    /\ LET k == Len(mappings) IN
       \E s \in Iris \cup Relative \cup {Null}, f \in MayHold(mappings[k].writes) :
           mappings' = [mappings EXCEPT ![k].rows = Append(@, [subject |-> s, cells |-> f])]

TablesNext == AddMapping \/ AddRow
TablesSpec == TablesInit /\ [][TablesNext]_mappings

RowOver(w) == [subject : Iris \cup Relative \cup {Null}, cells : [w -> Seq({Null} \cup Int)]]

IsProgram(prog) ==
    /\ prog \in Seq([type : Types, writes : SUBSET Columns, rows : UNION {Seq(RowOver(w)) : w \in SUBSET Columns}])
    /\ \A k \in DOMAIN prog : prog[k].rows \in Seq(RowOver(prog[k].writes))

-----------------------------------------------------------------------------

\* A column whose predicate ranges over types becomes an edge, one table for each of
\* them; any other stays a property of the vertex.
IsEdge(c) == Ranges[c] # {}
Properties(m) == {c \in m.writes : ~IsEdge(c)}
Edges(m) ==
    {e \in [source : {m.type}, label : m.writes, destination : Types] : e.destination \in Ranges[e.label]}

-----------------------------------------------------------------------------
(* Phase 1: the vertices.                                                  *)

\* The types the program writes, and the mappings of one of them.
Labels(prog) == {m.type : m \in Range(prog)}
Group(prog, t) == {m \in Range(prog) : m.type = t}

\* One type appears before another first does.
Opened(prog, t, u) ==
    \E k \in DOMAIN prog : prog[k].type = t /\ \A j \in 1 .. k : prog[j].type # u

\* NULLs last.
Before(a, b) == a # Null /\ (b = Null \/ a < b)

\* Every value the rows of a type offer a subject for a column; a mapping that does not
\* write the column offers none.
Offered(group, s, c) ==
    UNION {UNION {Range(r.cells[c]) \ {Null} : r \in {q \in Range(m.rows) : q.subject = s}} :
              m \in {n \in group : c \in n.writes}}

Subjected(group) == {r.subject : r \in UNION {Range(m.rows) : m \in group}}
Written(group) == UNION {Properties(m) : m \in group}

\* A subject's value is the least of what its rows offer.
Merged(values) == IF values = {} THEN Null ELSE Min(values)

\* Mutant: a merge keeps whichever value comes first and asks nothing of the others.
SeveralNever(group) == FALSE

\* single_valued: the least and the greatest differ.
Several(group) ==
    \E c \in Written(group) \cap Single, s \in Subjected(group) :
        LET values == Offered(group, s, c) IN values # {} /\ Min(values) # Max(values)

\* finalize_vertex: one row for each subject, numbered in their order from an id on; a
\* property of several values is a table of its own.
TableFrom(group, first) ==
    LET subjects == Subjected(group)
        id == [s \in subjects |-> first + Cardinality({r \in subjects : Before(r, s)})]
    IN  [first |-> first,
         id |-> id,
         row |-> [c \in Written(group) \cap Single |-> [s \in subjects |-> Merged(Offered(group, s, c))]],
         values |-> [c \in Written(group) \ Single |->
                       UNION {{<<id[s], v>> : v \in Offered(group, s, c)} : s \in subjects \ {Null}}]]

\* The rows of the types opened before.
Earlier(prog, t) ==
    UNION {{<<u, s>> : s \in Subjected(Group(prog, u))} : u \in {w \in Labels(prog) : Opened(prog, w, t)}}

\* Mutant: every type is numbered from the first id.
VertexFromZero(prog, t) == TableFrom(Group(prog, t), 0)

Vertex(prog, t) == TableFrom(Group(prog, t), Cardinality(Earlier(prog, t)))

\* One past the last id of a table.
End(table) == table.first + Cardinality(DOMAIN table.id)

Outgrown(prog) == \E t \in Labels(prog) : End(Vertex(prog, t)) > MostVertices

-----------------------------------------------------------------------------
(* Phase 2: the edges, joined against the tables of phase 1.               *)

\* What the mappings offer a relation, a row for each value: the place of each.
Candidates(prog, e) ==
    UNION {UNION {{<<k, i, j>> : j \in DOMAIN prog[k].rows[i].cells[e.label]} : i \in DOMAIN prog[k].rows} :
              k \in {n \in DOMAIN prog : e \in Edges(prog[n])}}

Start(prog, p) == prog[p[1]].rows[p[2]].subject
Finish(prog, e, p) == prog[p[1]].rows[p[2]].cells[e.label][p[3]]

\* The two inner joins, on the subjects of the ends; NULL equals nothing.
Resolves(a, b, source, destination) ==
    /\ a # Null /\ a \in DOMAIN source.id
    /\ b # Null /\ b \in DOMAIN destination.id

\* The edge table of one relation: a set of pairs, and the rows that resolved to none.
EdgeTable(prog, e, source, destination) ==
    LET offered == Candidates(prog, e)
        matched == {p \in offered : Resolves(Start(prog, p), Finish(prog, e, p), source, destination)}
    IN  [edge |-> e,
         pairs |-> {<<source.id[Start(prog, p)], destination.id[Finish(prog, e, p)]>> : p \in matched},
         dropped |-> Cardinality(offered) - Cardinality(matched)]

\* single_valued_edge: a source with two destinations.
SeveralEnds(table) ==
    /\ table.edge.label \in Single
    /\ \E p, q \in table.pairs : p[1] = q[1] /\ p[2] # q[2]

Related(prog) == UNION {Edges(m) : m \in Range(prog)}

\* A relation joins the tables of both its types.
Unregistered(prog) == {e \in Related(prog) : e.destination \notin Labels(prog)}

EdgeTables(prog) ==
    {EdgeTable(prog, e, Vertex(prog, e.source), Vertex(prog, e.destination)) : e \in Related(prog)}

\* execute_graph: the graph, or why there is none.
Execute(prog) ==
    LET refused == IF \E t \in Labels(prog) : Several(Group(prog, t)) THEN "too-many-values"
                   ELSE IF Outgrown(prog) THEN "too-large"
                   ELSE IF Unregistered(prog) # {} THEN "no-table"
                   ELSE IF \E t \in EdgeTables(prog) : SeveralEnds(t) THEN "too-many-values"
                   ELSE "no"
    IN  IF refused # "no" THEN [refused |-> refused]
        ELSE [refused |-> "no",
              vertices |-> [t \in Labels(prog) |-> Vertex(prog, t)],
              edges |-> EdgeTables(prog)]

-----------------------------------------------------------------------------
(* The GraphAr layout.                                                     *)

\* A1: every subject an absolute IRI, and the subject of one vertex.
NotSubjects(g) == \E t \in DOMAIN g.vertices : ~(DOMAIN g.vertices[t].id \subseteq Iris)
SharedSubject(g) ==
    \E t, u \in DOMAIN g.vertices : t # u /\ DOMAIN g.vertices[t].id \cap DOMAIN g.vertices[u].id # {}

\* A4: no element of a set twice, by the term it is.
TwiceInSet(g) ==
    \E t \in DOMAIN g.vertices : \E c \in DOMAIN g.vertices[t].values :
        \E p, q \in g.vertices[t].values[c] :
            p[1] = q[1] /\ p[2] # q[2] /\ Term(p[2]) = Term(q[2])

SubjectOf(table, i) == CHOOSE s \in DOMAIN table.id : table.id[s] = i

\* set: a vertex's list is the values whose `src` is its id.
ListOf(table, c, i) == {Term(p[2]) : p \in {q \in table.values[c] : q[1] = i}}

\* relation: the ends as indices within their types.
Indices(table, source, destination) ==
    {<<p[1] - source.first, p[2] - destination.first>> : p \in table.pairs}

\* The rows of a type, by their index within it.
Laid(v) ==
    [k \in 0 .. Cardinality(DOMAIN v.id) - 1 |->
        LET s == SubjectOf(v, v.first + k)
        IN  [subject |-> s,
             row |-> [c \in DOMAIN v.row |-> v.row[c][s]],
             sets |-> [c \in DOMAIN v.values |-> ListOf(v, c, v.first + k)]]]

Layout(g) ==
    IF NotSubjects(g) \/ SharedSubject(g) \/ TwiceInSet(g)
    THEN [refused |-> IF NotSubjects(g) THEN "invalid-subject" ELSE "duplicate-value"]
    ELSE [refused |-> "no",
          vertices |-> [t \in DOMAIN g.vertices |-> Laid(g.vertices[t])],
          edges |-> {[edge |-> t.edge, dropped |-> t.dropped,
                      pairs |-> Indices(t, g.vertices[t.edge.source], g.vertices[t.edge.destination])] :
                        t \in g.edges}]

-----------------------------------------------------------------------------
(* The N-Triples sink: the subjects by dense id, and the triples by them.  *)

\* owners: the type whose range an id is in.
Owner(g, i) == CHOOSE t \in DOMAIN g.vertices : g.vertices[t].first <= i /\ i < End(g.vertices[t])
SubjectAt(g, i) == SubjectOf(g.vertices[Owner(g, i)], i)

VertexTriples(g, t) ==
    LET v == g.vertices[t]
    IN  {<<s, "type", t>> : s \in DOMAIN v.id}
        \cup (UNION {{<<s, c, Term(v.row[c][s])>> : s \in {x \in DOMAIN v.id : v.row[c][x] # Null}} :
                        c \in DOMAIN v.row})
        \cup (UNION {{<<SubjectAt(g, p[1]), c, Term(p[2])>> : p \in v.values[c]} : c \in DOMAIN v.values})

EdgeTriples(g, t) == {<<SubjectAt(g, p[1]), t.edge.label, SubjectAt(g, p[2])>> : p \in t.pairs}

Triples(g) ==
    (UNION {VertexTriples(g, t) : t \in DOMAIN g.vertices}) \cup (UNION {EdgeTriples(g, t) : t \in g.edges})

-----------------------------------------------------------------------------
(* What the mappings say, row by row, read off the program and no table.   *)

\* The triples a GraphAr reader gets back of a row, and of a pair of indices.
RowRead(t, v) ==
    {<<v.subject, "type", t>>}
    \cup {<<v.subject, c, Term(v.row[c])>> : c \in {x \in DOMAIN v.row : v.row[x] # Null}}
    \cup (UNION {{<<v.subject, c, x>> : x \in v.sets[c]} : c \in DOMAIN v.sets})

PairsRead(laid, t) ==
    {<<laid.vertices[t.edge.source][p[1]].subject, t.edge.label,
       laid.vertices[t.edge.destination][p[2]].subject>> : p \in t.pairs}

Image(laid) ==
    (UNION {UNION {RowRead(t, v) : v \in Range(laid.vertices[t])} : t \in DOMAIN laid.vertices})
    \cup (UNION {PairsRead(laid, t) : t \in laid.edges})

\* Some row of some mapping mints this subject of this type.
Minted(prog, t, s) == \E m \in Range(prog) : m.type = t /\ \E r \in Range(m.rows) : r.subject = s

Said(prog) ==
    UNION {UNION {
        {<<r.subject, "type", m.type>>}
        \cup UNION {{<<r.subject, c, IF IsEdge(c) THEN x ELSE Term(x)>> :
                        x \in {y \in Range(r.cells[c]) \ {Null} :
                                  IsEdge(c) => \E t \in Ranges[c] : Minted(prog, t, y)}} :
                      c \in m.writes} :
        r \in Range(m.rows)} : m \in Range(prog)}

\* Why a program has no graph, read off its rows.
TwoValues(prog) ==
    \E m, n \in Range(prog) : m.type = n.type /\ \E q \in Range(m.rows), r \in Range(n.rows) :
        /\ q.subject = r.subject
        /\ \E c \in m.writes \cap n.writes \cap Single : ~IsEdge(c) /\
              \E v \in Range(q.cells[c]), w \in Range(r.cells[c]) : v # Null /\ w # Null /\ v # w

TwoEnds(prog) ==
    \E m, n \in Range(prog) : m.type = n.type /\ \E q \in Range(m.rows), r \in Range(n.rows) :
        /\ q.subject = r.subject /\ q.subject # Null
        /\ \E c \in m.writes \cap n.writes \cap Single : \E t \in Ranges[c] :
              \E v \in Range(q.cells[c]), w \in Range(r.cells[c]) :
                 v # Null /\ w # Null /\ v # w /\ Minted(prog, t, v) /\ Minted(prog, t, w)

\* The rows of a relation that name no vertex of its destination.
Dangling(prog, e) ==
    {p \in Candidates(prog, e) :
        \/ Start(prog, p) = Null
        \/ Finish(prog, e, p) = Null
        \/ ~Minted(prog, e.destination, Finish(prog, e, p))}

Unwritten(prog) == \E m \in Range(prog) : \E c \in m.writes : ~(Ranges[c] \subseteq {n.type : n \in Range(prog)})

Subjects(prog) == UNION {{<<m.type, r.subject>> : r \in Range(m.rows)} : m \in Range(prog)}

OneTerm(prog) ==
    \E m, n \in Range(prog) : m.type = n.type /\ \E q \in Range(m.rows), r \in Range(n.rows) :
        /\ q.subject = r.subject
        /\ \E c \in (m.writes \cap n.writes) \ Single : ~IsEdge(c) /\
              \E v \in Range(q.cells[c]), w \in Range(r.cells[c]) :
                 v # Null /\ w # Null /\ v # w /\ Term(v) = Term(w)

Refusal(prog) ==
    LET g == Execute(prog) IN IF g.refused # "no" THEN g.refused ELSE Layout(g).refused

-----------------------------------------------------------------------------
(* Properties                                                              *)

SameGraph(prog) ==
    Refusal(prog) = "no" =>
        LET g == Execute(prog)
        IN  Triples(g) = Said(prog) /\ Image(Layout(g)) = Said(prog)

\* A program is refused for what its rows say and only for that: two values or two ends
\* where the shape allows one, more vertices than a u32 numbers, a subject that is no
\* IRI or is of two types, two values that are one term.
Causes(prog) ==
    {r \in {"too-many-values", "too-large", "no-table", "invalid-subject", "duplicate-value"} :
        CASE r = "too-many-values" -> TwoValues(prog) \/ TwoEnds(prog)
          [] r = "too-large" -> Cardinality(Subjects(prog)) > MostVertices
          [] r = "no-table" -> Unwritten(prog)
          [] r = "invalid-subject" -> \E s \in Subjects(prog) : s[2] \notin Iris
          [] r = "duplicate-value" ->
                OneTerm(prog) \/ \E s, t \in Subjects(prog) : s[1] # t[1] /\ s[2] = t[2]}

RefusedFor(prog) ==
    IF Causes(prog) = {} THEN Refusal(prog) = "no" ELSE Refusal(prog) \in Causes(prog)

\* What a run counts as dropped names no vertex of the type (lib.rs:903).
DroppedCounted(prog) ==
    Refusal(prog) = "no" =>
        \A t \in Execute(prog).edges : t.dropped = Cardinality(Dangling(prog, t.edge))

\* fossil-hir identity.rs:189-192: an edge that points at a type the program does not
\* write is not an error.
OpenWorld == Execute(mappings).refused # "no-table"

\* The same graph three times over: what the rows say, what the N-Triples are and what a
\* reader of the GraphAr tables gets back (docs/format/round-trip), whatever the order of
\* the mappings and however their tables are numbered and merged.
SameImage == SameGraph(mappings)

\* What a run tells of its rows is what they are: refused for cause, dropped for cause.
RowsToldTrue == RefusedFor(mappings) /\ DroppedCounted(mappings)
=============================================================================
