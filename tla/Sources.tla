------------------------------ MODULE Sources -------------------------------
(***************************************************************************)
(* What a source is read as (fossil-exec's read_source and what it calls,  *)
(* and rdf.rs): the names of a CSV's columns and which of them are text for *)
(* the zeros they begin with, what is at a location, and the relation an    *)
(* RDF graph is pivoted into.                                              *)
(*                                                                         *)
(* A column name is its stem and the numbers it has grown; a CSV is its     *)
(* bytes, whatever chunks they arrive in; a graph is its triples.           *)
(***************************************************************************)
EXTENDS Integers, Sequences, FiniteSets

LOCAL INSTANCE SequencesExt
LOCAL INSTANCE FiniteSetsExt
LOCAL INSTANCE Functions

CONSTANTS
    Lower,      \* a stem without case
    NoType      \* a mapping's vertex without an rdf_type

-----------------------------------------------------------------------------
(* unique_column_names.                                                    *)

Folded(name) == <<Lower[name[1]]>> \o Tail(name)

RECURSIVE Untaken(_, _)

\* A name that is taken grows the next number of the one it meets, until none is met.
Untaken(name, taken) ==
    IF Folded(name) \notin DOMAIN taken THEN [name |-> name, taken |-> taken]
    ELSE LET n == taken[Folded(name)] + 1 IN
         Untaken(Append(name, n), [taken EXCEPT ![Folded(name)] = n])

\* Mutant: a number is grown once, and not again when that name is taken too.
UniqueOnce(header) ==
    [i \in DOMAIN header |->
        LET before == {j \in 1 .. i - 1 : Folded(header[j]) = Folded(header[i])} IN
        IF before = {} THEN header[i] ELSE Append(header[i], Cardinality(before))]

UniqueNames(header) ==
    LET Take(s, name) ==
            LET u == Untaken(name, s.taken) IN
            [names |-> Append(s.names, u.name),
             taken |-> [f \in DOMAIN u.taken \cup {Folded(u.name)} |-> IF f = Folded(u.name) THEN 0 ELSE u.taken[f]]]
    IN  FoldLeft(Take, [names |-> <<>>, taken |-> [f \in {} |-> 0]], header).names

-----------------------------------------------------------------------------
(* LeadingZeros, over csv_core's tokenizer.  A reader stands before a       *)
(* record, before a field, in one, in a quoted one, or behind a quote that  *)
(* may have closed it.                                                     *)

Zeros == [at |-> "record", field |-> <<>>, column |-> 1, header |-> TRUE, text |-> {}]

Digit == {"0", "1"}

\* leading_zero: after a sign or none, a zero with a digit behind it.
LeadingZero(field) ==
    LET digits == IF field # <<>> /\ field[1] \in {"-", "+"} THEN Tail(field) ELSE field IN
    Len(digits) >= 2 /\ digits[1] = "0" /\ digits[2] \in Digit

\* LeadingZeros::feed, at a field.
Field(z, recordEnd) ==
    [z EXCEPT !.at = IF recordEnd THEN "record" ELSE "field",
              !.text = IF ~z.header /\ LeadingZero(z.field) THEN @ \cup {z.column} ELSE @,
              !.field = <<>>,
              !.column = IF recordEnd THEN 1 ELSE @ + 1,
              !.header = @ /\ ~recordEnd]

In(z, byte, at) == [z EXCEPT !.field = Append(@, byte), !.at = at]

\* read_field, of one byte: an empty line is no record, and a quote is one where a field
\* begins, or where it follows another within quotes.
Byte(z, byte) ==
    CASE z.at = "record" /\ byte = "line" -> z
      [] z.at \in {"record", "field"} /\ byte = "quote" -> [z EXCEPT !.at = "quoted"]
      [] z.at = "quoted" -> IF byte = "quote" THEN [z EXCEPT !.at = "closed"] ELSE In(z, byte, "quoted")
      [] z.at = "closed" /\ byte = "quote" -> In(z, byte, "quoted")
      [] byte = "," -> Field(z, FALSE)
      [] byte = "line" -> Field(z, TRUE)
      [] OTHER -> In(z, byte, "plain")

\* LeadingZeros::feed: what is read of a chunk is kept for the next.
Feed(z, chunk) == FoldLeft(Byte, z, chunk)

\* feed(&[]), once there are no more: the last record may have no end of its own.
Finished(z) == IF z.at = "record" THEN z ELSE Field(z, TRUE)

-----------------------------------------------------------------------------
(* read_source: what is at a location.                                     *)

\* source_files lists what is at it and beneath it; fetch_bytes asks for it alone.
ReadAt(format, at, beneath, first) ==
    CASE format \in {"csv", "parquet"} -> IF at \/ beneath THEN "rows" ELSE "not-found"
      [] format = "json" ->
            IF ~at THEN "not-found"
            ELSE CASE first = "array" -> "rows"
                   [] first = "empty-array" -> "refused"
                   [] OTHER -> "lines"

-----------------------------------------------------------------------------
(* RDF: provider_bindings, and the pivot.  A mapping is [reads, type,       *)
(* props], a property [predicate, single, column], its column NoType where  *)
(* what is written is not a column as it stands.                            *)

\* rdf_columns: the columns the mapping writes as they are, under the predicates it writes.
RdfColumns(m) ==
    LET plain == SelectSeq(m.props, LAMBDA p : p.column # NoType) IN
    [i \in DOMAIN plain |-> [name |-> plain[i].column, predicate |-> plain[i].predicate, multi |-> ~plain[i].single]]

ProviderBindings(prog) ==
    [i \in DOMAIN prog |-> [binding |-> prog[i].reads, type |-> prog[i].type, columns |-> RdfColumns(prog[i])]]

\* A table has one name and one column of a name; the engine refuses a second.
NamedTwice(s) == \E i, j \in DOMAIN s : i < j /\ s[i] = s[j]
Unregistered(prog) ==
    LET b == ProviderBindings(prog) IN
    \/ NamedTwice([i \in DOMAIN b |-> b[i].binding])
    \/ \E i \in DOMAIN b : NamedTwice([j \in DOMAIN b[i].columns |-> b[i].columns[j].name])

Ascending(set) == SetToSortSeq(set, <)
Objects(graph, s, p) == {t[3] : t \in {u \in graph : u[1] = s /\ u[2] = p}}

\* rdf_to_batch: a row for each subject of the type, in their order.
Pivot(graph, type, columns) ==
    LET subjects == Ascending({s \in {t[1] : t \in graph} : type \in Objects(graph, s, "type")})
        Cell(s, c) ==
            LET objects == Objects(graph, s, c.predicate) IN
            IF c.multi THEN Ascending(objects)
            ELSE IF objects = {} THEN <<>> ELSE <<Min(objects)>>
    IN  [i \in DOMAIN subjects |->
            [subject |-> subjects[i],
             cells |-> [n \in {columns[j].name : j \in DOMAIN columns} |->
                           Cell(subjects[i], CHOOSE c \in ToSet(columns) : c.name = n)]]]

-----------------------------------------------------------------------------
(* Properties.                                                             *)

\* Names made unique are: no two alike without case, each its own or grown from it by a number
\* no smaller one of which was free; and they are unique already.
NamesUnique(header) ==
    LET names == UniqueNames(header)
        Alike(x, y) == Lower[x[1]] = Lower[y[1]] /\ Tail(x) = Tail(y)
        TakenBefore(name, i) == \E j \in 1 .. i - 1 : Alike(names[j], name)
    IN  /\ UniqueNames(names) = names
        /\ \A i \in DOMAIN names :
             /\ ~TakenBefore(names[i], i)
             /\ IsPrefix(header[i], names[i])
             /\ \A k \in Len(header[i]) .. Len(names[i]) - 1 :
                  LET stem == SubSeq(names[i], 1, k) IN
                  /\ TakenBefore(stem, i)
                  /\ \A n \in 1 .. names[i][k + 1] - 1 : TakenBefore(Append(stem, n), i)

\* A value as a CSV may spell it: in quotes, its own doubled, or as it is where nothing in it
\* means something else.
Quoted(value) == <<"quote">> \o FlattenSeq([i \in DOMAIN value |-> IF value[i] = "quote" THEN <<"quote", "quote">> ELSE <<value[i]>>]) \o <<"quote">>
PlainAt(value, sole) ==
    /\ value = <<>> => ~sole
    /\ \A i \in DOMAIN value : value[i] \notin {",", "line"} /\ (i = 1 => value[i] # "quote")

\* The columns kept as text are those one of whose values has a leading zero, however they
\* are spelled, `kept` being those of the values written so far.
ZerosKept(kept, z) == Finished(z).text = kept

\* A location that holds nothing is said to, and nothing else is.
MissingSaid ==
    \A format \in {"csv", "parquet", "json"}, at, beneath \in BOOLEAN, first \in {"array", "empty-array", "lines"} :
        /\ ReadAt(format, at, beneath, first) = "not-found" => ~at
        /\ ~at /\ ~beneath => ReadAt(format, at, beneath, first) = "not-found"

\* What a mapping of a source writes of its columns is what the graph says of its subjects,
\* where it writes them under the type and the predicates the source's shape has for them.
SameTerms(m, shape) ==
    /\ m.type = shape.type
    /\ \A i \in DOMAIN m.props : m.props[i].column # NoType =>
          m.props[i].predicate = shape.predicates[m.props[i].column]

PivotSaysGraph(prog, shapes, graph) ==
    ~Unregistered(prog) => \A i \in DOMAIN prog :
        LET m == prog[i]
            shape == shapes[m.reads]
            rows == Pivot(graph, ProviderBindings(prog)[i].type, ProviderBindings(prog)[i].columns)
        IN  SameTerms(m, shape) =>
              /\ {rows[r].subject : r \in DOMAIN rows} = {t[1] : t \in {u \in graph : u[2] = "type" /\ u[3] = shape.type}}
              /\ \A r, q \in DOMAIN rows : r < q => rows[r].subject < rows[q].subject
              /\ \A r \in DOMAIN rows : \A p \in {x \in ToSet(m.props) : x.column # NoType} :
                   LET said == Objects(graph, rows[r].subject, shape.predicates[p.column])
                       read == rows[r].cells[p.column]
                   IN  /\ ToSet(read) \subseteq said
                       /\ IF p.single THEN Len(read) = 1 <=> said # {} ELSE ToSet(read) = said /\ Len(read) = Cardinality(said)

\* What the source's shape has is what is read, whatever the mapping writes of it: NOT so, the
\* pivot is made of the mapping's type and predicates.
PivotOfItsShape(prog, shapes, graph) ==
    \A i \in DOMAIN prog :
        {t[1] : t \in {u \in graph : u[2] = "type" /\ u[3] = shapes[prog[i].reads].type}}
            = {r.subject : r \in ToSet(Pivot(graph, prog[i].type, RdfColumns(prog[i])))}
=============================================================================
