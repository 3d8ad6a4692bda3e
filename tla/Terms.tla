------------------------------- MODULE Terms -------------------------------
(***************************************************************************)
(* What a graph means as RDF, which is said twice: by the N-Triples sink,  *)
(* which writes the terms themselves (fossil_sinks::ntriples), and by the  *)
(* mapping beside the GraphAr tables (fossil_mir::describe), read over the *)
(* columns as they are stored (fossil_sinks::graphar::layout).             *)
(*                                                                         *)
(* A column is what one property has of one vertex: the type the program   *)
(* gives it, the term its shape declares, whether it is a set, the         *)
(* languages it admits, the type its Arrow array has and its values.  A    *)
(* dictionary is its values, and NULLs are left out: no value, no term.    *)
(*                                                                         *)
(* A value is a number, and a text is what spells it, <<in which way,      *)
(* what>>; a column of texts has texts for values.  Numbers are in a unit  *)
(* of which a double holds every second and a float every fourth, and a    *)
(* float's shortest decimal is not always the double it is; instants are   *)
(* in halves of a millisecond.  A tag is the sequence of its subtags.      *)
(***************************************************************************)
EXTENDS Integers, Sequences, FiniteSets

Lists == INSTANCE SequencesExt

CONSTANTS
    Lower,              \* a word's lower case
    Most32, Most64,     \* the largest int32 and int64
    Absolute,           \* the texts that are absolute IRIs
    NoTerm,            \* no datatype, no predicate, no term
    Datatypes,          \* what a shape may declare a literal to be, NoTerm if it declares none
    LanguageLists,      \* the languages it may admit
    EmptyGraphs,        \* the schemas of a program and their subjects, nothing said of them yet
    ArrayValues(_, _),  \* what the array of a type may hold, of a set or of one value
    ObjectsSaid         \* the objects of its values

VARIABLE graph          \* what "describe" and the sinks say of one graph: a column, or its tables

Refuse(cause) == [refused |-> cause]
Admit(it) == [refused |-> "no", is |-> it]

Iri == [is |-> "iri"]
Literal(datatype) == [is |-> "literal", datatype |-> datatype]

-----------------------------------------------------------------------------
(* Arrow: what its columns hold, and how it spells it.                     *)

Whole == {"int32", "int64", "uint64"}

Double(n) == n - (n % 2)
Shortest(n) == IF n % 8 = 4 THEN n - 2 ELSE n

Text(type, v) ==
    CASE type = "float32" -> <<"number", Shortest(v)>>
      [] type \in Whole \cup {"float64", "decimal"} -> <<"number", v>>
      [] type = "zoned" -> <<"instant and zone", v>>
      [] type = "timestamp" -> <<"instant", v>>
      [] type = "text" -> v
      [] OTHER -> <<type, v>>

\* What a profile reads an Arrow type as; a type outside the lattice is a text.
Primitive(type) ==
    CASE type \in {"int32", "int64"} -> "Integer"
      [] type \in {"float32", "float64", "decimal"} -> "Float"
      [] type = "bool" -> "Bool"
      [] type = "date" -> "Date"
      [] type \in {"timestamp", "zoned"} -> "DateTime"
      [] type = "time" -> "Hour"
      [] type \in {"uint64", "text", "binary"} -> "String"

-----------------------------------------------------------------------------
(* A column as GraphAr stores it.                                          *)

\* stored_type: one type for each primitive, whatever the source's was.
StoredType(datatype) ==
    CASE datatype = "Integer" -> "int64"
      [] datatype = "Year" -> "int32"
      [] datatype = "Float" -> "double"
      [] datatype = "Bool" -> "bool"
      [] datatype = "Date" -> "date"
      [] datatype = "DateTime" -> "timestamp"
      [] datatype = "Lang" -> "langString"
      [] datatype \in {"String", "Hour", "Uri"} -> "string"

HeldType(type) ==
    CASE type = "int32" -> "int32"
      [] type \in {"int64", "uint64"} -> "int64"
      [] type = "float32" -> "float"
      [] type = "float64" -> "double"
      [] type \in {"bool", "date"} -> type
      [] type \in {"timestamp", "zoned"} -> "timestamp"
      [] type \in {"text", "time", "decimal", "binary"} -> "string"

HeldText(type, v) ==
    CASE type = "uint64" -> <<"number", IF v > Most64 THEN v - 2 * (Most64 + 1) ELSE v>>
      [] type = "float32" -> <<"number", v>>
      [] type \in {"timestamp", "zoned"} -> <<"instant", v - (v % 2)>>
      [] type = "binary" -> <<"hex", v>>
      [] OTHER -> Text(type, v)

\* held: nothing past int64, and nothing finer than a millisecond.
Held(type, v) ==
    IF (type = "uint64" /\ v > Most64) \/ (type \in {"timestamp", "zoned"} /\ v % 2 = 1)
    THEN Refuse("unrepresentable") ELSE Admit(HeldText(type, v))

\* How the values of a stored type are spelled.
Spelled(stored) ==
    CASE stored \in {"int32", "int64", "double"} -> "number"
      [] stored = "timestamp" -> "instant"
      [] stored \in {"bool", "date"} -> stored

\* A value cast: anything to a text, a text to what it spells, a number to the nearest
\* the type has.
Converted(want, text) ==
    IF want = "string" THEN text
    ELSE IF text[1] # Spelled(want) \/ (want = "int32" /\ text[2] > Most32) THEN NoTerm
    ELSE IF want = "double" THEN <<text[1], Double(text[2])>>
    ELSE text

\* stored: as it is held when that is its primitive's type, and else converted, if it
\* comes back from there as it was.
Stored(column, v) ==
    LET want == StoredType(column.datatype)
        held == Held(column.type, v)
        converted == Converted(want, Text(column.type, v))
    IN  IF held.refused # "no" \/ HeldType(column.type) = want THEN held
        ELSE IF column.type = "float32" /\ want = "double" THEN held
        ELSE IF converted = Text(column.type, v) THEN Admit(converted)
        ELSE Refuse("unrepresentable")

WellFormed(tag) == tag # <<>> /\ \A i \in DOMAIN tag : tag[i] # ""
Lowered(tag) == [i \in DOMAIN tag |-> Lower[tag[i]]]

\* language_matches: a range takes what it is and what goes on from it.
LanguageMatches(tag, ranges) ==
    ranges = {} \/ \E r \in ranges : r = <<"*">> \/ Lists!IsPrefix(Lowered(r), Lowered(tag))

\* hold_tags, lowered
Tagged(column, v) ==
    IF ~WellFormed(v.tag) THEN Refuse("invalid-language-tag")
    ELSE IF ~LanguageMatches(v.tag, column.languages) THEN Refuse("language-not-allowed")
    ELSE Admit([text |-> v.text, tag |-> Lowered(v.tag)])

\* Mutant: what only bytes are is not said.
TextOfNoBytes(type) == IF type \in {"time", "decimal"} THEN type ELSE NoTerm

\* text_of: what a column stored as a text was.
TextOf(type) ==
    CASE type \in {"time", "decimal"} -> type
      [] type = "binary" -> "hexBinary"
      [] OTHER -> NoTerm

\* vertex, set: the column, the note the mapping needs of it, or a refusal.  A set
\* holds no element twice.
Column(column) ==
    LET each == {IF column.datatype = "Lang" THEN Tagged(column, v) ELSE Stored(column, v) : v \in column.values}
        refused == {e.refused : e \in each} \ {"no"}
    IN  IF refused # {} THEN Refuse(CHOOSE r \in refused : TRUE)
        ELSE IF column.several /\ Cardinality(each) < Cardinality(column.values) THEN Refuse("duplicate-value")
        ELSE Admit([elements |-> {e.is : e \in each},
                    note |-> IF StoredType(column.datatype) = "string" THEN TextOf(column.type) ELSE NoTerm])

-----------------------------------------------------------------------------
(* The mapping.                                                            *)

\* The datatype an object map gives: the declared one, and failing that the one the
\* column has lost by being stored as it is.
MapDatatype(column, note) ==
    IF column.term.is = "literal" /\ column.term.datatype # NoTerm THEN column.term.datatype
    ELSE CASE column.datatype = "Year" -> "gYear"
           [] column.datatype = "Hour" -> "time"
           [] OTHER -> note

\* What a reader of the table makes of a column it is told nothing of.
NaturalOf(stored) ==
    CASE stored \in {"int32", "int64"} -> "integer"
      [] stored \in {"bool", "date", "double"} -> stored
      [] stored = "timestamp" -> "dateTime"
      [] stored = "string" -> "string"

\* object, and a reader of it: no term for what is no IRI, and none without a form.
Object(column, note, element) ==
    LET datatype == MapDatatype(column, note) IN
    CASE column.datatype = "Lang" ->
            IF element.text = NoTerm THEN NoTerm ELSE <<"tagged", <<"text", element.text>>, element.tag>>
      [] column.datatype # "Lang" /\ column.term.is = "iri" ->
            IF element \in Absolute THEN <<"iri", element>> ELSE NoTerm
      [] OTHER ->
            <<"literal", element, IF datatype = NoTerm THEN NaturalOf(StoredType(column.datatype)) ELSE datatype>>

\* The tables, read through the mapping.
ReadThrough(column) ==
    LET laid == Column(column) IN
    IF laid.refused # "no" THEN laid
    ELSE Admit({Object(column, laid.is.note, e) : e \in laid.is.elements} \ {NoTerm})

-----------------------------------------------------------------------------
(* The triples.                                                            *)

\* natural: R2RML's, of the value as the engine holds it.
Natural(type) ==
    CASE type \in Whole -> "integer"
      [] type \in {"float32", "float64"} -> "double"
      [] type \in {"timestamp", "zoned"} -> "dateTime"
      [] type = "bool" -> "bool"
      [] type \in {"decimal", "date", "time"} -> type
      [] type = "binary" -> "hexBinary"
      [] type = "text" -> "string"

\* datatype
Datatype(column) ==
    IF column.term.is = "literal" /\ column.term.datatype # NoTerm THEN column.term.datatype
    ELSE CASE column.datatype = "Year" -> "gYear"
           [] column.datatype = "Hour" -> "time"
           [] OTHER -> Natural(column.type)

\* lexical: its text, bytes in capitals.
Lexical(type, v) == IF type = "binary" THEN <<"HEX", v>> ELSE Text(type, v)

\* language_tagged
LanguageTagged(v) ==
    IF v.text = NoTerm THEN Admit(NoTerm)
    ELSE IF ~WellFormed(v.tag) THEN Refuse("invalid-language-tag")
    ELSE Admit(<<"tagged", <<"text", v.text>>, Lowered(v.tag)>>)

\* objects
Objects(column) ==
    LET term(v) ==
            IF column.datatype = "Lang" THEN LanguageTagged(v)
            ELSE IF column.term.is = "literal" THEN Admit(<<"literal", Lexical(column.type, v), Datatype(column)>>)
            ELSE IF Lexical(column.type, v) \in Absolute THEN Admit(<<"iri", Lexical(column.type, v)>>)
            ELSE Refuse("invalid-iri")
        each == {term(v) : v \in column.values}
        refused == {e.refused : e \in each} \ {"no"}
    IN  IF refused # {} THEN Refuse(CHOOSE r \in refused : TRUE)
        ELSE Admit({e.is : e \in each} \ {NoTerm})

-----------------------------------------------------------------------------
(* Which graphs a mapping may be of: A2.                                   *)

\* A schema is its types, [label, class, columns], and its relations, [source, label,
\* destination, predicate]; a column is [name, predicate].  Any of the IRIs may be NoTerm:
\* what has none is in the tables alone.
Shared(columns) == \E i, j \in DOMAIN columns : i # j /\ columns[i].predicate = columns[j].predicate
                                               /\ columns[i].predicate # NoTerm

PredicatesOf(type) == {type.columns[i].predicate : i \in DOMAIN type.columns} \ {NoTerm}

Apart(types) == \A i, j \in DOMAIN types : i # j /\ types[i].class # NoTerm => types[i].class # types[j].class

\* admissible
Admissible(schema) ==
    /\ Apart(schema.types)
    /\ \A i \in DOMAIN schema.types :
         /\ ~Shared(schema.types[i].columns)
         /\ \A r \in schema.relations :
              r.source = schema.types[i].label => r.predicate \notin PredicatesOf(schema.types[i])

\* What the tables hold: the subjects of each type, the values of its columns and the
\* pairs of each relation.
Of(pairs, key) == {p.is : p \in {q \in pairs : q.of = key}}

\* vertex_maps, relation_map: a triple for a class, for a value and for a pair.
TriplesOf(schema, tables) ==
    (UNION {LET t == schema.types[i] IN
           {<<s, "type", t.class>> : s \in IF t.class = NoTerm THEN {} ELSE tables.subjects[t.label]}
           \cup UNION {{<<v[1], t.columns[k].predicate, v[2]>> : v \in Of(tables.values, <<t.label, t.columns[k].name>>)} :
                         k \in {j \in DOMAIN t.columns : t.columns[j].predicate # NoTerm}} :
              i \in DOMAIN schema.types})
    \cup UNION {{<<e[1], r.predicate, e[2]>> : e \in Of(tables.pairs, r)} :
                    r \in {s \in schema.relations : s.predicate # NoTerm}}

-----------------------------------------------------------------------------
(* Properties                                                              *)

\* A term as what it denotes: numbers as doubles, bytes in either case.
Worth(term) ==
    IF term[1] # "literal" THEN term
    ELSE CASE term[3] \in {"double", "decimal"} /\ term[2][1] = "number" -> <<"literal", <<"number", Double(term[2][2])>>, term[3]>>
           [] term[3] = "hexBinary" /\ term[2][1] = "HEX" -> <<"literal", <<"hex", term[2][2]>>, term[3]>>
           [] OTHER -> term

Lattice == {"Integer", "Float", "Bool", "Date", "DateTime", "Hour", "String"}
ArrowTypes == {"int32", "int64", "uint64", "float32", "float64", "decimal", "bool", "date", "timestamp", "zoned", "time", "binary", "text"}

\* A described column, one nobody described, one of an RDF source, a sum, a year, an IRI.
TypedAs ==
    {<<Primitive(t), t>> : t \in ArrowTypes} \cup {<<"String", t>> : t \in ArrowTypes}
    \cup {<<p, "text">> : p \in Lattice \cup {"Year", "Uri"}}
    \cup {<<"Float", "int64">>, <<"Year", "int32">>, <<"Lang", "tagged">>}

\* A column: only a text is declared an IRI, and only a set has several values.
ColumnOf(column) ==
    /\ <<column.datatype, column.type>> \in TypedAs
    /\ \/ column.term = Iri /\ column.type = "text" /\ column.datatype \in {"String", "Uri"}
       \/ column.term = Literal(column.term.datatype)
    /\ column.type \notin {"bool", "text", "tagged"} => column.values \subseteq Int
    /\ IsFiniteSet(column.values)
    /\ column.several \/ \A v, w \in column.values : v = w

\* Where the two do say two things of one value: a float's decimal is another double than
\* it is; an instant keeps its zone in one; bytes declared something else than bytes are
\* capitals in one; and where the shape declares no datatype, a column stored as another
\* type than its own has the datatype of the one here and of the other there.
SpeltTwice(column) ==
    \/ column.type = "float32" /\ column.datatype = "Float" /\ \E v \in column.values : Shortest(v) # v
    \/ column.type = "zoned" /\ column.datatype = "DateTime"
    \/ column.type = "binary" /\ column.term # Literal(NoTerm)
    \/ /\ column.term = Literal(NoTerm)
       /\ \/ column.datatype = "String" /\ column.type \notin {"text", "time", "decimal", "binary"}
          \/ column.datatype = "Float" /\ column.type \in {"decimal", "int64"}
          \/ column.datatype \notin {"String", "Uri", "Year", "Hour", "Lang"} /\ column.type = "text"

\* Both sinks mean the same terms (ntriples.rs:20-23, architecture.mdx:49-55): what one
\* stores the other writes, but for a text declared an IRI that is none, the terms are of
\* one value each, and no two values are one term.
MeansOneThing(column) ==
    LET image == ReadThrough(column)
        triples == Objects(column)
        forms == {v \in column.values : column.datatype = "Lang" => v.text # NoTerm}
    IN  image.refused = "no" =>
            /\ triples.refused \in {"no", "invalid-iri"}
            /\ triples.refused = "no" =>
                 /\ Cardinality(image.is) = Cardinality(forms)
                 /\ ~SpeltTwice(column) => {Worth(t) : t \in image.is} = {Worth(t) : t \in triples.is}

LabelsOf(schema) == {schema.types[i].label : i \in DOMAIN schema.types}

\* Tables of a schema: the types have labels of their own, a subject is of one type (A1),
\* values and pairs are of the subjects of their types, and no predicate is that of classes.
TablesOf(schema, tables) ==
    /\ \A i, j \in DOMAIN schema.types : schema.types[i].label = schema.types[j].label => i = j
    /\ \A l, m \in LabelsOf(schema) : tables.subjects[l] \cap tables.subjects[m] # {} => l = m
    /\ \A i \in DOMAIN schema.types : LET t == schema.types[i] IN
          \A k \in DOMAIN t.columns :
             /\ t.columns[k].predicate # "type"
             /\ \A v \in Of(tables.values, <<t.label, t.columns[k].name>>) :
                   v[1] \in tables.subjects[t.label] /\ v = <<v[1], v[2]>>
    /\ \A r \in schema.relations :
          /\ {r.source, r.destination} \subseteq LabelsOf(schema) /\ r.predicate # "type"
          /\ \A e \in Of(tables.pairs, r) :
                e \in tables.subjects[r.source] \X tables.subjects[r.destination]

\* The tables, out of their triples.
SubjectsIn(schema, triples, label) ==
    {t[1] : t \in {u \in triples : \E i \in DOMAIN schema.types :
                      schema.types[i].label = label /\ u[2] = "type" /\ u[3] = schema.types[i].class}}

Pairs(triples, predicate, from) == {<<t[1], t[3]>> : t \in {u \in triples : u[2] = predicate /\ u[1] \in from}}

\* What A2 admits is not lost by being said as RDF (round-trip.mdx, R2), whenever a
\* subject is of one type (A1) and the types have a class: every column of a predicate and
\* every relation of one reads back as it was.  Two relations of one source, one predicate
\* and one destination are not told apart, and A2 does not refuse them.
ReadsBackFrom(schema, tables) ==
    LET triples == TriplesOf(schema, tables)
        classed == {i \in DOMAIN schema.types : schema.types[i].class # NoTerm}
        labels == {schema.types[i].label : i \in classed}
        from(label) == SubjectsIn(schema, triples, label)
        said == {r \in schema.relations : r.predicate # NoTerm /\ {r.source, r.destination} \subseteq labels}
        apart == \A r, s \in said :
                    <<r.source, r.predicate, r.destination>> = <<s.source, s.predicate, s.destination>> => r = s
    IN  Admissible(schema) /\ apart =>
            /\ \A i \in classed : LET t == schema.types[i] IN
                 /\ from(t.label) = tables.subjects[t.label]
                 /\ \A k \in DOMAIN t.columns :
                      t.columns[k].predicate # NoTerm =>
                          Pairs(triples, t.columns[k].predicate, from(t.label)) = Of(tables.values, <<t.label, t.columns[k].name>>)
            /\ \A r \in said :
                 {p \in Pairs(triples, r.predicate, from(r.source)) : p[2] \in from(r.destination)} = Of(tables.pairs, r)

-----------------------------------------------------------------------------
(* A graph, a value at a time: of one column, or of any of its tables.      *)

\* Any column of a vertex that has no values yet.
EmptyColumns ==
    LET Empty(p, t, s, l) == [kind |-> "column", datatype |-> p[1], type |-> p[2], term |-> t, several |-> s,
                              languages |-> l, values |-> {}]
    IN  {Empty(p, Literal(x), s, {}) : p \in TypedAs, x \in Datatypes, s \in BOOLEAN}
        \cup {Empty(<<p, "text">>, Iri, s, {}) : p \in {"String", "Uri"}, s \in BOOLEAN}
        \cup {Empty(<<"Lang", "tagged">>, Literal("langString"), s, l) : s \in BOOLEAN, l \in LanguageLists}

MeaningInit == graph \in EmptyColumns \cup EmptyGraphs

AddValue ==
    /\ graph.kind = "column" /\ (graph.several \/ graph.values = {})
    /\ \E v \in ArrayValues(graph.type, graph.several) : graph' = [graph EXCEPT !.values = @ \cup {v}]

AddCell ==
    /\ graph.kind = "schema"
    /\ \E i \in DOMAIN graph.schema.types : LET t == graph.schema.types[i] IN
         \E k \in DOMAIN t.columns, s \in graph.tables.subjects[t.label], o \in ObjectsSaid :
            graph' = [graph EXCEPT !.tables.values = @ \cup {[of |-> <<t.label, t.columns[k].name>>, is |-> <<s, o>>]}]

AddPair ==
    /\ graph.kind = "schema"
    /\ \E r \in graph.schema.relations :
         \E s \in graph.tables.subjects[r.source], o \in graph.tables.subjects[r.destination] :
            graph' = [graph EXCEPT !.tables.pairs = @ \cup {[of |-> r, is |-> <<s, o>>]}]

MeaningNext == AddValue \/ AddCell \/ AddPair

MeaningSpec == MeaningInit /\ [][MeaningNext]_graph

\* An array holds what its type has, and a graph starts as the tables of a schema.
ASSUME MeaningAssumption ==
    /\ \A p \in TypedAs, several \in BOOLEAN :
          p[2] \notin {"bool", "text", "tagged"} => ArrayValues(p[2], several) \subseteq Int
    /\ \A g \in EmptyGraphs :
         /\ g = [kind |-> "schema", schema |-> g.schema,
                 tables |-> [subjects |-> g.tables.subjects, values |-> {}, pairs |-> {}]]
         /\ TablesOf(g.schema, g.tables)

\* The tables and the triples mean one thing, and what the tables hold is not lost in it.
MeaningKept ==
    /\ graph.kind = "column" => ColumnOf(graph) /\ MeansOneThing(graph)
    /\ graph.kind = "schema" => TablesOf(graph.schema, graph.tables) /\ ReadsBackFrom(graph.schema, graph.tables)
=============================================================================
