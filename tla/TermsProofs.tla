----------------------------- MODULE TermsProofs -----------------------------
(* Proofs about what a graph means as RDF (Terms): its tables read back from *)
(* its triples, and both sinks say the same terms of a column.               *)
EXTENDS Terms, FiniteSetTheorems, TLAPS

(***************************************************************************)
(* The tables, out of their triples.                                       *)
(***************************************************************************)

\* A triple is of a class, of a value or of a pair.
ClassTriple(schema, tables, u) ==
    \E i \in DOMAIN schema.types :
        /\ schema.types[i].class # NoTerm
        /\ \E s \in tables.subjects[schema.types[i].label] : u = <<s, "type", schema.types[i].class>>

ValueTriple(schema, tables, u) ==
    \E i \in DOMAIN schema.types : \E k \in DOMAIN schema.types[i].columns :
        /\ schema.types[i].columns[k].predicate # NoTerm
        /\ \E v \in Of(tables.values, <<schema.types[i].label, schema.types[i].columns[k].name>>) :
              u = <<v[1], schema.types[i].columns[k].predicate, v[2]>>

PairTriple(schema, tables, u) ==
    \E r \in schema.relations :
        r.predicate # NoTerm /\ \E e \in Of(tables.pairs, r) : u = <<e[1], r.predicate, e[2]>>

\* The triples of a type, and of a relation.
OfType(schema, tables, t) ==
    {<<s, "type", t.class>> : s \in IF t.class = NoTerm THEN {} ELSE tables.subjects[t.label]}
    \cup UNION {{<<v[1], t.columns[k].predicate, v[2]>> : v \in Of(tables.values, <<t.label, t.columns[k].name>>)} :
                  k \in {j \in DOMAIN t.columns : t.columns[j].predicate # NoTerm}}

OfRelation(tables, r) == {<<e[1], r.predicate, e[2]>> : e \in Of(tables.pairs, r)}

LEMMA TriplesAre ==
    ASSUME NEW schema, NEW tables, NEW u
    PROVE  u \in TriplesOf(schema, tables) <=>
               ClassTriple(schema, tables, u) \/ ValueTriple(schema, tables, u) \/ PairTriple(schema, tables, u)
  <1>1. TriplesOf(schema, tables) =
           (UNION {OfType(schema, tables, schema.types[i]) : i \in DOMAIN schema.types})
           \cup UNION {OfRelation(tables, r) : r \in {s \in schema.relations : s.predicate # NoTerm}}
    BY DEF TriplesOf, OfType, OfRelation
  <1>2. u \in TriplesOf(schema, tables) <=>
            \/ \E i \in DOMAIN schema.types : u \in OfType(schema, tables, schema.types[i])
            \/ \E r \in schema.relations : r.predicate # NoTerm /\ u \in OfRelation(tables, r)
    BY <1>1
  <1>3. ASSUME NEW i \in DOMAIN schema.types
        PROVE  u \in OfType(schema, tables, schema.types[i]) <=>
                 \/ /\ schema.types[i].class # NoTerm
                    /\ \E s \in tables.subjects[schema.types[i].label] : u = <<s, "type", schema.types[i].class>>
                 \/ \E k \in DOMAIN schema.types[i].columns :
                      /\ schema.types[i].columns[k].predicate # NoTerm
                      /\ \E v \in Of(tables.values, <<schema.types[i].label, schema.types[i].columns[k].name>>) :
                            u = <<v[1], schema.types[i].columns[k].predicate, v[2]>>
    BY DEF OfType
  <1>4. ASSUME NEW r \in schema.relations
        PROVE  u \in OfRelation(tables, r) <=> \E e \in Of(tables.pairs, r) : u = <<e[1], r.predicate, e[2]>>
    BY DEF OfRelation
  <1>5. (\E i \in DOMAIN schema.types : u \in OfType(schema, tables, schema.types[i])) <=>
            ClassTriple(schema, tables, u) \/ ValueTriple(schema, tables, u)
    BY <1>3 DEF ClassTriple, ValueTriple
  <1>6. (\E r \in schema.relations : r.predicate # NoTerm /\ u \in OfRelation(tables, r)) <=> PairTriple(schema, tables, u)
    BY <1>4 DEF PairTriple
  <1> QED BY <1>2, <1>5, <1>6

\* The subjects of a type that has a class are those that are said to be of it.
LEMMA SubjectsReadBack ==
    ASSUME NEW schema, NEW tables, TablesOf(schema, tables), Apart(schema.types),
           NEW i \in DOMAIN schema.types, schema.types[i].class # NoTerm
    PROVE  SubjectsIn(schema, TriplesOf(schema, tables), schema.types[i].label)
               = tables.subjects[schema.types[i].label]
  <1> DEFINE label == schema.types[i].label
             class == schema.types[i].class
             triples == TriplesOf(schema, tables)
  <1>1. ASSUME NEW s \in tables.subjects[label] PROVE s \in SubjectsIn(schema, triples, label)
    <2>1. <<s, "type", class>> \in triples
      BY <1>1, TriplesAre DEF ClassTriple
    <2>2. <<s, "type", class>>[1] = s /\ <<s, "type", class>>[2] = "type" /\ <<s, "type", class>>[3] = class
      OBVIOUS
    <2> QED BY <2>1, <2>2 DEF SubjectsIn
  <1>2. ASSUME NEW s \in SubjectsIn(schema, triples, label) PROVE s \in tables.subjects[label]
    <2>1. PICK u \in triples : /\ s = u[1] /\ u[2] = "type"
                               /\ \E j \in DOMAIN schema.types :
                                    schema.types[j].label = label /\ u[3] = schema.types[j].class
      BY <1>2 DEF SubjectsIn
    <2>2. u[3] = class
      BY <2>1 DEF TablesOf
    <2>3. CASE ClassTriple(schema, tables, u)
      <3>1. PICK j \in DOMAIN schema.types :
              /\ schema.types[j].class # NoTerm
              /\ \E x \in tables.subjects[schema.types[j].label] : u = <<x, "type", schema.types[j].class>>
        BY <2>3 DEF ClassTriple
      <3>2. j = i
        BY <2>2, <3>1 DEF Apart
      <3> QED BY <2>1, <3>1, <3>2
    <2>4. ~ValueTriple(schema, tables, u) /\ ~PairTriple(schema, tables, u)
      <3>1. ASSUME ValueTriple(schema, tables, u) PROVE FALSE
        <4>1. PICK j \in DOMAIN schema.types : \E n \in DOMAIN schema.types[j].columns : \E v :
                u = <<v[1], schema.types[j].columns[n].predicate, v[2]>>
          BY <3>1 DEF ValueTriple
        <4>2. PICK n \in DOMAIN schema.types[j].columns : \E v :
                u = <<v[1], schema.types[j].columns[n].predicate, v[2]>>
          BY <4>1
        <4>3. u[2] = schema.types[j].columns[n].predicate
          BY <4>2
        <4> QED BY <2>1, <4>3 DEF TablesOf
      <3>2. ASSUME PairTriple(schema, tables, u) PROVE FALSE
        <4>1. PICK r \in schema.relations : \E e : u = <<e[1], r.predicate, e[2]>>
          BY <3>2 DEF PairTriple
        <4>2. u[2] = r.predicate
          BY <4>1
        <4> QED BY <2>1, <4>2 DEF TablesOf
      <3> QED BY <3>1, <3>2
    <2> QED BY <2>3, <2>4, TriplesAre
  <1> QED BY <1>1, <1>2

\* A column with a predicate of its own is the pairs that are said of its subjects with it.
LEMMA ColumnsReadBack ==
    ASSUME NEW schema, NEW tables, TablesOf(schema, tables), Admissible(schema),
           NEW i \in DOMAIN schema.types, NEW k \in DOMAIN schema.types[i].columns,
           schema.types[i].columns[k].predicate # NoTerm
    PROVE  Pairs(TriplesOf(schema, tables), schema.types[i].columns[k].predicate, tables.subjects[schema.types[i].label])
               = Of(tables.values, <<schema.types[i].label, schema.types[i].columns[k].name>>)
  <1> DEFINE label == schema.types[i].label
             predicate == schema.types[i].columns[k].predicate
             triples == TriplesOf(schema, tables)
             values == Of(tables.values, <<label, schema.types[i].columns[k].name>>)
             pairs == Pairs(triples, predicate, tables.subjects[label])
  <1>1. ASSUME NEW v \in values PROVE v \in pairs
    <2>1. <<v[1], predicate, v[2]>> \in triples
      BY <1>1, TriplesAre DEF ValueTriple
    <2>2. v[1] \in tables.subjects[label] /\ v = <<v[1], v[2]>>
      BY <1>1 DEF TablesOf
    <2>3. <<v[1], predicate, v[2]>>[1] = v[1] /\ <<v[1], predicate, v[2]>>[2] = predicate
          /\ <<v[1], predicate, v[2]>>[3] = v[2]
      OBVIOUS
    <2> QED BY <2>1, <2>2, <2>3 DEF Pairs
  <1>2. ASSUME NEW p \in pairs PROVE p \in values
    <2>1. PICK u \in triples : p = <<u[1], u[3]>> /\ u[2] = predicate /\ u[1] \in tables.subjects[label]
      BY <1>2 DEF Pairs
    <2>2. ~ClassTriple(schema, tables, u)
      <3>1. ClassTriple(schema, tables, u) => u[2] = "type"
        BY DEF ClassTriple
      <3> QED BY <2>1, <3>1 DEF TablesOf
    <2>3. CASE ValueTriple(schema, tables, u)
      <3>0. PICK j \in DOMAIN schema.types : \E n \in DOMAIN schema.types[j].columns :
              /\ schema.types[j].columns[n].predicate # NoTerm
              /\ \E v \in Of(tables.values, <<schema.types[j].label, schema.types[j].columns[n].name>>) :
                    u = <<v[1], schema.types[j].columns[n].predicate, v[2]>>
        BY <2>3 DEF ValueTriple
      <3>1. PICK n \in DOMAIN schema.types[j].columns :
              /\ schema.types[j].columns[n].predicate # NoTerm
              /\ \E v \in Of(tables.values, <<schema.types[j].label, schema.types[j].columns[n].name>>) :
                    u = <<v[1], schema.types[j].columns[n].predicate, v[2]>>
        BY <3>0
      <3>2. PICK v \in Of(tables.values, <<schema.types[j].label, schema.types[j].columns[n].name>>) :
              u = <<v[1], schema.types[j].columns[n].predicate, v[2]>>
        BY <3>1
      <3>3. v[1] \in tables.subjects[schema.types[j].label] /\ v = <<v[1], v[2]>>
        BY <3>2 DEF TablesOf
      <3>4. schema.types[j].label = label
        BY <2>1, <3>2, <3>3 DEF TablesOf, LabelsOf
      <3>5. j = i
        BY <3>4 DEF TablesOf
      <3>6. n = k
        BY <2>1, <3>1, <3>2, <3>5 DEF Admissible, Shared
      <3> QED BY <2>1, <3>2, <3>3, <3>5, <3>6
    <2>4. ~PairTriple(schema, tables, u)
      <3> SUFFICES ASSUME NEW r \in schema.relations, r.predicate # NoTerm,
                          NEW e \in Of(tables.pairs, r), u = <<e[1], r.predicate, e[2]>>
                   PROVE  FALSE
        BY DEF PairTriple
      <3>1. e[1] \in tables.subjects[r.source] /\ r.source \in LabelsOf(schema)
        BY DEF TablesOf
      <3>2. r.source = label
        BY <2>1, <3>1 DEF TablesOf, LabelsOf
      <3>3. r.predicate = predicate
        BY <2>1
      <3>4. predicate \in PredicatesOf(schema.types[i])
        BY DEF PredicatesOf
      <3> QED BY <3>2, <3>3, <3>4 DEF Admissible
    <2> QED BY <2>2, <2>3, <2>4, TriplesAre
  <1> QED BY <1>1, <1>2

\* A relation with a predicate is the pairs that are said with it of its source's subjects
\* and its destination's, when no other relation says it of the same two types.
LEMMA RelationsReadBack ==
    ASSUME NEW schema, NEW tables, TablesOf(schema, tables), Admissible(schema),
           NEW r \in schema.relations, r.predicate # NoTerm,
           \A s \in schema.relations :
              <<s.source, s.predicate, s.destination>> = <<r.source, r.predicate, r.destination>> => s = r
    PROVE  {p \in Pairs(TriplesOf(schema, tables), r.predicate, tables.subjects[r.source]) :
               p[2] \in tables.subjects[r.destination]} = Of(tables.pairs, r)
  <1> DEFINE triples == TriplesOf(schema, tables)
             pairs == Pairs(triples, r.predicate, tables.subjects[r.source])
  <1>1. ASSUME NEW e \in Of(tables.pairs, r) PROVE e \in pairs /\ e[2] \in tables.subjects[r.destination]
    <2>1. e \in tables.subjects[r.source] \X tables.subjects[r.destination]
      BY <1>1 DEF TablesOf
    <2>2. <<e[1], r.predicate, e[2]>> \in triples
      BY <1>1, TriplesAre DEF PairTriple
    <2>3. <<e[1], r.predicate, e[2]>>[1] = e[1] /\ <<e[1], r.predicate, e[2]>>[2] = r.predicate
          /\ <<e[1], r.predicate, e[2]>>[3] = e[2]
      OBVIOUS
    <2> QED BY <2>1, <2>2, <2>3 DEF Pairs
  <1>2. ASSUME NEW p \in pairs, p[2] \in tables.subjects[r.destination] PROVE p \in Of(tables.pairs, r)
    <2>1. PICK u \in triples : p = <<u[1], u[3]>> /\ u[2] = r.predicate /\ u[1] \in tables.subjects[r.source]
      BY <1>2 DEF Pairs
    <2>2. ~ClassTriple(schema, tables, u)
      <3>1. ClassTriple(schema, tables, u) => u[2] = "type"
        BY DEF ClassTriple
      <3> QED BY <2>1, <3>1 DEF TablesOf
    <2>3. ~ValueTriple(schema, tables, u)
      <3> SUFFICES ASSUME NEW j \in DOMAIN schema.types, NEW n \in DOMAIN schema.types[j].columns,
                          schema.types[j].columns[n].predicate # NoTerm,
                          NEW v \in Of(tables.values, <<schema.types[j].label, schema.types[j].columns[n].name>>),
                          u = <<v[1], schema.types[j].columns[n].predicate, v[2]>>
                   PROVE  FALSE
        BY DEF ValueTriple
      <3>1. v[1] \in tables.subjects[schema.types[j].label]
        BY DEF TablesOf
      <3>2. r.source = schema.types[j].label
        BY <2>1, <3>1 DEF TablesOf, LabelsOf
      <3>3. r.predicate = schema.types[j].columns[n].predicate
        BY <2>1
      <3>4. r.predicate \in PredicatesOf(schema.types[j])
        BY <3>3 DEF PredicatesOf
      <3> QED BY <3>2, <3>4 DEF Admissible
    <2>4. CASE PairTriple(schema, tables, u)
      <3>1. PICK s \in schema.relations : \E e \in Of(tables.pairs, s) : u = <<e[1], s.predicate, e[2]>>
        BY <2>4 DEF PairTriple
      <3>2. PICK e \in Of(tables.pairs, s) : u = <<e[1], s.predicate, e[2]>>
        BY <3>1
      <3>3. e \in tables.subjects[s.source] \X tables.subjects[s.destination]
        BY <3>2 DEF TablesOf
      <3>4. s.source = r.source
        BY <2>1, <3>2, <3>3 DEF TablesOf
      <3>5. s.destination = r.destination
        BY <1>2, <2>1, <3>2, <3>3 DEF TablesOf
      <3>6. s.predicate = r.predicate
        BY <2>1, <3>2
      <3>7. s = r
        BY <3>4, <3>5, <3>6
      <3>8. p = e
        BY <2>1, <3>2, <3>3
      <3> QED BY <3>7, <3>8
    <2> QED BY <2>2, <2>3, <2>4, TriplesAre
  <1> QED BY <1>1, <1>2

\* Whatever a graph holds, its tables are read back from its triples: of an admissible
\* schema (describe.rs, admissible), a type that has a class has its subjects back, a
\* column its values and a relation its pairs (vertex_maps, relation_map).
THEOREM GraphsReadBack ==
    ASSUME NEW schema, NEW tables, TablesOf(schema, tables)
    PROVE  ReadsBackFrom(schema, tables)
  <1> DEFINE triples == TriplesOf(schema, tables)
             classed == {i \in DOMAIN schema.types : schema.types[i].class # NoTerm}
             labels == {schema.types[i].label : i \in classed}
             from(label) == SubjectsIn(schema, triples, label)
             said == {r \in schema.relations : r.predicate # NoTerm /\ {r.source, r.destination} \subseteq labels}
             apart == \A r, s \in said :
                        <<r.source, r.predicate, r.destination>> = <<s.source, s.predicate, s.destination>> => r = s
  <1> SUFFICES ASSUME Admissible(schema), apart
               PROVE  /\ \A i \in classed :
                           /\ from(schema.types[i].label) = tables.subjects[schema.types[i].label]
                           /\ \A k \in DOMAIN schema.types[i].columns :
                                schema.types[i].columns[k].predicate # NoTerm =>
                                  Pairs(triples, schema.types[i].columns[k].predicate, from(schema.types[i].label))
                                    = Of(tables.values, <<schema.types[i].label, schema.types[i].columns[k].name>>)
                      /\ \A r \in said :
                           {p \in Pairs(triples, r.predicate, from(r.source)) : p[2] \in from(r.destination)}
                             = Of(tables.pairs, r)
    BY DEF ReadsBackFrom
  <1>1. Apart(schema.types)
    BY DEF Admissible
  <1>2. \A i \in classed : from(schema.types[i].label) = tables.subjects[schema.types[i].label]
    BY <1>1, SubjectsReadBack
  <1>3. ASSUME NEW i \in classed, NEW k \in DOMAIN schema.types[i].columns,
               schema.types[i].columns[k].predicate # NoTerm
        PROVE  Pairs(triples, schema.types[i].columns[k].predicate, from(schema.types[i].label))
                 = Of(tables.values, <<schema.types[i].label, schema.types[i].columns[k].name>>)
    BY <1>2, <1>3, ColumnsReadBack
  <1>4. ASSUME NEW r \in said
        PROVE  {p \in Pairs(triples, r.predicate, from(r.source)) : p[2] \in from(r.destination)}
                 = Of(tables.pairs, r)
    <2>1. from(r.source) = tables.subjects[r.source] /\ from(r.destination) = tables.subjects[r.destination]
      BY <1>2
    <2>2. \A s \in schema.relations :
             <<s.source, s.predicate, s.destination>> = <<r.source, r.predicate, r.destination>> => s = r
      OBVIOUS
    <2> HIDE DEF from, triples
    <2>3. r \in schema.relations /\ r.predicate # NoTerm
      OBVIOUS
    <2> QED BY <2>1, <2>2, <2>3, RelationsReadBack DEF triples
  <1> QED BY <1>2, <1>3, <1>4


(***************************************************************************)
(* A column, as it is stored and as it is written.                         *)
(***************************************************************************)

\* Whatever stands for what is not there is no term and no datatype.
NothingIsNoTerm ==
    /\ \A x, y, z : <<x, y>> # NoTerm /\ <<x, y, z>> # NoTerm
    /\ NoTerm \notin {"gYear", "time", "decimal", "hexBinary"}

\* A value as the tables hold it, what the mapping needs to be told, and the value's triple.
Element(column, v) == IF column.datatype = "Lang" THEN Tagged(column, v) ELSE Stored(column, v)

Note(column) == IF StoredType(column.datatype) = "string" THEN TextOf(column.type) ELSE NoTerm

TermOf(column, v) ==
    IF column.datatype = "Lang" THEN LanguageTagged(v)
    ELSE IF column.term.is = "literal" THEN Admit(<<"literal", Lexical(column.type, v), Datatype(column)>>)
    ELSE IF Lexical(column.type, v) \in Absolute THEN Admit(<<"iri", Lexical(column.type, v)>>)
    ELSE Refuse("invalid-iri")

\* A column that is stored has each value stored, and a set of them each for itself.
LEMMA StoredColumnIs ==
    ASSUME NEW column, Column(column).refused = "no"
    PROVE  /\ \A v \in column.values : Element(column, v).refused = "no"
           /\ column.several =>
                ~(Cardinality({Element(column, v) : v \in column.values}) < Cardinality(column.values))
           /\ Column(column).is = [elements |-> {Element(column, v).is : v \in column.values},
                                   note |-> Note(column)]
  <1> DEFINE each == {Element(column, v) : v \in column.values}
             refused == {e.refused : e \in each} \ {"no"}
  <1>1. Column(column) =
          IF refused # {} THEN Refuse(CHOOSE r \in refused : TRUE)
          ELSE IF column.several /\ Cardinality(each) < Cardinality(column.values) THEN Refuse("duplicate-value")
          ELSE Admit([elements |-> {e.is : e \in each}, note |-> Note(column)])
    BY DEF Column, Element, Note
  <1>2. \A cause : Refuse(cause).refused = cause
    BY DEF Refuse
  <1>3. \A it : Admit(it).is = it
    BY DEF Admit
  <1>4. refused = {}
    <2>1. refused # {} => (CHOOSE r \in refused : TRUE) \in refused
      OBVIOUS
    <2>2. refused # {} => (CHOOSE r \in refused : TRUE) # "no"
      BY <2>1
    <2> QED BY <1>1, <1>2, <2>2
  <1>5. \A v \in column.values : Element(column, v).refused = "no"
    BY <1>4
  <1>6. {e.is : e \in each} = {Element(column, v).is : v \in column.values}
    OBVIOUS
  <1> HIDE DEF refused, each
  <1>7. ~(column.several /\ Cardinality(each) < Cardinality(column.values))
    BY <1>1, <1>2, <1>4
  <1>8. Column(column).is = [elements |-> {e.is : e \in each}, note |-> Note(column)]
    BY <1>1, <1>3, <1>4, <1>7
  <1> QED BY <1>5, <1>6, <1>7, <1>8 DEF each

\* The triples of a column are those of its values, unless one of them has none.
LEMMA ObjectsAre ==
    ASSUME NEW column
    PROVE  /\ (\A v \in column.values : TermOf(column, v).refused = "no") =>
                 Objects(column) = Admit({TermOf(column, v).is : v \in column.values} \ {NoTerm})
           /\ Objects(column).refused = "no" => \A v \in column.values : TermOf(column, v).refused = "no"
           /\ Objects(column).refused # "no" =>
                 \E v \in column.values : Objects(column).refused = TermOf(column, v).refused
  <1> DEFINE each == {TermOf(column, v) : v \in column.values}
             refused == {e.refused : e \in each} \ {"no"}
  <1>1. Objects(column) =
          IF refused # {} THEN Refuse(CHOOSE r \in refused : TRUE)
          ELSE Admit({e.is : e \in each} \ {NoTerm})
    BY DEF Objects, TermOf
  <1>2. \A cause : Refuse(cause).refused = cause
    BY DEF Refuse
  <1>3. \A it : Admit(it).refused = "no"
    BY DEF Admit
  <1>4. refused # {} => (CHOOSE r \in refused : TRUE) \in refused
    OBVIOUS
  <1>5. \A r : r \in refused <=> r # "no" /\ \E v \in column.values : r = TermOf(column, v).refused
    OBVIOUS
  <1>6. {e.is : e \in each} = {TermOf(column, v).is : v \in column.values}
    OBVIOUS
  <1>7. refused = {} <=> \A v \in column.values : TermOf(column, v).refused = "no"
    BY <1>5
  <1> HIDE DEF refused, each
  <1>8. refused # {} => /\ Objects(column).refused # "no"
                        /\ \E v \in column.values : Objects(column).refused = TermOf(column, v).refused
    BY <1>1, <1>2, <1>4, <1>5
  <1>9. refused = {} => Objects(column) = Admit({TermOf(column, v).is : v \in column.values} \ {NoTerm})
    BY <1>1, <1>6
  <1>10. refused = {} => Objects(column).refused = "no"
    BY <1>3, <1>9
  <1> QED BY <1>7, <1>8, <1>9, <1>10


\* What type each primitive may be stored from.
LEMMA TypesAre ==
    ASSUME NEW column, ColumnOf(column)
    PROVE  \/ column.type = "int32" /\ column.datatype \in {"Integer", "String", "Year"}
           \/ column.type = "int64" /\ column.datatype \in {"Integer", "String", "Float"}
           \/ column.type = "uint64" /\ column.datatype = "String"
           \/ column.type \in {"float32", "float64", "decimal"} /\ column.datatype \in {"Float", "String"}
           \/ column.type = "bool" /\ column.datatype \in {"Bool", "String"}
           \/ column.type = "date" /\ column.datatype \in {"Date", "String"}
           \/ column.type \in {"timestamp", "zoned"} /\ column.datatype \in {"DateTime", "String"}
           \/ column.type = "time" /\ column.datatype \in {"Hour", "String"}
           \/ column.type = "binary" /\ column.datatype = "String"
           \/ column.type = "text" /\ column.datatype \in Lattice \cup {"Year", "Uri"}
           \/ column.type = "tagged" /\ column.datatype = "Lang"
  <1> DEFINE d == column.datatype
             t == column.type
  <1>1. <<d, t>> \in TypedAs
    BY DEF ColumnOf
  <1>2. CASE \E x \in ArrowTypes : <<d, t>> = <<Primitive(x), x>>
    <2>1. t \in ArrowTypes /\ d = Primitive(t)
      BY <1>2
    <2> QED BY <2>1 DEF ArrowTypes, Primitive, Lattice
  <1>3. CASE \E x \in ArrowTypes : <<d, t>> = <<"String", x>>
    <2>1. t \in ArrowTypes /\ d = "String"
      BY <1>3
    <2> QED BY <2>1 DEF ArrowTypes, Lattice
  <1>4. CASE \E p \in Lattice \cup {"Year", "Uri"} : <<d, t>> = <<p, "text">>
    <2>1. t = "text" /\ d \in Lattice \cup {"Year", "Uri"}
      BY <1>4
    <2> QED BY <2>1
  <1>5. CASE <<d, t>> \in {<<"Float", "int64">>, <<"Year", "int32">>, <<"Lang", "tagged">>}
    BY <1>5
  <1> QED BY <1>1, <1>2, <1>3, <1>4, <1>5 DEF TypedAs

\* How a value that is stored is spelled there.
Kept(column, v) ==
    CASE column.type = "float32" /\ column.datatype = "Float"    -> <<"number", v>>
      [] column.type = "zoned" /\ column.datatype = "DateTime"   -> <<"instant", v - (v % 2)>>
      [] column.type = "binary"                                  -> <<"hex", v>>
      [] OTHER                                                   -> Text(column.type, v)

\* A value is stored as its text, or as its type holds it.
LEMMA StoredAs ==
    ASSUME NEW column, NEW v, Stored(column, v).refused = "no"
    PROVE  /\ Held(column.type, v).refused = "no"
           /\ \/ Stored(column, v).is = Held(column.type, v).is
              \/ /\ Stored(column, v).is = Text(column.type, v)
                 /\ HeldType(column.type) # StoredType(column.datatype)
                 /\ ~(column.type = "float32" /\ StoredType(column.datatype) = "double")
  <1> DEFINE want == StoredType(column.datatype)
             in == Held(column.type, v)
             converted == Converted(want, Text(column.type, v))
  <1>1. Stored(column, v) =
          IF in.refused # "no" \/ HeldType(column.type) = want THEN in
          ELSE IF column.type = "float32" /\ want = "double" THEN in
          ELSE IF converted = Text(column.type, v) THEN Admit(converted)
          ELSE Refuse("unrepresentable")
    BY DEF Stored
  <1>2. Refuse("unrepresentable").refused # "no" /\ Admit(converted).is = converted
    BY DEF Refuse, Admit
  <1> HIDE DEF in, converted, want
  <1>3. \/ Stored(column, v) = in
        \/ /\ converted = Text(column.type, v) /\ Stored(column, v) = Admit(converted)
           /\ HeldType(column.type) # want /\ ~(column.type = "float32" /\ want = "double")
           /\ in.refused = "no"
    BY <1>1, <1>2
  <1> QED BY <1>2, <1>3 DEF in, want

\* A type holds a value as its text, but for a float, an instant with a zone and bytes.
LEMMA HeldAs ==
    ASSUME NEW type \in ArrowTypes, NEW v, type \notin {"bool", "text"} => v \in Int, Held(type, v).refused = "no"
    PROVE  Held(type, v).is =
             CASE type = "float32" -> <<"number", v>>
               [] type = "zoned"   -> <<"instant", v - (v % 2)>>
               [] type = "binary"  -> <<"hex", v>>
               [] OTHER            -> Text(type, v)
  <1>1. Refuse("unrepresentable").refused # "no"
    BY DEF Refuse
  <1>2. /\ ~((type = "uint64" /\ v > Most64) \/ (type \in {"timestamp", "zoned"} /\ v % 2 = 1))
        /\ Held(type, v).is = HeldText(type, v)
    BY <1>1 DEF Held, Admit
  <1>3. CASE type = "timestamp"
    <2>1. v % 2 = 0
      BY <1>2, <1>3
    <2> QED BY <1>2, <1>3, <2>1 DEF HeldText, Text, Whole
  <1>4. CASE type = "uint64"
    BY <1>2, <1>4 DEF HeldText, Text, Whole
  <1>5. CASE type = "float32"
    BY <1>2, <1>5 DEF HeldText
  <1>6. CASE type = "zoned"
    BY <1>2, <1>6 DEF HeldText
  <1>7. CASE type = "binary"
    BY <1>2, <1>7 DEF HeldText
  <1>8. CASE type \notin {"timestamp", "uint64", "float32", "zoned", "binary"}
    BY <1>2, <1>8 DEF HeldText
  <1> QED BY <1>3, <1>4, <1>5, <1>6, <1>7, <1>8

LEMMA ElementsAreKept ==
    ASSUME NEW column, ColumnOf(column), column.datatype # "Lang", NEW v \in column.values,
           Stored(column, v).refused = "no"
    PROVE  Stored(column, v).is = Kept(column, v)
  <1>1. column.type \in ArrowTypes
    BY TypesAre DEF ArrowTypes
  <1>2. column.type \notin {"bool", "text"} => v \in Int
    BY <1>1 DEF ColumnOf, ArrowTypes
  <1>3. Held(column.type, v).refused = "no"
    BY StoredAs
  <1>4. Held(column.type, v).is =
             CASE column.type = "float32" -> <<"number", v>>
               [] column.type = "zoned"   -> <<"instant", v - (v % 2)>>
               [] column.type = "binary"  -> <<"hex", v>>
               [] OTHER                   -> Text(column.type, v)
    BY <1>1, <1>2, <1>3, HeldAs
  <1>5. CASE column.type \notin {"float32", "zoned", "binary"}
    BY <1>4, <1>5, StoredAs DEF Kept
  <1>6. CASE column.type = "binary"
    <2>1. HeldType(column.type) = StoredType(column.datatype)
      BY <1>6, TypesAre DEF HeldType, StoredType
    <2>2. Stored(column, v).is = Held(column.type, v).is
      BY <2>1, StoredAs
    <2> QED BY <1>4, <1>6, <2>2 DEF Kept
  <1>7. CASE column.type = "zoned" /\ column.datatype = "DateTime"
    <2>1. HeldType(column.type) = StoredType(column.datatype)
      BY <1>7 DEF HeldType, StoredType
    <2>2. Stored(column, v).is = Held(column.type, v).is
      BY <2>1, StoredAs
    <2> QED BY <1>4, <1>7, <2>2 DEF Kept
  <1>8. CASE column.type = "float32" /\ column.datatype = "Float"
    <2>1. StoredType(column.datatype) = "double"
      BY <1>8 DEF StoredType
    <2>2. Stored(column, v).is = Held(column.type, v).is
      BY <1>8, <2>1, StoredAs
    <2> QED BY <1>4, <1>8, <2>2 DEF Kept
  <1>9. CASE column.type \in {"zoned", "float32"} /\ column.datatype = "String"
    <2>1. HeldType(column.type) # StoredType(column.datatype) /\ StoredType(column.datatype) = "string"
      BY <1>9 DEF HeldType, StoredType
    <2>2. Converted("string", Text(column.type, v)) = Text(column.type, v)
      BY DEF Converted
    <2>3. Stored(column, v) = Admit(Text(column.type, v))
      BY <1>3, <2>1, <2>2 DEF Stored
    <2> QED BY <1>9, <2>3 DEF Kept, Admit
  <1> QED BY <1>5, <1>6, <1>7, <1>8, <1>9, TypesAre


\* Where nothing is spelt twice, the mapping gives a literal the datatype of its triple.
LEMMA DatatypesAgree ==
    ASSUME NEW column, ColumnOf(column), NothingIsNoTerm, column.datatype # "Lang", ~SpeltTwice(column),
           column.term = Literal(column.term.datatype)
    PROVE  Datatype(column) =
             IF MapDatatype(column, Note(column)) = NoTerm THEN NaturalOf(StoredType(column.datatype))
             ELSE MapDatatype(column, Note(column))
  <1>1. column.term.is = "literal"
    BY DEF Literal
  <1>2. CASE column.term.datatype # NoTerm
    BY <1>1, <1>2 DEF MapDatatype, Datatype
  <1>3. CASE column.term.datatype = NoTerm
    <2>1. /\ ~(column.datatype = "String" /\ column.type \notin {"text", "time", "decimal", "binary"})
          /\ ~(column.datatype = "Float" /\ column.type \in {"decimal", "int64"})
          /\ ~(column.datatype \notin {"String", "Uri", "Year", "Hour", "Lang"} /\ column.type = "text")
          /\ ~(column.type = "zoned" /\ column.datatype = "DateTime")
      BY <1>3 DEF SpeltTwice
    <2>2. CASE column.datatype \in {"Year", "Hour"}
      BY <1>3, <2>2 DEF MapDatatype, Datatype, NothingIsNoTerm
    <2>3. CASE column.datatype = "String"
      BY <1>3, <2>1, <2>3 DEF MapDatatype, Datatype, Note, TextOf, StoredType, NaturalOf, Natural, Whole, NothingIsNoTerm
    <2>4. CASE column.datatype \notin {"Year", "Hour", "String"}
      <3>1. MapDatatype(column, Note(column)) = Note(column) /\ Datatype(column) = Natural(column.type)
        BY <1>3, <2>4 DEF MapDatatype, Datatype
      <3>2. \/ column.type \in {"int32", "int64"} /\ column.datatype = "Integer"
            \/ column.type \in {"float32", "float64"} /\ column.datatype = "Float"
            \/ column.type = "bool" /\ column.datatype = "Bool"
            \/ column.type = "date" /\ column.datatype = "Date"
            \/ column.type = "timestamp" /\ column.datatype = "DateTime"
            \/ column.type = "text" /\ column.datatype = "Uri"
        BY <2>1, <2>4, TypesAre DEF Lattice
      <3>3. Note(column) = NoTerm
        BY <3>2 DEF Note, StoredType, TextOf
      <3>4. Natural(column.type) = NaturalOf(StoredType(column.datatype))
        BY <3>2 DEF Natural, NaturalOf, StoredType, Whole
      <3> QED BY <3>1, <3>3, <3>4
    <2> QED BY <2>2, <2>3, <2>4
  <1> QED BY <1>2, <1>3

\* A literal is spelled in its triple as it is stored, bytes in capitals.
LEMMA LiteralsAgree ==
    ASSUME NEW column, ColumnOf(column), NothingIsNoTerm, column.datatype # "Lang", ~SpeltTwice(column),
           column.term = Literal(column.term.datatype), NEW v \in column.values
    PROVE  Worth(Object(column, Note(column), Kept(column, v))) = Worth(TermOf(column, v).is)
  <1> DEFINE datatype == Datatype(column)
  <1>1. column.term.is = "literal" /\ column.term.is # "iri"
    BY DEF Literal
  <1>2. TermOf(column, v).is = <<"literal", Lexical(column.type, v), datatype>>
    BY <1>1 DEF TermOf, Admit
  <1>3. Object(column, Note(column), Kept(column, v)) = <<"literal", Kept(column, v), datatype>>
    BY <1>1, DatatypesAgree DEF Object
  <1>4. CASE column.type # "binary"
    <2>1. Kept(column, v) = Text(column.type, v)
      <3>1. CASE column.type = "float32" /\ column.datatype = "Float"
        BY <3>1 DEF SpeltTwice, Kept, Text
      <3>2. ~(column.type = "zoned" /\ column.datatype = "DateTime")
        BY DEF SpeltTwice
      <3>3. CASE ~(column.type = "float32" /\ column.datatype = "Float")
        BY <1>4, <3>2, <3>3 DEF Kept
      <3> QED BY <3>1, <3>3
    <2> QED BY <1>2, <1>3, <1>4, <2>1 DEF Lexical
  <1>5. CASE column.type = "binary"
    <2>1. column.datatype = "String" /\ column.term.datatype = NoTerm
      <3>1. column.term = Literal(NoTerm)
        BY <1>5 DEF SpeltTwice
      <3>2. Literal(NoTerm).datatype = NoTerm
        BY DEF Literal
      <3> QED BY <1>5, <3>1, <3>2, TypesAre
    <2>2. datatype = "hexBinary"
      BY <1>5, <2>1 DEF Datatype, Natural, Whole
    <2>3. Kept(column, v) = <<"hex", v>> /\ Lexical(column.type, v) = <<"HEX", v>>
      BY <1>5 DEF Kept, Lexical
    <2>4. Worth(<<"literal", <<"HEX", v>>, "hexBinary">>) = <<"literal", <<"hex", v>>, "hexBinary">>
      BY DEF Worth
    <2>5. Worth(<<"literal", <<"hex", v>>, "hexBinary">>) = <<"literal", <<"hex", v>>, "hexBinary">>
      BY DEF Worth
    <2> QED BY <1>2, <1>3, <2>2, <2>3, <2>4, <2>5
  <1> QED BY <1>4, <1>5

\* A text in a language has the one term, or none.
LEMMA TaggedAgree ==
    ASSUME NEW column, column.datatype = "Lang", NEW v, Tagged(column, v).refused = "no"
    PROVE  /\ TermOf(column, v).refused = "no"
           /\ Object(column, Note(column), Tagged(column, v).is) = TermOf(column, v).is
           /\ v.text = NoTerm => TermOf(column, v).is = NoTerm
           /\ v.text # NoTerm => TermOf(column, v).is = <<"tagged", <<"text", v.text>>, Tagged(column, v).is.tag>>
           /\ Tagged(column, v).is = [text |-> v.text, tag |-> Lowered(v.tag)]
  <1>1. \A cause : Refuse(cause).refused = cause
    BY DEF Refuse
  <1>2. WellFormed(v.tag) /\ Tagged(column, v) = Admit([text |-> v.text, tag |-> Lowered(v.tag)])
    BY <1>1 DEF Tagged
  <1>3. Tagged(column, v).is = [text |-> v.text, tag |-> Lowered(v.tag)]
    BY <1>2 DEF Admit
  <1>4. TermOf(column, v) = IF v.text = NoTerm THEN Admit(NoTerm)
                            ELSE Admit(<<"tagged", <<"text", v.text>>, Lowered(v.tag)>>)
    BY <1>2 DEF TermOf, LanguageTagged
  <1>5. Object(column, Note(column), Tagged(column, v).is) =
          IF v.text = NoTerm THEN NoTerm ELSE <<"tagged", <<"text", v.text>>, Lowered(v.tag)>>
    BY <1>3 DEF Object
  <1> QED BY <1>3, <1>4, <1>5 DEF Admit

\* A text that is an IRI is the one it is stored as.
LEMMA IrisAgree ==
    ASSUME NEW column, ColumnOf(column), column.datatype # "Lang", column.term = Iri, NEW v \in column.values
    PROVE  /\ TermOf(column, v).refused \in {"no", "invalid-iri"}
           /\ TermOf(column, v).refused = "no" =>
                /\ TermOf(column, v).is = <<"iri", v>>
                /\ Object(column, Note(column), Kept(column, v)) = <<"iri", v>>
  <1>1. column.type = "text" /\ column.term.is = "iri" /\ column.term.is # "literal"
    BY DEF ColumnOf, Iri, Literal
  <1>2. Lexical(column.type, v) = v /\ Kept(column, v) = v
    BY <1>1 DEF Lexical, Kept, Text, Whole
  <1>3. TermOf(column, v) = IF v \in Absolute THEN Admit(<<"iri", v>>) ELSE Refuse("invalid-iri")
    BY <1>1, <1>2 DEF TermOf
  <1>4. /\ Refuse("invalid-iri").refused = "invalid-iri" /\ Admit(<<"iri", v>>).refused = "no"
        /\ Admit(<<"iri", v>>).is = <<"iri", v>>
    BY DEF Refuse, Admit
  <1>5. v \in Absolute => Object(column, Note(column), v) = <<"iri", v>>
    BY <1>1 DEF Object
  <1> QED BY <1>2, <1>3, <1>4, <1>5


\* An element is what it holds.
LEMMA ElementsAreAdmitted ==
    ASSUME NEW column, NEW v, Element(column, v).refused = "no"
    PROVE  Element(column, v) = Admit(Element(column, v).is)
  <1>1. \A cause : Refuse(cause).refused = cause
    BY DEF Refuse
  <1>2. \A it : Admit(it).is = it
    BY DEF Admit
  <1>3. CASE column.datatype = "Lang"
    <2>1. \E it : Tagged(column, v) = Admit(it)
      BY <1>1, <1>3 DEF Element, Tagged
    <2> QED BY <1>2, <1>3, <2>1 DEF Element
  <1>4. CASE column.datatype # "Lang"
    <2>1. Held(column.type, v).refused = "no" => \E it : Held(column.type, v) = Admit(it)
      BY <1>1 DEF Held
    <2>2. \/ Stored(column, v) = Held(column.type, v)
          \/ \E it : Stored(column, v) = Admit(it)
          \/ Stored(column, v) = Refuse("unrepresentable")
      BY DEF Stored
    <2>3. Stored(column, v).refused = "no"
      BY <1>4 DEF Element
    <2>4. \E it : Stored(column, v) = Admit(it)
      BY <1>1, <2>1, <2>2, <2>3
    <2> QED BY <1>2, <1>4, <2>4 DEF Element
  <1> QED BY <1>3, <1>4

\* A map onto as many as it comes from tells them apart, and one that does is onto as many.
LEMMA ToldApart ==
    ASSUME NEW S, IsFiniteSet(S), NEW f, f = [v \in S |-> f[v]]
    PROVE  /\ ~(Cardinality({f[v] : v \in S}) < Cardinality(S)) => \A v, w \in S : f[v] = f[w] => v = w
           /\ (\A v, w \in S : f[v] = f[w] => v = w) => Cardinality({f[v] : v \in S}) = Cardinality(S)
  <1> DEFINE T == {f[v] : v \in S}
  <1>1. f \in [S -> T]
    OBVIOUS
  <1>2. f \in Surjection(S, T)
    BY <1>1 DEF Surjection
  <1> HIDE DEF T
  <1>3. /\ IsFiniteSet(T) /\ Cardinality(T) <= Cardinality(S)
        /\ (Cardinality(T) = Cardinality(S) <=> f \in Injection(S, T))
    BY <1>2, FS_Surjection
  <1>4. Cardinality(T) \in Nat /\ Cardinality(S) \in Nat
    BY <1>3, FS_CardinalityType
  <1>5. f \in Injection(S, T) <=> \A v, w \in S : f[v] = f[w] => v = w
    BY <1>1 DEF Injection, IsInjective
  <1> QED BY <1>3, <1>4, <1>5 DEF T

\* A stored column holds each value for itself.
LEMMA ElementsToldApart ==
    ASSUME NEW column, ColumnOf(column), Column(column).refused = "no",
           NEW v \in column.values, NEW w \in column.values, Element(column, v).is = Element(column, w).is
    PROVE  v = w
  <1>1. CASE ~column.several
    BY <1>1 DEF ColumnOf
  <1>2. CASE column.several
    <2> DEFINE f == [x \in column.values |-> Element(column, x)]
    <2>1. {f[x] : x \in column.values} = {Element(column, x) : x \in column.values}
      OBVIOUS
    <2>2. ~(Cardinality({f[x] : x \in column.values}) < Cardinality(column.values))
      BY <1>2, <2>1, StoredColumnIs
    <2>3. f[v] = Element(column, v) /\ f[w] = Element(column, w) /\ f = [x \in column.values |-> f[x]]
      OBVIOUS
    <2>4. Element(column, v) = Element(column, w)
      BY StoredColumnIs, ElementsAreAdmitted
    <2>5. IsFiniteSet(column.values)
      BY DEF ColumnOf
    <2> HIDE DEF f
    <2>6. \A x, y \in column.values : f[x] = f[y] => x = y
      BY <2>2, <2>3, <2>5, ToldApart
    <2> QED BY <2>3, <2>4, <2>6
  <1> QED BY <1>1, <1>2

\* The values there is a term of.
Forms(column) == {v \in column.values : column.datatype = "Lang" => v.text # NoTerm}

\* What the mapping makes of a value the tables hold.
MappedTo(column, v) == Object(column, Note(column), Element(column, v).is)

\* A value has a term in the one if it has one in the other, and it is as good a term.
LEMMA ValuesAgree ==
    ASSUME NEW column, ColumnOf(column), NothingIsNoTerm, Column(column).refused = "no", NEW v \in column.values
    PROVE  /\ TermOf(column, v).refused \in {"no", "invalid-iri"}
           /\ TermOf(column, v).refused = "no" =>
                /\ v \in Forms(column) <=> MappedTo(column, v) # NoTerm
                /\ v \in Forms(column) <=> TermOf(column, v).is # NoTerm
                /\ ~SpeltTwice(column) => Worth(MappedTo(column, v)) = Worth(TermOf(column, v).is)
  <1> DEFINE kept == Element(column, v).is
  <1>1. Element(column, v).refused = "no"
    BY StoredColumnIs
  <1>2. \A x, y, z : <<x, y>> # NoTerm /\ <<x, y, z>> # NoTerm
    BY DEF NothingIsNoTerm
  <1>3. CASE column.datatype = "Lang"
    <2>1. Element(column, v) = Tagged(column, v)
      BY <1>3 DEF Element
    <2>2. /\ TermOf(column, v).refused = "no" /\ MappedTo(column, v) = TermOf(column, v).is
          /\ v.text = NoTerm => TermOf(column, v).is = NoTerm
          /\ v.text # NoTerm => TermOf(column, v).is = <<"tagged", <<"text", v.text>>, Tagged(column, v).is.tag>>
      BY <1>1, <1>3, <2>1, TaggedAgree DEF MappedTo
    <2>3. v.text # NoTerm => TermOf(column, v).is # NoTerm
      BY <1>2, <2>2
    <2> QED BY <1>3, <2>2, <2>3 DEF Forms
  <1>4. CASE column.datatype # "Lang"
    <2>1. Element(column, v).is = Kept(column, v)
      BY <1>1, <1>4, ElementsAreKept DEF Element
    <2>2. v \in Forms(column)
      BY <1>4 DEF Forms
    <2>3. CASE column.term = Literal(column.term.datatype)
      <3>1. column.term.is = "literal" /\ column.term.is # "iri"
        BY <2>3 DEF Literal
      <3>2. TermOf(column, v) = Admit(<<"literal", Lexical(column.type, v), Datatype(column)>>)
        BY <1>4, <3>1 DEF TermOf
      <3>3. TermOf(column, v).refused = "no" /\ TermOf(column, v).is # NoTerm
        BY <1>2, <3>2 DEF Admit
      <3>4. MappedTo(column, v) # NoTerm
        BY <1>2, <1>4, <3>1 DEF MappedTo, Object
      <3>5. ~SpeltTwice(column) => Worth(MappedTo(column, v)) = Worth(TermOf(column, v).is)
        BY <1>4, <2>1, <2>3, LiteralsAgree DEF MappedTo
      <3> QED BY <2>2, <3>3, <3>4, <3>5
    <2>4. CASE column.term = Iri
      <3>1. /\ TermOf(column, v).refused \in {"no", "invalid-iri"}
            /\ TermOf(column, v).refused = "no" =>
                  TermOf(column, v).is = <<"iri", v>> /\ MappedTo(column, v) = <<"iri", v>>
        BY <1>4, <2>1, <2>4, IrisAgree DEF MappedTo
      <3>2. <<"iri", v>> # NoTerm
        BY <1>2
      <3> QED BY <2>2, <3>1, <3>2
    <2> QED BY <2>3, <2>4 DEF ColumnOf
  <1> QED BY <1>3, <1>4

\* No two values have one term.
LEMMA MappedApart ==
    ASSUME NEW column, ColumnOf(column), Column(column).refused = "no",
           NEW v \in Forms(column), NEW w \in Forms(column),
           TermOf(column, v).refused = "no", TermOf(column, w).refused = "no",
           MappedTo(column, v) = MappedTo(column, w)
    PROVE  v = w
  <1>1. Element(column, v).refused = "no" /\ Element(column, w).refused = "no"
        /\ v \in column.values /\ w \in column.values
    BY StoredColumnIs DEF Forms
  <1>2. CASE column.datatype = "Lang"
    <2>1. v.text # NoTerm /\ w.text # NoTerm
      BY <1>2 DEF Forms
    <2>2. Element(column, v) = Tagged(column, v) /\ Element(column, w) = Tagged(column, w)
      BY <1>2 DEF Element
    <2>3. /\ MappedTo(column, v) = <<"tagged", <<"text", v.text>>, Tagged(column, v).is.tag>>
          /\ Tagged(column, v).is = [text |-> v.text, tag |-> Lowered(v.tag)]
      BY <1>1, <1>2, <2>1, <2>2, TaggedAgree DEF MappedTo
    <2>4. /\ MappedTo(column, w) = <<"tagged", <<"text", w.text>>, Tagged(column, w).is.tag>>
          /\ Tagged(column, w).is = [text |-> w.text, tag |-> Lowered(w.tag)]
      BY <1>1, <1>2, <2>1, <2>2, TaggedAgree DEF MappedTo
    <2>5. v.text = w.text /\ Tagged(column, v).is.tag = Tagged(column, w).is.tag
      <3>1. \A x, y, a, b : <<"tagged", <<"text", x>>, a>> = <<"tagged", <<"text", y>>, b>> => x = y /\ a = b
        OBVIOUS
      <3>2. <<"tagged", <<"text", v.text>>, Tagged(column, v).is.tag>>
              = <<"tagged", <<"text", w.text>>, Tagged(column, w).is.tag>>
        BY <2>3, <2>4, Zenon
      <3> QED BY <3>1, <3>2, Zenon
    <2>6. Tagged(column, v).is = Tagged(column, w).is
      BY <2>3, <2>4, <2>5
    <2> QED BY <1>1, <2>2, <2>6, ElementsToldApart
  <1>3. CASE column.datatype # "Lang" /\ column.term = Literal(column.term.datatype)
    <2>1. column.term.is # "iri"
      BY <1>3 DEF Literal
    <2>2. PICK d : \A x : Object(column, Note(column), x) = <<"literal", x, d>>
      BY <1>3, <2>1 DEF Object
    <2>3. MappedTo(column, v) = <<"literal", Element(column, v).is, d>>
          /\ MappedTo(column, w) = <<"literal", Element(column, w).is, d>>
      BY <2>2 DEF MappedTo
    <2>4. Element(column, v).is = Element(column, w).is
      <3>1. \A x, y : <<"literal", x, d>> = <<"literal", y, d>> => x = y
        OBVIOUS
      <3> QED BY <2>3, <3>1
    <2> QED BY <1>1, <2>4, ElementsToldApart
  <1>4. CASE column.datatype # "Lang" /\ column.term = Iri
    <2>1. Element(column, v).is = Kept(column, v) /\ Element(column, w).is = Kept(column, w)
      BY <1>1, <1>4, ElementsAreKept DEF Element
    <2>2. MappedTo(column, v) = <<"iri", v>> /\ MappedTo(column, w) = <<"iri", w>>
      BY <1>1, <1>4, <2>1, IrisAgree DEF MappedTo
    <2>3. \A x, y : <<"iri", x>> = <<"iri", y>> => x = y
      OBVIOUS
    <2> QED BY <2>2, <2>3
  <1> QED BY <1>2, <1>3, <1>4 DEF ColumnOf

\* Whatever a column holds, both sinks mean the same by it (layout.rs and describe.rs for the
\* tables, ntriples.rs for the triples): what one stores the other writes, unless a text that
\* was declared an IRI is none; each value has one term, no two have the same, and but for
\* the ways known of saying one value twice, the terms are the same.
THEOREM SinksAgree ==
    ASSUME NEW column, ColumnOf(column), NothingIsNoTerm
    PROVE  MeansOneThing(column)
  <1> DEFINE image == ReadThrough(column)
             triples == Objects(column)
             forms == Forms(column)
             laid == Column(column)
  <1>1. image.refused = "no" => laid.refused = "no"
    BY DEF ReadThrough
  <1> SUFFICES ASSUME image.refused = "no", laid.refused = "no"
               PROVE  /\ triples.refused \in {"no", "invalid-iri"}
                      /\ triples.refused = "no" =>
                           /\ Cardinality(image.is) = Cardinality(forms)
                           /\ ~SpeltTwice(column) =>
                                {Worth(t) : t \in image.is} = {Worth(t) : t \in triples.is}
    BY <1>1 DEF MeansOneThing, Forms
  <1>2. image.is = {MappedTo(column, v) : v \in column.values} \ {NoTerm}
    <2>1. image = Admit({Object(column, laid.is.note, e) : e \in laid.is.elements} \ {NoTerm})
      BY DEF ReadThrough
    <2>2. laid.is.note = Note(column) /\ laid.is.elements = {Element(column, v).is : v \in column.values}
      <3>1. \A a, b : [elements |-> a, note |-> b].note = b /\ [elements |-> a, note |-> b].elements = a
        OBVIOUS
      <3>2. laid.is = [elements |-> {Element(column, v).is : v \in column.values}, note |-> Note(column)]
        BY StoredColumnIs
      <3> HIDE DEF laid
      <3> QED BY <3>1, <3>2
    <2>3. {Object(column, laid.is.note, e) : e \in laid.is.elements} = {MappedTo(column, v) : v \in column.values}
      BY <2>2 DEF MappedTo
    <2> QED BY <2>1, <2>3 DEF Admit
  <1>3. triples.refused \in {"no", "invalid-iri"}
    BY ObjectsAre, ValuesAgree
  <1>4. ASSUME triples.refused = "no"
        PROVE  /\ Cardinality(image.is) = Cardinality(forms)
               /\ ~SpeltTwice(column) => {Worth(t) : t \in image.is} = {Worth(t) : t \in triples.is}
    <2>1. \A v \in column.values : TermOf(column, v).refused = "no"
      BY <1>4, ObjectsAre
    <2>2. triples.is = {TermOf(column, v).is : v \in column.values} \ {NoTerm}
      BY <2>1, ObjectsAre DEF Admit
    <2>3. \A v \in column.values :
             /\ v \in forms <=> MappedTo(column, v) # NoTerm
             /\ v \in forms <=> TermOf(column, v).is # NoTerm
             /\ ~SpeltTwice(column) => Worth(MappedTo(column, v)) = Worth(TermOf(column, v).is)
      BY <2>1, ValuesAgree
    <2>4. forms \subseteq column.values /\ IsFiniteSet(forms)
      BY FS_Subset DEF Forms, ColumnOf
    <2>5. \A v, w \in forms : MappedTo(column, v) = MappedTo(column, w) => v = w
      BY <2>1, <2>4, MappedApart
    <2> HIDE DEF image, triples, forms, laid
    <2>6. image.is = {MappedTo(column, v) : v \in forms}
      BY <1>2, <2>3, <2>4
    <2>7. triples.is = {TermOf(column, v).is : v \in forms}
      BY <2>2, <2>3, <2>4
    <2>8. Cardinality(image.is) = Cardinality(forms)
      <3> DEFINE f == [v \in forms |-> MappedTo(column, v)]
      <3>1. {f[v] : v \in forms} = image.is
        BY <2>6
      <3>2. \A v, w \in forms : f[v] = f[w] => v = w
        BY <2>5
      <3>3. f = [v \in forms |-> f[v]]
        OBVIOUS
      <3> HIDE DEF f
      <3> QED BY <2>4, <3>1, <3>2, <3>3, ToldApart
    <2>9. ASSUME ~SpeltTwice(column)
          PROVE  {Worth(t) : t \in image.is} = {Worth(t) : t \in triples.is}
      <3>1. {Worth(t) : t \in image.is} = {Worth(MappedTo(column, v)) : v \in forms}
        BY <2>6
      <3>2. {Worth(t) : t \in triples.is} = {Worth(TermOf(column, v).is) : v \in forms}
        BY <2>7
      <3>3. \A v \in forms : Worth(MappedTo(column, v)) = Worth(TermOf(column, v).is)
        BY <2>3, <2>4, <2>9
      <3> QED BY <3>1, <3>2, <3>3
    <2> QED BY <2>8, <2>9
  <1> QED BY <1>3, <1>4


(***************************************************************************)
(* A graph, a value at a time.                                             *)
(***************************************************************************)

\* A graph of either kind has its fields, and is a column or the tables of a schema.
GraphOf ==
    /\ graph.kind = "column" =>
         /\ DOMAIN graph = {"kind", "datatype", "type", "term", "several", "languages", "values"}
         /\ graph = [f \in DOMAIN graph |-> graph[f]]
         /\ graph.several \in BOOLEAN /\ ColumnOf(graph)
    /\ graph.kind = "schema" =>
         /\ DOMAIN graph = {"kind", "schema", "tables"} /\ DOMAIN graph.tables = {"subjects", "values", "pairs"}
         /\ graph = [f \in DOMAIN graph |-> graph[f]]
         /\ graph.tables = [f \in DOMAIN graph.tables |-> graph.tables[f]]
         /\ TablesOf(graph.schema, graph.tables)
    /\ graph.kind \in {"column", "schema"}

LEMMA EmptyColumnsAreColumns ==
    ASSUME NEW c \in EmptyColumns
    PROVE  /\ c.kind = "column" /\ c.several \in BOOLEAN /\ ColumnOf(c)
           /\ DOMAIN c = {"kind", "datatype", "type", "term", "several", "languages", "values"}
           /\ c = [f \in DOMAIN c |-> c[f]]
  <1>0. IsFiniteSet({}) BY FS_EmptySet
  <1> DEFINE Empty(p, t, s, l) == [kind |-> "column", datatype |-> p[1], type |-> p[2], term |-> t, several |-> s,
                                   languages |-> l, values |-> {}]
  <1>1. ASSUME NEW p \in TypedAs, NEW x \in Datatypes, NEW s \in BOOLEAN, c = Empty(p, Literal(x), s, {})
        PROVE  ColumnOf(c)
    <2>1. Literal(x).datatype = x BY DEF Literal
    <2>2. p = <<p[1], p[2]>> BY DEF TypedAs
    <2> QED BY <1>0, <1>1, <2>1, <2>2 DEF ColumnOf
  <1>2. ASSUME NEW p \in {"String", "Uri"}, NEW s \in BOOLEAN, c = Empty(<<p, "text">>, Iri, s, {})
        PROVE  ColumnOf(c)
    <2>1. <<p, "text">> \in TypedAs
      BY DEF TypedAs, ArrowTypes
    <2> QED BY <1>0, <1>2, <2>1 DEF ColumnOf
  <1>3. ASSUME NEW s \in BOOLEAN, NEW l \in LanguageLists,
               c = Empty(<<"Lang", "tagged">>, Literal("langString"), s, l)
        PROVE  ColumnOf(c)
    <2>1. <<"Lang", "tagged">> \in TypedAs
      BY DEF TypedAs
    <2>2. Literal("langString").datatype = "langString" BY DEF Literal
    <2> QED BY <1>0, <1>3, <2>1, <2>2 DEF ColumnOf
  <1>4. \/ \E p \in TypedAs, x \in Datatypes, s \in BOOLEAN : c = Empty(p, Literal(x), s, {})
        \/ \E p \in {"String", "Uri"}, s \in BOOLEAN : c = Empty(<<p, "text">>, Iri, s, {})
        \/ \E s \in BOOLEAN, l \in LanguageLists : c = Empty(<<"Lang", "tagged">>, Literal("langString"), s, l)
    BY DEF EmptyColumns
  <1>5. \E p, t, l : \E s \in BOOLEAN : c = Empty(p, t, s, l)
    BY <1>4
  <1>6. ColumnOf(c)
    BY <1>1, <1>2, <1>3, <1>4
  <1>7. PICK p, t, l, s : s \in BOOLEAN /\ c = Empty(p, t, s, l)
    BY <1>5
  <1>8. /\ c.kind = "column" /\ c.several \in BOOLEAN
        /\ DOMAIN c = {"kind", "datatype", "type", "term", "several", "languages", "values"}
        /\ c = [f \in DOMAIN c |-> c[f]]
    BY <1>7
  <1> QED BY <1>6, <1>8

LEMMA GraphStarts ==
    ASSUME MeaningInit
    PROVE  GraphOf
  <1>1. CASE graph \in EmptyColumns
    BY <1>1, EmptyColumnsAreColumns DEF GraphOf
  <1>2. CASE graph \in EmptyGraphs
    <2>1. /\ graph = [kind |-> "schema", schema |-> graph.schema,
                      tables |-> [subjects |-> graph.tables.subjects, values |-> {}, pairs |-> {}]]
          /\ TablesOf(graph.schema, graph.tables)
      BY <1>2, MeaningAssumption
    <2>2. graph.kind = "schema" /\ DOMAIN graph = {"kind", "schema", "tables"} /\ graph = [f \in DOMAIN graph |-> graph[f]]
      BY <2>1
    <2>3. graph.tables = [subjects |-> graph.tables.subjects, values |-> {}, pairs |-> {}]
      BY <2>1
    <2>4. DOMAIN graph.tables = {"subjects", "values", "pairs"} /\ graph.tables = [f \in DOMAIN graph.tables |-> graph.tables[f]]
      BY <2>3
    <2> QED BY <2>1, <2>2, <2>4 DEF GraphOf
  <1> QED BY <1>1, <1>2 DEF MeaningInit

LEMMA ValuesStayAColumns ==
    ASSUME GraphOf, AddValue
    PROVE  GraphOf'
  <1>1. graph.kind = "column" /\ ColumnOf(graph) /\ (graph.several \/ graph.values = {}) /\ graph.several \in BOOLEAN
    BY DEF GraphOf, AddValue
  <1>2. PICK v \in ArrayValues(graph.type, graph.several) : graph' = [graph EXCEPT !.values = @ \cup {v}]
    BY DEF AddValue
  <1>3. /\ DOMAIN graph = {"kind", "datatype", "type", "term", "several", "languages", "values"}
        /\ graph = [f \in DOMAIN graph |-> graph[f]]
    BY <1>1 DEF GraphOf
  <1>4. /\ graph'.kind = "column" /\ graph'.datatype = graph.datatype /\ graph'.type = graph.type
        /\ graph'.term = graph.term /\ graph'.several = graph.several /\ graph'.languages = graph.languages
        /\ graph'.values = graph.values \cup {v} /\ DOMAIN graph' = DOMAIN graph
        /\ graph' = [f \in DOMAIN graph' |-> graph'[f]]
    BY <1>1, <1>2, <1>3
  <1>5. IsFiniteSet(graph'.values)
    BY <1>1, <1>4, FS_AddElement DEF ColumnOf
  <1>6. graph.type \notin {"bool", "text", "tagged"} => v \in Int
    <2>1. <<graph.datatype, graph.type>> \in TypedAs
      BY <1>1 DEF ColumnOf
    <2>2. <<graph.datatype, graph.type>>[2] = graph.type
      OBVIOUS
    <2> QED BY <1>1, <1>2, <2>1, <2>2, MeaningAssumption
  <1>7. ColumnOf(graph)'
    BY <1>1, <1>4, <1>5, <1>6 DEF ColumnOf
  <1> QED BY <1>1, <1>3, <1>4, <1>7 DEF GraphOf

LEMMA CellsStayTables ==
    ASSUME GraphOf, AddCell
    PROVE  GraphOf'
  <1>1. /\ graph.kind = "schema" /\ TablesOf(graph.schema, graph.tables)
        /\ DOMAIN graph = {"kind", "schema", "tables"} /\ DOMAIN graph.tables = {"subjects", "values", "pairs"}
        /\ graph = [f \in DOMAIN graph |-> graph[f]]
        /\ graph.tables = [f \in DOMAIN graph.tables |-> graph.tables[f]]
    BY DEF GraphOf, AddCell
  <1> DEFINE types == graph.schema.types
  <1>2. PICK i \in DOMAIN types : \E k \in DOMAIN types[i].columns, s \in graph.tables.subjects[types[i].label], o \in ObjectsSaid :
          graph' = [graph EXCEPT !.tables.values =
                       @ \cup {[of |-> <<types[i].label, types[i].columns[k].name>>, is |-> <<s, o>>]}]
    BY DEF AddCell
  <1>3. PICK k \in DOMAIN types[i].columns, s \in graph.tables.subjects[types[i].label], o \in ObjectsSaid :
          graph' = [graph EXCEPT !.tables.values =
                       @ \cup {[of |-> <<types[i].label, types[i].columns[k].name>>, is |-> <<s, o>>]}]
    BY <1>2
  <1> DEFINE cell == [of |-> <<types[i].label, types[i].columns[k].name>>, is |-> <<s, o>>]
  <1>4. /\ graph'.kind = "schema" /\ graph'.schema = graph.schema /\ DOMAIN graph' = DOMAIN graph
        /\ graph' = [f \in DOMAIN graph' |-> graph'[f]]
        /\ graph'.tables = [graph.tables EXCEPT !.values = @ \cup {cell}]
    BY <1>1, <1>3
  <1>5. /\ graph'.tables.subjects = graph.tables.subjects /\ graph'.tables.pairs = graph.tables.pairs
        /\ graph'.tables.values = graph.tables.values \cup {cell} /\ DOMAIN graph'.tables = DOMAIN graph.tables
        /\ graph'.tables = [f \in DOMAIN graph'.tables |-> graph'.tables[f]]
    BY <1>1, <1>4
  <1>6. ASSUME NEW j \in DOMAIN types, NEW n \in DOMAIN types[j].columns,
               NEW v \in Of(graph'.tables.values, <<types[j].label, types[j].columns[n].name>>)
        PROVE  v[1] \in graph.tables.subjects[types[j].label] /\ v = <<v[1], v[2]>>
    <2>1. PICK p \in graph.tables.values \cup {cell} : p.of = <<types[j].label, types[j].columns[n].name>> /\ p.is = v
      BY <1>5 DEF Of
    <2>2. CASE p \in graph.tables.values
      <3>1. v \in Of(graph.tables.values, <<types[j].label, types[j].columns[n].name>>)
        BY <2>1, <2>2 DEF Of
      <3> QED BY <3>1, <1>1 DEF TablesOf
    <2>3. CASE p = cell
      <3>1. p.of = <<types[i].label, types[i].columns[k].name>> /\ p.is = <<s, o>>
        BY <2>3
      <3>2. types[i].label = types[j].label
        BY <2>1, <3>1
      <3> QED BY <2>1, <3>1, <3>2
    <2> QED BY <2>1, <2>2, <2>3
  <1>7. TablesOf(graph.schema, graph'.tables)
    BY <1>1, <1>5, <1>6 DEF TablesOf, Of
  <1> QED BY <1>1, <1>4, <1>5, <1>7 DEF GraphOf

LEMMA PairsStayTables ==
    ASSUME GraphOf, AddPair
    PROVE  GraphOf'
  <1>1. /\ graph.kind = "schema" /\ TablesOf(graph.schema, graph.tables)
        /\ DOMAIN graph = {"kind", "schema", "tables"} /\ DOMAIN graph.tables = {"subjects", "values", "pairs"}
        /\ graph = [f \in DOMAIN graph |-> graph[f]]
        /\ graph.tables = [f \in DOMAIN graph.tables |-> graph.tables[f]]
    BY DEF GraphOf, AddPair
  <1>2. PICK r \in graph.schema.relations :
          \E s \in graph.tables.subjects[r.source], o \in graph.tables.subjects[r.destination] :
            graph' = [graph EXCEPT !.tables.pairs = @ \cup {[of |-> r, is |-> <<s, o>>]}]
    BY DEF AddPair
  <1>3. PICK s \in graph.tables.subjects[r.source], o \in graph.tables.subjects[r.destination] :
            graph' = [graph EXCEPT !.tables.pairs = @ \cup {[of |-> r, is |-> <<s, o>>]}]
    BY <1>2
  <1> DEFINE pair == [of |-> r, is |-> <<s, o>>]
  <1>4. /\ graph'.kind = "schema" /\ graph'.schema = graph.schema /\ DOMAIN graph' = DOMAIN graph
        /\ graph' = [f \in DOMAIN graph' |-> graph'[f]]
        /\ graph'.tables = [graph.tables EXCEPT !.pairs = @ \cup {pair}]
    BY <1>1, <1>3
  <1>5. /\ graph'.tables.subjects = graph.tables.subjects /\ graph'.tables.values = graph.tables.values
        /\ graph'.tables.pairs = graph.tables.pairs \cup {pair} /\ DOMAIN graph'.tables = DOMAIN graph.tables
        /\ graph'.tables = [f \in DOMAIN graph'.tables |-> graph'.tables[f]]
    BY <1>1, <1>4
  <1>6. ASSUME NEW q \in graph.schema.relations, NEW e \in Of(graph'.tables.pairs, q)
        PROVE  e \in graph.tables.subjects[q.source] \X graph.tables.subjects[q.destination]
    <2>1. PICK p \in graph.tables.pairs \cup {pair} : p.of = q /\ p.is = e
      BY <1>5 DEF Of
    <2>2. CASE p \in graph.tables.pairs
      <3>1. e \in Of(graph.tables.pairs, q)
        BY <2>1, <2>2 DEF Of
      <3> QED BY <3>1, <1>1 DEF TablesOf
    <2>3. CASE p = pair
      <3>1. p.of = r /\ p.is = <<s, o>>
        BY <2>3
      <3> QED BY <2>1, <3>1
    <2> QED BY <2>1, <2>2, <2>3
  <1>7. TablesOf(graph.schema, graph'.tables)
    <2> DEFINE tables == graph.tables
               later == graph'.tables
    <2>1. later.subjects = tables.subjects /\ later.values = tables.values
      BY <1>5
    <2>2. \A q \in graph.schema.relations : \A e \in Of(later.pairs, q) :
            e \in later.subjects[q.source] \X later.subjects[q.destination]
      BY <1>6, <2>1
    <2>3. TablesOf(graph.schema, tables)
      BY <1>1
    <2> HIDE DEF tables, later
    <2>4. TablesOf(graph.schema, later)
      BY <2>1, <2>2, <2>3 DEF TablesOf
    <2> QED BY <2>4 DEF later
  <1> QED BY <1>1, <1>4, <1>5, <1>7 DEF GraphOf

\* Of every graph a program may have, however its rows come: what the tables and the triples
\* say is one thing, and what the tables hold is read back from it (layout.rs, describe.rs,
\* ntriples.rs).
THEOREM MeaningIsKept ==
    ASSUME NothingIsNoTerm
    PROVE  MeaningSpec => []MeaningKept
  <1>1. MeaningInit => GraphOf
    BY GraphStarts
  <1>2. GraphOf /\ [MeaningNext]_graph => GraphOf'
    <2>1. GraphOf /\ MeaningNext => GraphOf'
      BY ValuesStayAColumns, CellsStayTables, PairsStayTables DEF MeaningNext
    <2>2. GraphOf /\ UNCHANGED graph => GraphOf'
      BY DEF GraphOf
    <2> QED BY <2>1, <2>2
  <1>3. GraphOf => MeaningKept
    BY SinksAgree, GraphsReadBack DEF GraphOf, MeaningKept
  <1> QED BY <1>1, <1>2, <1>3, PTL DEF MeaningSpec

==============================================================================
