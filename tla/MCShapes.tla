------------------------------ MODULE MCShapes ------------------------------
(* Small shape documents, what each says in its own language of the nodes   *)
(* it describes, and what the vocabulary read out of it says of them.       *)
EXTENDS Shapes
LOCAL INSTANCE SequencesExt
LOCAL INSTANCE FiniteSetsExt

VARIABLE document

Predicates == {"p", "q"}

-----------------------------------------------------------------------------
(* Nodes: what each may hold under each predicate.                          *)

Node(types) == [iri |-> TRUE, types |-> types, datatype |-> Unstated, tag |-> Unstated, copy |-> 1]
Literal(datatype, tag, copy) == [iri |-> FALSE, types |-> {}, datatype |-> datatype, tag |-> tag, copy |-> copy]

Few  == {Node({"A"}), Literal("xsd:integer", Unstated, 1)}
Many3 == {Literal("xsd:integer", Unstated, n) : n \in 1 .. 3}
Kinds == {Node({"A"}), Node({"B"}), Node({}), Node({"A", "B"}), Literal("xsd:string", Unstated, 1),
          Literal("xsd:integer", Unstated, 1), Literal("xsd:duration", Unstated, 1),
          Literal("rdf:langString", "en", 1), Literal("rdf:langString", "en-GB", 1),
          Literal("rdf:langString", "fr", 1)}

\* What a node may hold: one value of each kind or up to three of one, or few under both predicates.
Neighbourhoods ==
    {[p |-> {v}, q |-> {}] : v \in Kinds} \cup [Predicates -> SUBSET Few]
        \cup {[p |-> V, q |-> {}] : V \in SUBSET Many3}

InRange(tag, range) == range = "*" \/ tag = range \/ tag \in Narrower[range]
InCount(n, min, max) == min <= n /\ (max = Unbounded \/ n <= max)

-----------------------------------------------------------------------------
(* What the vocabulary says.                                                *)

PrimitiveIn(v) == IF v.iri THEN "Uri" ELSE Datatype(v.datatype)

Holds(v, c) ==
    /\ LET ty == ExpectedValueTy(c)
       IN  CASE ty.is = "any"       -> TRUE
             [] ty.is = "primitive" -> PrimitiveIn(v) \in ty.of
             [] OTHER               -> v.types \cap ty.of # {}
    /\ v.tag # Unstated => LanguageMatches(v.tag, c.languages)

ReadAdmits(shape, held) ==
    \A i \in DOMAIN shape.properties :
        LET c == shape.properties[i]
        IN  /\ InCount(Cardinality(held[c.predicate]), c.occurs.min, c.occurs.max)
            /\ \A v \in held[c.predicate] : Holds(v, c)

Anything == [is |-> "Anything"]
Ref(label) == [is |-> "Ref", label |-> label]
Either(values) == [is |-> "ShapeOr", of |-> values]
NodeConstraint(datatype, kind, values) ==
    [is |-> "NodeConstraint", datatype |-> datatype, kind |-> kind, values |-> values]
Language(tag) == [is |-> "language", of |-> tag]

-----------------------------------------------------------------------------
(* What a ShEx document says: the triples of a node under the predicates of *)
(* an expression are shared out among its parts, none left over.            *)

RECURSIVE Satisfies(_, _)
Satisfies(v, value) ==
    CASE value.is = "Anything" -> TRUE
      [] value.is = "Ref" -> value.label \in v.types
      [] value.is = "ShapeOr" -> \E i \in DOMAIN value.of : Satisfies(v, value.of[i])
      [] value.is = "ShapeAnd" -> \A i \in DOMAIN value.of : Satisfies(v, value.of[i])
      [] OTHER ->
            /\ value.datatype # Unstated => v.datatype = value.datatype
            /\ value.kind # Unstated => v.iri = (value.kind # "Literal")
            /\ value.values # <<>> =>
                   \E i \in DOMAIN value.values :
                       /\ value.values[i].is = "language"
                       /\ v.tag # Unstated /\ InRange(v.tag, value.values[i].of)

\* `?` is 0..1, `*` 0..unbounded, `+` 1..unbounded, nothing 1..1, a minimum alone exactly that.
Written(e) ==
    LET min == IF e.min = Absent THEN 1 ELSE e.min
    IN  Count(min, IF e.max = Absent THEN min ELSE e.max)

RECURSIVE Parts(_)
Parts(e) == {e} \cup IF e.is \in {"EachOf", "OneOf"} THEN UNION {Parts(e.of[i]) : i \in DOMAIN e.of} ELSE {}

RECURSIVE Said(_, _, _)
Said(e, whole, arcs) ==
    CASE e.is = "TripleConstraint" ->
            /\ InCount(Cardinality(arcs), Written(e).min, Written(e).max)
            /\ \A arc \in arcs : arc[1] = e.predicate /\ Satisfies(arc[2], e.value)
      [] e.is = "EachOf" ->
            IF e.of = <<>> THEN arcs = {}
            ELSE \E first \in SUBSET arcs :
                     /\ Said(Head(e.of), whole, first)
                     /\ Said([e EXCEPT !.of = Tail(@)], whole, arcs \ first)
      [] e.is = "OneOf" -> \E i \in DOMAIN e.of : Said(e.of[i], whole, arcs)
      [] OTHER -> \E t \in Parts(whole) : t.is # "TripleRef" /\ t.id = e.label /\ Said(t, whole, arcs)

Mentioned(e) == {t.predicate : t \in {t \in Parts(e) : t.is = "TripleConstraint"}}

ShexAdmits(decl, held) ==
    Said(decl.expression, decl.expression,
         {<<p, v>> \in Predicates \X UNION {held[p] : p \in Predicates} :
             p \in Mentioned(decl.expression) /\ v \in held[p]})

\* What the vocabulary has no place for, and reads as any value.
UnreadValue(value) ==
    CASE value.is = "ShapeAnd" -> TRUE
      [] value.is = "ShapeOr" -> \A i \in DOMAIN value.of : value.of[i].is # "Ref"
      [] value.is = "NodeConstraint" ->
            \/ value.kind \in {"NonLiteral", "Literal"} /\ value.datatype = Unstated
            \/ value.datatype \notin DOMAIN Lattice \cup {Unstated}
            \/ value.values # <<>> /\ LanguageSet(value) = <<>>
      [] OTHER -> FALSE

\* `@<A> OR xsd:string`: the alternatives that are no shapes are lost, and what they admit refused.
MixedDisjunction(value) ==
    value.is = "ShapeOr" /\ ~UnreadValue(value) /\ \E i \in DOMAIN value.of : value.of[i].is # "Ref"

\* A maximum of -1 beside no minimum is read as a maximum of none.
UnboundedAlone(e) == e.min = Absent /\ e.max = Unbounded

Constraints(decl) == {e \in Parts(decl.expression) : e.is = "TripleConstraint"}
IsShape(decl) == decl.iri \notin Blanks \cup {"START"} /\ decl.expression.is # "NoShape"

\* What no vocabulary of properties can say: an alternative of expressions, an IRI nobody declared,
\* a reference to nothing or to what refers back.
Iris(e) == {e.predicate} \cup (IF e.value.is = "NodeConstraint" THEN {e.value.datatype} ELSE {})
                \cup {label \in Undeclared : Ref(label) = e.value}
Refers(e, whole) ==
    {t \in Parts(whole) : t.is # "TripleRef" /\ \E r \in Parts(e) : r.is = "TripleRef" /\ r.label = t.id}
Unsayable(decl) ==
    \/ decl.iri \in Undeclared
    \/ \E e \in Constraints(decl) : IsShape(decl) /\ Iris(e) \cap Undeclared # {}
    \/ \E e \in Parts(decl.expression) :
           /\ IsShape(decl)
           /\ e.is \in {"OneOf", "TripleRef"}
           /\ \/ e.is = "OneOf"
              \/ Refers(e, decl.expression) = {}
              \/ \E t \in Refers(e, decl.expression) : Refers(t, decl.expression) # {}

\* The first declaration of an IRI is read for what it says.
ShexAsWritten(output, decls) ==
    \A i \in DOMAIN decls :
        LET decl  == decls[i]
            read  == SelectSeq(output.shapes, LAMBDA s : s.iri = decl.iri)
            Loose == \E e \in Constraints(decl) : UnreadValue(e.value)
            Tight == \E e \in Constraints(decl) : MixedDisjunction(e.value) \/ UnboundedAlone(e)
        IN  IsShape(decl) /\ (\A j \in 1 .. i - 1 : decls[j].iri # decl.iri) =>
                /\ Len(read) = 1
                /\ NameCollisions(read[1]) = {} =>
                       \A held \in Neighbourhoods :
                           /\ Tight \/ (ShexAdmits(decl, held) => ReadAdmits(read[1], held))
                           /\ Loose \/ (ReadAdmits(read[1], held) => ShexAdmits(decl, held))

-----------------------------------------------------------------------------
(* What a SHACL document says of the nodes of a class: every shape that     *)
(* targets it holds.                                                        *)

\* A node conforms to a shape when it is of a class the shape targets, or of its name.
Conforms(v, id, nodes) ==
    \/ \E n \in nodes : n.id = id /\ n.targets \cap v.types # {}
    \/ id \in v.types /\ \A n \in nodes : n.id = id => n.targets = {}

Kind(is, of) == [is |-> is, of |-> of]

Component(v, c, nodes) ==
    CASE c.is = "Class"    -> c.of \subseteq v.types
      [] c.is = "Node"     -> \A id \in c.of : Conforms(v, id, nodes)
      [] c.is = "Datatype" -> c.of = {v.datatype}
      [] c.is = "NodeKind" -> c.of = {IF v.iri THEN "Iri" ELSE "Literal"}
      [] OTHER             -> v.tag # Unstated /\ \E range \in c.of : InRange(v.tag, range)

PropertySays(property, held, nodes) ==
    /\ InCount(Cardinality(held[property.path]), IF property.min = Absent THEN 0 ELSE property.min,
               IF property.max = Absent THEN Unbounded ELSE property.max)
    /\ \A v \in held[property.path] :
           /\ \A c \in property.components : Component(v, c, nodes)
           /\ property.alternatives = {} \/
                  \E member \in property.alternatives : \A c \in member : Component(v, c, nodes)

ShaclAdmits(node, held, nodes) ==
    \A i \in DOMAIN node.properties :
        node.properties[i].path = "Complex" \/ PropertySays(node.properties[i], held, nodes)

\* What the vocabulary says in full: one class or shape, one datatype it knows with or without its
\* languages, an IRI, any value, or an alternative of classes and shapes.
OneTarget(components) == \E c \in components : components = {c} /\ c.is \in {"Class", "Node"} /\ Cardinality(c.of) = 1
ReadInFull(property) ==
    \/ property.alternatives = {} /\ OneTarget(property.components)
    \/ property.alternatives # {} /\ property.components = {}
       /\ \A member \in property.alternatives : OneTarget(member)
    \/ /\ property.alternatives = {}
       /\ Cardinality({c \in property.components : c.is = "Datatype"}) <= 1
       /\ \A c \in property.components :
              \/ c.is = "NodeKind" /\ c.of = {"Iri"} /\ Cardinality(property.components) = 1
              \/ c.is = "Datatype" /\ c.of \subseteq DOMAIN Lattice
              \/ c.is = "LanguageIn" /\ Kind("Datatype", {"rdf:langString"}) \in property.components

\* An alternative of which some members are no classes: those are lost, and what they admit refused.
MixedAlternative(property) ==
    \E member \in property.alternatives : {c \in member : c.is \in {"Class", "Node"}} = {}

Typed(document_) == {n \in ToSet(document_) : DeclaresAType(n)}

ShaclAsWritten(output, nodes) ==
    \A n \in Typed(nodes) :
        LET read == SelectSeq(output.shapes, LAMBDA s : s.iri = NodeType(n))
            properties == {p \in ToSet(n.properties) : p.path # "Complex"}
            Alone == \A m \in Typed(nodes) \ {n} : NodeType(m) # NodeType(n)
        IN  /\ Len(read) = 1
            /\ Alone /\ NameCollisions(read[1]) = {} =>
                   \A held \in Neighbourhoods :
                       /\ \/ \E p \in properties : MixedAlternative(p)
                          \/ ShaclAdmits(n, held, ToSet(nodes)) => ReadAdmits(read[1], held)
                       /\ \/ \E p \in properties : ~ReadInFull(p)
                          \/ ReadAdmits(read[1], held) => ShaclAdmits(n, held, ToSet(nodes))

-----------------------------------------------------------------------------
(* What a field of a declared type says.                                    *)

Bare(name) == [name |-> name, of |-> <<>>, bounds |-> <<>>]
Of(name, te, bounds) == [name |-> name, of |-> <<te>>, bounds |-> bounds]

Single ==
    {IF Len(name) = 1 THEN Bare(name[1]) ELSE Of(name[1], Bare(name[2]), <<>>) : name \in DOMAIN Primitives}
        \cup {Of("Ref", Bare(type), <<>>) : type \in DOMAIN TypeIri}

\* Bounds belong to `Seq` alone, and say what no other spelling does.
Counts == {<<>>} \cup {<<n>> : n \in 1 .. 3} \cup
    {<<n, m>> \in (0 .. 3) \X (1 .. 3) : n <= m /\ <<n, m>> \notin {<<0, 1>>, <<1, 1>>}}

WellFormed ==
    Single \cup {Of("Option", te, <<>>) : te \in Single} \cup {Of("Seq", te, count) : te \in Single, count \in Counts}

\* Bounds inside an `Option` or a `Seq` are read by nobody.
InnerBounds(te) == te.name \in {"Option", "Seq"} /\ te.of # <<>> /\ te.of[1].bounds # <<>>

FieldCount(te) ==
    CASE te.name = "Option" -> Count(0, 1)
      [] te.name = "Seq"    -> CASE Len(te.bounds) = 0 -> Many
                                 [] Len(te.bounds) = 1 -> Count(te.bounds[1], Unbounded)
                                 [] OTHER              -> Count(te.bounds[1], te.bounds[2])
      [] OTHER              -> One

SaysOf(te, v) ==
    LET held == IF te.name \in {"Option", "Seq"} THEN te.of[1] ELSE te
    IN  IF held.name = "Ref" THEN TypeIri[held.of[1].name] \in v.types
        ELSE PrimitiveIn(v) = Datatype(Primitives[IF held.of = <<>> THEN <<held.name>> ELSE <<held.name, held.of[1].name>>])

\* A type is accepted when it is well formed, means what it says, and nothing else means the same.
FieldAsWritten(te) ==
    LET field == FieldType(te)
        c     == Constraint("p", "p", field.term, field.targets, field.occurs, <<>>)
    IN  InnerBounds(te) \/
        /\ (field.problem = Unstated) = (te \in WellFormed)
        /\ field.problem = Unstated =>
               /\ \A other \in WellFormed \ {te} : FieldType(other) # field
               /\ \A held \in Neighbourhoods :
                     ReadAdmits(Shape("A", <<c>>), held) =
                         /\ InCount(Cardinality(held["p"]), FieldCount(te).min, FieldCount(te).max)
                         /\ \A v \in held["p"] : SaysOf(te, v)

-----------------------------------------------------------------------------
(* The documents.                                                           *)

Integer == NodeConstraint("xsd:integer", Unstated, <<>>)

ValueExpressions ==
    {Anything, Ref("A"), Ref("B"), Ref("x:A"), Either(<<Ref("A"), Ref("B")>>), Either(<<Ref("A"), Integer>>),
     Either(<<Integer, NodeConstraint("xsd:string", Unstated, <<>>)>>), [is |-> "ShapeAnd", of |-> <<Ref("A"), Ref("B")>>],
     Integer, NodeConstraint("xsd:duration", Unstated, <<>>), NodeConstraint("x:A", Unstated, <<>>),
     NodeConstraint(Unstated, "Iri", <<>>), NodeConstraint(Unstated, "Literal", <<>>), NodeConstraint(Unstated, "NonLiteral", <<>>),
     NodeConstraint(Unstated, Unstated, <<Language("en")>>), NodeConstraint(Unstated, Unstated, <<Language("*")>>),
     NodeConstraint(Unstated, Unstated, <<Language("en"), [is |-> "value", of |-> "A"]>>)}

TripleConstraint(id, predicate, value, min, max) ==
    [is |-> "TripleConstraint", id |-> id, predicate |-> predicate, value |-> value, min |-> min, max |-> max]
Each(id, es)  == [is |-> "EachOf", id |-> id, of |-> es]
Some(id, es)  == [is |-> "OneOf", id |-> id, of |-> es]
Named(label)  == [is |-> "TripleRef", label |-> label]
Required(p)   == TripleConstraint(Unstated, p, Integer, Absent, Absent)

Pieces ==
    {Required("p"), TripleConstraint("l1", "p", Anything, 0, 1), TripleConstraint("l2", "q", Ref("A"), 1, Unbounded),
     Required("x:A"), Named("l1"), Named("l2"), Named("l3"), Named("x:A"), Each("l3", <<Required("q")>>),
     Each("l3", <<Required("q"), Named("l3")>>), Some(Unstated, <<Required("p"), Required("q")>>)}

Decl(iri, e) == [iri |-> iri, expression |-> e]

ShexDocuments ==
    {<<Decl("A", TripleConstraint(Unstated, "p", v, min, max))>> :
        v \in ValueExpressions, min \in {Absent, 0, 1, 2}, max \in {Absent, Unbounded, 1, 2}}
    \cup {<<Decl("A", Each(id, <<e, f>>))>> : id \in {Unstated, "l3"}, e \in Pieces, f \in Pieces}
    \cup {<<Decl("A", Each(Unstated, <<Required("p"), e, f>>))>> : e \in Pieces, f \in Pieces}
    \cup {<<Decl(i, e), Decl(j, f), Decl("B", Required("q"))>> :
             i \in {"A", "B", "x:A", "_:b", "START"}, j \in {"A", "B", "_:b"},
             e \in {Required("p"), [is |-> "NoShape"]}, f \in {Required("p"), Some(Unstated, <<Required("p")>>)}}

Components ==
    {Kind("Class", {"A"}), Kind("Class", {"B"}), Kind("Class", {"A", "B"}), Kind("Node", {"S"}), Kind("Node", {"B"}),
     Kind("Datatype", {"xsd:integer"}), Kind("Datatype", {"xsd:duration"}), Kind("Datatype", {"rdf:langString"}),
     Kind("NodeKind", {"Iri"}), Kind("NodeKind", {"Literal"}), Kind("LanguageIn", {"en"}), Kind("LanguageIn", {"en", "fr"})}

Alternatives ==
    {{}, {{Kind("Class", {"A"})}, {Kind("Node", {"S"})}}, {{Kind("Class", {"A"})}, {Kind("Datatype", {"xsd:integer"})}},
     {{Kind("Class", {"A"}), Kind("Class", {"B"})}, {Kind("Class", {"A"})}}}

Property(path, order, min, max, components, alternatives) ==
    [path |-> path, order |-> order, min |-> min, max |-> max, components |-> components, alternatives |-> alternatives]
Plain(path, order) == Property(path, order, 1, Absent, {}, {})
NodeShape(id, typed, targets, properties) ==
    [id |-> id, typed |-> typed, targets |-> targets, properties |-> properties]

\* A shape reached by its name and not by its class.
S == NodeShape("S", TRUE, {"B"}, <<>>)

ShaclDocuments ==
    {<<NodeShape("A", TRUE, {}, <<Property("p", Absent, 0, Absent, components, alternatives)>>), S>> :
        components \in UNION {kSubset(n, Components) : n \in 0 .. 2}, alternatives \in Alternatives}
    \cup {<<NodeShape("A", TRUE, {}, <<Property("p", Absent, min, max, components, {})>>), S>> :
        min \in {Absent, 0, 1, 2}, max \in {Absent, 0, 1, 2}, components \in {{}, {Kind("Class", {"A"})}}}
    \cup {<<NodeShape("A", FALSE, {}, <<Plain(p, n), Plain(q, m)>>)>> :
        p \in {"p", "q", "Complex"}, q \in {"p", "q"}, n \in {Absent, 0, 1}, m \in {Absent, 0, 1}}
    \cup {<<NodeShape("A", typed, T, ps), NodeShape("_:b", FALSE, U, qs), NodeShape("_:c", FALSE, V, <<Plain("p", 1)>>)>> :
        typed \in BOOLEAN, T \in SUBSET {"A", "B"}, U \in SUBSET {"A", "B"}, V \in {{}, {"A"}},
        ps \in {<<>>, <<Plain("p", 1)>>}, qs \in {<<>>, <<Plain("p", 1)>>, <<Plain("q", 1)>>}}

Inner == {Bare(name) : name \in {"Integer", "Time", "String", "Year", "Lang", "City", "Ref", "Seq", "Nowhere"}}
    \cup {Of("Ref", Bare("City"), <<2>>), Of("Ref", Bare("City"), <<>>), Of("Option", Bare("Integer"), <<>>),
           Of("Time", Bare("Year"), <<>>), Of("Time", Bare("Year"), <<1, 2>>)}
Bounds == {<<>>} \cup {<<n>> : n \in 0 .. 2} \cup ((0 .. 2) \X (0 .. 2))

FieldTypes ==
    Inner \cup {Of(name, te, bounds) : name \in {"Option", "Seq", "Ref", "Time", "String", "Integer", "City"},
                                       te \in Inner, bounds \in Bounds}

Field(name, iri, type) == [name |-> name, iri |-> iri, type |-> type]
Decls ==
    {<<[name |-> "T", iri |-> "A", fields |-> <<Field("n", i, <<te>>), Field(name, j, <<>>)>>]>> :
        i \in {"p", "pre:p", Unstated}, name \in {"n", "m", Unstated}, j \in {"p", "q"}, te \in {Bare("Integer"), Bare("Nowhere")}}
    \cup {<<[name |-> n, iri |-> i, fields |-> <<>>], [name |-> "U", iri |-> j, fields |-> <<>>]>> :
        n \in {"T", Unstated}, i \in {"A", "B", "pre:A", Unstated}, j \in {"A", "B"}}

-----------------------------------------------------------------------------
Nothing == [by |-> "nobody", of |-> <<>>]

Init == document = Nothing

Next ==
    /\ document = Nothing
    /\ \/ \E decls \in ShexDocuments : document' = [by |-> "shex", of |-> decls]
       \/ \E nodes \in ShaclDocuments : document' = [by |-> "shacl", of |-> nodes]
       \/ \E te \in FieldTypes : document' = [by |-> "field", of |-> <<te>>]
       \/ \E decls \in Decls : document' = [by |-> "declared", of |-> decls]

Spec == Init /\ [][Next]_document

-----------------------------------------------------------------------------
(* Properties.                                                              *)

Decoded == IF document.by = "shex" THEN DecodeShex(document.of) ELSE DecodeShacl(document.of)

\* A document nothing of which is rejected, and a field's type nothing of which is refused, is read
\* for exactly what it says: what may be held under each of its properties, how often, and of which
\* kind (shapes.mdx 47-58, declared.mdx).
DecodedAsWritten ==
    CASE document.by = "shex" ->
            \E output \in {DecodeShex(document.of)} :
                IF output.rejections = {} THEN ShexAsWritten(output, document.of)
                ELSE \E decl \in ToSet(document.of) : Unsayable(decl)
      [] document.by = "shacl" ->
            \E output \in {DecodeShacl(document.of)} :
                IF output.rejections = {} THEN ShaclAsWritten(output, document.of)
                ELSE \E m, n \in Typed(document.of) : m # n /\ {m.id, n.id} \subseteq Blanks
      [] document.by = "field" -> FieldAsWritten(document.of[1])
      [] OTHER -> TRUE

\* What is read does not depend on the order a document wrote its shapes, its types or the
\* properties of a SHACL shape in, as long as no IRI is written twice (shapes.mdx 115-135).
Distinct(shapes) == \A i, j \in DOMAIN shapes : i # j => shapes[i].iri # shapes[j].iri
PathsDiffer(ps) == \A i, j \in DOMAIN ps : i # j => ps[i].path # ps[j].path
Orders(shapes) == {[i \in DOMAIN shapes |-> shapes[p[i]]] : p \in Permutations(DOMAIN shapes)}
OrderUnread ==
    CASE document.by = "shex" /\ Distinct(document.of) ->
            \A other \in Orders(document.of) : DecodeShex(other) = DecodeShex(document.of)
      [] document.by = "declared" /\ Distinct(document.of) ->
            \A other \in Orders(document.of) : LowerDeclarations(other) = LowerDeclarations(document.of)
      [] document.by = "shacl" ->
            \A i \in DOMAIN document.of :
                PathsDiffer(document.of[i].properties) =>
                    \A other \in Orders(document.of[i].properties) :
                        DecodeShacl([document.of EXCEPT ![i].properties = other]) = DecodeShacl(document.of)
      [] OTHER -> TRUE

\* Violated.  "A decoder writes Term::Iri for an IRI-valued node that is not a reference to another
\* shape": what is drawn as an edge is never expected to be an opaque IRI, which no reference is
\* (fossil-graph-schema/src/shapes.rs 166-170).
Opaque == [is |-> "primitive", of |-> {"Uri"}]
ReferenceIsEdge ==
    document.by \in {"shex", "shacl"} =>
        \A i \in DOMAIN Decoded.shapes : \A j \in DOMAIN Decoded.shapes[i].properties :
            LET c == Decoded.shapes[i].properties[j]
            IN  ToEdges(Decoded.shapes[i], c) # <<>> => ExpectedValueTy(c) # Opaque
=============================================================================
