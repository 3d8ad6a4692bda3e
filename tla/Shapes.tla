------------------------------- MODULE Shapes -------------------------------
(* The three readers of an output type (a ShEx document, a SHACL document, a *)
(* type declared in the program) and the one vocabulary they read it into:  *)
(* shapes, their properties and how many values of what kind each may hold. *)
(* A document is what its parser returns: rudof's ShEx and SHACL syntax     *)
(* trees, and the program's own.                                            *)
EXTENDS Integers, Sequences, FiniteSets
LOCAL INSTANCE TLC
LOCAL INSTANCE SequencesExt
LOCAL INSTANCE FiniteSetsExt

CONSTANTS
    Codepoints,   \* the IRIs, the labels and the tags, in the order of their characters
    Blanks,       \* the labels of blank nodes among them
    Undeclared,   \* the IRIs written with a prefix their document does not declare
    Prefixed,     \* the IRIs of a declaration that are a prefix and a name
    LocalName,    \* the last segment of an IRI
    Narrower,     \* the tags a range of languages has beneath it
    Lattice,      \* the primitive each datatype stands for, of those that stand for one
    Primitives,   \* the primitives by the name a field's type spells
    TypeIri       \* the shape's IRI of each type of the program

Unstated  == "none"
Absent    == -2   \* a count nobody wrote
Unbounded == -1

Count(min, max) == [min |-> min, max |-> max]
One  == Count(1, 1)
Many == Count(0, Unbounded)

Constraint(name, predicate, term, targets, occurs, languages) ==
    [name |-> name, predicate |-> predicate, term |-> term, targets |-> targets,
     occurs |-> occurs, languages |-> languages]
Shape(iri, properties) == [iri |-> iri, properties |-> properties]

-----------------------------------------------------------------------------
(* The vocabulary: what every reader returns.                               *)

Rank(iri) == CHOOSE i \in DOMAIN Codepoints : Codepoints[i] = iri
Sorted(iris) == SetToSortSeq(iris, LAMBDA a, b : Rank(a) < Rank(b))

\* A shape is placed by its IRI, and one without by the predicates of its properties.
OrderKey(shape) ==
    IF shape.iri \in Blanks
    THEN <<Len(Codepoints)>> \o
             SortSeq([i \in DOMAIN shape.properties |-> Rank(shape.properties[i].predicate)], <)
    ELSE <<Rank(shape.iri)>>

Sooner(a, b) ==
    \E n \in 0 .. Len(a) : /\ n < Len(b) /\ \A i \in 1 .. n : a[i] = b[i]
                           /\ n = Len(a) \/ a[n + 1] < b[n + 1]

Introduced(shapes, iri) == \E i \in DOMAIN shapes : shapes[i].iri = iri

OutputShapes(shapes, rejections) ==
    LET AddNew(kept, shape) == IF Introduced(kept, shape.iri) THEN kept ELSE Append(kept, shape)
        placed == SortSeq(FoldLeft(AddNew, <<>>, shapes),
                          LAMBDA s, t : Sooner(OrderKey(s), OrderKey(t)))
        tied   == {i \in 2 .. Len(placed) : OrderKey(placed[i - 1]) = OrderKey(placed[i])}
    IN  [shapes     |-> placed,
         rejections |-> rejections \cup
             {[by |-> "AmbiguousOrder", of |-> <<placed[i - 1].iri, placed[i].iri>>] : i \in tied}]

Rejected(rejection) == OutputShapes(<<>>, {rejection})

LanguageMatches(tag, ranges) ==
    \/ ranges = <<>>
    \/ \E i \in DOMAIN ranges : ranges[i] \in {"*", tag} \/ tag \in Narrower[ranges[i]]

Datatype(term) ==
    CASE term = "Iri"             -> "Uri"
      [] term \in DOMAIN Lattice  -> Lattice[term]
      [] OTHER                    -> Unstated

\* What the checker expects of a value: nothing, a primitive, or a node of one of some shapes.
ExpectedValueTy(c) ==
    CASE Datatype(c.term) # Unstated -> [is |-> "primitive", of |-> {Datatype(c.term)}]
      [] c.targets = <<>>        -> [is |-> "any", of |-> {}]
      [] OTHER                   -> [is |-> "reference", of |-> ToSet(c.targets)]

\* The second of two properties with one short name is never written: the checker refuses it.
NameCollisions(shape) ==
    {i \in DOMAIN shape.properties :
        \E j \in 1 .. i - 1 : shape.properties[j].name = shape.properties[i].name}

IsSingleValued(occurs) == occurs.max \in {0, 1}

ToColumn(c) ==
    LET datatype == IF Datatype(c.term) = Unstated THEN "String" ELSE Datatype(c.term)
    IN  [name |-> c.name, datatype |-> datatype, iri |-> c.predicate, term |-> c.term,
         multi |-> datatype = "LangString" \/ ~IsSingleValued(c.occurs), languages |-> c.languages]

ToEdges(shape, c) ==
    [i \in DOMAIN c.targets |->
        [label |-> c.name, iri |-> c.predicate, source |-> LocalName[shape.iri],
         destination |-> LocalName[c.targets[i]], multi |-> ~IsSingleValued(c.occurs)]]

ToGraphSchema(output) ==
    LET Columns(shape) == SelectSeq(shape.properties, LAMBDA c : c.targets = <<>>)
        Edges(shape)   == FlattenSeq([i \in DOMAIN shape.properties |-> ToEdges(shape, shape.properties[i])])
        Node(shape)    == [label |-> LocalName[shape.iri], iri |-> shape.iri,
                           properties |-> [i \in DOMAIN Columns(shape) |-> ToColumn(Columns(shape)[i])]]
    IN  [nodes |-> [i \in DOMAIN output.shapes |-> Node(output.shapes[i])],
         edges |-> FlattenSeq([i \in DOMAIN output.shapes |-> Edges(output.shapes[i])])]

-----------------------------------------------------------------------------
(* ShEx.                                                                    *)

Resolves(iri) == iri \notin Undeclared
Malformed == [by |-> "Malformed", of |-> <<>>]

\* Mutant: a minimum nobody wrote is none.
OccursOptional(min, max) ==
    LET Clamped(n) == IF n < 0 THEN 0 ELSE n
        lo == Clamped(min)
    IN  Count(lo, CASE max = Absent -> lo [] max = Unbounded -> Unbounded [] OTHER -> Clamped(max))

OccursFromShex(min, max) ==
    LET Clamped(n) == IF n < 0 THEN 0 ELSE n
        lo == IF min = Absent THEN 1 ELSE Clamped(min)
    IN  Count(lo, CASE max = Absent                         -> lo
                    [] max = Unbounded /\ min # Absent      -> Unbounded
                    [] OTHER                                -> Clamped(max))

\* The shapes a value expression refers to: `@<A>`, or the references of `@<A> OR @<B>`.
EdgeTargets(value) ==
    LET labels ==
            CASE value.is = "Ref" -> <<value>>
              [] value.is = "ShapeOr" -> SelectSeq(value.of, LAMBDA e : e.is = "Ref")
              [] OTHER -> <<>>
    IN  SelectSeq([i \in DOMAIN labels |-> labels[i].label], LAMBDA label : label # "START")

\* The tags of a value set that holds languages alone.
LanguageSet(value) ==
    IF value.is = "NodeConstraint" /\ \A i \in DOMAIN value.values : value.values[i].is = "language"
    THEN [i \in DOMAIN value.values |-> value.values[i].of] ELSE <<>>

ShexTerm(value) ==
    CASE value.is # "NodeConstraint"  -> Unstated
      [] LanguageSet(value) # <<>>    -> "rdf:langString"
      [] value.datatype # Unstated        -> value.datatype
      [] value.kind = "Iri"           -> "Iri"
      [] value.kind = "Literal"       -> "Literal"
      [] OTHER                        -> Unstated

\* The expressions a label names, the last of two under one label.
RECURSIVE CollectLabels(_)
CollectLabels(e) ==
    LET own    == IF e.is # "TripleRef" /\ e.id # Unstated /\ Resolves(e.id) THEN <<e>> ELSE <<>>
        inside == IF e.is \in {"EachOf", "OneOf"}
                  THEN FlattenSeq([i \in DOMAIN e.of |-> CollectLabels(e.of[i])]) ELSE <<>>
    IN  own \o inside

Walked(out, errors) == [out |-> out, errors |-> errors]

WalkConstraint(e) ==
    LET targets == EdgeTargets(e.value)
        term    == ShexTerm(e.value)
    IN  IF ~Resolves(e.predicate) \/ ~Resolves(term) \/ ~\A i \in DOMAIN targets : Resolves(targets[i])
        THEN Walked(<<>>, {Malformed})
        ELSE Walked(<<Constraint(LocalName[e.predicate], e.predicate, term, targets,
                                 OccursFromShex(e.min, e.max), LanguageSet(e.value))>>, {})

RECURSIVE WalkTripleExpr(_, _, _, _)
WalkTripleExpr(e, iri, table, visited) ==
    CASE e.is = "TripleConstraint" -> WalkConstraint(e)
      [] e.is = "EachOf" ->
            LET walked == [i \in DOMAIN e.of |-> WalkTripleExpr(e.of[i], iri, table, visited)]
            IN  Walked(FlattenSeq([i \in DOMAIN walked |-> walked[i].out]),
                       UNION {walked[i].errors : i \in DOMAIN walked})
      [] e.is = "OneOf" -> Walked(<<>>, {[by |-> "Disjunction", of |-> <<iri>>]})
      [] e.is = "TripleRef" /\ ~Resolves(e.label) -> Walked(<<>>, {Malformed})
      [] e.is = "TripleRef" /\ Contains(visited, e.label) -> Walked(<<>>, {[by |-> "CyclicRef", of |-> <<iri>>]})
      [] OTHER ->
            LET named == SelectSeq(table, LAMBDA t : t.id = e.label)
            IN  IF named = <<>> THEN Walked(<<>>, {[by |-> "UnresolvedRef", of |-> <<iri>>]})
                ELSE WalkTripleExpr(Last(named), iri, table, Append(visited, e.label))

\* A shape named by a blank node, or that is no plain shape, is not read.
LowerShapeDecl(decl) ==
    CASE decl.iri \in Blanks \cup {"START"} -> [shapes |-> <<>>, errors |-> {}]
      [] ~Resolves(decl.iri)                -> [shapes |-> <<>>, errors |-> {Malformed}]
      [] decl.expression.is = "NoShape"     -> [shapes |-> <<>>, errors |-> {}]
      [] OTHER ->
            LET walked == WalkTripleExpr(decl.expression, decl.iri, CollectLabels(decl.expression), <<>>)
            IN  [shapes |-> <<Shape(decl.iri, walked.out)>>, errors |-> walked.errors]

DecodeShex(document) ==
    LET lowered == [i \in DOMAIN document |-> LowerShapeDecl(document[i])]
    IN  OutputShapes(FlattenSeq([i \in DOMAIN lowered |-> lowered[i].shapes]),
                     UNION {lowered[i].errors : i \in DOMAIN lowered})

-----------------------------------------------------------------------------
(* SHACL.  The shapes come by their identifiers, those with an IRI first.   *)

TargetClasses(node) == Sorted(node.targets)
NodeType(node) == IF node.targets = {} THEN node.id ELSE Head(TargetClasses(node))
DeclaresAType(node) ==
    (node.id \notin Blanks /\ node.typed) \/ node.targets # {} \/ node.properties # <<>>

\* What a constraint component refers to.  The members of an alternative are read for their
\* classes and their shapes, and for nothing else.
NodeTarget(nodes, id) ==
    IF \E n \in nodes : n.id = id THEN NodeType(CHOOSE n \in nodes : n.id = id) ELSE id
TargetsOf(nodes, component) ==
    CASE component.is = "Class" -> component.of
      [] component.is = "Node"  -> {NodeTarget(nodes, id) : id \in component.of}
      [] OTHER                  -> {}

ShaclTerm(components) ==
    LET datatypes == UNION {c.of : c \in {c \in components : c.is = "Datatype"}}
        kinds     == UNION {c.of : c \in {c \in components : c.is = "NodeKind"}}
    IN  CASE datatypes # {}       -> Head(Sorted(datatypes))
          [] "Iri" \in kinds      -> "Iri"
          [] "Literal" \in kinds  -> "Literal"
          [] OTHER                -> Unstated

PropertyConstraint(nodes, property) ==
    LET read      == property.components \cup UNION property.alternatives
        languages == UNION {c.of : c \in {c \in property.components : c.is = "LanguageIn"}}
    IN  Constraint(LocalName[property.path], property.path, ShaclTerm(property.components),
                   Sorted(UNION {TargetsOf(nodes, c) : c \in read}),
                   Count(IF property.min = Absent THEN 0 ELSE property.min,
                         IF property.max = Absent THEN Unbounded ELSE property.max),
                   Sorted(languages))

\* By `sh:order`, those with none after; then by the predicate and what it may hold.
PropertiesOf(nodes, node) ==
    LET read == SelectSeq(node.properties, LAMBDA p : p.path # "Complex")
        Key(p) == LET c == PropertyConstraint(nodes, p)
                  IN  <<IF p.order = Absent THEN 1 ELSE 0, p.order, Rank(c.predicate)>>
                      \o [i \in DOMAIN c.targets |-> Rank(c.targets[i])]
        placed == SortSeq(read, LAMBDA p, q : Sooner(Key(p), Key(q)))
    IN  [i \in DOMAIN placed |-> PropertyConstraint(nodes, placed[i])]

DecodeShacl(document) ==
    LET nodes    == ToSet(document)
        typed    == SelectSeq(document, DeclaresAType)
        BlankBefore(i) == {j \in 1 .. i - 1 : typed[j].id \in Blanks /\ NodeType(typed[j]) = NodeType(typed[i])}
        tied     == {i \in DOMAIN typed : typed[i].id \in Blanks /\ BlankBefore(i) # {}}
    IN  OutputShapes([i \in DOMAIN typed |-> Shape(NodeType(typed[i]), PropertiesOf(nodes, typed[i]))],
                     {[by |-> "AmbiguousOrder", of |-> <<typed[Min(BlankBefore(i))].id, typed[i].id>>] : i \in tied})

-----------------------------------------------------------------------------
(* Types declared in the program.                                           *)

Refused(problem) == [problem |-> problem, occurs |-> Many, term |-> Unstated, targets |-> <<>>]
FieldOf(occurs, term, targets) == [problem |-> Unstated, occurs |-> occurs, term |-> term, targets |-> targets]
Wrong == Refused("InvalidFieldType")

NoBounds(te) == te.bounds = <<>>

\* Each count has one spelling.
SeqBounds(te) ==
    CASE te.bounds = <<>>   -> Many
      [] Len(te.bounds) = 1 -> Count(te.bounds[1], Unbounded)
      [] OTHER              -> Count(te.bounds[1], te.bounds[2])
SeqBoundsRefused(te) ==
    /\ te.bounds # <<>>
    /\ \/ SeqBounds(te) \in {Count(0, Unbounded), Count(0, 1), Count(1, 1)}
       \/ /\ SeqBounds(te).max # Unbounded
          /\ SeqBounds(te).max = 0 \/ SeqBounds(te).max < SeqBounds(te).min

Constructors == {"Option", "Seq", "Ref"}

\* `Time` has its precision, `String` may have `Lang`, and no other primitive has a parameter.
PrimitiveOf(te) ==
    LET parameter == IF te.of = <<>> THEN Unstated ELSE te.of[1].name
    IN  CASE te.of # <<>> /\ (te.of[1].of # <<>> \/ ~NoBounds(te.of[1]))   -> "Wrong"
          [] te.name \in {"Time", "String"} /\ parameter # Unstated ->
                IF <<te.name, parameter>> \in DOMAIN Primitives THEN Primitives[<<te.name, parameter>>] ELSE "Wrong"
          [] te.name = "Time"                                              -> "Wrong"
          [] <<te.name>> \notin DOMAIN Primitives                          -> Unstated
          [] parameter # Unstated                                              -> "Wrong"
          [] OTHER                                                         -> Primitives[<<te.name>>]

ValueType(te, occurs) ==
    LET p == PrimitiveOf(te)
    IN  CASE te.name = "Ref" /\ te.of = <<>> -> Wrong
          [] te.name = "Ref" /\ \/ te.of[1].of # <<>>
                                \/ te.of[1].name \in {name[1] : name \in DOMAIN Primitives} \cup Constructors -> Wrong
          [] te.name = "Ref" /\ te.of[1].name \in DOMAIN TypeIri -> FieldOf(occurs, Unstated, <<TypeIri[te.of[1].name]>>)
          [] te.name = "Ref"                -> Refused("UnknownShape")
          [] p = "Wrong"                    -> Wrong
          [] p # Unstated                       -> FieldOf(occurs, p, <<>>)
          [] te.name \in DOMAIN TypeIri     -> Wrong
          [] OTHER                          -> Refused("UnknownType")

FieldType(te) ==
    CASE te.name # "Seq" /\ ~NoBounds(te)           -> Wrong
      [] te.name = "Seq" /\ SeqBoundsRefused(te)    -> Wrong
      [] te.name \notin {"Option", "Seq"}           -> ValueType(te, One)
      [] te.of = <<>>                               -> Wrong
      [] te.of[1].name \in {"Option", "Seq"}        -> Wrong
      [] OTHER -> ValueType(te.of[1], IF te.name = "Seq" THEN SeqBounds(te) ELSE Count(0, 1))

\* A field is read when it has a name and an IRI; the first of two with one name is kept.
LowerDecl(decl) ==
    LET written == SelectSeq(decl.fields, LAMBDA f : f.name # Unstated /\ f.iri # Unstated)
        Twice(i) == \E j \in 1 .. i - 1 : written[j].name = written[i].name
        kept    == SelectSeq([i \in DOMAIN written |-> i], LAMBDA i : ~Twice(i))
        types   == [i \in DOMAIN written |-> IF written[i].type = <<>> THEN FieldOf(Many, Unstated, <<>>)
                                             ELSE FieldType(written[i].type[1])]
    IN  [shape |-> Shape(decl.iri,
             [k \in DOMAIN kept |-> LET i == kept[k]
                                    IN  Constraint(written[i].name, written[i].iri, types[i].term,
                                                   types[i].targets, types[i].occurs, <<>>)]),
         problems |-> ({types[kept[k]].problem : k \in DOMAIN kept} \ {Unstated})
             \cup {"DuplicateField" : i \in {i \in DOMAIN written : Twice(i)}}
             \cup {"PrefixedIri" : i \in {i \in DOMAIN decl.fields : decl.fields[i].iri \in Prefixed}}
             \cup {"PrefixedIri" : iri \in {decl.iri} \cap Prefixed}]

\* A declaration with no name or no IRI says nothing.
LowerDeclarations(decls) ==
    LET read == SelectSeq(decls, LAMBDA d : d.name # Unstated /\ d.iri # Unstated)
        low  == [i \in DOMAIN read |-> LowerDecl(read[i])]
    IN  [output   |-> OutputShapes([i \in DOMAIN low |-> low[i].shape], {}),
         problems |-> UNION {low[i].problems : i \in DOMAIN low}]
=============================================================================
