------------------------------- MODULE Names -------------------------------
(* What the names of a program are bound to: its sources, its types and its *)
(* mappings, the shape each type names, and what the host's providers say   *)
(* of the calls that bind them.                                             *)
EXTENDS Trees

LOCAL INSTANCE SequencesExt
LOCAL INSTANCE FiniteSetsExt

CONSTANTS
    Providers,      \* what is installed: a name, the reader of its rows if it has one, whether it
                    \* reads types, the files it accepts
    Contents,       \* the documents registered: who reads each, and the shapes in it, in order
    LocalName,      \* the last segment of each shape's IRI
    Entries         \* the catalogue: a path, its parameters, what it lowers to

\* A dotted name is the sequence of its names and dots.
Nowhere == <<>>

-----------------------------------------------------------------------------
(* The call on the right of a binding, as written.                          *)

BindingRhs(item) == First(ChildOf(item, "EXPR"))

IsCallWithArgs(e) == ChildOf(e, "ARG_LIST") # Missing

Args(call) == Children(ChildOf(call, "ARG_LIST"))

\* Every name and dot of what is called, also those in the arguments of a call within it.
Callee(call) ==
    IF Children(call) = <<>> THEN Nowhere
    ELSE SelectSeq(Yield(First(call)), LAMBDA t : Kind(t) \in {"IDENT", "."})

StringLiteral(e) ==
    IF e.node = "LITERAL_EXPR" /\ Kind(e.of[1].node) = "STRING" THEN e.of[1].node ELSE NoName

PositionalString(call) == StringLiteral(First(FirstOf(Args(call), LAMBDA a : a.node = "ARG")))

NamedArg(call, name) == FirstOf(Args(call), LAMBDA a : a.node = "NAMED_ARG" /\ Ident(a) = name)

\* Who is called and with which document: a bare string is a document nobody was named for.
SourceCall(e) ==
    IF IsCallWithArgs(e) THEN [constructor |-> Callee(e), uri |-> PositionalString(e)]
    ELSE [constructor |-> Nowhere, uri |-> StringLiteral(e)]

SchemaArg(item) == First(NamedArg(BindingRhs(item), "schema"))

-----------------------------------------------------------------------------
(* The catalogue.                                                           *)

Member(entry) == entry.path[3]

ReceiverOf(head) == CASE head = "str" -> "text" [] head = "seq" -> "relation" [] OTHER -> "namespace"

Lookup(path) == {e \in Entries : e.path = path}
LookupMember(receiver, member) == {e \in Entries : ReceiverOf(e.path[1]) = receiver /\ Member(e) = member}

\* What may be called on a value; it is one row at most.
CandidatesForMember(member) == {e \in Entries : ReceiverOf(e.path[1]) # "namespace" /\ Member(e) = member}

IsCataloguedHead(head) == \E e \in Entries : e.path[1] = head

PositionOf(params, name) ==
    LET at == {i \in DOMAIN params : params[i].name = name} IN IF at = {} THEN 0 ELSE Min(at)

\* The optional named parameter of a reader, if it has one.
OptionsOf(entry) == {entry.params[i].name : i \in {i \in DOMAIN entry.params : entry.params[i].named /\ entry.params[i].arity = "optional"}}
ReaderOptionOf(constructor) == UNION {OptionsOf(e) : e \in Lookup(constructor)}
ReaderOptionNames == UNION {OptionsOf(e) : e \in {e \in Entries : e.path[1] = "io"}}

-----------------------------------------------------------------------------
(* The host's providers.  With none that has a capability nothing is known  *)
(* of it, and nothing is refused.                                           *)

IsConstructor(path) == Len(path) > 2 /\ SubSeq(path, 1, 2) = <<"io", ".">>

Provider(path) ==
    LET name == IF IsConstructor(path) THEN SubSeq(path, 3, Len(path)) ELSE path
    IN  {p \in Providers : <<p.name>> = name}

Provides(p, wanted) == IF wanted = "rows" THEN p.reads # NoName ELSE p.types
AnswersAbout(wanted) == \E p \in Providers : Provides(p, wanted)

\* parse_reader_option: what was given for the option the constructor's own row has.
ReaderOption(item, constructor) ==
    StringLiteral(First(FirstOf(Args(BindingRhs(item)),
                                LAMBDA a : a.node = "NAMED_ARG" /\ Ident(a) \in ReaderOptionOf(constructor))))

\* An option is one character in quotes, and is written on the reader that has it.
CheckReaderOption(item, constructor) ==
    LET call  == BindingRhs(item)
        given == {name \in ReaderOptionOf(constructor) : NamedArg(call, name) # Missing}
        value(name) == StringLiteral(First(NamedArg(call, name)))
    IN  IF given # {} THEN {"invalid-reader-option" : name \in {name \in given : value(name) # "byte"}}
        ELSE {"foreign-reader-option" : name \in {name \in ReaderOptionNames : NamedArg(call, name) # Missing}}

CheckProvider(item, wanted) ==
    LET call == SourceCall(BindingRhs(item))
        row  == Provider(call.constructor)
    IN  CASE call.constructor = Nowhere \/ ~AnswersAbout(wanted) -> {}
          [] row = {} -> IF IsConstructor(call.constructor) THEN {"unknown-provider"} ELSE {}
          [] \E p \in row : ~Provides(p, wanted) -> {"wrong-capability"}
          [] OTHER ->
                (IF wanted = "types" /\ call.uri # NoName /\ \E p \in row : call.uri \notin p.accepts
                 THEN {"wrong-extension"} ELSE {})
                \cup CheckReaderOption(item, call.constructor)

\* The schema of a source: who reads it, and that it reads such documents.
CheckSchemaArg(item) ==
    LET schema == SourceCall(SchemaArg(item))
        row    == Provider(schema.constructor)
    IN  CASE SchemaArg(item) = Missing \/ ~AnswersAbout("types") -> {}
          [] schema.constructor = Nowhere -> {"bare-document-path"}
          [] row = {} -> {"unknown-provider"}
          [] \E p \in row : ~p.types -> {"wrong-capability"}
          [] OTHER -> IF schema.uri # NoName /\ \E p \in row : schema.uri \notin p.accepts THEN {"wrong-extension"} ELSE {}

-----------------------------------------------------------------------------
(* The documents types come from.                                           *)

\* The document's shapes, or why there are none.
DecodedDocument(constructor, path) ==
    LET row == Provider(constructor)
        Refused(why) == [shapes |-> <<>>, refused |-> why]
    IN  CASE constructor = Nowhere -> Refused("bare-document-path")
          [] row = {} -> Refused("unknown-provider")
          [] \E p \in row : ~p.types -> Refused("wrong-capability")
          [] \E p \in row : path \notin p.accepts -> Refused("wrong-extension")
          [] path \notin DOMAIN Contents -> Refused("not-registered")
          [] \E p \in row : Contents[path].by # p.name -> Refused("unparseable")
          [] OTHER -> [shapes |-> Contents[path].shapes, refused |-> NoName]

MemberNames(m) == LET all == SelectSeq(Tokens(m), LAMBDA t : Kind(t.node) = "IDENT") IN
    [shape |-> all[1].node, name |-> all[IF Len(all) = 3 THEN 3 ELSE 1].node]

BraceMembers(item) ==
    LET ms == SelectSeq(Children(item), LAMBDA x : x.node = "IMPORT_MEMBER" /\ Ident(x) # NoName)
    IN  [i \in DOMAIN ms |-> MemberNames(ms[i])]

\* The one shape of the document with this local name.
ResolveMember(constructor, path, shape) ==
    LET document == DecodedDocument(constructor, path)
        named    == SelectSeq(document.shapes, LAMBDA iri : LocalName[iri] = shape)
        Fails(why) == [iri |-> NoName, error |-> why]
    IN  CASE path = NoName -> Fails("no-schema")
          [] document.refused # NoName -> Fails(document.refused)
          [] named = <<>> -> Fails("not-in-document")
          [] Len(named) > 1 -> Fails("ambiguous")
          [] OTHER -> [iri |-> named[1], error |-> NoName]

-----------------------------------------------------------------------------
(* The map of the program's names, each in the order it was written.        *)

TypeEntry(name, bound, document, constructor) ==
    [name |-> name, iri |-> bound.iri, error |-> bound.error, document |-> document, constructor |-> constructor]

SourceEntry(name, call, shape, delimiter) ==
    [name |-> name, constructor |-> call.constructor, uri |-> call.uri, iri |-> shape.iri, error |-> shape.error,
     delimiter |-> delimiter]

NoShape == [iri |-> NoName, error |-> NoName]

\* The name after the word `type`, and the IRI of the attribute above.
DeclName(d) ==
    LET i == SelectSeq(Tokens(d), LAMBDA t : Kind(t.node) = "IDENT") IN IF Len(i) > 1 THEN i[2].node ELSE NoName
DeclIri(d) == FirstOf(Tokens(ChildOf(d, "IRI_ATTR")), LAMBDA t : Kind(t.node) = "STRING").node

TypesOf(item) ==
    LET call == SourceCall(BindingRhs(item))
        ms   == BraceMembers(item)
    IN  CASE item.node = "TYPE_DEF" ->
                [i \in DOMAIN ms |->
                    TypeEntry(ms[i].name, ResolveMember(call.constructor, call.uri, ms[i].shape), call.uri, call.constructor)]
          [] item.node = "TYPE_DECL" /\ DeclName(item) # NoName ->
                <<TypeEntry(DeclName(item),
                            [iri |-> DeclIri(item), error |-> IF DeclIri(item) = NoName THEN "no-iri" ELSE NoName],
                            NoName, Nowhere)>>
          [] OTHER -> <<>>

SourcesOf(item) ==
    LET call   == SourceCall(BindingRhs(item))
        schema == SourceCall(SchemaArg(item))
        ms     == BraceMembers(item)
    IN  CASE item.node = "SOURCE_DEF" /\ Ident(item) # NoName -> <<SourceEntry(Ident(item), call, NoShape, ReaderOption(item, call.constructor))>>
          [] item.node = "MULTI_SOURCE_DEF" ->
                [i \in DOMAIN ms |->
                    SourceEntry(ms[i].name, call, ResolveMember(schema.constructor, schema.uri, ms[i].shape),
                                ReaderOption(item, call.constructor))]
          [] OTHER -> <<>>

DefMap(program) ==
    [types   |-> FlattenSeq([i \in DOMAIN program.of |-> TypesOf(program.of[i])]),
     sources |-> FlattenSeq([i \in DOMAIN program.of |-> SourcesOf(program.of[i])])]

\* Every lookup takes the first of a name.
LookupIn(entries, name) == SelectSeq(entries, LAMBDA e : e.name = name)
Resolve(entries, name) == IF LookupIn(entries, name) = <<>> THEN {} ELSE {LookupIn(entries, name)[1]}

LookupSourceCall(dm, name) ==
    LET e == Resolve(dm.sources, name)
    IN  IF e = {} THEN [constructor |-> Nowhere, uri |-> NoName, delimiter |-> NoName]
        ELSE LET x == CHOOSE x \in e : TRUE
             IN  [constructor |-> x.constructor, uri |-> x.uri, delimiter |-> x.delimiter]

\* The delimiter reaches the one reader whose row declares it.
NativeReaderFormat(reader, delimiter) ==
    CASE reader = "CsvAuto" -> [is |-> "Csv", delimiter |-> delimiter]
      [] reader = "JsonAuto" -> [is |-> "Json"]
      [] reader = "Parquet" -> [is |-> "Parquet"]

\* resolve_source: a provider that is not installed, or reads no rows, is for the run to
\* refuse.
ResolveSource(dm, name) ==
    LET call == LookupSourceCall(dm, name)
        row  == Provider(call.constructor)
        Refused(why) == [refused |-> why]
        Format(f) == [refused |-> NoName, uri |-> call.uri, format |-> f]
    IN  CASE call.uri = NoName -> Refused("unknown-source")
          [] call.uri # NoName /\ call.constructor = Nowhere -> Refused("bare-document-path")
          [] call.uri # NoName /\ call.constructor # Nowhere /\ row = {} ->
                IF IsConstructor(call.constructor)
                THEN Format([is |-> "Provider", name |-> SubSeq(call.constructor, 3, Len(call.constructor))])
                ELSE Refused("unknown-provider")
          [] OTHER ->
                LET p == CHOOSE p \in row : TRUE
                IN  Format(IF p.reads \in {"Materialised", NoName} THEN [is |-> "Provider", name |-> <<p.name>>]
                           ELSE NativeReaderFormat(p.reads, call.delimiter))

LookupType(dm, name) == LET e == Resolve(dm.types, name) IN IF e = {} THEN NoName ELSE (CHOOSE x \in e : TRUE).iri

\* What is said of a type that names no shape: its own trouble, or that nothing is so called.
UnboundShapeProblem(dm, name) ==
    LET e == Resolve(dm.types, name)
    IN  IF e = {} THEN "unknown-shape" ELSE (CHOOSE x \in e : TRUE).error

\* A second type of one name is refused; a second source or mapping of one name is not.
RefuseNamesIntroducedTwice(program) ==
    LET Introduced(item) ==
            CASE item.node = "TYPE_DECL" /\ DeclName(item) # NoName -> <<DeclName(item)>>
              [] item.node = "TYPE_DEF" -> [i \in DOMAIN BraceMembers(item) |-> BraceMembers(item)[i].name]
              [] OTHER -> <<>>
        all == FlattenSeq([i \in DOMAIN program.of |-> Introduced(program.of[i])])
    IN  IF \E i, j \in DOMAIN all : i < j /\ all[i] = all[j] THEN {"duplicate-type"} ELSE {}

-----------------------------------------------------------------------------
(* The shape a mapping is checked against, and the one a run classifies     *)
(* with.  A shape is its IRI and where it is declared.                      *)

InProgram == "program"

Declared(program) ==
    LET decls == SelectSeq(program.of, LAMBDA x : x.node = "TYPE_DECL" /\ DeclName(x) # NoName /\ DeclIri(x) # NoName)
    IN  [i \in DOMAIN decls |-> [iri |-> DeclIri(decls[i]), home |-> InProgram]]

TypeOfShape(dm, iri) == LET e == SelectSeq(dm.types, LAMBDA x : x.iri = iri) IN IF e = <<>> THEN {} ELSE {e[1]}

\* Where the first type of the IRI says it is; nothing for an IRI no type has.
ResolveTargetShape(dm, iri) ==
    {[iri |-> iri, home |-> IF e.document = NoName THEN InProgram ELSE e.document] : e \in TypeOfShape(dm, iri)}

\* Mutant: one document is read of each provider.
NewProvider(imports, i) == \A j \in 1..(i - 1) : imports[j].constructor # imports[i].constructor
NewDocument(imports, i) == \A j \in 1..(i - 1) : imports[j].document # imports[i].document

\* The declarations, then each document an import names, read once, by the first to name it; a
\* document that is refused leaves the program without shapes.
ProgramShapes(program, dm) ==
    LET imports == SelectSeq(dm.types, LAMBDA e : e.document # NoName)
        first   == {i \in DOMAIN imports : NewDocument(imports, i)}
        Read(i) == DecodedDocument(imports[i].constructor, imports[i].document)
        Of(i)   == IF i \notin first THEN <<>>
                   ELSE [j \in DOMAIN Read(i).shapes |-> [iri |-> Read(i).shapes[j], home |-> imports[i].document]]
    IN  IF \E i \in first : Read(i).refused # NoName THEN <<>>
        ELSE Declared(program) \o FlattenSeq([i \in DOMAIN imports |-> Of(i)])

\* Of a repeated IRI the first is kept.
ClassifiedAs(shapes, iri) ==
    LET s == SelectSeq(shapes, LAMBDA x : x.iri = iri) IN IF s = <<>> THEN {} ELSE {s[1]}
=============================================================================
