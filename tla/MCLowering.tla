----------------------------- MODULE MCLowering -----------------------------
(* Small programs, lowered: the arguments of calls in every order, stages   *)
(* with every two or three arguments, types bound in several ways; and when *)
(* what was lowered says what was written: nothing lost, nothing in         *)
(* another's place.  The forms that are known to be lost without a word are *)
(* named, so that a statement about lowering says which it grants.          *)
EXTENDS Lowering

LOCAL INSTANCE SequencesExt
LOCAL INSTANCE FiniteSetsExt

\* What is written and silently left out.
Tolerated ==
    {"ignored name",            \* a named argument of a verb that no parameter answers to
     "extra alias",             \* an alias of a verb that takes none, or beside what it already has
     "ignored argument",        \* of the call that binds a source
     "from an expression",      \* a mapping reads the first name of what it is from
     "no relation",             \* a binding of what is neither a call nor a pipeline
     "bound twice"}             \* a second source, or mapping, of a name

-----------------------------------------------------------------------------
(* Expressions.                                                             *)

Written(args, kind) == SelectSeq(args, LAMBDA a : a.node = kind)

\* Where an argument belongs: in its turn, or where its name is.
PlaceOf(args, i, params, received) ==
    IF args[i].node = "ARG" THEN received + Cardinality({j \in 1..i : args[j].node = "ARG"})
    ELSE PositionOf(params, Ident(args[i]))

RECURSIVE SaysExpr(_, _)

\* Each argument is at its own place, and every place is an argument's.
SaysArgs(args, params, values, received) ==
    LET place(i) == PlaceOf(args, i, params, received)
    IN  /\ {place(i) : i \in DOMAIN args} = (received + 1)..Len(values)
        /\ Cardinality(DOMAIN args) = Len(values) - received
        /\ \A i \in DOMAIN args : args[i].node # "ALIAS_ARG" /\ SaysExpr(First(args[i]), values[place(i)])

\* Of a method the value comes first; a call of a type is an edge to it.
SaysCall(call, h) ==
    LET callee == First(call)
        name   == MemberName(callee)
        values == Tail(h.of)
        path   == [i \in DOMAIN h.of[1].of |-> h.of[1].of[i].node]
        params == IF Lookup(path) = {} THEN <<>> ELSE (CHOOSE e \in Lookup(path) : TRUE).params
    IN  \/ /\ h.node = "Call" /\ name # NoName
           /\ Lookup(path) # {} /\ ReceiverOf(path[1]) # "namespace" /\ Last(path) = name
           /\ values # <<>> /\ SaysExpr(First(callee), values[1])
           /\ SaysArgs(Args(call), params, values, 1)
        \/ /\ h.node = IF Len(path) = 1 /\ path[1] \in types THEN "Edge" ELSE "Call"
           /\ path = Yield(callee)
           /\ SaysArgs(Args(call), params, values, 0)

SaysExpr(t, h) ==
    CASE t.node = "PAREN_EXPR" -> SaysExpr(First(t), h)
      [] t.node = "LITERAL_EXPR" -> h = Node(IF BareName(t) = NoName THEN "Literal" ELSE "FieldRef", t.of)
      [] IsCall(t) -> SaysCall(t, h)
      [] t.node = "POSTFIX_EXPR" -> h = Node("ColumnRef", <<Leaf(BareName(First(t))), Leaf(MemberName(t))>>)
      [] t.node = "TERNARY_EXPR" -> h.node = "Ternary" /\ Len(h.of) = 3 /\ \A i \in 1..3 : SaysExpr(Children(t)[i], h.of[i])
      [] t.node = "INTERP_STRING_EXPR" ->
            LET pieces == SubSeq(t.of, 2, Len(t.of) - 1)
            IN  /\ h.node = "Interpolation" /\ Len(h.of) = Len(pieces)
                /\ \A i \in DOMAIN pieces :
                     IF pieces[i] = Leaf("TEXT") THEN h.of[i] = pieces[i] ELSE SaysExpr(First(pieces[i]), h.of[i])
      [] OTHER ->
            /\ Tokens(t) = <<Leaf(h.node)>> /\ Len(h.of) = Len(Children(t))
            /\ \A i \in DOMAIN h.of : SaysExpr(Children(t)[i], h.of[i])

-----------------------------------------------------------------------------
(* Relations.                                                               *)

Matches(ts, hs, Says(_, _)) == Len(ts) = Len(hs) /\ \A i \in DOMAIN ts : Says(ts[i], hs[i])

SaysBinding(t, alias, h) ==
    IF alias = <<>> THEN h.of = <<Leaf(BareName(t))>> ELSE h.of = <<Tokens(alias[1])[1], Tokens(alias[1])[3]>>

SaysAggregation(arg, h) ==
    h.of[1].node = Ident(arg) /\ SaysExpr(First(arg), Node("Call", <<h.of[2], h.of[3]>>))

\* Nothing of a stage is in no part of its operation.
SaysStage(stage, op, allow) ==
    LET args   == Args(stage)
        values == [i \in DOMAIN Written(args, "ARG") |-> First(Written(args, "ARG")[i])]
        named  == Written(args, "NAMED_ARG")
        alias  == Written(args, "ALIAS_ARG")
        on     == SelectSeq(named, LAMBDA a : Ident(a) = "on")
        NoMore(positional, names, aliases) ==
            /\ Len(values) = positional \/ (alias # <<>> /\ aliases = 1 /\ "extra alias" \in allow)
            /\ Len(named) = names \/ "ignored name" \in allow
            /\ Len(alias) = aliases \/ "extra alias" \in allow
    IN  /\ op.node = MemberName(First(stage))
        /\ CASE op.node = "where" -> NoMore(1, 0, 0) /\ SaysExpr(values[1], op.of[1])
             [] op.node = "select" -> NoMore(Len(values), 0, 0) /\ Matches(values, op.of[1].of, SaysExpr)
             [] op.node = "distinct" -> NoMore(0, 0, 0)
             [] op.node = "union" -> NoMore(1, 0, 0) /\ SaysBinding(values[1], <<>>, op.of[1])
             [] op.node = "group_by" ->
                   /\ NoMore(Len(values), Len(named), 0)
                   /\ Matches(values, op.of[1].of, SaysExpr) /\ Matches(named, op.of[2].of, SaysAggregation)
             [] op.node = "join" ->
                   /\ IF alias = <<>> THEN NoMore(1, 1, 0) ELSE NoMore(0, 1, 1)
                   /\ SaysBinding(IF values = <<>> THEN Missing ELSE values[1], alias, op.of[1])
                   /\ SaysExpr(First(on[1]), op.of[2])

IsPipeline(t) == LET s == Stages(t) IN s.calls # <<>> /\ BareName(s.head) # NoName /\ ~IsCataloguedHead(BareName(s.head))

SaysPipe(t, name, pipe, allow) ==
    LET s == Stages(t)
    IN  /\ pipe.of[1] = Leaf(name) /\ pipe.of[2] = Leaf(BareName(s.head))
        /\ Matches(s.calls, pipe.of[3].of, LAMBDA call, op : SaysStage(call, op, allow))

\* A source of which nothing is said is opened as it is written, or is for the run to refuse:
\* by who reads rows (mir lower.rs:787-805), and with what delimiter (mir lower.rs:838-842).
SaysReader(item, dm) ==
    LET t     == BindingRhs(item)
        read  == ResolveSource(dm, Ident(item))
        given == NamedArg(t, "delimiter")
    IN  SourcesOf(item)[1] \in Resolve(dm.sources, Ident(item)) /\ read.refused = NoName =>
            /\ read.uri = PositionalString(t)
            /\ \E p \in Providers :
                    /\ p.name = Last(Callee(t)) /\ p.reads # NoName
                    /\ p.reads = "Materialised" <=> read.format = [is |-> "Provider", name |-> <<p.name>>]
            /\ IF read.format.is = "Csv" THEN read.format.delimiter = StringLiteral(First(given)) ELSE given = Missing

\* A binding is a pipeline, or the call that reads a document.
SaysSource(item, pipe, dm, allow) ==
    LET t    == BindingRhs(item)
        call == Resolve(dm.sources, Ident(item))
        Accounted(a) == a.node = "NAMED_ARG" /\ Ident(a) \in {"schema", "delimiter"}
    IN  IF IsPipeline(t) THEN SaysPipe(t, Ident(item), pipe, allow)
        ELSE /\ pipe = Nothing
             /\ SaysReader(item, dm)
             /\ (IsCall(t) /\ DottedName(First(t)) # Nowhere) \/ "no relation" \in allow
             /\ "bound twice" \in allow \/ \E e \in call :
                    e.constructor = Callee(t) /\ (IsCallWithArgs(t) => e.uri = PositionalString(t))
             /\ "ignored argument" \in allow \/ \A i \in DOMAIN Args(t) : i = 1 \/ Accounted(Args(t)[i])

-----------------------------------------------------------------------------
(* Mappings and programs.                                                   *)

Introducing(program, name) == SelectSeq(program.of, LAMBDA item : \E e \in ToSet(TypesOf(item)) : e.name = name)[1]

\* The first type of a name: its own IRI, or the only shape of its local name in its document.
IsShapeIn(item, name, iri) ==
    LET call   == SourceCall(BindingRhs(item))
        member == SelectSeq(BraceMembers(item), LAMBDA m : m.name = name)[1]
    IN  IF item.node = "TYPE_DECL" THEN iri = DeclIri(item)
        ELSE {iri} = {Contents[call.uri].shapes[i] :
                        i \in {i \in DOMAIN Contents[call.uri].shapes : LocalName[Contents[call.uri].shapes[i]] = member.shape}}

IsShapeOf(program, name, iri) == IsShapeIn(Introducing(program, name), name, iri)

\* A mapping reads what its header says, under its own name when it derives it in place.
SaysFrom(t, name, lowered, allow) ==
    IF IsPipeline(t) THEN lowered.mapping.of[3] = Leaf(name) /\ SaysPipe(t, name, lowered.pipe, allow)
    ELSE /\ lowered.pipe = Nothing
         /\ BareName(IF t.node = "PAREN_EXPR" THEN First(t) ELSE t) = lowered.mapping.of[3].node \/ "from an expression" \in allow

SaysMapping(program, item, lowered, allow) ==
    LET header == ChildOf(item, "MAPPING_HEADER")
        shape  == Ident(ChildOf(header, "SHAPE_EXPR"))
        lines  == Written(Children(ChildOf(item, "MAPPING_BODY")), "PROPERTY")
        SaysLine(line, h) == h.of[1] = Tokens(ChildOf(line, "PROPERTY_LHS"))[1] /\ SaysExpr(First(ChildOf(line, "EXPR")), h.of[2])
    IN  /\ lowered.mapping.of[1].node = Ident(header)
        /\ IsShapeOf(program, shape, lowered.mapping.of[2].node)
        /\ SaysFrom(First(ChildOf(header, "EXPR")), Ident(header), lowered, allow)
        /\ Matches(lines, lowered.body, SaysLine)

SaysItem(program, item, lowered, allow) ==
    CASE item.node = "MAPPING" -> SaysMapping(program, item, lowered, allow)
      [] item.node = "SOURCE_DEF" -> SaysSource(item, lowered.pipe, DefMap(program), allow)
      [] OTHER -> TRUE

-----------------------------------------------------------------------------

VARIABLES unit          \* the program that is lowered

NoUnit == Leaf("none")

Column(a, n) == Dot(Lit(a), n)

-----------------------------------------------------------------------------
(* Items of programs.                                                       *)

Expr(e) == Node("EXPR", <<e>>)
Bound(name, e) == Node("SOURCE_DEF", <<Leaf(name), Leaf(":="), Expr(e)>>)
Prop(lhs, e) == Node("PROPERTY", <<Node("PROPERTY_LHS", <<Leaf(lhs)>>), Leaf("="), Expr(e)>>)
Mapped(name, shape, source, lines) ==
    Node("MAPPING",
         <<Node("MAPPING_HEADER", <<Leaf(name), Leaf(":"), Node("SHAPE_EXPR", <<Leaf(shape)>>), Leaf("from"), Expr(source)>>),
           Leaf("INDENT"), Node("MAPPING_BODY", lines), Leaf("DEDENT")>>)

Iri(iri) == Node("IRI_ATTR", <<Leaf("@iri"), Leaf("("), Leaf(iri), Leaf(")")>>)
Declares(name, iri) ==
    Node("TYPE_DECL", <<Iri(iri), Leaf("type"), Leaf(name), Leaf("INDENT"),
                        Node("FIELD", <<Iri("lit"), Leaf("k"), Leaf(":"), Node("TYPE_EXPR", <<Leaf("c")>>)>>), Leaf("DEDENT")>>)

Reader(name, args) == Call(Dot(Lit("io"), name), args)
Picked(s) == Node("IMPORT_MEMBER", [i \in DOMAIN s |-> Leaf(s[i])])
Imports(members, e) ==
    Node("TYPE_DEF", <<Leaf("type"), Leaf("{")>> \o members \o <<Leaf("}"), Leaf(":="), Expr(e)>>)

Program(items) == Node("PROGRAM", items)

-----------------------------------------------------------------------------
(* Calls, expressions and stages.                                           *)

Between(args) == FlattenSeq([i \in DOMAIN args |-> IF i = 1 THEN <<args[i]>> ELSE <<Leaf(","), args[i]>>])
Applied(e, args) == IF args = <<>> THEN After(e, <<Leaf("("), Leaf(")")>>) ELSE Call(e, Between(args))

UpTo(S, n) == UNION {[1..i -> S] : i \in 0..n}

ValueArgs == {Argument(Lit("k")), Argument(Lit("INTEGER")), Alias("A", "B")}
                \cup {Named(name, Lit("lit")) : name \in {"text", "needle", "n"}} \cup {Named("replacement", Lit("BOOL"))}

Calls == {Applied(f, args) : args \in UpTo(ValueArgs, 3),
            f \in {Dot(Lit("str"), "replace"), Dot(Column("A", "k"), "replace"), Lit("T"), Lit("U"), Dot(Lit("math"), "sum"),
                   Dot(Lit("lit"), "trim"), Dot(Column("A", "k"), "n")}}

Carved(e) == Node("INTERP_STRING_EXPR",
                  <<Leaf("OPEN"), Leaf("TEXT"), Node("INTERPOLATION", <<Leaf("HOLE"), e, Leaf("}")>>), Leaf("TEXT"), Leaf("CLOSE")>>)

Leaves == {Lit("k"), Lit("INTEGER"), Column("A", "k"), Column("math", "sum"), Column("A", "lit")}

Around(e) ==
    {Bin(e, op, Lit("lit")) : op \in {"+", "<"}} \cup {Bin(Column("A", "n"), "and", e)}
        \cup {If(e, Lit("k"), Lit("n")), If(Lit("k"), e, Lit("n")), If(Lit("k"), Lit("n"), e)}
        \cup {Node("UNARY_EXPR", <<Leaf("not"), e>>), Paren(e), Carved(e), Dot(e, "n")}
        \cup {Applied(Dot(e, "trim"), <<>>), Applied(Lit("T"), <<Argument(e)>>), Applied(e, <<Argument(Lit("k"))>>),
              Applied(Dot(Lit("str"), "replace"), <<Argument(Lit("k")), Named("replacement", Lit("n")), Named("needle", e)>>)}

Expressions ==
    LET one == Leaves \cup UNION {Around(e) : e \in Leaves} IN one \cup UNION {Around(e) : e \in one}

Equal == Bin(Column("A", "k"), "==", Column("B", "k"))
Sum == Applied(Column("math", "sum"), <<Argument(Column("A", "n"))>>)

StageArgs == {Argument(Column("A", "k")), Argument(Lit("B")), Argument(Equal), Alias("B", "C"),
              Named("on", Equal), Named("n", Sum), Named("k", Sum)}

Verbs == {"where", "select", "join", "group_by", "union", "distinct", "trim", "rows"}
OnA(t, verb, args) == Applied(Dot(t, verb), args)

Whole == {OnA(Lit("A"), verb, args) : verb \in Verbs, args \in UpTo(StageArgs, 3)}

Good == {<<"where", <<Argument(Equal)>>>>, <<"where", <<Argument(Column("A", "k")), Argument(Equal)>>>>,
         <<"select", <<Argument(Column("A", "k"))>>>>, <<"select", <<Argument(Equal)>>>>, <<"distinct", <<>>>>,
         <<"union", <<Argument(Lit("C"))>>>>, <<"join", <<Argument(Lit("B")), Named("on", Equal)>>>>,
         <<"group_by", <<Argument(Column("A", "k")), Named("n", Sum)>>>>}
Staged(t) == {OnA(t, s[1], s[2]) : s \in Good}
Chains == UNION {Staged(t) : t \in UNION {Staged(t) : t \in Staged(Lit("A"))}}

Froms == {Lit("A"), Paren(Lit("A")), Paren(OnA(Lit("A"), "distinct", <<>>)), Bin(Lit("A"), "+", Lit("B")),
          Column("A", "k"), OnA(Column("A", "k"), "distinct", <<>>), OnA(Applied(Lit("a"), <<Argument(Lit("A"))>>), "distinct", <<>>),
          Lit("INTEGER")}

-----------------------------------------------------------------------------
(* Programs.                                                                *)

Reads == Bound("A", Reader("csv", <<Argument(Lit("p.csv"))>>))
Line == Prop("@subject", Column("A", "k"))

Openers ==
    {Reader("csv", Between(<<Argument(Lit("p.csv"))>> \o more)) : more \in
        UpTo({Argument(Lit("k")), Named("delimiter", Lit("byte")), Named("n", Lit("byte")), Named("delimiter", Lit("wide"))}, 2)}
    \cup {Lit("p.csv"), Lit("B"), Paren(OnA(Lit("B"), "distinct", <<>>)), Reader("rows", <<Argument(Lit("p.csv"))>>),
          Reader("shex", <<Argument(Lit("t.shex"))>>), Applied(Lit("csv"), <<Argument(Lit("p.csv"))>>),
          Applied(Lit("a"), <<Argument(Lit("p.csv"))>>)}
    \cup {Reader(name, Between(<<Argument(Lit("p.csv"))>> \o more)) : name \in {"json", "rdf"},
            more \in {<<>>, <<Named("delimiter", Lit("byte"))>>}}

Importers == {Reader("shex", <<Argument(Lit(d))>>) : d \in {"t.shex", "u.shex", "bad.shex", "none.shex", "p.csv"}} \cup {Lit("t.shex")}

TypeItems ==
    {Declares(name, iri) : name \in {"T", "U"}, iri \in {"T1", "T3"}}
    \cup {Imports(<<Picked(m)>>, e) : m \in {<<"T">>, <<"U">>, <<"V">>, <<"U", "as", "T">>}, e \in Importers}
    \cup {Imports(<<Picked(<<"T">>), Leaf(","), Picked(<<"T", "as", "U">>)>>, Reader("shex", <<Argument(Lit("u.shex"))>>))}

OfExpression(e) == <<Declares("T", "T1"), Reads, Mapped("a", "T", Lit("A"), <<Line, Prop("b", e), Prop("c", Lit("k"))>>)>>
OfRelation(e) == <<Reads, Bound("B", e)>>
OfSource(e) == <<Declares("T", "T1"), Reads, Mapped("a", "T", e, <<Line>>)>>
OfCall(e, name) == <<Bound("A", e), Bound(name, Reader("json", <<Argument(Lit("p.json"))>>))>>
OfTypes(items, shape) == items \o <<Reads, Mapped("a", shape, Lit("A"), <<Line>>)>>

Init == unit = NoUnit /\ types = {}

Next == /\ unit = NoUnit
        /\ \/ \E e \in Expressions : unit' = Program(OfExpression(e))
           \/ \E e \in Calls : unit' = Program(OfExpression(e))
           \/ \E e \in Whole : unit' = Program(OfRelation(e))
           \/ \E e \in Chains : unit' \in {Program(OfRelation(e)), Program(OfSource(e))}
           \/ \E e \in Froms : unit' = Program(OfSource(e))
           \/ \E e \in Openers, name \in {"A", "B"} : unit' = Program(OfCall(e, name))
           \/ \E types1 \in UpTo(TypeItems, 2), shape \in {"T", "U", "V"} : unit' = Program(OfTypes(types1, shape))
        /\ types' = BoundTypeNames(unit')

Spec == Init /\ [][Next]_<<unit, types>>

-----------------------------------------------------------------------------
(* Properties.                                                              *)

Silently(program, lowered) == lowered.said = {} /\ \A i \in DOMAIN program.of : lowered.items[i].said = {}

SaysAll(program, lowered, allow) ==
    \A i \in DOMAIN program.of : SaysItem(program, program.of[i], lowered.items[i], allow)

\* A program about which nothing was said is lowered to what it says, but for the forms known to
\* be lost.
LoweredOrSaid ==
    unit # NoUnit =>
        \A lowered \in {LowerToHir(unit)} : Silently(unit, lowered) => SaysAll(unit, lowered, Tolerated)

Documents(dm) == {dm.types[i].document : i \in DOMAIN dm.types} \ {NoName}

\* Where the shape of an IRI is, of all a program declares and all its imports read.
Homes(program, dm, iri) ==
    {d \in Documents(dm) \cap DOMAIN Contents : \E i \in DOMAIN Contents[d].shapes : Contents[d].shapes[i] = iri}
        \cup {Declared(program)[i].home : i \in {i \in DOMAIN Declared(program) : Declared(program)[i].iri = iri}}

\* Every document an import names is one its provider reads, whether or not a mapping uses the type.
AllRead(dm) ==
    \A i \in DOMAIN dm.types :
        dm.types[i].document # NoName => DecodedDocument(dm.types[i].constructor, dm.types[i].document).refused = NoName

SameShape(granted(_, _, _)) ==
    unit # NoUnit =>
        \A lowered \in {LowerToHir(unit)}, dm \in {DefMap(unit)} :
            Silently(unit, lowered) =>
                \A i \in DOMAIN unit.of :
                    LET mapping == lowered.items[i].mapping
                        iri     == mapping.of[2].node
                    IN  mapping # Nothing /\ iri # NoName /\ granted(unit, dm, iri) =>
                            /\ ResolveTargetShape(dm, iri) = ClassifiedAs(ProgramShapes(unit, dm), iri)
                            /\ ResolveTargetShape(dm, iri) # {}

\* The shape a mapping is checked against is the one its run classifies with, when the program
\* has the IRI in one place and every document it imports is read.
CheckedIsRun == SameShape(LAMBDA program, dm, iri : Cardinality(Homes(program, dm, iri)) = 1 /\ AllRead(dm))

\* Of what is said (shapes.rs, program_shapes) "so a run reads the types the checker read": so it
\* would be of an IRI in two places too.
CheckedIsAlwaysRun == SameShape(LAMBDA program, dm, iri : AllRead(dm))

\* And of "which the checker has already reported": so it would be of an import nothing uses.
RefusedIsSaid == SameShape(LAMBDA program, dm, iri : Cardinality(Homes(program, dm, iri)) = 1)
=============================================================================
