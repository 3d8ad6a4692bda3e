------------------------------ MODULE Lowering ------------------------------
(* From the tree of a program to what the checker reads: expressions with   *)
(* their arguments in the order of the parameters, the pipelines of         *)
(* relations, and the mappings with the shape and the relation they name.   *)
(* Each step gives a tree of its own, or nothing, and what it said.         *)
EXTENDS Names

LOCAL INSTANCE SequencesExt
LOCAL INSTANCE FiniteSetsExt

Nothing == Node("Nothing", <<>>)

Gives(h) == [h |-> h, said |-> {}]
Refuse(problem) == [h |-> Nothing, said |-> {problem}]
Silent == [h |-> Nothing, said |-> {}]

FirstIn(places, otherwise) == IF places = {} THEN otherwise ELSE Min(places)

\* Results in turn, up to the first that is nothing.
InTurn(each) ==
    LET n == FirstIn({i \in DOMAIN each : each[i].h = Nothing}, Len(each))
    IN  [hs |-> [i \in 1..n |-> each[i].h], said |-> UNION {each[i].said : i \in 1..n}]

\* The tree of results, when each is something.
As(kind, r) == [h |-> IF \E i \in DOMAIN r.hs : r.hs[i] = Nothing THEN Nothing ELSE Node(kind, r.hs), said |-> r.said]

-----------------------------------------------------------------------------
(* Names in trees.                                                          *)

IsCall(t) == t.node = "POSTFIX_EXPR" /\ \E i \in DOMAIN t.of : t.of[i] = Leaf("(")

\* The name after the dot; in quotes it is any name.
MemberName(t) ==
    LET s == Tokens(t)
    IN  IF t.node = "POSTFIX_EXPR" /\ Len(s) = 2 /\ s[1] = Leaf(".") /\ Kind(s[2].node) \in {"IDENT", "STRING"}
        THEN s[2].node ELSE NoName

BareName(t) == IF t.node = "LITERAL_EXPR" /\ Len(Tokens(t)) = 1 THEN Ident(t) ELSE NoName

Dotted(base, name) == IF base = Nowhere \/ name = NoName THEN Nowhere ELSE base \o <<".", name>>

RECURSIVE DottedName(_)
DottedName(t) ==
    CASE t.node = "LITERAL_EXPR" -> IF Ident(t) = NoName THEN Nowhere ELSE <<Ident(t)>>
      [] t.node = "POSTFIX_EXPR" /\ ~IsCall(t) -> Dotted(DottedName(First(t)), Ident(t))
      [] OTHER -> Nowhere

\* The types a program has names for.
VARIABLES types

RECURSIVE LowerExpr(_)

\* What is made of parts, when there are as many as it takes and each lowers.
Made(kind, parts, n) ==
    IF Len(parts) < n THEN Silent ELSE As(kind, InTurn([i \in DOMAIN parts |-> LowerExpr(parts[i])]))

-----------------------------------------------------------------------------
(* The arguments of a call, each at the position of its parameter.          *)

Placing(offset) == [slots |-> [i \in {} |-> Nothing], next |-> offset + 1, named |-> FALSE, stopped |-> FALSE, said |-> {}]

Stop(s, said) == [s EXCEPT !.stopped = TRUE, !.said = @ \cup said]

Put(s, at, r) ==
    IF r.h = Nothing THEN Stop(s, r.said)
    ELSE [s EXCEPT !.slots = [i \in DOMAIN @ \cup {at} |-> IF i = at THEN r.h ELSE @[i]], !.said = @ \cup r.said]

\* By its name, which the receiver or an earlier argument may hold already.
PlaceNamed(s, arg, params, known, offset) ==
    LET at    == PositionOf(params, Ident(arg))
        value == FirstOf(Children(arg), LAMBDA x : x.node # "ERROR")
        Lowered == IF value = Missing THEN Silent ELSE LowerExpr(value)
    IN  CASE Ident(arg) = NoName -> Stop(s, {})
          [] ~known -> Stop(s, {"named-on-edge"})
          [] at = 0 -> Stop(s, {"unknown-parameter"})
          [] at <= offset \/ at \in DOMAIN s.slots -> Stop(s, {"duplicate-argument"})
          [] OTHER -> [Put(s, at, Lowered) EXCEPT !.named = TRUE]

PlaceArg(s, arg, params, known, offset) ==
    CASE s.stopped -> s
      [] arg.node = "NAMED_ARG" -> PlaceNamed(s, arg, params, known, offset)
      [] arg.node = "ALIAS_ARG" -> Stop(s, {"alias-in-value-call"})
      [] s.named -> Stop(s, {"positional-after-named"})
      [] Children(arg) = <<>> -> Stop(s, {})
      [] OTHER -> [Put(s, s.next, LowerExpr(First(arg))) EXCEPT !.next = s.next + 1]

\* Mutant: a parameter that was skipped leaves no hole.
PlacesClosed(s, offset) == [hs |-> SelectSeq([i \in 1..9 |-> IF i \in DOMAIN s.slots THEN s.slots[i] ELSE Nothing], LAMBDA h : h # Nothing),
                            said |-> s.said, stopped |-> s.stopped]

\* No parameter before the last given is skipped.
Places(s, offset) ==
    LET last == IF DOMAIN s.slots = {} THEN offset ELSE CHOOSE i \in DOMAIN s.slots : \A j \in DOMAIN s.slots : j <= i
        gap  == ~s.stopped /\ (offset + 1)..last # DOMAIN s.slots
    IN  [hs |-> IF s.stopped \/ gap THEN <<>> ELSE [i \in 1..(last - offset) |-> s.slots[offset + i]],
         said |-> s.said \cup IF gap THEN {"skipped-parameter"} ELSE {},
         stopped |-> s.stopped \/ gap]

PlaceArgs(call, params, known, offset) ==
    Places(FoldLeft(LAMBDA s, arg : PlaceArg(s, arg, params, known, offset), Placing(offset), Args(call)), offset)

Called(kind, func, before, placed) ==
    [h |-> IF placed.stopped THEN Nothing ELSE Node(kind, <<Node("Func", [i \in DOMAIN func |-> Leaf(func[i])])>> \o before \o placed.hs),
     said |-> placed.said]

CalledOn(recv, call, row) ==
    IF recv.h = Nothing THEN recv
    ELSE [Called("Call", row.path, <<recv.h>>, PlaceArgs(call, row.params, TRUE, 1)) EXCEPT !.said = @ \cup recv.said]

\* A call on a value: the value is the function's first argument.
LowerMethod(call, receiver, member) ==
    LET rows == CandidatesForMember(member)
    IN  IF rows = {} THEN Refuse("unknown-function") ELSE CalledOn(LowerExpr(receiver), call, CHOOSE e \in rows : TRUE)

\* A call of a name: of a type it is an edge, and its arguments have no names.
LowerFunction(call, func) ==
    LET isEdge == Len(func) = 1 /\ func[1] \in types
        rows   == IF isEdge THEN {} ELSE Lookup(func)
        params == IF rows = {} THEN <<>> ELSE (CHOOSE e \in rows : TRUE).params
    IN  Called(IF isEdge THEN "Edge" ELSE "Call", func, <<>>, PlaceArgs(call, params, rows # {}, 0))

\* A member of a bare name is a column, unless the name is a namespace of the catalogue.
LowerMember(t) ==
    LET head   == BareName(First(t))
        dotted == DottedName(t)
    IN  CASE MemberName(t) # NoName /\ head # NoName /\ ~IsCataloguedHead(head) ->
                Gives(Node("ColumnRef", <<Leaf(head), Leaf(MemberName(t))>>))
          [] Len(dotted) > 3 /\ ~IsCataloguedHead(dotted[1]) /\ CandidatesForMember(Last(dotted)) = {} ->
                Refuse("dotted-column")
          [] OTHER -> Refuse("uncalled-function")

LowerPostfix(t) ==
    LET callee   == First(t)
        receiver == First(callee)
    IN  CASE ~IsCall(t) -> LowerMember(t)
          [] MemberName(callee) # NoName /\ BareName(receiver) = NoName -> LowerMethod(t, receiver, MemberName(callee))
          [] DottedName(callee) = Nowhere -> Refuse("invalid-callee")
          [] OTHER -> LowerFunction(t, DottedName(callee))

-----------------------------------------------------------------------------
(* Expressions.                                                             *)

\* A hole is the first thing in it that lowers.
FirstLowered(each) ==
    LET n == FirstIn({i \in DOMAIN each : each[i].h # Nothing}, Len(each))
    IN  [h |-> IF n = 0 THEN Nothing ELSE each[n].h, said |-> UNION {each[i].said : i \in 1..n}]

LowerHole(hole) == FirstLowered([i \in DOMAIN Children(hole) |-> LowerExpr(Children(hole)[i])])

LowerPieces(pieces) ==
    InTurn([i \in DOMAIN pieces |-> IF pieces[i] = Leaf("TEXT") THEN Gives(pieces[i]) ELSE LowerHole(pieces[i])])

LowerInterpolation(t) ==
    As("Interpolation", LowerPieces(SelectSeq(t.of, LAMBDA x : x = Leaf("TEXT") \/ x.node = "INTERPOLATION")))

\* A conditional has three parts, whatever was recovered between them.
LowerTernary(t) ==
    LET parts == SelectSeq(Children(t), LAMBDA x : x.node # "ERROR")
    IN  IF Len(parts) # 3 THEN Refuse("incomplete-conditional") ELSE Made("Ternary", parts, 3)

LowerLiteral(t) ==
    Gives(IF Ident(t) = NoName THEN Node("Literal", t.of) ELSE Node("FieldRef", <<Leaf(Ident(t))>>))

Operators == {"or", "and", "==", "<", "+", "*"}

LowerExpr(t) ==
    CASE t.node = "POSTFIX_EXPR" -> LowerPostfix(t)
      [] t.node = "BINARY_EXPR" -> Made(FirstOf(Tokens(t), LAMBDA x : x.node \in Operators).node, SubSeq(Children(t), 1, 2), 2)
      [] t.node = "PAREN_EXPR" -> IF Children(t) = <<>> THEN Silent ELSE LowerExpr(First(t))
      [] t.node = "TERNARY_EXPR" -> LowerTernary(t)
      [] t.node = "UNARY_EXPR" -> Made(t.of[1].node, SubSeq(Children(t), 1, 1), 1)
      [] t.node = "INTERP_STRING_EXPR" -> LowerInterpolation(t)
      [] t.node = "LITERAL_EXPR" -> LowerLiteral(t)
      [] OTHER -> Refuse("unsupported-expression")

-----------------------------------------------------------------------------
(* The stages of a pipeline.                                                *)

AliasArg(args) ==
    LET a == FirstOf(args, LAMBDA x : x.node = "ALIAS_ARG")
    IN  IF Len(Tokens(a)) = 3 THEN Tokens(a) ELSE <<>>

\* What fills a parameter, and what is left for the others.
Bind(s, param, args, claimed) ==
    LET named     == First(FirstOf(args, LAMBDA a : a.node = "NAMED_ARG" /\ Ident(a) = param.name))
        unclaimed == SelectSeq(args, LAMBDA a : a.node = "NAMED_ARG" /\ Ident(a) \notin claimed)
        nodes     == CASE param.ty = "aggregate" -> unclaimed
                       [] param.named -> IF named = Missing THEN <<>> ELSE <<named>>
                       [] param.arity = "some" \/ s.left = <<>> -> s.left
                       [] OTHER -> SubSeq(s.left, 1, 1)
        left      == IF param.ty = "aggregate" \/ param.named THEN s.left ELSE SubSeq(s.left, Len(nodes) + 1, Len(s.left))
        filled    == nodes # <<>> \/ param.arity = "optional" \/ (param.ty = "binding" /\ AliasArg(args) # <<>>)
    IN  [slots |-> Append(s.slots, nodes), left |-> left, short |-> s.short \/ ~filled]

\* Each parameter after the rows takes its arguments; what is left over is refused, but a name
\* no parameter has is not.
BindStageArgs(row, args) ==
    LET params  == Tail(row.params)
        claimed == {params[i].name : i \in {i \in DOMAIN params : params[i].named}}
        written == SelectSeq(args, LAMBDA a : a.node = "ARG" /\ Children(a) # <<>>)
        bound   == FoldLeft(LAMBDA s, param : Bind(s, param, args, claimed),
                            [slots |-> <<>>, left |-> [i \in DOMAIN written |-> First(written[i])], short |-> FALSE], params)
    IN  [slots |-> bound.slots, wrong |-> bound.short \/ bound.left # <<>>]

ColumnsOf(each) ==
    IF \A i \in DOMAIN each : each[i].h.node = "ColumnRef"
    THEN Gives(Node("Columns", [i \in DOMAIN each |-> each[i].h]))
    ELSE Refuse("invalid-stage-argument")

Columns(nodes) == ColumnsOf([i \in DOMAIN nodes |-> LowerExpr(nodes[i])])

\* The parts of an operation, unless one is refused.
Op(kind, parts) ==
    [As(kind, [hs |-> [i \in DOMAIN parts |-> parts[i].h], said |-> {}]) EXCEPT !.said = UNION {parts[i].said : i \in DOMAIN parts}]

\* An aggregation is a call of an aggregate on one column.
AggregationOf(alias, h) ==
    LET path == [i \in DOMAIN h.of[1].of |-> h.of[1].of[i].node]
    IN  CASE h.node # "Call" -> Refuse("not-an-aggregate")
          [] ~\E e \in Lookup(path) : e.aggregate -> Refuse("not-an-aggregate")
          [] Len(h.of) # 2 \/ h.of[2].node # "ColumnRef" -> Refuse("invalid-stage-argument")
          [] OTHER -> Gives(Node("Aggregation", <<Leaf(alias), h.of[1], h.of[2]>>))

Aggregation(arg) ==
    IF Ident(arg) = NoName \/ Children(arg) = <<>> THEN Silent ELSE AggregationOf(Ident(arg), LowerExpr(First(arg)).h)

Aggregations(nodes) == Op("Aggregations", [i \in DOMAIN nodes |-> Aggregation(nodes[i])])

\* The other relation: named, or named with an alias.
Binding(nodes, args) ==
    LET alias == AliasArg(args)
    IN  CASE alias # <<>> -> Gives(Node("Binding", <<alias[1], alias[3]>>))
          [] BareName(nodes[1]) = NoName -> Refuse("invalid-stage-argument")
          [] OTHER -> Gives(Node("Binding", <<Leaf(BareName(nodes[1]))>>))

UnionWith(other) == IF Len(other.h.of) = 2 THEN Refuse("union-alias") ELSE Op("union", <<other>>)

LowerVerb(verb, slots, args) ==
    CASE verb = "where" -> Op("where", <<LowerExpr(slots[1][1])>>)
      [] verb = "select" -> Op("select", <<Columns(slots[1])>>)
      [] verb = "join" -> Op("join", <<Binding(slots[1], args), LowerExpr(slots[2][1])>>)
      [] verb = "distinct" -> Op("distinct", <<>>)
      [] verb = "group_by" -> Op("group_by", <<Columns(slots[1]), Aggregations(slots[2])>>)
      [] verb = "union" -> UnionWith(Binding(slots[1], args))

Stage(verb, bound, args) == IF bound.wrong THEN Refuse("stage-arity") ELSE LowerVerb(verb, bound.slots, args)

LowerSourceStage(stage) ==
    LET rows == LookupMember("relation", MemberName(First(stage)))
        row  == CHOOSE e \in rows : TRUE
    IN  IF rows = {} THEN Refuse("unknown-verb") ELSE Stage(row.op, BindStageArgs(row, Args(stage)), Args(stage))

\* The calls of members down to what they start from, the first stage first.
RECURSIVE Stages(_)
Stages(t) ==
    IF IsCall(t) /\ MemberName(First(t)) # NoName /\ Children(First(t)) # <<>>
    THEN [Stages(First(First(t))) EXCEPT !.calls = Append(@, t)]
    ELSE [head |-> t, calls |-> <<>>]

LeftOut == Node("LeftOut", <<>>)

Forgiven(stage, r) == IF r.h = Nothing /\ MemberName(First(stage)) = "where" THEN [r EXCEPT !.h = LeftOut] ELSE r

\* The stages in turn, until one does not lower; a `where` that does not is left out.
LowerStages(calls) == As("Ops", InTurn([i \in DOMAIN calls |-> Forgiven(calls[i], LowerSourceStage(calls[i]))]))

PipeOf(name, base, ops) ==
    IF ops.h = Nothing THEN ops
    ELSE [ops EXCEPT !.h = Node("Pipe", <<Leaf(name), Leaf(base), Node("Ops", SelectSeq(@.of, LAMBDA h : h # LeftOut))>>)]

\* The pipeline an expression spells under a name; a name alone, a call of the catalogue and
\* whatever else starts from no name spell none.
LowerPipe(rhs, name) ==
    LET s    == Stages(rhs)
        base == BareName(s.head)
    IN  IF rhs = Missing \/ s.calls = <<>> \/ base = NoName \/ IsCataloguedHead(base) THEN Silent
        ELSE PipeOf(name, base, LowerStages(s.calls))

-----------------------------------------------------------------------------
(* Mappings and programs.                                                   *)

\* The first name anywhere in what it reads from.
SourceBindingOf(header) ==
    LET names == SelectSeq(Yield(ChildOf(header, "EXPR")), LAMBDA t : Kind(t) = "IDENT")
    IN  IF ChildOf(header, "EXPR") = Missing \/ names = <<>> THEN NoName ELSE names[1]

\* A mapping with no name or that reads from nothing is refused; of a shape that is no type's,
\* the trouble is said and the mapping kept.
LowerMapping(mapping, dm) ==
    LET header == ChildOf(mapping, "MAPPING_HEADER")
        shape  == ChildOf(header, "SHAPE_EXPR")
        source == SourceBindingOf(header)
        iri    == LookupType(dm, Ident(shape))
        said   == IF Ident(shape) = NoName \/ iri # NoName THEN {} ELSE {UnboundShapeProblem(dm, Ident(shape))}
    IN  IF header = Missing \/ Ident(header) = NoName \/ shape = Missing \/ source = NoName
        THEN [h |-> Nothing, said |-> {"invalid-mapping-header"} \cup IF shape = Missing THEN {} ELSE said]
        ELSE [h |-> Node("Mapping", <<Leaf(Ident(header)), Leaf(iri), Leaf(source)>>), said |-> said]

\* A line of a body: @subject or a name, and a value.
LowerProperty(property) ==
    LET lhs == Tokens(ChildOf(property, "PROPERTY_LHS"))
        e   == ChildOf(property, "EXPR")
    IN  CASE Len(lhs) # 1 -> Refuse("invalid-property-name")
          [] Kind(lhs[1].node) = "AT_ATTR" /\ lhs[1].node # "@subject" -> Refuse("misplaced-attribute")
          [] e = Missing \/ Children(e) = <<>> -> Refuse("bug")
          [] OTHER -> Op("Property", <<Gives(lhs[1]), LowerExpr(First(e))>>)

LowerBody(mapping) ==
    LET lines == SelectSeq(Children(ChildOf(mapping, "MAPPING_BODY")), LAMBDA x : x.node = "PROPERTY")
    IN  [i \in DOMAIN lines |-> LowerProperty(lines[i])]

NoMapping == [mapping |-> Nothing, pipe |-> Nothing, body |-> <<>>, said |-> {}]

WithBody(body) ==
    [NoMapping EXCEPT !.body = SelectSeq([i \in DOMAIN body |-> body[i].h], LAMBDA h : h # Nothing),
                      !.said = UNION {body[i].said : i \in DOMAIN body}]

\* A mapping that derives its relation in place reads it under its own name.
Reading(r, m, pipe) ==
    [r EXCEPT !.mapping = IF pipe.h = Nothing THEN m ELSE [m EXCEPT !.of[3] = m.of[1]],
              !.pipe = pipe.h, !.said = @ \cup pipe.said]

WithMapping(r, m, from) ==
    LET s == [r EXCEPT !.said = @ \cup m.said]
    IN  IF m.h = Nothing THEN s ELSE Reading(s, m.h, LowerPipe(from, m.h.of[1].node))

LowerMappingAndPipe(item, dm) ==
    WithMapping(WithBody(LowerBody(item)), LowerMapping(item, dm), First(ChildOf(ChildOf(item, "MAPPING_HEADER"), "EXPR")))

\* What the calls of a binding say, and its pipeline when it is a relation's.
Checks(item) == CheckProvider(item, "rows") \cup CheckSchemaArg(item)

LowerBinding(item, pipe) == [NoMapping EXCEPT !.pipe = pipe.h, !.said = Checks(item) \cup pipe.said]

LowerItem(item, dm) ==
    CASE item.node = "MAPPING" -> LowerMappingAndPipe(item, dm)
      [] item.node = "SOURCE_DEF" -> LowerBinding(item, LowerPipe(BindingRhs(item), Ident(item)))
      [] item.node = "MULTI_SOURCE_DEF" -> LowerBinding(item, Silent)
      [] item.node = "TYPE_DEF" -> [NoMapping EXCEPT !.said = CheckProvider(item, "types")]
      [] OTHER -> NoMapping

\* Item by item; types introduced twice are refused at the end.
LowerToHir(program) ==
    LET dm == DefMap(program)
    IN  [items |-> [i \in DOMAIN program.of |-> LowerItem(program.of[i], dm)],
         said  |-> RefuseNamesIntroducedTwice(program)]

BoundTypeNames(program) == LET dm == DefMap(program) IN {dm.types[i].name : i \in DOMAIN dm.types}
=============================================================================
