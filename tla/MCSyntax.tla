------------------------------ MODULE MCSyntax ------------------------------
(* Programs of the grammar, laid out in lines in several ways, and the      *)
(* smaller of them with a token lost, replaced or added, read by the parser.*)
(*                                                                          *)
(* The programs of the published grammar (docs/grammar.bnf) are trees: what *)
(* the parser must read back, and all it may accept without a word.  The    *)
(* forms the parser is known to let through besides are named, so that a    *)
(* statement about it says which it grants.                                 *)
EXTENDS Grammar

Lib == INSTANCE SequencesExt

\* Forms the parser accepts in silence and the grammar does not derive.
Tolerated ==
    {"chained comparison", "conditional in a then", "no colon", "no body", "no source",
     "stray indent", "trailing comma", "no property"}

-----------------------------------------------------------------------------
(* Expressions: a level for each row of the precedence table.               *)

OpLevel(op) ==
    CASE op = "or" -> 2
      [] op = "and" -> 3
      [] op \in {"==", "<"} -> 4
      [] op = "+" -> 5
      [] op = "*" -> 6
      [] OTHER -> 0

Literals == {"INTEGER", "BOOL", "null", "STRING", "LANG_STRING", "IDENT"}

\* A missing operand is an ERROR node, of no level.
Level(e) ==
    CASE e.node = "TERNARY_EXPR" -> 1
      [] e.node = "BINARY_EXPR" /\ Len(e.of) = 3 -> OpLevel(e.of[2].node)
      [] e.node = "UNARY_EXPR" -> 7
      [] e.node \in {"POSTFIX_EXPR", "PAREN_EXPR", "LITERAL_EXPR", "INTERP_STRING_EXPR"} -> 8
      [] OTHER -> 0

IsLeaf(t, kind) == t.of = <<>> /\ Kind(t.node) = kind

\* A sequence whose odd places hold what Holds says, between commas.
Listed(s, Holds(_), trailing) ==
    LET n == IF trailing /\ s # <<>> /\ Len(s) % 2 = 0 /\ IsLeaf(s[Len(s)], ",") THEN Len(s) - 1 ELSE Len(s)
    IN  /\ n % 2 = 1
        /\ \A i \in 1..n : IF i % 2 = 1 THEN Holds(s[i]) ELSE IsLeaf(s[i], ",")

Shaped(t, kind, n) == t.node = kind /\ Len(t.of) = n

RECURSIVE Derives(_, _, _)
DerivesArg(a, allow) ==
    \/ Shaped(a, "ARG", 1) /\ Derives(a.of[1], 1, allow)
    \/ Shaped(a, "NAMED_ARG", 3) /\ IsLeaf(a.of[1], "IDENT") /\ IsLeaf(a.of[2], "=") /\ Derives(a.of[3], 1, allow)
    \/ Shaped(a, "ALIAS_ARG", 3) /\ IsLeaf(a.of[1], "IDENT") /\ a.of[2] = Leaf("as") /\ IsLeaf(a.of[3], "IDENT")

\* e is an expression of at least the level min.
Derives(e, min, allow) ==
    LET x(i) == e.of[i]
        Member(i) == IsLeaf(x(i), "IDENT") \/ x(i) = Leaf("lit")
        l == Level(e)
    IN  /\ l >= min
        /\ CASE e.node = "LITERAL_EXPR" -> Len(e.of) = 1 /\ x(1).of = <<>> /\ Kind(x(1).node) \in Literals
             [] e.node = "PAREN_EXPR" ->
                   Len(e.of) = 3 /\ IsLeaf(x(1), "(") /\ Derives(x(2), 1, allow) /\ IsLeaf(x(3), ")")
             [] e.node = "INTERP_STRING_EXPR" ->
                   /\ Len(e.of) >= 2 /\ IsLeaf(x(1), "OPEN") /\ IsLeaf(x(Len(e.of)), "CLOSE")
                   /\ \A i \in 2..(Len(e.of) - 1) :
                        \/ IsLeaf(x(i), "TEXT")
                        \/ /\ Shaped(x(i), "INTERPOLATION", 3)
                           /\ IsLeaf(x(i).of[1], "HOLE") /\ Derives(x(i).of[2], 1, allow) /\ IsLeaf(x(i).of[3], "}")
             [] e.node = "POSTFIX_EXPR" ->
                   /\ Derives(x(1), 8, allow)
                   /\ \/ Len(e.of) = 3 /\ IsLeaf(x(2), ".") /\ Member(3)
                      \/ Len(e.of) = 3 /\ IsLeaf(x(2), "(") /\ IsLeaf(x(3), ")")
                      \/ /\ Len(e.of) = 4 /\ IsLeaf(x(2), "(") /\ IsLeaf(x(4), ")") /\ x(3).node = "ARG_LIST"
                         /\ Listed(x(3).of, LAMBDA a : DerivesArg(a, allow), "trailing comma" \in allow)
             [] e.node = "UNARY_EXPR" -> Len(e.of) = 2 /\ x(1).node \in {"-", "not"} /\ Derives(x(2), 7, allow)
             [] e.node = "BINARY_EXPR" ->
                   /\ Derives(x(1), IF l # 4 THEN l ELSE IF "chained comparison" \in allow THEN 2 ELSE 5, allow)
                   /\ Derives(x(3), l + 1, allow)
             [] e.node = "TERNARY_EXPR" ->
                   /\ Len(e.of) = 5 /\ IsLeaf(x(2), "?")
                   /\ x(4) \in {Leaf(":")} \cup IF "no colon" \in allow THEN {Node("ERROR", <<>>)} ELSE {}
                   /\ Derives(x(1), 2, allow)
                   /\ Derives(x(3), IF "conditional in a then" \in allow THEN 1 ELSE 2, allow)
                   /\ Derives(x(5), 1, allow)

Written(t, allow) == Shaped(t, "EXPR", 1) /\ Derives(t.of[1], 1, allow)

-----------------------------------------------------------------------------
(* Items.                                                                   *)

\* What is in these places, kind by kind.
Leaves(s, kinds) == Len(s) = Len(kinds) /\ \A i \in DOMAIN s : IsLeaf(s[i], kinds[i])

DerivesMember(t) ==
    /\ t.node = "IMPORT_MEMBER"
    /\ \/ Leaves(t.of, <<"IDENT">>)
       \/ Leaves(t.of, <<"IDENT", "IDENT", "IDENT">>) /\ t.of[2] = Leaf("as")

DerivesImport(s, allow) ==
    LET n == Len(s)
    IN  /\ n >= 5 /\ IsLeaf(s[1], "{") /\ IsLeaf(s[n - 2], "}") /\ IsLeaf(s[n - 1], ":=") /\ Written(s[n], allow)
        /\ Listed(SubSeq(s, 2, n - 3), DerivesMember, "trailing comma" \in allow)

DerivesAttr(t, onField, allow) ==
    LET s == t.of
    IN  CASE t.node = "IRI_ATTR" -> Leaves(s, <<"AT_ATTR", "(", "STRING", ")">>) /\ s[1] = Leaf("@iri")
          [] t.node = "ANNOTATION_ATTR" ->
                /\ \E o \in {"STRING", "LANG_STRING"} : Leaves(s, <<"AT_ATTR", "(", "STRING", ",", o, ")">>)
                /\ s[1] = Leaf("@annotation")
          [] t.node = "ASSERT_ATTR" ->
                /\ Len(s) \in {4, 8} /\ s[1] = Leaf("@assert") /\ IsLeaf(s[2], "(") /\ Written(s[3], allow)
                /\ \/ Len(s) = 4 /\ IsLeaf(s[4], ")")
                   \/ Leaves(SubSeq(s, 4, Len(s)), <<",", "IDENT", "=", "IDENT", ")">>) /\ s[5] = Leaf("severity")
          [] t.node = "SEVERITY_ATTR" -> onField /\ Leaves(s, <<"AT_ATTR", "(", "IDENT", ")">>) /\ s[1] = Leaf("@severity")
          [] OTHER -> FALSE

\* Attributes, of which one @iri and at most one @severity.
DerivesAttrs(s, onField, allow) ==
    LET Those(kind) == SelectSeq(s, LAMBDA t : t.node = kind)
    IN  /\ \A i \in DOMAIN s : DerivesAttr(s[i], onField, allow)
        /\ Len(Those("IRI_ATTR")) = 1
        /\ Len(Those("SEVERITY_ATTR")) <= 1

RECURSIVE DerivesType(_)
DerivesType(t) ==
    LET s == t.of
        n == Len(s)
    IN  /\ t.node = "TYPE_EXPR"
        /\ n # 0 /\ IsLeaf(s[1], "IDENT")
        /\ \/ n = 1
           \/ /\ n \in {4, 6, 8} /\ IsLeaf(s[2], "<") /\ DerivesType(s[3]) /\ IsLeaf(s[n], ">")
              /\ Leaves(SubSeq(s, 4, n - 1), SubSeq(<<",", "INTEGER", ",", "INTEGER">>, 1, n - 4))

DerivesField(t, allow) ==
    LET n == Len(t.of)
    IN  /\ t.node = "FIELD" /\ n >= 4
        /\ DerivesAttrs(SubSeq(t.of, 1, n - 3), TRUE, allow)
        /\ IsLeaf(t.of[n - 2], "IDENT") /\ IsLeaf(t.of[n - 1], ":") /\ DerivesType(t.of[n])

DerivesDecl(t, allow) ==
    \E i \in 2..(Len(t.of) - 4) :
        /\ t.of[i] = Leaf("type") /\ IsLeaf(t.of[i + 1], "IDENT") /\ IsLeaf(t.of[i + 2], "INDENT")
        /\ DerivesAttrs(SubSeq(t.of, 1, i - 1), FALSE, allow)
        /\ \A j \in (i + 3)..(Len(t.of) - 1) : DerivesField(t.of[j], allow)
        /\ IsLeaf(t.of[Len(t.of)], "DEDENT")

DerivesHeader(t, allow) ==
    /\ t.node = "MAPPING_HEADER" /\ Len(t.of) \in {4, 5}
    /\ IsLeaf(t.of[1], "IDENT") /\ IsLeaf(t.of[2], ":")
    /\ Shaped(t.of[3], "SHAPE_EXPR", 1) /\ IsLeaf(t.of[3].of[1], "IDENT")
    /\ IsLeaf(t.of[4], "from")
    /\ IF Len(t.of) = 5 THEN Written(t.of[5], allow) ELSE "no source" \in allow

\* That an attribute of a body is its @subject, and its first line, is checked after the parse.
DerivesProperty(t, allow) ==
    /\ Shaped(t, "PROPERTY", 3) /\ Shaped(t.of[1], "PROPERTY_LHS", 1) /\ IsLeaf(t.of[2], "=") /\ Written(t.of[3], allow)
    /\ t.of[1].of[1].of = <<>> /\ Kind(t.of[1].of[1].node) \in {"IDENT", "AT_ATTR"}

DerivesMapping(t, allow) ==
    /\ Len(t.of) \in {1, 4} /\ DerivesHeader(t.of[1], allow)
    /\ IF Len(t.of) = 1 THEN "no body" \in allow
       ELSE /\ IsLeaf(t.of[2], "INDENT") /\ t.of[3].node = "MAPPING_BODY" /\ IsLeaf(t.of[4], "DEDENT")
            /\ \A i \in DOMAIN t.of[3].of : DerivesProperty(t.of[3].of[i], allow)
            /\ IF "no property" \in allow THEN TRUE ELSE Len(t.of[3].of) >= 2

DerivesItem(t, allow) ==
    CASE t.node = "SOURCE_DEF" ->
            Len(t.of) = 3 /\ Leaves(SubSeq(t.of, 1, 2), <<"IDENT", ":=">>) /\ Written(t.of[3], allow)
      [] t.node = "MULTI_SOURCE_DEF" -> DerivesImport(t.of, allow)
      [] t.node = "TYPE_DEF" -> t.of[1] = Leaf("type") /\ DerivesImport(Tail(t.of), allow)
      [] t.node = "TYPE_DECL" -> DerivesDecl(t, allow)
      [] t.node = "MAPPING" -> DerivesMapping(t, allow)
      [] t.node \in {"INDENT", "DEDENT"} -> "stray indent" \in allow
      [] OTHER -> FALSE

DerivesProgram(t, allow) == t.node = "PROGRAM" /\ \A i \in DOMAIN t.of : DerivesItem(t.of[i], allow)

-----------------------------------------------------------------------------
(* The text of a tree.                                                      *)

\* The lines of an item: its own, and those of its body, which begin with the column.
ItemLines(t, col) ==
    LET line(s) == Lib!FlattenSeq([i \in DOMAIN s |-> Yield(s[i])])
        Under(s) == [i \in DOMAIN s |-> <<col>> \o Yield(s[i])]
        n == Len(t.of)
    IN  CASE t.node = "MAPPING" /\ n > 1 -> <<Yield(t.of[1])>> \o Under(t.of[3].of)
          [] t.node = "TYPE_DECL" ->
                LET i == CHOOSE i \in DOMAIN t.of : t.of[i] = Leaf("INDENT")
                IN  <<line(SubSeq(t.of, 1, i - 1))>> \o Under(SubSeq(t.of, i + 1, n - 1))
          [] OTHER -> <<Yield(t)>>

-----------------------------------------------------------------------------

VARIABLES draft,        \* the program that was written; none when it was damaged
          turns         \* how many turns of its loops the parser may still take

NoDraft == <<>>

-----------------------------------------------------------------------------
(* Expressions, by what they are written around.                            *)

Carved(e) == Node("INTERP_STRING_EXPR",
                  <<Leaf("OPEN"), Leaf("TEXT"), Node("INTERPOLATION", <<Leaf("HOLE"), e, Leaf("}")>>), Leaf("CLOSE")>>)

A == Lit("a")
B == Lit("b")
One == Lit("INTEGER")

Around(e) ==
    {x \in UNION {{Bin(e, op, B), Bin(A, op, e)} : op \in {"or", "and", "==", "+", "*"}}
           \cup {If(e, A, B), If(A, e, B), If(A, B, e),
                 Node("UNARY_EXPR", <<Leaf("-"), e>>), Node("UNARY_EXPR", <<Leaf("not"), e>>),
                 Dot(e, "b"), Dot(e, "lit"), After(e, <<Leaf("("), Leaf(")")>>),
                 Call(e, <<Argument(A)>>), Call(A, <<Argument(e)>>), Paren(e), Carved(e),
                 Call(Dot(A, "as"), <<Alias("a", "b"), Leaf(","), Named("c", e)>>)} :
        Derives(x, 1, {})}

Expressions(depth) ==
    LET grown[n \in 1..depth] ==
            IF n = 1 THEN {A, One, Lit("lit")} ELSE UNION ({grown[n - 1]} \cup {Around(e) : e \in grown[n - 1]})
    IN  grown[depth]

-----------------------------------------------------------------------------
(* Items.                                                                   *)

Expr(e) == Node("EXPR", <<e>>)
Binding(e) == Node("SOURCE_DEF", <<Leaf("a"), Leaf(":="), Expr(e)>>)
Member(s) == Node("IMPORT_MEMBER", Lib!FlattenSeq([i \in DOMAIN s |-> <<Leaf(s[i])>>]))
Importing(kind, first, ms) ==
    Node(kind, first \o <<Leaf("{")>> \o Lib!FlattenSeq([i \in DOMAIN ms |-> IF i = 1 THEN <<ms[i]>> ELSE <<Leaf(","), ms[i]>>]) \o
               <<Leaf("}"), Leaf(":="), Expr(A)>>)

Prop(lhs, e) == Node("PROPERTY", <<Node("PROPERTY_LHS", <<Leaf(lhs)>>), Leaf("="), Expr(e)>>)
Mapped(source, body) ==
    Node("MAPPING",
         <<Node("MAPPING_HEADER", <<Leaf("b"), Leaf(":"), Node("SHAPE_EXPR", <<Leaf("c")>>), Leaf("from"), Expr(source)>>),
           Leaf("INDENT"), Node("MAPPING_BODY", body), Leaf("DEDENT")>>)

Attr(kind, name, s) == Node(kind, <<Leaf(name), Leaf("(")>> \o s \o <<Leaf(")")>>)
IriOf == Attr("IRI_ATTR", "@iri", <<Leaf("lit")>>)
NoteOf(o) == Attr("ANNOTATION_ATTR", "@annotation", <<Leaf("lit"), Leaf(","), Leaf(o)>>)
Severity == Attr("SEVERITY_ATTR", "@severity", <<Leaf("c")>>)
Asserts(more) == Attr("ASSERT_ATTR", "@assert", <<Expr(Bin(A, "==", B))>> \o more)
WithSeverity == <<Leaf(","), Leaf("severity"), Leaf("="), Leaf("c")>>

TypeOf(s) == Node("TYPE_EXPR", s)
Plain == TypeOf(<<Leaf("b")>>)
Bounded == TypeOf(<<Leaf("b"), Leaf("<"), Plain, Leaf(","), Leaf("INTEGER"), Leaf(","), Leaf("INTEGER"), Leaf(">")>>)
Of(attrs, t) == Node("FIELD", attrs \o <<Leaf("a"), Leaf(":"), t>>)
Declared(attrs, fields) ==
    Node("TYPE_DECL", attrs \o <<Leaf("type"), Leaf("c"), Leaf("INDENT")>> \o fields \o <<Leaf("DEDENT")>>)

\* Every kind of item.
Items ==
    {Binding(Call(Dot(A, "b"), <<Argument(B)>>)),
     Importing("MULTI_SOURCE_DEF", <<>>, <<Member(<<"a", "as", "c">>), Member(<<"b">>)>>),
     Importing("TYPE_DEF", <<Leaf("type")>>, <<Member(<<"as">>)>>),
     Mapped(A, <<Prop("@subject", Carved(B)), Prop("type", Bin(A, "==", B))>>),
     Declared(<<NoteOf("LANG_STRING"), IriOf>>, <<Of(<<IriOf>>, Plain), Of(<<Asserts(WithSeverity), IriOf, Severity>>, Bounded)>>),
     Declared(<<Asserts(<<>>), IriOf, NoteOf("lit")>>, <<Of(<<IriOf>>, TypeOf(<<Leaf("b"), Leaf("<"), Plain, Leaf(">")>>))>>)}

CONSTANTS Depth         \* how deep an expression is

Programs == UNION {
    {<<Binding(e)>> : e \in Expressions(Depth)},
    {<<Mapped(e, <<Prop("@subject", A), Prop("a", e)>>)>> : e \in Expressions(2)},
    {<<i, j>> : i, j \in Items}}

HeaderOnly == Node("MAPPING", <<Mapped(A, <<>>).of[1]>>)

\* What a token is damaged in: each item alone, and forms that are near others.
Fragile ==
    {<<i>> : i \in Items}
    \cup {<<Binding(Bin(Bin(A, "and", Bin(A, "==", B)), "or", B))>>, <<Binding(If(A, Paren(A), If(A, B, One)))>>,
          <<Mapped(A, <<Prop("@subject", A)>>), Binding(One)>>, <<HeaderOnly, Binding(One)>>, <<Binding(If(A, If(A, B, One), B))>>}

-----------------------------------------------------------------------------
(* Layouts: what stands between two lines and at the end, the column of a   *)
(* body, and whether operators have white space after them.                 *)

Layout(gap, column, spaced) == [gap |-> gap, column |-> column, spaced |-> spaced]

Even == Layout(<<"NEWLINE">>, "ws2", FALSE)
Layouts ==
    {Even, Layout(<<"NEWLINE", "NEWLINE">>, "ws4", TRUE), Layout(<<"NEWLINE", "ws3", "COMMENT", "NEWLINE">>, "ws2", TRUE),
     Layout(<<"COMMENT", "NEWLINE", "COMMENT", "NEWLINE", "ws4", "NEWLINE">>, "ws3", FALSE)}

SpacedAfter == {":=", ":", "=", "==", "?", "+", "*", "or", "and", "not", ",", "from"}

Spread(line, l) ==
    IF ~l.spaced THEN line
    ELSE Lib!FlattenSeq([i \in DOMAIN line |-> IF line[i] \in SpacedAfter THEN <<line[i], "ws2">> ELSE <<line[i]>>])

LaidOut(items, l) ==
    LET lines == Lib!FlattenSeq([i \in DOMAIN items |-> ItemLines(items[i], l.column)])
    IN  Lib!FlattenSeq([i \in DOMAIN lines |-> Spread(lines[i], l) \o l.gap])

Strange ==
    {"a", "type", "from", "@iri", "@severity", "@subject", "lit", "needless", "OPEN", "CLOSE", "INTEGER", "==", "<", "?", ":",
     ":=", "=", "(", ")", "{", "}", ",", ".", "-", "#", "NEWLINE", "ws2", "ws3"}

\* One token lost, replaced or added; white space is one token however long.
Damaged(raw) ==
    LET With(i, s, j) == SubSeq(raw, 1, i) \o s \o SubSeq(raw, j, Len(raw))
        White(t) == Kind(t) = "WHITESPACE"
    IN  {r \in UNION {{With(i - 1, <<>>, i + 1)} \cup {With(i - 1, <<t>>, i + 1) : t \in Strange}
                      \cup {With(i, <<t>>, i + 1) : t \in Strange} : i \in DOMAIN raw} :
            \A i \in 1..(Len(r) - 1) : ~(White(r[i]) /\ White(r[i + 1]))}

-----------------------------------------------------------------------------

Init == draft = NoDraft /\ turns = 0 /\ p = Parser(<<>>) /\ in = In("idle", 0, 0)

\* A turn for each token, one for a body that ends with the text, and the last.
Submit(raw) ==
    LET tokens == LexWithIndents(raw)
    IN  /\ p' = Parser(tokens)
        /\ in' = Program
        /\ turns' = Len(tokens) + 2

Write == /\ in.loop = "idle"
         /\ \E d \in Programs, l \in Layouts : \E raw \in {LaidOut(d, l)} : draft' = d /\ Submit(raw)

Damage == /\ in.loop = "idle"
          /\ \E d \in Fragile : \E raw \in Damaged(LaidOut(d, Even)) : Submit(raw)
          /\ UNCHANGED draft

Turn == /\ turns # 0
        /\ Parse
        /\ turns' = turns - 1
        /\ UNCHANGED draft

Next == Write \/ Damage \/ Turn

Spec == Init /\ [][Next]_<<draft, turns, p, in>>

\* A program of the grammar reads back as itself, however its lines are laid out.
ReadsBack == Read /\ draft # NoDraft => p.said = <<>> /\ Tree = Node("PROGRAM", draft)

\* What is accepted in silence is a program of the grammar, or one of the forms known to pass.
SaidOrDerived == Read /\ p.said = <<>> => DerivesProgram(Tree, Tolerated)

\* A comparison does not chain.
ChainsSaid == Read /\ p.said = <<>> => DerivesProgram(Tree, Tolerated \ {"chained comparison"})

\* Every parse ends, in a turn for each token at most.
ParseEnds == turns = 0 /\ in.loop # "idle" => Read
=============================================================================
