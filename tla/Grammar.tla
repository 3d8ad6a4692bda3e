------------------------------ MODULE Grammar ------------------------------
(* How a program's text becomes a tree: the pass that puts INDENT and       *)
(* DEDENT between the raw tokens, and the recursive-descent parser with the *)
(* recoveries that let it read on after what it does not understand.        *)
(*                                                                          *)
(* A parser is what is left of the tokens, what it has put into the tree so *)
(* far, and what it has said.                                               *)
EXTENDS Trees

LOCAL INSTANCE SequencesExt

-----------------------------------------------------------------------------
(* Tokens.                                                                  *)

Trivia == {"WHITESPACE", "NEWLINE", "COMMENT"}

\* The column a line starts at after white space.
Column(w) == CASE w = "ws2" -> 2 [] w = "ws3" -> 3 [] w = "ws4" -> 4

\* A line at a column opens a block or closes those that are deeper; at a column of no
\* open block it is skewed.
EmitIndentChanges(s, col) ==
    LET kept   == SelectSeq(s.stack, LAMBDA c : c <= col)
        closed == [i \in 1..(Len(s.stack) - Len(kept)) |-> "DEDENT"]
    IN  IF col > Last(s.stack)
        THEN [s EXCEPT !.stack = Append(@, col), !.out = Append(@, "INDENT")]
        ELSE [s EXCEPT !.stack = kept,
                       !.out = @ \o closed \o IF Last(kept) # col THEN <<"skew">> ELSE <<>>]

\* A line moves the blocks at its first token, unless it is blank or a comment.
LineLexed(line, s) ==
    LET inset == IF line # <<>> /\ Kind(line[1]) = "WHITESPACE" THEN 1 ELSE 0
        col   == IF inset = 1 THEN Column(line[1]) ELSE 0
        rest  == SubSeq(line, inset + 1, Len(line))
        moved == EmitIndentChanges([s EXCEPT !.out = @ \o SubSeq(line, 1, inset)], col)
    IN  IF rest = <<>> \/ rest[1] \in {"NEWLINE", "COMMENT"} THEN [s EXCEPT !.out = @ \o line]
        ELSE [moved EXCEPT !.out = @ \o rest]

\* Line by line; what is still open at the end is closed.
LexWithIndents(raw) ==
    LET before(i) == {j \in 1..(i - 1) : raw[j] = "NEWLINE"}
        start(i)  == IF before(i) = {} THEN 0 ELSE Max(before(i))
        after[i \in 0..Len(raw)] ==
            IF i = 0 THEN [out |-> <<>>, stack |-> <<0>>]
            ELSE LineLexed(SubSeq(raw, start(i) + 1, i), after[start(i)])
        s == after[Len(raw)]
    IN  s.out \o [i \in 1..(Len(s.stack) - 1) |-> "DEDENT"]

-----------------------------------------------------------------------------
(* The parser's own moves.                                                  *)

Parser(tokens) == [left |-> tokens, out |-> <<>>, said |-> <<>>]

Current(p) == IF p.left = <<>> THEN "EOF" ELSE Kind(Head(p.left))

\* The token n real ones ahead; the first is the current one, or the next after trivia.
PeekText(p, n) ==
    LET real == SelectSeq(p.left, LAMBDA t : Kind(t) \notin Trivia)
    IN  IF n < Len(real) THEN real[n + 1] ELSE "EOF"

Peek(p, n) == Kind(PeekText(p, n))

Bump(p) ==
    IF p.left = <<>> THEN p
    ELSE [p EXCEPT !.left = Tail(@), !.out = IF Current(p) \in Trivia THEN @ ELSE Append(@, Leaf(Head(p.left)))]

RECURSIVE SkipTrivia(_)
SkipTrivia(p) == IF Current(p) \in Trivia THEN SkipTrivia(Bump(p)) ELSE p

\* Everything put into the tree since it held n, as one node: from start to finish.
Wrap(kind, n, p) == [p EXCEPT !.out = Append(SubSeq(@, 1, n), Node(kind, SubSeq(@, n + 1, Len(@))))]

PushDiagnostic(p, what) == [p EXCEPT !.said = Append(@, what)]

\* What is not the token awaited is consumed.
Expect(p, kind) ==
    LET q == SkipTrivia(p)
    IN  IF Current(q) = kind THEN Bump(q)
        ELSE Wrap("ERROR", Len(q.out), Bump(PushDiagnostic(q, "expected")))

BumpAsError(p) ==
    Wrap("ERROR", Len(p.out),
         Bump(PushDiagnostic(p, IF p.left # <<>> /\ Head(p.left) = "#" THEN "unlexable" ELSE "unexpected")))

AtAnchor(p, anchors) == Current(p) \in anchors \cup {"EOF"}

RECURSIVE BumpTo(_, _)
BumpTo(p, anchors) == IF AtAnchor(p, anchors) THEN p ELSE BumpTo(SkipTrivia(Bump(p)), anchors)

\* Nothing happens at an anchor: a loop that comes here must not rely on it to move.
RecoverTo(p, anchors) ==
    LET q == SkipTrivia(p)
    IN  IF AtAnchor(q, anchors) THEN q
        ELSE PushDiagnostic(Wrap("ERROR", Len(q.out), BumpTo(q, anchors)), "unexpected")

\* Mutant: the diagnostic of what was awaited is forgotten.
ExpectOrRecoverSilent(p, want, anchors) ==
    LET q == SkipTrivia(p) IN IF Current(q) = want THEN Bump(q) ELSE RecoverTo(q, anchors)

\* What is not the token awaited is left for the recovery.
ExpectOrRecover(p, want, anchors) ==
    LET q == SkipTrivia(p)
    IN  IF Current(q) = want THEN Bump(q)
        ELSE RecoverTo(Wrap("ERROR", Len(q.out), PushDiagnostic(q, "expected")), anchors)

-----------------------------------------------------------------------------
(* Expressions, by binding power.                                           *)

RECURSIVE Expression(_, _)

\* Mutant: comparisons hold tighter than sums.
PeekInfixSwapped(k) ==
    CASE k = "or" -> 5
      [] k = "and" -> 7
      [] k = "+" -> 9
      [] k \in {"==", "<"} -> 11
      [] k = "*" -> 13
      [] OTHER -> 0

\* How tightly an operator holds what is on its left; on its right it holds one more, but for
\* the conditional, which holds one less.
PeekInfix(k) ==
    CASE k = "or" -> 5
      [] k = "and" -> 7
      [] k \in {"==", "<"} -> 9
      [] k = "+" -> 11
      [] k = "*" -> 13
      [] OTHER -> 0

NonAssoc == 9
TernaryLbp == 4
TernaryRbp == 3

\* ."name" where .name would do.
RefuseNeedlessQuotes(p) ==
    IF PeekText(p, 0) = "needless" THEN PushDiagnostic(p, "needless-quotes") ELSE p

\* A string with holes: text, and an expression in each hole.
RECURSIVE Pieces(_)
Pieces(p) ==
    CASE Current(p) = "TEXT" -> Pieces(Bump(p))
      [] Current(p) = "HOLE" ->
            Pieces(Wrap("INTERPOLATION", Len(p.out),
                        ExpectOrRecover(Expression(Bump(p), 0), "}", {"CLOSE"})))
      [] Current(p) = "CLOSE" -> Bump(p)
      [] OTHER -> Expect(p, "CLOSE")

InterpolatedString(p) == Wrap("INTERP_STRING_EXPR", Len(p.out), Pieces(Bump(p)))

Primary(p) ==
    LET q == SkipTrivia(p)
    IN  CASE Current(q) \in {"INTEGER", "BOOL", "null", "STRING", "LANG_STRING", "IDENT"} ->
                Wrap("LITERAL_EXPR", Len(q.out), Bump(q))
          [] Current(q) = "OPEN" -> InterpolatedString(q)
          [] Current(q) = "(" -> Wrap("PAREN_EXPR", Len(q.out), Expect(Expression(Bump(q), 0), ")"))
          [] OTHER -> BumpAsError(q)

\* A named argument, an alias, or an expression: the second token tells.
Arg(p) ==
    LET q == SkipTrivia(p)
        n == Len(q.out)
        Next(r) == Bump(SkipTrivia(r))
    IN  CASE Current(q) = "IDENT" /\ Peek(q, 1) = "=" ->
                Wrap("NAMED_ARG", n, Expression(Next(Bump(q)), 0))
          [] Current(q) = "IDENT" /\ PeekText(q, 1) = "as" /\ Peek(q, 2) = "IDENT" ->
                Wrap("ALIAS_ARG", n, Next(Next(Bump(q))))
          [] OTHER -> Wrap("ARG", n, Expression(q, 0))

\* A comma may end the list.
RECURSIVE ArgsAfter(_)
ArgsAfter(p) ==
    LET q == SkipTrivia(p)
        r == SkipTrivia(Bump(q))
    IN  IF Current(q) # "," THEN q
        ELSE IF Current(r) = ")" THEN r ELSE ArgsAfter(Arg(r))

ArgList(p) == Wrap("ARG_LIST", Len(p.out), ArgsAfter(Arg(p)))

\* Members and calls, as long as they follow at once.
RECURSIVE PostfixAfter(_, _)
PostfixAfter(p, cp) ==
    LET dotted == SkipTrivia(Bump(p))
        Go(q)  == PostfixAfter(Wrap("POSTFIX_EXPR", cp, q), cp)
    IN  CASE Current(p) = "." /\ Peek(p, 1) = "IDENT" -> Go(Expect(dotted, "IDENT"))
          [] Current(p) = "." /\ Peek(p, 1) = "STRING" -> Go(Bump(RefuseNeedlessQuotes(dotted)))
          [] Current(p) = "." /\ Peek(p, 1) = "OPEN" ->
                Go(PushDiagnostic(Wrap("ERROR", Len(dotted.out), InterpolatedString(dotted)), "hole-in-name"))
          [] Current(p) = "(" -> Go(Expect(IF Current(dotted) = ")" THEN dotted ELSE ArgList(dotted), ")"))
          [] OTHER -> p

RECURSIVE UnaryOrPrimary(_)
UnaryOrPrimary(p) ==
    LET q == SkipTrivia(p)
    IN  IF Current(q) \in {"-", "not"} THEN Wrap("UNARY_EXPR", Len(q.out), UnaryOrPrimary(Bump(q)))
        ELSE PostfixAfter(Primary(q), Len(q.out))

\* The else of a conditional is read whether its colon came or not.
Ternary(p, cp) ==
    LET then  == SkipTrivia(Expression(Bump(p), TernaryRbp + 1))
        colon == IF Current(then) = ":" THEN Bump(then) ELSE Wrap("ERROR", Len(then.out), then)
    IN  Wrap("TERNARY_EXPR", cp, Expression(colon, TernaryRbp))

\* `held` is the power of a comparison just read: another does not chain.
RECURSIVE Infix(_, _, _, _)
Infix(p, cp, min, held) ==
    LET q  == SkipTrivia(p)
        bp == PeekInfix(Current(q))
    IN  IF Current(q) = "?" /\ TernaryLbp >= min THEN Infix(Ternary(q, cp), cp, min, 0)
        ELSE IF bp = 0 \/ bp < min \/ (bp = NonAssoc /\ held = bp) THEN q
        ELSE Infix(Wrap("BINARY_EXPR", cp, Expression(Bump(q), bp + 1)), cp, min, IF bp = NonAssoc THEN bp ELSE 0)

Expression(p, min) ==
    LET q == SkipTrivia(p) IN Infix(UnaryOrPrimary(q), Len(q.out), min, 0)

ParseExpr(p) == Wrap("EXPR", Len(p.out), Expression(SkipTrivia(p), 0))

-----------------------------------------------------------------------------
(* Bindings and imports.                                                    *)

TopLevel == {"IDENT"}
Members == {",", "}"}

SourceDef(p) == Wrap("SOURCE_DEF", Len(p.out), ParseExpr(Bump(SkipTrivia(Bump(p)))))

ImportMember(p) ==
    LET q == SkipTrivia(p)
        r == SkipTrivia(ExpectOrRecover(q, "IDENT", Members))
    IN  Wrap("IMPORT_MEMBER", Len(q.out),
             IF PeekText(r, 0) = "as" THEN ExpectOrRecover(Bump(r), "IDENT", Members) ELSE r)

RECURSIVE MembersAfter(_)
MembersAfter(p) ==
    LET q == SkipTrivia(p)
        r == SkipTrivia(Bump(q))
    IN  IF Current(q) # "," THEN q
        ELSE IF Current(r) = "}" THEN r ELSE MembersAfter(ImportMember(r))

ImportMembers(p) ==
    ExpectOrRecover(MembersAfter(ImportMember(ExpectOrRecover(p, "{", TopLevel))), "}", TopLevel)

Import(kind, n, p) == Wrap(kind, n, ParseExpr(ExpectOrRecover(ImportMembers(p), ":=", TopLevel)))

MultiSourceDef(p) == Import("MULTI_SOURCE_DEF", Len(p.out), p)
TypeDef(p) == Import("TYPE_DEF", Len(p.out), Bump(p))

-----------------------------------------------------------------------------
(* The attributes of a declaration.                                         *)

Iri == {")", "AT_ATTR", "IDENT", "INDENT", "DEDENT"}

Wants(p, kinds) == FoldLeft(LAMBDA q, k : ExpectOrRecover(q, k, Iri), p, kinds)

IriAttr(p) == Wrap("IRI_ATTR", Len(p.out), Wants(Bump(p), <<"(", "STRING", ")">>))

AnnotationAttr(p) ==
    LET q == SkipTrivia(Wants(Bump(p), <<"(", "STRING", ",">>))
        r == IF Current(q) = "LANG_STRING" THEN Bump(q) ELSE Wants(q, <<"STRING">>)
    IN  Wrap("ANNOTATION_ATTR", Len(p.out), Wants(r, <<")">>))

SeverityNamed(p) ==
    IF Current(p) = "IDENT" /\ Head(p.left) # "severity" THEN PushDiagnostic(p, "unknown-parameter") ELSE p

SeverityArg(p) ==
    IF Current(p) = "," THEN Wants(SeverityNamed(SkipTrivia(Bump(p))), <<"IDENT", "=", "IDENT">>) ELSE p

AssertAttr(p) ==
    Wrap("ASSERT_ATTR", Len(p.out), Wants(SeverityArg(SkipTrivia(ParseExpr(Wants(Bump(p), <<"(">>)))), <<")">>))

SeverityAttr(p) == Wrap("SEVERITY_ATTR", Len(p.out), Wants(Bump(p), <<"(", "IDENT", ")">>))

\* What stands in the parentheses of a misplaced attribute, to the end of its line.
RECURSIVE Swallow(_)
Swallow(p) ==
    CASE Current(p) \in {"EOF", "NEWLINE"} -> p
      [] Current(p) = ")" -> Bump(p)
      [] OTHER -> Swallow(Bump(p))

MisplacedAttr(p) ==
    LET q == SkipTrivia(Bump(PushDiagnostic(p, "misplaced-attribute")))
    IN  Wrap("ERROR", Len(p.out),
             CASE Current(q) = "=" -> ParseExpr(Bump(q))
               [] Current(q) = "(" -> Swallow(q)
               [] OTHER -> q)

\* The run of attributes before a type or a field, counted.
RECURSIVE DeclAttrs(_, _, _)
DeclAttrs(p, onField, n) ==
    LET q    == SkipTrivia(p)
        name == PeekText(q, 0)
    IN  CASE Current(q) # "AT_ATTR" -> [p |-> q, n |-> n]
          [] name = "@iri" -> DeclAttrs(IriAttr(q), onField, [n EXCEPT !.iris = @ + 1])
          [] name = "@annotation" -> DeclAttrs(AnnotationAttr(q), onField, n)
          [] name = "@assert" -> DeclAttrs(AssertAttr(q), onField, n)
          [] name = "@severity" /\ onField -> DeclAttrs(SeverityAttr(q), onField, [n EXCEPT !.severities = @ + 1])
          [] OTHER -> DeclAttrs(MisplacedAttr(q), onField, [n EXCEPT !.misplaced = TRUE])

NoAttrs == [iris |-> 0, severities |-> 0, misplaced |-> FALSE]

\* One @iri, at most one @severity; a misplaced attribute has been said already.
Check(attrs) ==
    LET n == attrs.n
        q == IF n.severities > 1 THEN PushDiagnostic(attrs.p, "duplicate-attribute") ELSE attrs.p
    IN  CASE n.iris = 0 /\ ~n.misplaced -> PushDiagnostic(q, "missing-iri")
          [] n.iris > 1 -> PushDiagnostic(q, "duplicate-attribute")
          [] OTHER -> q

\* Past the attributes and their parentheses, does `type {` follow?
RECURSIVE PastParens(_, _, _)
PastParens(p, i, depth) ==
    CASE Peek(p, i) = "EOF" -> i
      [] Peek(p, i) = "(" -> PastParens(p, i + 1, depth + 1)
      [] Peek(p, i) = ")" -> IF depth = 1 THEN i + 1 ELSE PastParens(p, i + 1, depth - 1)
      [] OTHER -> PastParens(p, i + 1, depth)

RECURSIVE PastAttrs(_, _)
PastAttrs(p, i) ==
    IF Peek(p, i) # "AT_ATTR" THEN i
    ELSE PastAttrs(p, IF Peek(p, i + 1) = "(" THEN PastParens(p, i + 1, 0) ELSE i + 1)

AboveAnImport(p) ==
    LET i == PastAttrs(p, 0) IN PeekText(p, i) = "type" /\ Peek(p, i + 1) = "{"

-----------------------------------------------------------------------------
(* Fields and properties.                                                   *)

Fields == {"DEDENT", "AT_ATTR", "IDENT"}
Body == {"DEDENT", "IDENT", "AT_ATTR"}
TypeEnds == {">", "DEDENT", "AT_ATTR"}

\* A minimum and a maximum; a third bound is left to the `>` that does not come.
RECURSIVE Bounds(_, _)
Bounds(p, n) ==
    LET q == SkipTrivia(p)
    IN  IF n = 0 \/ Current(q) # "," THEN q ELSE Bounds(ExpectOrRecover(Bump(q), "INTEGER", TypeEnds), n - 1)

RECURSIVE TypeExpr(_)
TypeExpr(p) ==
    LET q == ExpectOrRecover(p, "IDENT", TypeEnds)
        r == TypeExpr(SkipTrivia(Bump(SkipTrivia(q))))
    IN  Wrap("TYPE_EXPR", Len(p.out),
             IF Peek(q, 0) = "<" THEN ExpectOrRecover(Bounds(r, 2), ">", TypeEnds) ELSE q)

Field(p) ==
    LET named == ExpectOrRecover(Check(DeclAttrs(p, TRUE, NoAttrs)), "IDENT", Fields)
    IN  Wrap("FIELD", Len(p.out), TypeExpr(SkipTrivia(ExpectOrRecover(named, ":", Fields))))

PropertyLhs(p) == Wrap("PROPERTY_LHS", Len(p.out), ExpectOrRecover(p, "IDENT", Body))

Assigned(n, p) == Wrap("PROPERTY", n, ParseExpr(ExpectOrRecover(p, "=", Body)))

SubjectAssign(p) == Assigned(Len(p.out), Wrap("PROPERTY_LHS", Len(p.out), Bump(p)))
Property(p) == Assigned(Len(p.out), PropertyLhs(SkipTrivia(p)))

ShapeExpr(p) ==
    Wrap("SHAPE_EXPR", Len(p.out), ExpectOrRecover(p, "IDENT", {"from", "=", ",", "}", "INDENT", "DEDENT"}))

MappingHeader(p) ==
    LET named  == ExpectOrRecover(p, "IDENT", {":", "from"})
        shaped == ShapeExpr(SkipTrivia(ExpectOrRecover(named, ":", {"from", "INDENT"})))
        from   == SkipTrivia(ExpectOrRecover(shaped, "from", {"INDENT"}))
    IN  Wrap("MAPPING_HEADER", Len(p.out), IF Current(from) \in {"INDENT", "EOF"} THEN from ELSE ParseExpr(from))

-----------------------------------------------------------------------------
(* The parse: one turn of a loop a step.  `in` says which loop, and where   *)
(* in the tree the item and its body began.                                 *)

VARIABLES p, in

vars == <<p, in>>

In(loop, outer, inner) == [loop |-> loop, outer |-> outer, inner |-> inner]
Program == In("program", 0, 0)

Begin(raw) == p = Parser(LexWithIndents(raw)) /\ in = Program

To(q) == p' = q /\ UNCHANGED in

BodyOf(n, h) ==
    IF Current(h) = "INDENT"
    THEN /\ p' = Bump(h)
         /\ in' = In("body", n, n + 2)
    ELSE To(Wrap("MAPPING", n, RecoverTo(h, TopLevel)))

\* A mapping reads its header and, after an INDENT, its body; without one it ends.
Mapping(q) ==
    BodyOf(Len(q.out), SkipTrivia(MappingHeader(q)))

TypeDeclared(n, attrs) ==
    LET named == SkipTrivia(ExpectOrRecover(Bump(Check(attrs)), "IDENT", {"INDENT", "IDENT"}))
    IN  IF PeekText(attrs.p, 0) # "type"
        THEN To(Wrap("TYPE_DECL", n, PushDiagnostic(attrs.p, "misplaced-attribute")))
        ELSE IF Current(named) = "INDENT"
        THEN /\ p' = Bump(named)
             /\ in' = In("fields", n, Len(named.out) + 1)
        ELSE To(Wrap("TYPE_DECL", n, ExpectOrRecover(named, "INDENT", TopLevel)))

TypeDecl(q) == TypeDeclared(Len(q.out), DeclAttrs(q, FALSE, NoAttrs))

\* A token nothing claims at the top is taken by force: it may itself be an anchor.
Unclaimed(q) == BumpAsError(q)

\* A turn of the outer loop: an item, or a token nothing claims.
Item ==
    /\ in.loop = "program"
    /\ LET q == SkipTrivia(p)
           attr == Current(q) = "AT_ATTR"
       IN  CASE Current(q) = "EOF" -> p' = Wrap("PROGRAM", 0, q) /\ in' = In("done", 0, 0)
             [] Current(q) \in {"INDENT", "DEDENT"} -> To(Bump(q))
             [] attr /\ (PeekText(q, 0) = "@subject" \/ AboveAnImport(q)) -> To(MisplacedAttr(q))
             [] attr \/ (PeekText(q, 0) = "type" /\ Peek(q, 1) = "IDENT") -> TypeDecl(q)
             [] Current(q) = "{" -> To(MultiSourceDef(q))
             [] Current(q) = "IDENT" /\ Peek(q, 1) = ":=" -> To(SourceDef(q))
             [] Current(q) = "IDENT" /\ Peek(q, 1) = ":" -> Mapping(q)
             [] PeekText(q, 0) = "type" /\ Peek(q, 1) = "{" -> To(TypeDef(q))
             [] OTHER -> To(Unclaimed(q))

\* A body's end takes its DEDENT and goes back to the outer loop.
Ended(q, kind, body) ==
    LET b == IF body THEN Wrap("MAPPING_BODY", in.inner, q) ELSE q
    IN  /\ p' = Wrap(kind, in.outer, IF Current(b) = "DEDENT" THEN Bump(b) ELSE RecoverTo(b, TopLevel))
        /\ in' = Program

\* What starts no line: recover, and move on by force from an anchor that starts none either.
Astray(q, anchors, starts) ==
    LET r == RecoverTo(q, anchors)
    IN  IF Current(r) \in starts \cup {"EOF", "DEDENT"} THEN r ELSE BumpAsError(r)

BodyLine ==
    /\ in.loop = "body"
    /\ LET q == SkipTrivia(p)
       IN  CASE Current(q) \in {"EOF", "DEDENT"} -> Ended(q, "MAPPING", TRUE)
             [] Current(q) = "AT_ATTR" -> To(SubjectAssign(q))
             [] Current(q) \in {"IDENT", "<"} -> To(Property(q))
             [] OTHER -> To(Astray(q, Body, {"IDENT"}))

FieldLine ==
    /\ in.loop = "fields"
    /\ LET q == SkipTrivia(p)
       IN  CASE Current(q) \in {"EOF", "DEDENT"} -> Ended(q, "TYPE_DECL", FALSE)
             [] Current(q) \in {"AT_ATTR", "IDENT"} -> To(Field(q))
             [] OTHER -> To(Astray(q, Fields, {"AT_ATTR", "IDENT"}))

Parse == Item \/ BodyLine \/ FieldLine

Read == in.loop = "done"
Tree == p.out[1]
=============================================================================
