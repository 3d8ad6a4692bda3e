----------------------------- MODULE MCCompiler -----------------------------
(* The parts of the compiler side by side, each on its own small instances: *)
(* the bodies of mappings, over two rows, one property at a time, a value   *)
(* being a leaf or what is written around one, to a depth (Bodies); every   *)
(* short text, as a name the data chose and as the text of a literal around *)
(* holes (Literals); the text of programs (MCSyntax), what programs are     *)
(* lowered to (MCLowering), what shape documents are read as (MCShapes), and*)
(* what a mapping is held to by the shape it targets (MCChecks).  A         *)
(* behaviour is of one part.                                                *)
EXTENDS Bodies

LOCAL INSTANCE TLC
Lib == INSTANCE SequencesExt

CONSTANTS
    Most,                           \* how deep a value is
    Depth,                          \* of an expression of a program
    Letters, Digits, Keywords,      \* what names are made of
    Longest,                        \* characters of a text
    Providers, Contents, LocalName, \* what the host installed and registered
    CatalogueRows,                  \* of the small programs
    Codepoints, Blanks, Undeclared, Prefixed, Narrower,   \* IRIs and tags of the documents
    Lattice, Primitives, TypeIri,                         \* datatypes and names of types
    Largest, Deepest                                      \* whole number; condition

-----------------------------------------------------------------------------
(* The host of the small programs: its catalogue, its providers, and the    *)
(* documents registered with it.                                            *)

MCKeywords == {<<"x", "n">>}

MCEntries ==
    LET P(name, ty, arity, named) == [name |-> name, ty |-> ty, arity |-> arity, named |-> named]
        Entry(head, member, params, op) == [path |-> <<head, ".", member>>, params |-> params, op |-> op, aggregate |-> op = "aggregate"]
        Rows == P("rows", "relation", "one", FALSE)
        Value(name) == P(name, "value", "one", FALSE)
    IN  {Entry("seq", "where", <<Rows, Value("keep")>>, "where"),
         Entry("seq", "select", <<Rows, P("cols", "column", "some", FALSE)>>, "select"),
         Entry("seq", "join", <<Rows, P("right", "binding", "one", FALSE), P("on", "value", "one", TRUE)>>, "join"),
         Entry("seq", "group_by", <<Rows, P("keys", "column", "some", FALSE), P("n", "aggregate", "some", FALSE)>>, "group_by"),
         Entry("seq", "union", <<Rows, P("other", "binding", "one", FALSE)>>, "union"),
         Entry("seq", "distinct", <<Rows>>, "distinct"),
         Entry("str", "trim", <<Value("text")>>, "call"),
         Entry("str", "replace", <<Value("text"), Value("needle"), Value("replacement")>>, "call"),
         Entry("math", "sum", <<Value("text")>>, "aggregate"),
         Entry("io", "csv", <<Value("uri"), P("delimiter", "value", "optional", TRUE)>>, "source"),
         Entry("io", "json", <<Value("uri")>>, "source")}

MCProviders ==
    {[name |-> "csv", reads |-> "CsvAuto", types |-> FALSE, accepts |-> {"p.csv"}],
     [name |-> "json", reads |-> "JsonAuto", types |-> FALSE, accepts |-> {"p.json"}],
     [name |-> "rdf", reads |-> "Materialised", types |-> FALSE, accepts |-> {}],
     [name |-> "shex", reads |-> "", types |-> TRUE, accepts |-> {"t.shex", "u.shex", "bad.shex", "none.shex"}]}

\* The documents share a shape, and in one of them two shapes have one local name.
MCContents == [d \in {"t.shex", "u.shex", "bad.shex"} |->
    CASE d = "t.shex" -> [by |-> "shex", shapes |-> <<"T1", "T2">>]
      [] d = "u.shex" -> [by |-> "shex", shapes |-> <<"T1", "T3", "T4">>]
      [] OTHER -> [by |-> "nothing", shapes |-> <<>>]]

MCLocalName == [iri \in {"T1", "T2", "T3", "T4", "A", "B", "S", "p", "q"} |->
    CASE iri = "T1" -> "T" [] iri = "T2" -> "U" [] iri \in {"T3", "T4"} -> "V" [] OTHER -> iri]

\* What the documents are written with.
MCCodepoints ==
    <<"A", "B", "S", "T", "_:b", "_:c", "en", "fr", "p", "pre:A", "pre:p", "q", "rdf:langString",
      "xsd:duration", "xsd:integer", "xsd:string">>

MCNarrower == [range \in {"en", "fr", "*"} |-> IF range = "en" THEN {"en-GB"} ELSE {}]

MCPrimitives ==
    (<<"Integer">> :> "xsd:integer") @@ (<<"String">> :> "xsd:string") @@ (<<"Uri">> :> "Iri")
        @@ (<<"Time", "Year">> :> "xsd:gYear") @@ (<<"String", "Lang">> :> "rdf:langString")

MCLattice ==
    ("xsd:string" :> "String") @@ ("xsd:integer" :> "Integer") @@ ("xsd:gYear" :> "Year")
        @@ ("rdf:langString" :> "LangString")

MCTypeIri == "City" :> "A"

-----------------------------------------------------------------------------

VARIABLES body, draft, turns, p, in, text, unit, types, document, rule

Syntax    == INSTANCE MCSyntax
Texts     == INSTANCE Literals
Programs  == INSTANCE MCLowering WITH Entries <- CatalogueRows
Documents == INSTANCE MCShapes
Rules     == INSTANCE MCChecks

-----------------------------------------------------------------------------
-----------------------------------------------------------------------------
(* Bodies of mappings, over two rows.                                       *)
(*                                                                          *)
(* U and V share the name `id`, an Integer of one and a Float of the other. *)

Whole(n) == [t |-> "int", n |-> n * Eighths, s |-> <<>>]
Real(n) == [t |-> "float", n |-> n, s |-> <<>>]
Word(w) == Words(<<Piece(w)>>)

Field(n, t) == [name |-> n, type |-> T(t)]

Scope ==
    <<[binding |-> "U", row |-> <<Field("id", "int"), Field("name", "string"), Field("ok", "bool")>>],
      [binding |-> "V", row |-> <<Field("id", "float"), Field("kind", "string")>>]>>

\* Rows that say something, that share an id, and that say nothing.
Row(i, n, o, j) ==
    [b \in {"U", "V"} |->
        IF b = "U" THEN [c \in {"id", "name", "ok"} |-> IF c = "id" THEN i ELSE IF c = "name" THEN n ELSE o]
        ELSE [c \in {"id", "kind"} |-> IF c = "id" THEN j ELSE Word("k")]]

Data ==
    {Row(Whole(5), Word("k"), Truth(TRUE), Real(20)), Row(Whole(2), Word("n"), Truth(FALSE), Real(12)),
     Row(Nothing, Nothing, Nothing, Nothing), Row(Whole(5), Nothing, Truth(FALSE), Nothing)}

-----------------------------------------------------------------------------
(* A slot of every kind: any value, a list of them, one type, a reference.  *)

Slot(v, s) == [value |-> v, single |-> s, required |-> FALSE]

MCSlots ==
    [k \in {"note", "tags", "size", "count", "label", "site", "flag", "by", "about"} |->
        CASE k = "note" -> [Slot(AnyValue, TRUE) EXCEPT !.required = TRUE]
          [] k = "tags" -> Slot(AnyValue, FALSE)
          [] k = "size" -> Slot(T("float"), TRUE)
          [] k = "count" -> Slot(T("int"), TRUE)
          [] k = "label" -> Slot(T("string"), TRUE)
          [] k = "site" -> Slot(T("uri"), TRUE)
          [] k = "flag" -> Slot(T("bool"), TRUE)
          [] k = "by" -> Slot(Ref({"P"}), TRUE)
          [] k = "about" -> Slot(Ref({"P", "Q"}), FALSE)]

MCCatalogue ==
    [f \in {"length", "split", "round", "contains", "starts_with", "ends_with", "lang"} |->
        CASE f = "length" -> [params |-> <<T("string")>>, ret |-> T("int")]
          [] f \in {"contains", "starts_with", "ends_with"} ->
                [params |-> <<T("string"), T("string")>>, ret |-> T("bool")]
          [] f = "lang" -> [params |-> <<T("string"), T("string")>>, ret |-> T("langstring")]
          [] f = "split" -> [params |-> <<T("string")>>, ret |-> Several("string")]
          [] f = "round" -> [params |-> <<T("float")>>, ret |-> T("int")]]

\* A P is named by two values, a Q by none, an R by nobody.
MCTemplates ==
    [t \in {"P", "Q"} |->
        IF t = "P"
        THEN Text(<<Said(Word("p/")), Hole(Column("V", "id")), Said(Word("-")), Hole(Column("V", "kind"))>>)
        ELSE Text(<<Said(Word("q"))>>)]

-----------------------------------------------------------------------------

Leaves ==
    {Lit(Whole(2)), Lit(Real(20)), Lit(Word("w")), Lit(Truth(TRUE)), Null, Edge("Q", <<>>), Edge("R", <<>>)}
    \cup {Column(c[1], c[2]) :
            c \in {<<"U", "id">>, <<"U", "name">>, <<"U", "ok">>, <<"V", "id">>, <<"V", "kind">>,
                   <<"", "name">>, <<"", "id">>, <<"W", "k">>, <<"U", "k">>}}

Ok == Column("U", "ok")
Two == Lit(Whole(2))
W == Lit(Word("w"))

Around(e) ==
    {Un("not", e), Un("-", e), Bin("+", e, Two), Bin("*", Column("U", "id"), e), Bin("/", e, Two),
     Bin("==", e, Null), Bin("!=", Null, e), Bin("==", e, Column("U", "id")), Bin("!=", W, e), Bin("<", e, Two),
     Bin("and", e, Ok), Bin("or", Ok, e), Text(<<Said(Word("a")), Hole(e), Said(Word("b"))>>), Text(<<Hole(e)>>),
     If(e, Two, Lit(Real(20))), If(Ok, e, Two), If(Ok, W, e),
     If(Bin("==", Column("U", "name"), Null), Lit(Real(20)), e),
     Call("length", <<e>>), Call("split", <<e>>), Call("round", <<e>>),
     Edge("P", <<e, Column("U", "name")>>), Edge("P", <<Column("V", "id"), e>>), Edge("Q", <<e>>)}

RECURSIVE DepthOf(_)
DepthOf(e) == 1 + Lib!Max({DepthOf(x) : x \in Parts(e)} \cup {0})

Required == [key |-> "note", value |-> Two]

BodyInit == body = <<>>

\* A property alone, or beside the one the shape requires.
BodyAdd == /\ body \in {<<>>, <<Required>>}
           /\ \E k \in DOMAIN Slots, e \in Leaves : body' = Append(body, [key |-> k, value |-> e])

BodyWrap == /\ body # <<>>
            /\ DepthOf(Lib!Last(body).value) < Most
            /\ \E e \in Around(Lib!Last(body).value) : body' = [body EXCEPT ![Len(body)].value = e]

BodyNext == BodyAdd \/ BodyWrap

\* What is written of an accepted property is of the type its column is declared with, but for
\* the two the lowering types otherwise than the checker (Mistyped), where no shape narrows it.
HeldAsSaid == body # <<>> => HeldAsSaidOf(Scope, body, Data)

\* What the engine computes of an accepted property is what the property means.
SameValue == body # <<>> => SameValueOf(Scope, body, Data)

\* An edge names the node its target's own mapping mints from the same values.
EdgesReach == body # <<>> => EdgesReachOf(Scope, body, Data)

\* A mapping accepted of described sources is accepted when fewer are described.
SilenceAccepts == body # <<>> => SilenceAcceptsOf(Scope, body)

\* Of another mapping of its type, that reads one row of the same columns.
ColumnsNamed == {"id", "name", "ok", "kind"}

OwnerOf(e, c) ==
    LET named == {x.row : x \in {y \in Within(e) : y.form = "col" /\ y.name = c}} \ {""}
    IN  IF named # {} THEN CHOOSE b \in named : TRUE ELSE IF c = "kind" THEN "V" ELSE "U"

Exported(e) ==
    <<[binding |-> "X", row |-> SelectSeq(Flat(Scope), LAMBDA f : f \in Lib!ToSet(RowOf(Scope, OwnerOf(e, f.name))))]>>

ExportedRow(e, data) == "X" :> [c \in ColumnsNamed |-> data[OwnerOf(e, c)][c]]

\* What mappings of one type mint nobody is told of is one node for one row of values.
OneIdentity ==
    body # <<>> /\ Accepted(Scope, body) /\ HasMeaning(Scope, Lib!Last(body).value) =>
        LET e == Lib!Last(body).value
            other == Exported(e)
        IN  \A t \in {IdentityForm(e)} \cup Leaves, data \in Data :
                Accepted(other, <<Required, [Lib!Last(body) EXCEPT !.value = t]>>) =>
                    \A s \in {<<e, t>>, <<Text(<<Said(Word("w")), Hole(e)>>), Text(<<Said(Word("w")), Hole(t)>>)>>} :
                        OneIdentityOf("P", s[1], Scope, data, s[2], other, ExportedRow(e, data))

\* What an accepted body says is what it writes: its values of the types their columns are
\* declared with, unless the lowering is known to mistype them, what they mean, its edges to
\* the nodes they name, and one node for what its type's other mappings identify alike.
WrittenAsMeant == HeldAsSaid /\ SameValue /\ EdgesReach /\ OneIdentity

-----------------------------------------------------------------------------
(* Every short text.                                                        *)

TextChars == Letters \cup Digits \cup {Texts!Quote, Texts!Backslash, Texts!Break, "{", "}", "blank"}

\* Expressions of a hole, some with a string of their own.
HoleTexts ==
    {<<"x">>, <<"x", ".", Texts!Quote, "}", Texts!Quote>>,
     <<"x", ".", Texts!Quote, Texts!Backslash, Texts!Quote, "{", "{", Texts!Quote>>,
     <<"x", "(", Texts!Quote, "n", Texts!Quote, ")">>}

Unwritten == <<"none">>

TextInit == text = Unwritten

TextStart == text = Unwritten /\ text' = <<>>

TextGrow == /\ text # Unwritten /\ Len(text) < Longest
            /\ \E c \in TextChars : text' = Append(text, c)

TextNext == TextStart \/ TextGrow

\* What the lexer makes of a whole literal: one token, or not.
OneToken(raw) == Texts!StringEnd(Tail(raw)) = Len(raw)

\* A name is read back from its one spelling, which no hole and no later quote can change.
SpelledIsRead ==
    text # Unwritten =>
        LET s == Texts!Spell(text)
        IN  /\ Texts!StringValue(s) = text
            /\ ~Texts!IsBare(text) => /\ OneToken(s)
                                      /\ Texts!StringEnd(Tail(s) \o Texts!Quoted(<<"{", "x">>)) = Len(s)
                                      /\ Texts!FindHole(s, 1) > Len(s)
            /\ Texts!IsBare(Texts!Identifier(text))
            /\ Texts!IsBare(text) => Texts!Identifier(text) = text

Plain(s) == \A i \in DOMAIN s : s[i] \notin {Texts!Quote, Texts!Backslash, Texts!Break}

\* A text between two holes, each brace of it doubled, is carved and read as it was written.
CarvedAsWritten ==
    text # Unwritten /\ Plain(text) =>
        \A h, k \in HoleTexts :
            LET hole(e) == <<"{">> \o e \o <<"}">>
                inner == Texts!Escape(text) \o hole(h) \o Texts!Escape(text) \o hole(k)
                piece == IF text = <<>> THEN <<>> ELSE <<Texts!Piece("text", text)>>
            IN  /\ Texts!Interpolation(inner) =
                        piece \o <<Texts!Piece("hole", h)>> \o piece \o <<Texts!Piece("hole", k)>>
                /\ OneToken(Texts!Quoted(inner))

-----------------------------------------------------------------------------

syntaxVars == <<draft, turns, p, in>>
lowerVars  == <<unit, types>>

MCInit == BodyInit /\ Syntax!Init /\ TextInit /\ Programs!Init /\ Documents!Init /\ Rules!Init

MCNext ==
    \/ /\ Syntax!Init /\ TextInit /\ Programs!Init /\ Documents!Init /\ Rules!Init
       /\ BodyNext
       /\ UNCHANGED <<syntaxVars, text, lowerVars, document, rule>>
    \/ /\ BodyInit /\ TextInit /\ Programs!Init /\ Documents!Init /\ Rules!Init
       /\ Syntax!Next
       /\ UNCHANGED <<body, text, lowerVars, document, rule>>
    \/ /\ BodyInit /\ Syntax!Init /\ Programs!Init /\ Documents!Init /\ Rules!Init
       /\ TextNext
       /\ UNCHANGED <<body, syntaxVars, lowerVars, document, rule>>
    \/ /\ BodyInit /\ Syntax!Init /\ TextInit /\ Documents!Init /\ Rules!Init
       /\ Programs!Next
       /\ UNCHANGED <<body, syntaxVars, text, document, rule>>
    \/ /\ BodyInit /\ Syntax!Init /\ TextInit /\ Programs!Init /\ Rules!Init
       /\ Documents!Next
       /\ UNCHANGED <<body, syntaxVars, text, lowerVars, rule>>
    \/ /\ BodyInit /\ Syntax!Init /\ TextInit /\ Programs!Init /\ Documents!Init
       /\ Rules!Next
       /\ UNCHANGED <<body, syntaxVars, text, lowerVars, document>>

MCSpec == MCInit /\ [][MCNext]_<<body, syntaxVars, text, lowerVars, document, rule>>

-----------------------------------------------------------------------------
(* The properties of each part, stated where the part is.                   *)

\* A program of the grammar reads back as itself, however its lines are laid out.
ReadsBack == Syntax!ReadsBack

\* What is accepted in silence is a program of the grammar, or one of the forms known to pass.
SaidOrDerived == Syntax!SaidOrDerived

\* Every parse ends, in a turn for each token at most.
ParseEnds == Syntax!ParseEnds

\* The parser answers any tokens at all, and what it accepts in silence is of the grammar.
ParserAnswers == SaidOrDerived /\ ParseEnds

\* A name and a text between holes read back as they were written, each from its one spelling.
TextReadsBack == SpelledIsRead /\ CarvedAsWritten

\* A program about which nothing was said is lowered to what it says, but for the forms known to
\* be lost.
LoweredOrSaid == Programs!LoweredOrSaid

\* The shape a mapping is checked against is the one its run classifies with, when the program
\* has the IRI in one place and every document it imports is read.
CheckedIsRun == Programs!CheckedIsRun

\* A shape document nothing of which is refused is read for exactly what it says, in whatever
\* order it was written.
DecodedAsWritten == Documents!DecodedAsWritten /\ Documents!OrderUnread

\* A declared type's rules are what was written of them, they ask what every node answers, and a
\* mapping of which nothing is said keeps them.
RulesHold == Rules!RulesHold

\* Violated.  What an operator makes of a conditional is of the type its column is declared with.
BranchesAgree == body # <<>> => BranchesAgreeOf(Scope, body, Data)

\* Violated.  What is drawn as an edge is never expected to be an opaque IRI.
ReferenceIsEdge == Documents!ReferenceIsEdge
=============================================================================
