----------------------------- MODULE MCExecutor -----------------------------
(* What the executor is made of, side by side, each on its own small        *)
(* instances: the stores a run or a batch of reads is granted (Storage),    *)
(* the tables its mappings become (Tables), the relations they read,        *)
(* checked and planned (Relations), the physical plan those become          *)
(* (Session), the memory it may hold (Budget), what its sources are read    *)
(* as (Sources) and what its graph means (Terms).  A behaviour is of one    *)
(* part.                                                                    *)
EXTENDS Storage, Tables, Budget, Terms

CONSTANTS Sources, Undeclared, NoAlias, NoFetch, NoType, Upper, Functions, CastTypes, Arity

Lib     == INSTANCE SequencesExt
Pipes   == INSTANCE Relations
Engine  == INSTANCE Session
Readers == INSTANCE Sources
Catalogue == INSTANCE Templates

CONSTANTS
    Parts,      \* those of "storage", "tables", "relations", "session", "budget", "sources", "terms" a run looks at
    Most,       \* how many verbs a program of pipelines has, the second pipeline one fewer
    MostOperators, \* and how many operators a plan
    MostDepth,  \* and how deep a row of the catalogue
    MostHeld    \* and how much a reservation

VARIABLES
    part,
    prog,       \* the pipelines of "relations"
    plan,       \* the physical plan of "session"
    source      \* what "sources" reads: a header, a file, a graph or a row of the catalogue

-----------------------------------------------------------------------------
(* Storage: s3://b/out/ and what lies beneath and beside it; a public       *)
(* location; hosts that vend one prefix over what is asked or beside it,    *)
(* several, unreadable ones or none.                                        *)

CONSTANTS c, d

Out   == <<"b", "out">>
Raw   == <<"b", "out", "raw">>
In    == <<"b", "in">>
All   == <<"b">>
File  == <<"b", "out", "raw", "f">>
Other == <<"b", "in", "g">>
Site  == <<"w", "x">>

MCSegments    == {"b", "w", "x", "f", "g", "in", "out", "raw", "memory"}
MCLocations   == {File, Other, Site}
MCPrefixes    == {Out, Raw, In, All}
MCAuthorities == {"b", "w"}

Vend(p) == [prefix |-> p, reads |-> TRUE]
Bad(p)  == [prefix |-> p, reads |-> FALSE]

\* What a host may answer about a connection, and about the job.
Singles  == {<<Vend(p)>> : p \in MCPrefixes}
Multiple == {<<Vend(In), Vend(Raw)>>, <<Vend(In), Bad(Raw)>>, <<Vend(Out), Vend(Out)>>}

MCHosts ==
    {[s \in {c, d, "job"} |-> IF s = c THEN x ELSE IF s = d THEN y ELSE z] :
        x \in SUBSET Singles \cup {Multiple}, y \in {{}, {<<Vend(All)>>}, {<<Vend(In)>>}},
        z \in {{}, {<<Vend(Out)>>}, Singles, {<<Vend(Out), Vend(Out)>>}}}

Target(l, k) == [location |-> l, connection |-> k]

Plans == {<<Target(Other, c), Target(File, c)>>, <<Target(File, c), Target(Other, d)>>,
          <<Target(Other, d), Target(File, c), Target(Site, None)>>,
          <<Target(Site, None), Target(File, None)>>}

MCClients ==
    {[kind |-> "batch", job |-> FALSE, files |-> {}, targets |-> p] : p \in Plans}
    \cup {[kind |-> "run", job |-> j, files |-> {}, targets |-> p] : j \in BOOLEAN, p \in Plans}
    \cup {[kind |-> "run", job |-> FALSE, files |-> {<<"b">>}, targets |-> p] : p \in Plans}

\* What the part that is not storage looks like there, and the other way round.
NobodyAsks == /\ host = [s \in Scopes |-> {}]
              /\ client = [kind |-> "batch", job |-> FALSE, files |-> {}, targets |-> <<Target(Site, None), Target(File, None)>>]

-----------------------------------------------------------------------------
(* Tables: two types; a value per subject and a value set; an edge of at    *)
(* most one end that ranges over both types, and one of several.  Subjects  *)
(* may be IRIs, no IRI and NULL, and two of the values are one term.        *)

MCTypes   == {"A", "B"}
MCColumns == {"name", "tag", "knows", "likes"}
MCRanges  == [k \in MCColumns |-> IF k = "knows" THEN {"A", "B"} ELSE IF k = "likes" THEN {"B"} ELSE {}]
MCTerm(v) == IF v = 3 THEN 2 ELSE v

MCMayWrite(t) == IF t = "A" THEN {{"name", "tag"}, {"knows"}, {"likes"}} ELSE {{}, {"name"}}

MCMayHold(w) ==
    CASE w = {"name", "tag"} ->
            {[k \in w |-> IF k = "name" THEN p[1] ELSE p[2]] :
                p \in {<<<<1>>, <<>>>>, <<<<2>>, <<2>>>>, <<<<Null>>, <<1, 3>>>>}}
      [] w = {"name"} -> [w -> {<<1>>, <<2>>}]
      [] w = {"knows"} -> [w -> {<<1>>, <<2>>, <<Null>>}]
      [] w = {"likes"} -> [w -> {<<1, 2>>}]
      [] w = {} -> [w -> {<<>>}]
      [] OTHER -> {}

\* Five mappings and rows in all, in every order and grouping.
MostRows == 5
Rows == Lib!FoldLeft(LAMBDA n, m : n + 1 + Len(m.rows), 0, mappings)

-----------------------------------------------------------------------------
(* Relations: two described files and one that is not, and two pipelines    *)
(* over them that may read each other.                                      *)

Field(n, t) == [name |-> n, type |-> t]
MCSources ==
    [n \in {"A", "B", "C"} |->
        CASE n = "A" -> [fields |-> <<Field("k", "int"), Field("s", "str")>>, described |-> TRUE]
          [] n = "B" -> [fields |-> <<Field("k", "int"), Field("j", "int")>>, described |-> TRUE]
          [] n = "C" -> [fields |-> <<Field("k", "int")>>, described |-> FALSE]]

Col(r, n) == [rel |-> r, name |-> n]
Is(l, r)  == [eq |-> TRUE, l |-> l, r |-> r]
Under(l, r) == [eq |-> FALSE, l |-> l, r |-> r]

Conditions ==
    {<<Is(Col("A", "k"), Col("B", "k"))>>, <<Is(Col("X", "k"), Col("A", "k"))>>,
     <<Is(Col("P", "t"), Col("B", "j"))>>, <<Under(Col("A", "k"), Col("", "int"))>>,
     <<Is(Col("A", "k"), Col("B", "k")), Is(Col("B", "j"), Col("B", "k"))>>,
     <<Is(Col("C", "k"), Col("A", "k"))>>, <<Is(Col("B", "k"), Col("P", "k"))>>}

AliasConditions ==
    {<<Is(Col("X", "k"), Col("A", "k"))>>, <<Is(Col("A", "k"), Col("B", "k"))>>, <<Is(Col("B", "k"), Col("P", "k"))>>}

AK == <<Col("A", "k")>>
BothKeys == <<Col("B", "k"), Col("A", "k")>>
PT == <<Col("P", "t")>>

\* The least of a text, its sum, and the sum of what an earlier grouping made.
Groupings ==
    {<<AK, "min", Col("A", "s")>>, <<AK, "sum", Col("A", "s")>>, <<AK, "sum", Col("B", "j")>>, <<AK, "sum", Col("P", "t")>>,
     <<BothKeys, "min", Col("A", "s")>>, <<BothKeys, "sum", Col("B", "j")>>,
     <<PT, "min", Col("A", "s")>>, <<PT, "sum", Col("P", "t")>>}

Verbs ==
    [verb : {"where"}, on : {<<Under(Col("A", "k"), Col("", "int"))>>, <<Is(Col("A", "s"), Col("B", "k"))>>}]
    \cup [verb : {"distinct"}]
    \cup [verb : {"select"}, cols : {<<Col("A", "k")>>, <<Col("P", "t")>>, <<Col("B", "k"), Col("A", "k")>>}]
    \cup [verb : {"join"}, right : {"A", "B", "C", "P", "Q"}, alias : {NoAlias}, on : Conditions]
    \cup [verb : {"join"}, right : {"A", "P"}, alias : {"X"}, on : AliasConditions]
    \cup [verb : {"union"}, right : {"A", "B", "C", "P"}, alias : {NoAlias}]
    \cup {[verb |-> "group_by", keys |-> g[1], aggs |-> <<[out |-> "t", func |-> g[2], col |-> g[3]]>>] : g \in Groupings}

\* The second pipeline is over the first, or over a file of either kind beside it.
Bases == IF prog = <<>> THEN {"A", "B", "C", "P", "Q"} ELSE {"A", "C", "P"}
VerbsOf == Lib!FoldLeft(LAMBDA n, p : n + Len(p.verbs), 0, prog)

\* A name of neither a file nor a pipeline is refused before any of this.
Bound == Pipes!Mentions(prog) \subseteq DOMAIN Sources \cup {prog[i].name : i \in DOMAIN prog}
Checked == Bound => \A i \in DOMAIN prog : Pipes!Scope(prog, prog[i].name, {}).refused = "no"

AddPipeline ==
    /\ Len(prog) < 2 /\ Checked
    /\ \E b \in Bases : prog' = Append(prog, [name |-> IF prog = <<>> THEN "P" ELSE "Q", base |-> b, verbs |-> <<>>])

AddVerb ==
    /\ prog # <<>> /\ VerbsOf < Most /\ Len(prog[Len(prog)].verbs) <= Most - Len(prog) /\ Bound /\ Checked
    /\ \E v \in Verbs : prog' = [prog EXCEPT ![Len(prog)].verbs = Append(@, v)]

-----------------------------------------------------------------------------
(* Session: plans of four operators over two scans, as the engine makes     *)
(* them for one target partition: what must be read from one partition is.  *)

First == Engine!Scan(<<2, 1>>)
Other2 == Engine!Scan(<<2, 3, 3>>)
Over(o) == Engine!Plan(o, <<plan>>)
OneOf(p) == IF Engine!Partitions(p) = 1 THEN p ELSE Engine!Plan("coalesce", <<p>>)

Wrapped ==
    {Over(o) : o \in {"coalesce", "buffer", "sort", "merge", "repartition"}}
    \cup {Engine!Fetch("coalesce", 2, plan), Engine!Fetch("limit", 2, OneOf(plan))}
    \cup {Engine!Plan("dedup", <<OneOf(plan)>>)}
    \cup {Engine!Plan("union", <<plan, Other2>>), Engine!Plan("union", <<Other2, plan>>)}
    \cup {Engine!Plan("join", <<OneOf(plan), Other2>>), Engine!Plan("join", <<Other2, plan>>)}

Grown == Cardinality(Engine!Operators(plan))

AddOperator == Grown < MostOperators /\ plan' \in Wrapped

-----------------------------------------------------------------------------
(* Sources: headers of five names that differ in case or are each other's   *)
(* next; files of three records, of two fields spelled plainly or quoted;   *)
(* graphs of three triples about two subjects of two types, under mappings  *)
(* that write what they read as it is said there, and that do not.          *)

MCLower == [stem \in {"a", "A", "b"} |-> IF stem = "A" THEN "a" ELSE stem]

Header(names) == [kind |-> "header", names |-> names]
File2(records, kept, reader) == [kind |-> "file", records |-> records, kept |-> kept, reader |-> reader]
Graph(maps, triples) == [kind |-> "graph", mappings |-> maps, triples |-> triples]

ColumnNames == {<<"a">>, <<"A">>, <<"a", 1>>, <<"b">>, <<"a", 1, 1>>}

Zeroed == {<<"0", "1">>, <<"-", "0", "0">>, <<"0", "1", "line">>}
Values == Zeroed \cup {<<>>, <<"0">>, <<"quote", ",", "0", "1">>, <<"0", ",">>}
SpelledAs(value, quoted) == IF quoted THEN Readers!Quoted(value) ELSE value
Spellings(sole) ==
    {[value |-> f[1], bytes |-> SpelledAs(f[1], f[2])] :
        f \in {g \in Values \X BOOLEAN : g[2] \/ Readers!PlainAt(g[1], sole)}}
Records == {<<f>> : f \in Spellings(TRUE)} \cup {<<f, g>> : f \in Spellings(FALSE), g \in Spellings(FALSE)}
BytesOf(record) == IF Len(record) = 1 THEN record[1].bytes ELSE record[1].bytes \o <<",">> \o record[2].bytes
ZerosOf(record) == {i \in DOMAIN record : record[i].value \in Zeroed}

AddRecord ==
    \E r \in Records, end \in {<<>>, <<"line">>, <<"line", "line">>} :
        /\ source.records < 3 /\ source.reader.at = "record"
        /\ source' = File2(source.records + 1,
                          IF source.records = 0 THEN {} ELSE source.kept \cup ZerosOf(r),
                          Readers!Feed(source.reader, BytesOf(r) \o end))

Shapes == [b \in {"P", "Q"} |-> IF b = "P" THEN [type |-> 8, predicates |-> [n |-> "p", m |-> "q"]]
                                            ELSE [type |-> 9, predicates |-> [n |-> "q", m |-> "p"]]]
Prop(p, s, k) == [predicate |-> p, single |-> s, column |-> k]
Mapping(b, t, props) == [reads |-> b, type |-> t, props |-> props]

Mappings ==
    {Mapping(b, t, <<Prop(p, s, k)>>) : b \in {"P"}, t \in {8, NoType}, p \in {"p", "q"}, s \in BOOLEAN, k \in {"n", NoType}}
    \cup {Mapping("P", 8, <<Prop("p", TRUE, "n"), Prop("q", FALSE, k)>>) : k \in {"n", "m"}}
    \cup {Mapping("Q", t, <<Prop("q", TRUE, "n"), Prop("p", FALSE, "m")>>) : t \in {8, 9}}

(* Rows of the catalogue: what an expression of four operators is written   *)
(* as, and the texts one atom away from those of two.                       *)

Row(tree, text) == [kind |-> "row", tree |-> tree, text |-> text]
Says(op, says, of) == Catalogue!Node(op, says, of)

MCUpper == [w \in {"OR", "or", "IS", "NOT", "NULL", "CAST", "AS", "CASE", "WHEN", "THEN", "ELSE", "END", "f", "x", "DOUBLE", "DECIMAL"} |->
               IF w = "or" THEN "OR" ELSE w]
MCFunctions == {<<"f">>, <<"CASE", "x">>}
MCCastTypes == {<<"DOUBLE">>}

Leaves == {Says("hole", <<"0">>, <<>>), Says("hole", <<"1">>, <<>>), Says("text", <<"x">>, <<>>),
           Says("text", <<"'">>, <<>>), Says("int", <<"1", "0">>, <<>>)}
X1 == Says("hole", <<"1">>, <<>>)
Beside == {X1, Says("or", <<>>, <<X1, X1>>), Says("is null", <<>>, <<X1>>), Says("text", <<"'">>, <<>>)}

Around(e) ==
    {Says(op, <<>>, <<e>>) : op \in {"is null", "is not null"}}
    \cup {Says(op, <<>>, <<e, x>>) : op \in {"or", "concat"}, x \in Beside}
    \cup {Says(op, <<>>, <<x, e>>) : op \in {"or", "concat"}, x \in Beside}
    \cup {Says("cast", type, <<e>>) : type \in {<<"DOUBLE">>, <<"DECIMAL", "(", "1", ",", "1", ")">>}}
    \cup {Says("call", <<"f">>, <<e, x>>) : x \in Beside} \cup {Says("call", <<"CASE", "x">>, <<e>>)}
    \cup {Says("case", <<>>, <<e, X1, X1>>), Says("case", <<>>, <<X1, X1, e>>)}

Atoms == DOMAIN Upper \cup {"0", "%", "'", "|", "(", ")", ",", " "}

EditRow ==
    /\ source.text = <<>>
    /\ LET t == Catalogue!Written(source.tree, 0) IN
       \E i \in DOMAIN t :
           \/ source' = Row(source.tree, Lib!RemoveAt(t, i))
           \/ \E a \in Atoms : source' = Row(source.tree, [t EXCEPT ![i] = a])
           \/ \E a \in Atoms : source' = Row(source.tree, Lib!InsertAt(t, i, a))

RECURSIVE Depth(_)
Depth(e) == IF e.of = <<>> THEN 0 ELSE 1 + Lib!FoldLeft(LAMBDA n, m : IF m > n THEN m ELSE n, 0, [i \in DOMAIN e.of |-> Depth(e.of[i])])

GrowRow ==
    /\ source.text = <<>> /\ Depth(source.tree) < MostDepth
    /\ \E e \in Around(source.tree) : source' = Row(e, <<>>)

Readings ==
    {Header(<<>>), File2(0, {}, Readers!Zeros)}
    \cup {Row(e, <<>>) : e \in Leaves}
    \cup {Graph(<<m>>, {}) : m \in Mappings}
    \cup {Graph(<<Mapping("P", 8, <<Prop("p", TRUE, "n")>>), m>>, {}) : m \in Mappings}

Statements == {<<s, "type", t>> : s \in {1, 2}, t \in {8, 9}} \cup {<<s, p, o>> : s \in {1, 2}, p \in {"p", "q"}, o \in {1, 2}}

ReadMore ==
    \/ source.kind = "header" /\ Len(source.names) < 5 /\ \E n \in ColumnNames : source' = Header(Append(source.names, n))
    \/ source.kind = "file" /\ AddRecord
    \/ source.kind = "row" /\ GrowRow
    \/ source.kind = "row" /\ Depth(source.tree) <= 1 /\ EditRow
    \/ /\ source.kind = "graph" /\ Cardinality(source.triples) < 4
       /\ \E t \in Statements \ source.triples : source' = Graph(source.mappings, source.triples \cup {t})

-----------------------------------------------------------------------------
(* Terms: every column a program can have, as one type or set of one         *)
(* vertex; and graphs of two types, three columns and two relations whose    *)
(* classes and predicates may be each other's.                               *)

ValuesOf(type, several) ==
    CASE type = "bool" -> BOOLEAN
      [] type = "text" -> {<<"text", "a">>, <<"text", "b">>, <<"number", 2>>, <<"number", 3>>, <<"padded", 2>>, <<"instant", 2>>}
      [] type = "tagged" -> [text : {"a"} \cup (IF several THEN {} ELSE {NoType}),
                             tag : {<<"a">>, <<"A">>, <<"a", "b">>, <<"b">>, <<>>, <<"a", "">>}]
      [] type = "float32" -> {4, 8}
      [] OTHER -> {2, 3, 8}

Column2(n, p) == [name |-> n, predicate |-> p]
Relation2(s, l, t, p) == [source |-> s, label |-> l, destination |-> t, predicate |-> p]
Node(n) == <<"iri", n>>

Schemas ==
    {[types |-> <<[label |-> "A", class |-> Node("C"), columns |-> <<Column2("n", p), Column2("m", q)>>],
                  [label |-> "B", class |-> k, columns |-> <<Column2("n", u)>>]>>,
      relations |-> rs] :
        p \in {"p", "q"}, q \in {"q", NoType}, k \in {Node("C"), Node("D"), NoType}, u \in {"p", "q"},
        rs \in {{Relation2("A", "l", "B", v), Relation2(s, "k", t, w)} : s, t \in {"A", "B"}, v \in {"p", "r"}, w \in {"q", "r", NoType}}}

SubjectsOf == [l \in {"A", "B"} |-> IF l = "A" THEN {Node(1), Node(2)} ELSE {Node(3)}]
AGraph(schema) == [kind |-> "schema", schema |-> schema, tables |-> [subjects |-> SubjectsOf, values |-> {}, pairs |-> {}]]

MCAbsolute  == {<<"text", "a">>}
MCDatatypes == {NoType, "duration", "hexBinary", "integer", "double", "decimal", "string", "gYear", "dateTime"}
MCLanguages == {{}, {<<"a">>}}
MCGraphs    == {AGraph(s) : s \in Schemas}
MCObjects   == {<<"literal", 1>>, Node(3)}

\* Two values of a set; of the tables of a schema that is written, three rows.
SayMore ==
    /\ graph.kind = "schema" =>
         Admissible(graph.schema) /\ Cardinality(graph.tables.values) + Cardinality(graph.tables.pairs) < 3
    /\ MeaningNext
    /\ graph.kind = "column" => Cardinality(graph'.values) <= 2

-----------------------------------------------------------------------------

MCInit ==
    /\ part \in Parts
    /\ Init
    /\ part # "storage" => NobodyAsks
    /\ TablesInit
    /\ prog = <<>>
    /\ plan = First
    /\ source \in IF part = "sources" THEN Readings ELSE {Header(<<>>)}
    /\ IF part = "terms" THEN MeaningInit ELSE graph = CHOOSE g \in EmptyColumns : TRUE
    /\ BudgetInit

MCNext ==
    \/ part = "storage" /\ Next /\ UNCHANGED <<part, mappings, prog, plan, source, graph, pool>>
    \/ part = "tables" /\ Rows < MostRows /\ TablesNext /\ UNCHANGED <<part, prog, plan, source, graph, vars, pool>>
    \/ part = "relations" /\ (AddPipeline \/ AddVerb) /\ UNCHANGED <<part, mappings, plan, source, graph, vars, pool>>
    \/ part = "session" /\ AddOperator /\ UNCHANGED <<part, mappings, prog, source, graph, vars, pool>>
    \/ part = "budget" /\ BudgetNext /\ (\A k \in Consumers : held'[k] <= MostHeld) /\ UNCHANGED <<part, mappings, prog, plan, source, graph, vars>>
    \/ part = "sources" /\ ReadMore /\ UNCHANGED <<part, mappings, prog, plan, graph, vars, pool>>
    \/ part = "terms" /\ SayMore /\ UNCHANGED <<part, mappings, prog, plan, source, vars, pool>>

MCSpec == MCInit /\ [][MCNext]_<<part, mappings, prog, plan, source, graph, vars, pool>>

\* What the checker accepts is planned, unless it totals a text, and a body may write of it the
\* columns it has.
AcceptedReads ==
    part = "relations" /\ Bound => \A i \in DOMAIN prog : Pipes!AcceptedIsPlanned(prog, prog[i].name)

\* Violated.  What the checker accepts is planned, whatever it aggregates.
AggregatesPlanned ==
    part = "relations" /\ Bound => \A i \in DOMAIN prog : Pipes!TypedIsPlanned(prog, prog[i].name)

\* A run executes its plan in one task, and holds of it no more than twice the rows.
PlanKept == part = "session" => Engine!SessionKeeps(plan)

\* Columns have the names, numbers the zeros and subjects the values their source has for them.
ReadAsWritten ==
    part = "sources" =>
        CASE source.kind = "header" ->
                /\ Readers!NamesUnique(source.names)
                /\ source.names = <<>> => Readers!MissingSaid
          [] source.kind = "file" -> Readers!ZerosKept(source.kept, source.reader)
          [] source.kind = "row" ->
                IF source.text = <<>> THEN Catalogue!RendersBack(source.tree) ELSE Catalogue!NothingUnsaid(source.text)
          [] source.kind = "graph" -> Readers!PivotSaysGraph(source.mappings, Shapes, source.triples)
=============================================================================
