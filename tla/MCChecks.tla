------------------------------ MODULE MCChecks ------------------------------
(* The declarations of a type of a few fields and the mappings to it: an    *)
(* assertion grows from a leaf, to a depth; a mapping writes one field or   *)
(* two of a shape that may be at odds with itself.                          *)
EXTENDS Checks

LOCAL INSTANCE SequencesExt

CONSTANT Deepest        \* how deep a condition is

VARIABLE rule

-----------------------------------------------------------------------------

Count(w) == [t |-> "int", n |-> w * Eighths, s |-> <<>>]
Real(n) == [t |-> "float", n |-> n, s |-> <<>>]
Letter(k) == [type |-> "letter", number |-> k]
A == Words(<<Letter(1)>>)
AB == Words(<<Letter(1), Letter(2)>>)

Plain(name, iri, type, single) == Field(name, iri, type, single, name = "age", {})

Person ==
    <<Plain("age", "p:age", T("int"), TRUE), Plain("name", "p:name", T("string"), TRUE),
      Plain("tag", "p:tag", T("string"), FALSE), Plain("score", "p:score", T("float"), TRUE)>>

Values ==
    [on \in {"age", "name", "tag", "score"} |->
        CASE on = "age" -> {Count(w) : w \in {-Largest - 1, -1, 0, 3, Largest}}
          [] on = "score" -> {Real(0), Real(20), Real(-12)}
          [] OTHER -> {Words(<<>>), A, AB}]

Nodes ==
    {[n \in {"age", "name", "tag", "score"} |->
        CASE n = "age" -> Count(k) [] n = "score" -> Real(20) [] OTHER -> w] : k \in {0, 3}, w \in {A, AB, Nothing}}

Own(n) == Column("", n)
Three == Lit(Count(3))

Leaves ==
    {Own(n) : n \in {"age", "name", "tag", "score", "ghost"}}
    \cup {Column("Person", "age"), Three, Lit(Real(20)), Lit(A), Lit(Truth(TRUE)), Null}

Around(e) ==
    {Un("not", e), Un("-", e), Bin("+", e, Three), Bin("-", Own("age"), e), Bin("*", e, Three),
     Bin("/", e, Lit(Count(2))), Bin("%", e, Three), Bin("==", e, Three), Bin("!=", e, Null),
     Bin("<", e, Lit(Real(20))), Bin("<", Lit(A), e), Bin("<=", e, Three), Bin(">", e, Own("tag")), Bin(">=", Own("score"), e),
     Bin("and", e, Bin("<", Own("age"), Three)), Bin("or", Lit(Truth(FALSE)), e),
     Call("length", <<e>>), Call("contains", <<e, Lit(A)>>), Call("starts_with", <<Lit(AB), e>>),
     Call("ends_with", <<e, Lit(A)>>), If(e, Lit(Truth(TRUE)), Lit(Truth(FALSE))), Text(<<Hole(e)>>)}

RECURSIVE DepthOf(_)
DepthOf(e) == 1 + Max({DepthOf(x) : x \in Parts(e)} \cup {0})

Assertion(on, condition) == [part |-> "assertion", on |-> on, condition |-> condition]

-----------------------------------------------------------------------------
(* A shape of its own fields, one two of whose fields share a name, and one  *)
(* two of whose fields share a predicate.                                   *)

Label == [Plain("label", "p:label", T("langstring"), TRUE) EXCEPT !.languages = {"en"}]
Site == Plain("site", "p:site", AnyValue, TRUE)

Declarations ==
    {Person \o <<Label, Site>>, Person \o <<Plain("name", "q:name", T("int"), TRUE), Site>>,
     Person \o <<[Label EXCEPT !.iri = "p:name"], Site>>}

Imposed ==
    {[on |-> "age", condition |-> Bin("<", Own("age"), Three), severity |-> Violation],
     [on |-> "age", condition |-> Bin(">", Bin("+", Own("age"), Three), Three), severity |-> "warning"],
     [on |-> "name", condition |-> Call("ends_with", <<Own("name"), Lit(A)>>), severity |-> Violation],
     [on |-> "tag", condition |-> Bin("!=", Own("tag"), Lit(A)), severity |-> "info"]}

Refusals ==
    {{}} \cup {{r} : r \in [by : {"Disjunction", "CyclicRef"}, of : {"S", "T"}] \cup [by : {"Malformed"}, of : {""}]}

Ages == {Three, Un("-", Three), Bin("+", Three, Three), Bin("+", Bin("+", Three, Three), Three), Lit(Real(20)), Column("U", "id")}
Given ==
    {Three, Lit(A), Lit(AB), Column("U", "name"), Call("split", <<Lit(A)>>), Tagged(A, "en"), Tagged(A, "en-GB"), Tagged(A, "fr"),
     Call("lang", <<Column("U", "name"), Lit(Words(<<[type |-> "fr", number |-> 0]>>))>>)}

Sources == <<[binding |-> "U", row |-> <<[name |-> "id", type |-> T("int")], [name |-> "name", type |-> T("string")]>>]>>

Property(key, value) == <<[key |-> key, value |-> value]>>

-----------------------------------------------------------------------------

Init == rule = [part |-> "nothing"]

Impose ==
    /\ rule.part = "nothing"
    /\ \E on \in DOMAIN Values \cup {OnType}, e \in Leaves : rule' = Assertion(on, e)

Grow ==
    /\ rule.part = "assertion"
    /\ DepthOf(rule.condition) < Deepest
    /\ \E e \in Around(rule.condition) : rule' = Assertion(rule.on, e)

Target ==
    /\ rule.part = "nothing"
    /\ \E fields \in Declarations, asserts \in {{}, Imposed}, rejections \in Refusals,
          age \in {<<>>} \cup {Property("age", e) : e \in Ages} :
            rule' = [part |-> "mapping", body |-> age,
                     shape |-> ResolvedShape("S", fields, rejections, asserts)]

Write ==
    /\ rule.part = "mapping"
    /\ \A i \in DOMAIN rule.body : rule.body[i].key = "age"
    /\ \E key \in {"name", "tag", "label", "site", "ghost"}, e \in Given :
            rule' = [rule EXCEPT !.body = @ \o Property(key, e)]

Qualify ==
    /\ rule.part = "nothing"
    /\ \E condition \in {Null, Bin("<", Own("age"), Three)}, word \in ToSet(Severities) \cup {Unwritten, "eror"} :
            rule' = [part |-> "attribute", on |-> "age", condition |-> condition, severity |-> word]

Next == Impose \/ Grow \/ Target \/ Write \/ Qualify

-----------------------------------------------------------------------------

\* What an assertion asks has an answer of every node, and is decided as the engine would.
AssertsAnswer ==
    rule.part = "assertion" =>
        /\ AssertAnswers(Person, rule, Nodes)
        /\ rule.on # OnType /\ CheckOne(Person, rule) = {} => FoldsAsRun(Person, rule, Values[rule.on])

\* What is said of a mapping is all there is to say, and an error keeps it from being lowered.
MappingsKeep ==
    rule.part = "mapping" =>
        /\ ErrorTaints(TypecheckMapping(Sources, rule.shape, rule.body))
        /\ KeepsItsShape(Sources, rule.shape, rule.body)

AttributesKept == rule.part = "attribute" => KeptOrSaid(rule)

\* A declared type's rules are what was written of them, they ask what every node answers, and a
\* mapping of which nothing is said keeps them.
RulesHold == AssertsAnswer /\ MappingsKeep /\ AttributesKept
=============================================================================
