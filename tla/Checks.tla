------------------------------- MODULE Checks -------------------------------
(* What a declared type says beyond the types of its fields, and what the   *)
(* checker makes of it: the assertions, severities and annotations a        *)
(* declaration is lowered to, what is decided of an assertion without the   *)
(* data, and everything said of a mapping against the shape it targets.     *)
(*                                                                          *)
(* A field of a shape is [name, iri, value, single, required, languages].   *)
(* What is said is [severity, problem, of, taints]: a finding that taints   *)
(* its mapping keeps it from being lowered.                                 *)
EXTENDS Bodies
LOCAL INSTANCE SequencesExt

CONSTANTS
    Largest,    \* of the whole numbers a program computes with: i64::MAX
    Narrower    \* the tags a range of languages has beneath it

Violation == "violation"
ErrorOf(problem, of) == [severity |-> "error", problem |-> problem, of |-> of, taints |-> TRUE]

-----------------------------------------------------------------------------
(* Constants: what an expression is worth before there are data.  A number  *)
(* is n / d, an infinity 1 / 0 or -1 / 0, and 0 / 0 is not a number.        *)

Undecided == [t |-> "undecided", n |-> 0, d |-> 1, s |-> <<>>]

Worth(t, n, d, s) == [t |-> t, n |-> n, d |-> d, s |-> s]
BoolOf(b) == Worth("bool", IF b THEN 1 ELSE 0, 1, <<>>)
Characters(s) == Worth("string", 0, 1, s)

\* Mutant: a sum past the largest whole number goes round.
IntWraps(n) == Worth("int", ((n + Largest + 1) % (2 * Largest + 2)) - Largest - 1, 1, <<>>)

IntOf(n) == IF n \in -Largest - 1 .. Largest THEN Worth("int", n, 1, <<>>) ELSE Undecided
FloatOf(x) == Worth("float", x.n, x.d, <<>>)

Constant(v) ==
    CASE v.t = "int" -> IntOf(v.n \div Eighths)
      [] v.t = "float" -> Worth("float", v.n, Eighths, <<>>)
      [] v.t = "bool" -> Worth("bool", v.n, 1, <<>>)
      [] v.t = "string" -> Characters(v.s)

Signum(n) == IF n < 0 THEN -1 ELSE IF n = 0 THEN 0 ELSE 1
Over(n, d) == LET m == IF d < 0 THEN -n ELSE n IN
              [n |-> IF d = 0 THEN Signum(m) ELSE m, d |-> IF d < 0 THEN -d ELSE d]

Sum(a, b) ==
    IF a.d = 0 /\ b.d = 0 THEN Over(IF a.n = b.n THEN a.n ELSE 0, 0) ELSE Over(a.n * b.d + b.n * a.d, a.d * b.d)
Product(a, b) == Over(a.n * b.n, a.d * b.d)
Quotient(a, b) == Over(a.n * b.d, a.d * b.n)
Opposite(a) == [a EXCEPT !.n = -a.n]
WholePart(a) == Signum(a.n) * ((Signum(a.n) * a.n) \div a.d)

\* What remains of a float: nothing of an infinity or by zero, everything by an infinity.
Remains(a, b) ==
    IF a.d = 0 \/ b.n = 0 THEN Over(0, 0)
    ELSE IF b.d = 0 THEN a
    ELSE Sum(a, Opposite(Product(b, Over(WholePart(Quotient(a, b)), 1))))

IsNumber(x) == x.t \in {"int", "float"}
NaN(x) == IsNumber(x) /\ x.n = 0 /\ x.d = 0

Orderable(l, r) == (l.t = r.t \/ (IsNumber(l) /\ IsNumber(r))) /\ ~NaN(l) /\ ~NaN(r)

Less(l, r) ==
    CASE l.t = "string" -> Earlier(l.s, r.s)
      [] l.t # "string" /\ l.d = 0 /\ r.d = 0 -> l.n < r.n
      [] OTHER -> l.n * r.d < r.n * l.d

\* binop, of two constants.
Compared(op, l, r) ==
    CASE op = "==" -> ~Less(l, r) /\ ~Less(r, l)
      [] op = "!=" -> Less(l, r) \/ Less(r, l)
      [] op = "<"  -> Less(l, r)
      [] op = "<=" -> ~Less(r, l)
      [] op = ">"  -> Less(r, l)
      [] op = ">=" -> ~Less(l, r)

Whole(op, a, b) ==
    CASE op = "+" -> IntOf(a + b)
      [] op = "-" -> IntOf(a - b)
      [] op = "*" -> IntOf(a * b)
      [] op = "%" -> IF b = 0 \/ (a = -Largest - 1 /\ b = -1) THEN Undecided ELSE IntOf(Remainder(a, b))

Floating(op, a, b) ==
    CASE op = "+" -> Sum(a, b)
      [] op = "-" -> Sum(a, Opposite(b))
      [] op = "*" -> Product(a, b)
      [] op = "%" -> Remains(a, b)
      [] op = "/" -> Quotient(a, b)

Binop(op, l, r) ==
    CASE op \in Comparisons -> IF Orderable(l, r) THEN BoolOf(Compared(op, l, r)) ELSE Undecided
      [] op \in Connectives ->
            IF {l.t, r.t} # {"bool"} THEN Undecided
            ELSE BoolOf(IF op = "and" THEN l.n = 1 /\ r.n = 1 ELSE l.n = 1 \/ r.n = 1)
      [] OTHER ->
            CASE ~(IsNumber(l) /\ IsNumber(r)) -> Undecided
              [] op # "/" /\ {l.t, r.t} = {"int"} -> Whole(op, l.n, r.n)
              [] OTHER -> FloatOf(Floating(op, l, r))

Unop(op, x) ==
    CASE op = "not" /\ x.t = "bool" -> BoolOf(x.n = 0)
      [] op = "-" /\ x.t = "int" -> IntOf(-x.n)
      [] op = "-" /\ x.t = "float" -> FloatOf(Opposite(x))
      [] OTHER -> Undecided

\* The functions of the catalogue that are decided, all of texts.
Decides == {"length", "contains", "starts_with", "ends_with"}
Calling(fn, args) ==
    IF fn \in Decides /\ \A i \in DOMAIN args : args[i].t = "string"
    THEN Constant(Applied(fn, [i \in DOMAIN args |-> Words(args[i].s)])) ELSE Undecided

RECURSIVE Fold(_, _, _)

\* fold: `field` is worth `value`; nothing else of the data is known.
Fold(e, field, value) ==
    LET parts == CASE e.form = "un" -> <<e.a>>
                   [] e.form = "bin" -> <<e.a, e.b>>
                   [] e.form = "call" -> e.args
                   [] OTHER -> <<>>
        worth == [i \in DOMAIN parts |-> Fold(parts[i], field, value)]
    IN  CASE e.form \in {"lit", "tagged"} -> Constant(e.v)
          [] e.form = "col" -> IF e.row = "" /\ e.name = field THEN value ELSE Undecided
          [] \E i \in DOMAIN worth : worth[i] = Undecided -> Undecided
          [] e.form = "un" -> Unop(e.op, worth[1])
          [] e.form = "bin" -> Binop(e.op, worth[1], worth[2])
          [] e.form = "call" -> Calling(e.fn, worth)
          [] OTHER -> Undecided

-----------------------------------------------------------------------------
(* Declarations: an attribute is what was written of it, in order.          *)

Severities == <<Violation, "warning", "info">>
Unwritten == "unwritten"

\* severity: a word that is none of them is refused, and its attribute dropped.
SeverityRead(word) == IF word \in ToSet(Severities) THEN <<word>> ELSE <<>>
SeveritySaid(word) == IF word \in ToSet(Severities) \cup {Unwritten} THEN {} ELSE {ErrorOf("UnknownSeverity", word)}

\* lower_assert: [on, condition, severity], a condition none when it did not parse or lower.
LowerAssert(attr) ==
    IF attr.condition = Null THEN <<>>
    ELSE LET severity == IF attr.severity = Unwritten THEN <<Violation>> ELSE SeverityRead(attr.severity)
         IN  [i \in DOMAIN severity |-> [on |-> attr.on, condition |-> attr.condition, severity |-> severity[i]]]

AssertSaid(attr) ==
    (IF attr.condition = Null THEN {ErrorOf("Condition", attr.on)} ELSE {}) \cup SeveritySaid(attr.severity)

\* lower_annotations, refuse_prefixed_iri: [predicate, tag], each an IRI or a tag, or not one.
LowerAnnotation(attr) == IF attr.predicate = "prefixed" \/ attr.tag = "malformed" THEN <<>> ELSE <<attr>>
AnnotationSaid(attr) ==
    CASE attr.predicate = "prefixed" -> {ErrorOf("PrefixedIri", attr.predicate)}
      [] attr.predicate # "prefixed" /\ attr.tag = "malformed" -> {ErrorOf("InvalidLanguageTag", attr.tag)}
      [] OTHER -> {}

-----------------------------------------------------------------------------
(* Assertions: check_asserts.                                               *)

OnType == "the type"

NamesIn(e) == {x.name : x \in {y \in Within(e) : y.form = "col" /\ y.row = ""}}

\* Of a field, itself alone; of a type, its fields of one value.
InScope(fields, on) ==
    SelectSeq(fields, LAMBDA f : IF on = OnType THEN f.single ELSE f.name = on)
FieldNames(fields) == {fields[i].name : i \in DOMAIN fields}

ScopeRow(fields) == <<[binding |-> "", row |-> [i \in DOMAIN fields |-> [name |-> fields[i].name, type |-> fields[i].value]]]>>

\* check_one
CheckOne(fields, assert) ==
    LET scope  == InScope(fields, assert.on)
        beyond == (NamesIn(assert.condition) \cap FieldNames(fields)) \ FieldNames(scope)
        type   == Synth(ScopeRow(scope), assert.condition, Untyped)
    IN  CASE beyond # {} -> {ErrorOf("OutOfScope", n) : n \in beyond}
          [] beyond = {} /\ \E i \in DOMAIN scope : scope[i].value = AnyValue -> {}
          [] OTHER -> IF ~type.ok THEN {ErrorOf("Condition", assert.on)}
                      ELSE IF Subtypes(type.type, T("bool")) THEN {} ELSE {ErrorOf("ExpectedBool", assert.on)}

-----------------------------------------------------------------------------
(* Mappings: typecheck_mapping against a resolved shape, [fields,           *)
(* rejections, asserts].                                                    *)

Field(name, iri, value, single, required, languages) ==
    [name |-> name, iri |-> iri, value |-> value, single |-> single, required |-> required, languages |-> languages]

\* A disjunction is of its own shape, any other rejection of every shape of the document.
RejectionTargets(rejection, iri) == rejection.by = "Disjunction" => rejection.of = iri

ResolvedShape(iri, fields, rejections, asserts) ==
    [fields |-> fields, asserts |-> asserts,
     rejections |-> {r \in rejections : RejectionTargets(r, iri)}]

Named(fields, name) == SelectSeq(fields, LAMBDA f : f.name = name)

\* constraint_for: the first field of the predicate, whichever field a body named.
ConstraintFor(fields, iri) == SelectSeq(fields, LAMBDA f : f.iri = iri)[1]

\* A body's key names the first field of that name: of a shape's two, the second is said.
Expectation(fields, key) == ConstraintFor(fields, Named(fields, key)[1].iri)

CollisionSaid(fields) ==
    {ErrorOf("NameCollision", fields[i].name) :
        i \in {j \in DOMAIN fields : fields[j].name \in FieldNames(SubSeq(fields, 1, j - 1))}}

\* surface_shape_lowering_errors: each rejection is said of the mapping, and a disjunction
\* alone taints nothing.
RejectionSaid(shape) ==
    {IF r.by = "Disjunction" THEN [ErrorOf("UnsupportedDisjunction", r.of) EXCEPT !.taints = FALSE]
     ELSE ErrorOf(r.by, r.of) : r \in shape.rejections}

LanguageMatches(tag, ranges) ==
    ranges = {} \/ \E range \in ranges : range \in {"*", tag} \/ tag \in Narrower[range]

\* A text written with its tag, or given one by a literal.
Tagged(v, tag) == [form |-> "tagged", v |-> v, tag |-> tag]
TagOf(e) ==
    CASE e.form = "tagged" -> {e.tag}
      [] e.form = "call" -> IF e.fn = "lang" /\ Len(e.args) = 2 /\ IsText(e.args[2])
                            THEN {e.args[2].v.s[1].type} ELSE {}
      [] OTHER -> {}

\* check_constant_language, by the first field of the name.
LanguageSaid(fields, key, e) ==
    {ErrorOf("LanguageNotAllowed", key) :
        tag \in {g \in TagOf(e) : Named(fields, key) # <<>> /\ ~LanguageMatches(g, Named(fields, key)[1].languages)}}

SaidAs(severity) == IF severity = Violation THEN "error" ELSE severity

\* check_constant_asserts: what the condition makes of a constant, at its own severity.
AssertsSaid(shape, key, e) ==
    LET constant == Fold(e, "", Undecided)
        refuses(a) == a.on = key /\ Fold(a.condition, key, constant) = BoolOf(FALSE)
    IN  IF constant = Undecided THEN {}
        ELSE {[severity |-> SaidAs(a.severity), problem |-> "AssertFailed", of |-> key,
               taints |-> a.severity = Violation] : a \in {b \in shape.asserts : refuses(b)}}

SynthOf(rows, e, expected) == IF e.form = "tagged" THEN Typed(T("langstring")) ELSE Synth(rows, e, expected)

\* check_property's answer to a type: of several values for one, and of one for another.
MismatchSaid(field, key, r) ==
    IF ~r.ok THEN {ErrorOf("Expression", key)}
    ELSE IF field.value = AnyValue /\ (~field.single \/ r.type.is # "seq") THEN {}
    ELSE IF r.type = Untyped \/ (field.value # AnyValue /\ Subtypes(r.type, field.value)) THEN {}
    ELSE {ErrorOf("PropertyMismatch", key)}

PropertySaid(rows, shape, property) ==
    LET key == property.key  e == property.value IN
    LanguageSaid(shape.fields, key, e) \cup AssertsSaid(shape, key, e) \cup
    (IF Named(shape.fields, key) = <<>> THEN {ErrorOf("UnknownProperty", key)}
     ELSE LET field == Expectation(shape.fields, key)
          IN  MismatchSaid(field, key, SynthOf(rows, e, field.value)))

RequiredSaid(fields, body) ==
    {ErrorOf("MissingRequiredProperty", n) :
        n \in {fields[i].name : i \in {j \in DOMAIN fields : fields[j].required}} \ {body[i].key : i \in DOMAIN body}}

TypecheckMapping(rows, shape, body) ==
    RejectionSaid(shape) \cup CollisionSaid(shape.fields)
    \cup UNION {PropertySaid(rows, shape, body[i]) : i \in DOMAIN body}
    \cup RequiredSaid(shape.fields, body)

\* TypeckOutput::checked
Checked(said) == \A d \in said : ~d.taints

\* render_split_suggestion: for each branch the mapping again, with the branch's predicates.
Split(mapping, disjuncts, short) ==
    [i \in DOMAIN disjuncts |->
        [mapping EXCEPT !.name = mapping.name \o <<i>>,
                        !.body = [j \in DOMAIN disjuncts[i] |->
                            [key |-> short[disjuncts[i][j]], value |-> Column(mapping.from, short[disjuncts[i][j]])]]]]

-----------------------------------------------------------------------------
(* Properties                                                              *)

\* What is made of literals, of the field where it is known, and of what is decided.
Closed(e, field) ==
    \A x \in Within(e) :
        \/ x.form \in {"lit", "un", "bin"}
        \/ x.form = "col" /\ x.row = "" /\ x.name = field
        \/ x.form = "call" /\ x.fn \in Decides

\* Nothing is divided by nothing.
Defined(rows, data, e) ==
    \A x \in Within(e) : x.form = "bin" /\ x.op \in {"/", "%"} => Runs(rows, data, LowerProperty(x.b)).n # 0

\* Every whole number on the way to what it is worth is one there is.
Bounded(rows, data, e) ==
    \A x \in Within(e) :
        LET v == Runs(rows, data, LowerProperty(x))
        IN  v.t = "int" => v.n \div Eighths \in -Largest - 1 .. Largest

\* The same worth as what the engine computes.
SameWorth(constant, v) ==
    IF v.t \in {"int", "float"}
    THEN constant.t = v.t /\ constant.n * Eighths = v.n * constant.d
    ELSE constant.t = v.t /\ (IF v.t = "bool" THEN constant.n = v.n ELSE constant.s = v.s)

\* An assertion about which nothing is said asks a question every node of its type answers:
\* on a field, every one of the field's values; on a type, the one value of each of its fields
\* (asserts.rs:5-14).
AssertAnswers(fields, assert, nodes) ==
    CheckOne(fields, assert) = {} =>
        \A node \in nodes :
            LET rows == ScopeRow(InScope(fields, assert.on))
                data == [b \in {""} |-> [n \in FieldNames(InScope(fields, assert.on)) |-> node[n]]]
            IN  Runs(rows, data, LowerProperty(assert.condition)).t \in {"bool", "null"}

\* What the checker decides of a field's value without the data is what the engine answers of
\* it, and it decides whatever is made of what it knows, short of an overflow.
FoldsAsRun(fields, assert, values) ==
    \A v \in values :
        LET rows == ScopeRow(InScope(fields, assert.on))
            data == [b \in {""} |-> [n \in {assert.on} |-> v]]
            folded == Fold(assert.condition, assert.on, Constant(v))
            decides == Closed(assert.condition, assert.on) /\ Bounded(rows, data, assert.condition)
        IN  Defined(rows, data, assert.condition) =>
                /\ decides => folded # Undecided
                /\ folded # Undecided => SameWorth(folded, Runs(rows, data, LowerProperty(assert.condition)))

\* A mapping of which an error is said is never lowered, but for a disjunction, and one is
\* lowered of which none is.
ErrorTaints(said) ==
    Checked(said) <=> \A d \in said : d.severity = "error" => d.problem = "UnsupportedDisjunction"

\* A mapping of which nothing is said keeps everything its shape declares: it writes each key of
\* one field of its own, a value of that field's type under a tag the field admits, every field
\* required, and no constant an assertion of the field refuses.
KeepsItsShape(rows, shape, body) ==
    TypecheckMapping(rows, shape, body) = {} =>
        /\ shape.rejections = {}
        /\ \A f \in ToSet(shape.fields) : f.required => \E i \in DOMAIN body : body[i].key = f.name
        /\ \A i \in DOMAIN body :
              LET own == {f \in ToSet(shape.fields) : f.name = body[i].key}
                  type(f) == SynthOf(rows, body[i].value, f.value).type
                  shared(f) == \E g \in ToSet(shape.fields) : g # f /\ g.iri = f.iri
              IN  /\ Cardinality(own) = 1
                  /\ \A f \in own :
                        /\ shared(f) \/ f.value = AnyValue \/ type(f) = Untyped \/ Subtypes(type(f), f.value)
                        /\ \A tag \in TagOf(body[i].value) :
                              f.languages = {} \/ \E r \in f.languages : r \in {tag, "*"} \/ tag \in Narrower[r]
                  /\ \A a \in shape.asserts :
                        a.on = body[i].key /\ Closed(body[i].value, "") /\ Closed(a.condition, a.on) =>
                            LET v == Runs(rows, <<>>, LowerProperty(body[i].value))
                                data == [b \in {""} |-> [n \in {a.on} |-> v]]
                            IN  Bounded(rows, data, a.condition) => Runs(rows, data, LowerProperty(a.condition)) # Truth(FALSE)

\* Every attribute of a declaration is kept as it was written, or said.
KeptOrSaid(attr) ==
    LET kept == LowerAssert(attr) IN
    \/ AssertSaid(attr) # {} /\ kept = <<>>
    \/ /\ AssertSaid(attr) = {} /\ Len(kept) = 1
       /\ kept[1].severity = IF attr.severity = Unwritten THEN Violation ELSE attr.severity

\* Violated.  A suggested split type-checks against the shape it was suggested for
\* (check.rs:222-225).
SplitCompilesOf(rows, shape, mapping, disjuncts, short) ==
    \A i \in DOMAIN disjuncts :
        Checked(TypecheckMapping(rows, shape, Split(mapping, disjuncts, short)[i].body))
=============================================================================
