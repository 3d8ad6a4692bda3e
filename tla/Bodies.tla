------------------------------- MODULE Bodies -------------------------------
(***************************************************************************)
(* The body of a mapping, three times: what the checker accepts of it      *)
(* (fossil_hir::check), the columns and the edges it is lowered to         *)
(* (fossil_mir::lower), and what the engine makes of those over the rows   *)
(* (fossil_exec's render, the writer's stored).                            *)
(*                                                                         *)
(* An expression is a record whose `form` says which.  A value is          *)
(* [t, n, s]: a number is n eighths, a truth 0 or 1, a text the sequence   *)
(* of its pieces; and a value of type "null" is no value.                  *)
(***************************************************************************)
EXTENDS Integers, Sequences, FiniteSets

LOCAL INSTANCE SequencesExt

CONSTANTS
    NotDescribed,   \* the row of a source no host described
    Slots,          \* property -> [value, single, required]: what the shape declares of it
    Catalogue,      \* function -> [params, ret]
    Templates       \* type -> the @subject of the mapping that mints it

Eighths == 8

-----------------------------------------------------------------------------
(* Types: a name, and what it is a reference to or a sequence of.          *)

T(name) == [is |-> name, of |-> {}]
Ref(shapes) == [is |-> "ref", of |-> shapes]
Several(name) == [is |-> "seq", of |-> {name}]
AnyValue == T("any")
Untyped == T("none")

Numeric(t) == t.is \in {"int", "float"}

\* subtypes: a whole number is a number, and a reference to fewer shapes one to more.
Subtypes(s, t) ==
    \/ s = t
    \/ "error" \in {s.is, t.is}
    \/ s.is = "int" /\ t.is = "float"
    \/ s.is = "ref" /\ t.is = "ref" /\ s.of \subseteq t.of

-----------------------------------------------------------------------------
(* Expressions                                                             *)

Lit(v) == [form |-> "lit", v |-> v]
Null == [form |-> "null"]
Column(row, name) == [form |-> "col", row |-> row, name |-> name]
Text(parts) == [form |-> "text", parts |-> parts]
Said(v) == [hole |-> FALSE, e |-> Lit(v)]
Hole(e) == [hole |-> TRUE, e |-> e]
Call(fn, args) == [form |-> "call", fn |-> fn, args |-> args]
Edge(type, args) == [form |-> "edge", type |-> type, args |-> args]
Un(op, a) == [form |-> "un", op |-> op, a |-> a]
Bin(op, a, b) == [form |-> "bin", op |-> op, a |-> a, b |-> b]
If(c, a, b) == [form |-> "if", c |-> c, a |-> a, b |-> b]

Parts(e) ==
    CASE e.form = "text" -> {e.parts[i].e : i \in DOMAIN e.parts}
      [] e.form \in {"call", "edge"} -> ToSet(e.args)
      [] e.form = "un" -> {e.a}
      [] e.form = "bin" -> {e.a, e.b}
      [] e.form = "if" -> {e.c, e.a, e.b}
      [] e.form \in {"lit", "null", "col"} -> {}

RECURSIVE Within(_)
Within(e) == {e} \cup UNION {Within(p) : p \in Parts(e)}

Connectives == {"and", "or"}
Comparisons == {"==", "!=", "<", "<=", ">", ">="}

Holes(template) ==
    IF template.form = "text" THEN SelectSeq(template.parts, LAMBDA p : p.hole) ELSE <<>>

\* SubjectTemplate::arity
Arity(type) == Len(Holes(Templates[type]))

\* What is in scope: a sequence of [binding, row], a row a sequence of [name, type].
HasRow(rows, b) == \E i \in DOMAIN rows : rows[i].binding = b
RowOf(rows, b) == SelectSeq(rows, LAMBDA r : r.binding = b)[1].row

\* Rows::flat: one row of them all, or none.
Flat(rows) ==
    IF \E i \in DOMAIN rows : rows[i].row = NotDescribed THEN NotDescribed
    ELSE FlattenSeq([i \in DOMAIN rows |-> rows[i].row])

FieldOf(row, name) == SelectSeq(row, LAMBDA f : f.name = name)

-----------------------------------------------------------------------------
(* The checker: check.rs.  A finding poisons the mapping, so what type it   *)
(* answers with does not matter.                                            *)

Raised == [type |-> T("error"), ok |-> FALSE]
Typed(t) == [type |-> t, ok |-> TRUE]

\* denoted: what a text written here denotes, when the slot wants a node or an IRI.
Denoted(expected, kinds) == IF expected.is \in kinds THEN expected ELSE T("string")

InRow(row, name) ==
    IF row = NotDescribed THEN Typed(Untyped)
    ELSE IF FieldOf(row, name) = <<>> THEN Raised ELSE Typed(FieldOf(row, name)[1].type)

\* lookup_field for a bare name, lookup_column for a qualified one.
SynthColumn(rows, e) ==
    IF e.row = "" THEN InRow(Flat(rows), e.name)
    ELSE IF HasRow(rows, e.row) THEN InRow(RowOf(rows, e.row), e.name) ELSE Raised

Comparable(l, r) == Untyped \in {l, r} \/ T("null") \in {l, r} \/ Subtypes(l, r) \/ Subtypes(r, l)

\* Mutant: what is not known to be a number is taken for a text.
ArithmeticText(op, l, r) ==
    IF \E t \in {l, r} : t # Untyped /\ ~Numeric(t) THEN Raised
    ELSE Typed(IF op = "/" THEN T("float")
               ELSE IF Untyped \in {l, r} THEN T("string")
               ELSE IF T("float") \in {l, r} THEN T("float") ELSE T("int"))

\* synth_arith: `/` answers a Float, the others the wider of the two.
Arithmetic(op, l, r) ==
    IF \E t \in {l, r} : t # Untyped /\ ~Numeric(t) THEN Raised
    ELSE Typed(IF op = "/" THEN T("float")
               ELSE IF Untyped \in {l, r} THEN Untyped
               ELSE IF T("float") \in {l, r} THEN T("float") ELSE T("int"))

\* synth_binop
Binary(op, l, r) ==
    CASE op \in Connectives ->
            IF \A t \in {l, r} : t = Untyped \/ t = T("bool") THEN Typed(T("bool")) ELSE Raised
      [] op \in Comparisons -> IF Comparable(l, r) THEN Typed(T("bool")) ELSE Raised
      [] OTHER -> Arithmetic(op, l, r)

\* synth_unary
Unary(op, t) ==
    IF t = Untyped THEN Typed(IF op = "not" THEN T("bool") ELSE Untyped)
    ELSE IF IF op = "not" THEN t = T("bool") ELSE Numeric(t) THEN Typed(t) ELSE Raised

\* synth_ternary: the wider of two branches answers, and a branch of no type yields.
Ternary(c, t, o) ==
    IF c \notin {Untyped, T("bool")} THEN Raised
    ELSE IF t = Untyped \/ o = Untyped THEN Typed(IF t = Untyped THEN o ELSE t)
    ELSE IF Subtypes(t, o) THEN Typed(o) ELSE IF Subtypes(o, t) THEN Typed(t) ELSE Raised

\* synth_call, over the arguments' types.
Application(fn, types) ==
    IF Len(types) # Len(Catalogue[fn].params) THEN Raised
    ELSE IF \A i \in DOMAIN types :
               types[i] = Untyped \/ Subtypes(types[i], Catalogue[fn].params[i])
         THEN Typed(Catalogue[fn].ret) ELSE Raised

\* synth_edge
Reached(type, args) ==
    IF type \notin DOMAIN Templates \/ Len(args) # Arity(type) THEN Raised ELSE Typed(Ref({type}))

RECURSIVE Synth(_, _, _)

\* synth_ty under what is expected of it.  A hole is not in the slot; every other part
\* still is.
Synth(rows, e, expected) ==
    LET of(x) == Synth(rows, x, expected)
        then(parts, answer) == IF \A i \in DOMAIN parts : parts[i].ok THEN answer ELSE Raised
        types(parts) == [i \in DOMAIN parts |-> parts[i].type]
    IN  CASE e.form = "lit" ->
                Typed(IF e.v.t = "string" THEN Denoted(expected, {"uri"}) ELSE T(e.v.t))
          [] e.form = "null" -> Typed(T("null"))
          [] e.form = "col" -> SynthColumn(rows, e)
          [] e.form = "text" ->
                then([i \in DOMAIN e.parts |-> Synth(rows, e.parts[i].e, Untyped)],
                     Typed(Denoted(expected, {"ref", "uri"})))
          [] e.form = "call" ->
                LET args == [i \in DOMAIN e.args |-> of(e.args[i])]
                IN  then(args, Application(e.fn, types(args)))
          [] e.form = "edge" ->
                then([i \in DOMAIN e.args |-> of(e.args[i])], Reached(e.type, e.args))
          [] e.form = "un" -> then(<<of(e.a)>>, Unary(e.op, of(e.a).type))
          [] e.form = "bin" -> then(<<of(e.a), of(e.b)>>, Binary(e.op, of(e.a).type, of(e.b).type))
          [] e.form = "if" ->
                then(<<of(e.c), of(e.a), of(e.b)>>, Ternary(of(e.c).type, of(e.a).type, of(e.b).type))

\* check_property and compatible: a slot that is not narrowed takes any one value.
PropertyAccepted(rows, key, e) ==
    LET slot == Slots[key]
        r == Synth(rows, e, slot.value)
    IN  /\ r.ok
        /\ \/ r.type = Untyped
           \/ slot.value = AnyValue /\ ~(slot.single /\ r.type.is = "seq")
           \/ slot.value # AnyValue /\ Subtypes(r.type, slot.value)

\* resolve_predicate: a body is the sequence of its properties, [key, value].
Declared(body) == \A i \in DOMAIN body : body[i].key \in DOMAIN Slots

\* check_required_properties
Complete(body) == \A k \in DOMAIN Slots : Slots[k].required => \E i \in DOMAIN body : body[i].key = k

\* typecheck_mapping
Accepted(rows, body) ==
    /\ Declared(body)
    /\ Complete(body)
    /\ \A i \in DOMAIN body : PropertyAccepted(rows, body[i].key, body[i].value)

-----------------------------------------------------------------------------
(* The lowering: mir lower.rs.                                             *)

Truth(b) == [t |-> "bool", n |-> IF b THEN 1 ELSE 0, s |-> <<>>]
Words(s) == [t |-> "string", n |-> 0, s |-> s]
Nothing == [t |-> "null", n |-> 0, s |-> <<>>]

Concat(a, b) == [form |-> "concat", a |-> a, b |-> b]
Asserted(inner) == [form |-> "assert", inner |-> inner]
IsNull(a, negated) == [form |-> "isnull", a |-> a, negated |-> negated]

IsText(x) == x.form = "lit" /\ x.v.t = "string"

\* fold_concat_left: neighbouring texts are one, and the rest lean left.
FoldConcatLeft(parts) ==
    LET fuse(done, x) ==
            IF done # <<>> /\ IsText(Last(done)) /\ IsText(x)
            THEN Append(Front(done), Lit(Words(Last(done).v.s \o x.v.s))) ELSE Append(done, x)
        fused == FoldLeft(fuse, <<>>, parts)
    IN  IF fused = <<>> THEN Lit(Words(<<>>)) ELSE FoldLeft(Concat, Head(fused), Tail(fused))

\* SubjectTemplate::fill: the Nth argument is the Nth hole's finished value.
Fill(type, args) ==
    LET parts == Templates[type].parts
        nth(i) == Cardinality({j \in 1 .. i : parts[j].hole})
    IN  Text([i \in DOMAIN parts |-> IF parts[i].hole THEN Hole(args[nth(i)]) ELSE parts[i]])

\* What is written around `e`'s parts, around `change` of each.
Rebuilt(e, change(_)) ==
    LET each(es) == [i \in DOMAIN es |-> change(es[i])] IN
    CASE e.form \in {"lit", "null", "col"} -> e
      [] e.form = "text" -> Text([i \in DOMAIN e.parts |-> IF e.parts[i].hole THEN Hole(change(e.parts[i].e)) ELSE e.parts[i]])
      [] e.form \in {"call", "edge"} -> [e EXCEPT !.args = each(@)]
      [] e.form = "un" -> [e EXCEPT !.a = change(@)]
      [] e.form = "bin" -> Bin(e.op, change(e.a), change(e.b))
      [] e.form = "if" -> If(change(e.c), change(e.a), change(e.b))

RECURSIVE IdentityForm(_)

\* identity_form: the row a column is of is a name of its mapping's own.
IdentityForm(e) == IF e.form = "col" THEN Column("", e.name) ELSE Rebuilt(e, LAMBDA x : IdentityForm(x))

\* subject_templates, for_shape: the first mapping of the type.
ForShape(file, type) == SelectSeq(file, LAMBDA m : m.type = type)[1].subject

\* check_identities: the later mappings that disagree with the first of their type.
CheckIdentities(file) ==
    {i \in DOMAIN file : IdentityForm(file[i].subject) # IdentityForm(ForShape(file, file[i].type))}

\* `x == null` and `x != null` are questions of their own.
AsksNull(e) == e.op \in {"==", "!="} /\ (e.a.form = "null") # (e.b.form = "null")

RECURSIVE ContainsEdge(_), SubstituteEdges(_), IsPerRow(_), Lower(_, _)

ContainsEdge(e) == e.form = "edge" \/ \E x \in Parts(e) : ContainsEdge(x)

\* substitute_edges: an edge's arguments first, and it becomes the text its type's
\* mapping wrote; one of no such type, or of as many arguments as there are not holes,
\* stays.
SubstituteEdges(e) ==
    LET below == Rebuilt(e, LAMBDA x : SubstituteEdges(x))
    IN  IF e.form = "edge" /\ e.type \in DOMAIN Templates /\ Len(e.args) = Arity(e.type)
        THEN Fill(e.type, below.args) ELSE below

ResolveEdges(e) == IF ContainsEdge(e) THEN SubstituteEdges(e) ELSE e

\* is_per_row
IsPerRow(e) == e.form = "col" \/ \E x \in Parts(e) : IsPerRow(x)

\* lower_interpolation: in a subject what differs by row is asserted to be there.
LowerInterpolation(parts, subject) ==
    FoldConcatLeft([i \in DOMAIN parts |->
        LET value == Lower(parts[i].e, FALSE)
        IN  IF parts[i].hole /\ subject /\ IsPerRow(parts[i].e) THEN Asserted(value) ELSE value])

\* lower_property_value: `subject` is whether it is in that position.  An edge nothing
\* resolved is the empty text, and a bug.
Lower(e, subject) ==
    LET of(x) == Lower(x, subject) IN
    CASE e.form \in {"lit", "col"} -> e
      [] e.form \in {"null", "edge"} -> Lit(Words(<<>>))
      [] e.form = "text" -> LowerInterpolation(e.parts, subject)
      [] e.form = "bin" /\ AsksNull(e) -> IsNull(of(IF e.a.form = "null" THEN e.b ELSE e.a), e.op = "!=")
      [] OTHER -> Rebuilt(e, of)

\* lower_to_mir_pg: a property's edges are resolved before it is lowered, and a subject's
\* are not (lower_iri_property).
LowerProperty(e) == Lower(ResolveEdges(e), FALSE)
LowerSubject(e) == Lower(e, TRUE)

\* field_ty: the first column of that name, of whichever row.
FieldTy(rows, name) ==
    IF Flat(rows) = NotDescribed \/ FieldOf(Flat(rows), name) = <<>> THEN T("string")
    ELSE FieldOf(Flat(rows), name)[1].type

\* Mutant: whatever an operator is given, it answers a truth.
OperatorTyBool(rows, e) == T("bool")

RECURSIVE OperatorTy(_, _)

\* operator_ty: what the checker said of an operator, said again.
OperatorTy(rows, e) ==
    CASE e.form = "bin" /\ e.op \in Connectives \cup Comparisons -> T("bool")
      [] e.form = "bin" /\ e.op = "/" -> T("float")
      [] e.form = "bin" /\ e.op \in {"+", "-", "*", "%"} ->
            IF T("float") \in {OperatorTy(rows, e.a), OperatorTy(rows, e.b)} THEN T("float") ELSE T("int")
      [] e.form = "un" -> IF e.op = "not" THEN T("bool") ELSE OperatorTy(rows, e.a)
      [] e.form = "col" -> FieldTy(rows, e.name)
      [] e.form = "lit" -> T(e.v.t)
      [] e.form = "call" -> Catalogue[e.fn].ret
      [] e.form = "if" -> OperatorTy(rows, e.a)
      [] e.form \in {"null", "text", "edge"} -> T("string")

\* lower_mapping: the type a property's column is declared with.
ColumnTy(rows, e) == IF e.form = "if" THEN T("string") ELSE OperatorTy(rows, e)

\* lower_mapping, emit_edges: `null` is no column; what ranges over types is an edge; and
\* what the shape narrows is declared as the shape says.
Columns(rows, body) ==
    LET kept == SelectSeq(body, LAMBDA p : p.value.form # "null")
        slot(i) == Slots[kept[i].key].value
    IN  [i \in DOMAIN kept |->
            [key |-> kept[i].key, x |-> LowerProperty(kept[i].value), edge |-> slot(i).is = "ref",
             type |-> IF slot(i) = AnyValue THEN ColumnTy(rows, kept[i].value) ELSE slot(i)]]

-----------------------------------------------------------------------------
(* The engine: render, and SQL's answers.  A row of data is a function of  *)
(* the binding and the column.                                             *)

Spelled(v) == IF v.t = "string" THEN v.s ELSE <<[type |-> v.t, number |-> v.n]>>
Piece(name) == [type |-> name, number |-> 0]

\* A part that is nothing makes nothing of the whole.
Strict(values, v) == IF \E i \in DOMAIN values : values[i].t = "null" THEN Nothing ELSE v

Joined(values) == Strict(values, Words(FlattenSeq([i \in DOMAIN values |-> Spelled(values[i])])))

Number(l, r, n) == [t |-> IF "float" \in {l.t, r.t} THEN "float" ELSE "int", n |-> n, s |-> <<>>]

\* The remainder of a whole number takes the sign of what is divided.
Remainder(n, m) == LET r == (IF n < 0 THEN -n ELSE n) % (IF m < 0 THEN -m ELSE m) IN IF n < 0 THEN -r ELSE r

\* Of two texts the one whose first differing character is the less, or that ends first.
Earlier(s, t) ==
    \E k \in 0 .. Len(s) : /\ k < Len(t) /\ SubSeq(s, 1, k) = SubSeq(t, 1, k)
                           /\ k = Len(s) \/ s[k + 1].number < t[k + 1].number

Below(l, r) == IF l.t = "string" THEN Earlier(l.s, r.s) ELSE l.n < r.n

\* A connective is decided by one side that decides it.
Decided(op, l, r) ==
    LET decisive == Truth(op = "or")
    IN  IF decisive \in {l, r} THEN decisive ELSE Strict(<<l, r>>, Truth(op = "and"))

Operated(op, l, r) ==
    CASE op \in Connectives -> Decided(op, l, r)
      [] op = "==" -> Strict(<<l, r>>, Truth(l.n = r.n /\ l.s = r.s))
      [] op = "!=" -> Strict(<<l, r>>, Truth(l.n # r.n \/ l.s # r.s))
      [] op = "<" -> Strict(<<l, r>>, Truth(Below(l, r)))
      [] op = ">" -> Strict(<<l, r>>, Truth(Below(r, l)))
      [] op = "<=" -> Strict(<<l, r>>, Truth(~Below(r, l)))
      [] op = ">=" -> Strict(<<l, r>>, Truth(~Below(l, r)))
      [] op = "+" -> Strict(<<l, r>>, Number(l, r, l.n + r.n))
      [] op = "-" -> Strict(<<l, r>>, Number(l, r, l.n - r.n))
      [] op = "%" -> Strict(<<l, r>>, Number(l, r, Remainder(l.n, r.n)))
      [] op = "*" -> Strict(<<l, r>>, Number(l, r, (l.n * r.n) \div Eighths))
      [] op = "/" -> Strict(<<l, r>>, Number([l EXCEPT !.t = "float"], r, (l.n * Eighths) \div r.n))

Negated(op, v) ==
    Strict(<<v>>, IF op = "not" THEN Truth(v.n = 0) ELSE [v EXCEPT !.n = -v.n])

\* A function of the catalogue, as its template computes it.
Applied(fn, values) ==
    Strict(values,
        CASE fn = "length" -> [t |-> "int", n |-> Len(values[1].s) * Eighths, s |-> <<>>]
          [] fn = "contains" ->
                Truth(\E k \in 0 .. Len(values[1].s) - Len(values[2].s) :
                          SubSeq(values[1].s, k + 1, k + Len(values[2].s)) = values[2].s)
          [] fn = "starts_with" -> Truth(IsPrefix(values[2].s, values[1].s))
          [] fn = "ends_with" -> Truth(IsSuffix(values[2].s, values[1].s))
          [] fn = "split" -> [t |-> "seq", n |-> 0, s |-> values[1].s]
          [] fn = "round" ->
                LET half(n) == (n + Eighths \div 2) \div Eighths
                    whole == IF values[1].n < 0 THEN -half(-values[1].n) ELSE half(values[1].n)
                IN  [t |-> "int", n |-> whole * Eighths, s |-> <<>>])

InData(data, e) ==
    IF e.row # "" THEN data[e.row][e.name]
    ELSE data[CHOOSE b \in DOMAIN data : e.name \in DOMAIN data[b]][e.name]

RECURSIVE Widens(_, _), Runs(_, _, _)

\* A conditional one of whose branches is a Float is one.
Widens(rows, x) ==
    CASE x.form = "lit" -> x.v.t = "float"
      [] x.form = "col" -> FieldTy(IF x.row = "" THEN rows ELSE SelectSeq(rows, LAMBDA r : r.binding = x.row),
                                   x.name) = T("float")
      [] x.form = "un" -> Widens(rows, x.a)
      [] x.form = "bin" -> x.op = "/" \/ (x.op \in {"+", "-", "*", "%"} /\ (Widens(rows, x.a) \/ Widens(rows, x.b)))
      [] x.form = "if" -> Widens(rows, x.a) \/ Widens(rows, x.b)
      [] x.form = "call" -> Catalogue[x.fn].ret = T("float")
      [] x.form = "assert" -> Widens(rows, x.inner)
      [] x.form \in {"concat", "isnull"} -> FALSE

Widened(v, float) == IF float /\ v.t = "int" THEN [v EXCEPT !.t = "float"] ELSE v

Runs(rows, data, x) ==
    LET of(y) == Runs(rows, data, y) IN
    CASE x.form = "lit" -> x.v
      [] x.form = "col" -> InData(data, x)
      [] x.form = "concat" -> Joined(<<of(x.a), of(x.b)>>)
      [] x.form = "assert" -> of(x.inner)
      [] x.form = "isnull" -> Truth((of(x.a) = Nothing) # x.negated)
      [] x.form = "un" -> Negated(x.op, of(x.a))
      [] x.form = "bin" -> Operated(x.op, of(x.a), of(x.b))
      [] x.form = "if" -> Widened(of(IF of(x.c) = Truth(TRUE) THEN x.a ELSE x.b), Widens(rows, x))
      [] x.form = "call" -> Applied(x.fn, [i \in DOMAIN x.args |-> of(x.args[i])])

\* stored, held: a value is of its column's type, or is written as one that reads back as
\* it was.
Fits(type, v) ==
    \/ v.t \in {"null", type.is}
    \/ type.is \in {"string", "uri"} /\ v.t # "seq"
    \/ type.is = "float" /\ v.t = "int"
    \/ type.is = "int" /\ v.t = "float" /\ v.n % Eighths = 0

-----------------------------------------------------------------------------
(* What an expression means (design/expressions.mdx).                      *)

RECURSIVE Means(_, _, _)

\* A text is its parts in order; null is asked about and compared with nothing; an edge
\* is the identity of the node it names; a conditional is of one type.
Means(rows, data, e) ==
    LET of(y) == Means(rows, data, y)
        nothing(y) == y.form = "null" \/ of(y) = Nothing
    IN  CASE e.form = "lit" -> e.v
          [] e.form = "null" -> Nothing
          [] e.form = "col" -> InData(data, e)
          [] e.form = "text" -> Joined([i \in DOMAIN e.parts |-> of(e.parts[i].e)])
          [] e.form = "edge" ->
                LET parts == Templates[e.type].parts IN
                Joined([i \in DOMAIN parts |->
                    IF parts[i].hole
                    THEN of(e.args[1 + Len(SelectSeq(SubSeq(parts, 1, i - 1), LAMBDA p : p.hole))])
                    ELSE parts[i].e.v])
          [] e.form = "call" -> Applied(e.fn, [i \in DOMAIN e.args |-> of(e.args[i])])
          [] e.form = "un" -> Negated(e.op, of(e.a))
          [] e.form = "bin" /\ e.op \in {"==", "!="} /\ "null" \in {e.a.form, e.b.form} ->
                Truth((nothing(e.a) /\ nothing(e.b)) = (e.op = "=="))
          [] e.form = "bin" /\ e.op = "/" ->
                Strict(<<of(e.a), of(e.b)>>,
                       [t |-> "float", n |-> (of(e.a).n * Eighths) \div of(e.b).n, s |-> <<>>])
          [] e.form = "bin" -> Operated(e.op, of(e.a), of(e.b))
          [] e.form = "if" ->
                Widened(of(IF of(e.c) = Truth(TRUE) THEN e.a ELSE e.b),
                        Synth(rows, e, Untyped).type = T("float"))

\* A text that is one hole is of the hole's own type until it is written.
Bare(rows, e) == e.form = "text" /\ Len(e.parts) = 1 /\ Synth(rows, e.parts[1].e, Untyped).type # T("string")

\* null is only asked about, a text is made of single values and is a text where it is
\* worked on, and a bare name is of one row: what the documentation gives a meaning.
HasMeaning(rows, e) ==
    /\ e.form # "null"
    /\ \A x \in Within(e) :
          /\ (\E p \in Parts(x) : p.form = "null") => x.form = "bin" /\ x.op \in {"==", "!="}
          /\ x.form \notin {"text", "edge"} => \A p \in Parts(x) : ~Bare(rows, p)
          /\ x.form = "text" => \A p \in Parts(x) : Synth(rows, p, Untyped).type.is # "seq"
          /\ x.form = "col" /\ x.row = "" => Len(FieldOf(Flat(rows), x.name)) = 1

-----------------------------------------------------------------------------
(* Properties                                                              *)

Described(rows) == \A i \in DOMAIN rows : rows[i].row # NotDescribed

\* Every column of it has a name no other row has.
OneOfAName(rows, e) ==
    \A x \in Within(e) : x.form = "col" => Len(FieldOf(Flat(rows), x.name)) <= 1

RECURSIVE Retyped(_)

\* The parts of an operator whose types operator_ty works out again.
Retyped(e) ==
    {e} \cup (IF e.form = "bin" /\ e.op \in {"+", "-", "*", "%"} THEN Retyped(e.a) \cup Retyped(e.b)
             ELSE IF e.form = "un" /\ e.op = "-" THEN Retyped(e.a)
             ELSE IF e.form = "if" THEN Retyped(e.a) ELSE {})

\* A conditional whose branches are of two types, where the lowering has the first one's and
\* the checker the wider (lower.rs:1016-1017).
MixedBranches(rows, x) ==
    x.form = "if" /\ Synth(rows, x.a, Untyped).type # Synth(rows, x.b, Untyped).type

\* A column of a name that an earlier row has of another type, which is the one the lowering
\* has (lower.rs:206-213, 246-254).
OthersColumn(rows, x) == x.form = "col" /\ FieldTy(rows, x.name) # SynthColumn(rows, x).type

\* What the lowering takes for another type than the checker's.  A conditional that is the
\* whole value is declared a String whatever its branches are.
Mistyped(rows, e) ==
    e.form # "if" /\ \E x \in Retyped(e) : MixedBranches(rows, x) \/ OthersColumn(rows, x)

\* Every value of a property is of the type its column is declared with, or reads back from it.
HeldIn(rows, property, all) ==
    LET column == Columns(rows, <<property>>)[1]
    IN  column.edge \/ \A data \in all : LET v == Runs(rows, data, column.x)
                                       IN  Fits(column.type, v) /\ (Slots[property.key].single => v.t # "seq")

\* A value the checker accepts over described rows is of the type its column is declared
\* with: as the shape narrows it, or else as the lowering works it out again, unless it is
\* one of the two the lowering is known to take for another type, where the shape says none.
HeldAsSaidOf(rows, body, all) ==
    Accepted(rows, body) =>
        \A i \in DOMAIN body : HasMeaning(rows, body[i].value) =>
            \/ Slots[body[i].key].value = AnyValue /\ Mistyped(rows, body[i].value)
            \/ HeldIn(rows, body[i], all)

\* Violated.  "A conditional's branches agree by construction, so either answers"
\* (lower.rs:1016): what is worked out of one is held, the names of its columns being plain.
BranchesAgreeOf(rows, body, all) ==
    Accepted(rows, body) =>
        \A i \in DOMAIN body :
            HasMeaning(rows, body[i].value) /\ OneOfAName(rows, body[i].value) => HeldIn(rows, body[i], all)

\* What the engine computes of an accepted property is what the property means.
SameValueOf(rows, body, all) ==
    Accepted(rows, body) =>
        \A i \in DOMAIN body : HasMeaning(rows, body[i].value) =>
            \A data \in all :
                LET v == Runs(rows, data, LowerProperty(body[i].value))
                    meant == Means(rows, data, body[i].value)
                IN  v = meant \/ (body[i].value.form = "text" /\ v # Nothing /\ Spelled(v) = meant.s)

\* An edge names the node its target's own mapping mints from the same values, wherever in
\* a body it is written (identity.rs:127-140).
EdgesReachOf(rows, body, all) ==
    Accepted(rows, body) =>
        \A i \in DOMAIN body : \A e \in Within(body[i].value) : e.form = "edge" =>
            LET holes == Holes(Templates[e.type]) IN
            \A here, there \in all :
                (\A k \in DOMAIN holes :
                    Spelled(Runs(rows, here, LowerProperty(e.args[k]))) = Spelled(Runs(rows, there, LowerSubject(holes[k].e))))
                => Runs(rows, here, LowerProperty(e)) = Runs(rows, there, LowerSubject(Templates[e.type]))

\* Two mappings of one type that nobody is told of mint one node from the same values in the
\* columns of the same names, whatever rows each reads them of (identity.rs:6-7).  A name two
\* rows have is of either.
OneIdentityOf(type, s, here, data, t, there, same) ==
    LET columns == {x \in Within(s) : x.form = "col"}
    IN  /\ CheckIdentities(<<[type |-> type, subject |-> s], [type |-> type, subject |-> t]>>) = {}
        /\ \A c, d \in columns : c.name = d.name => c.row = d.row
        => Runs(here, data, LowerSubject(s)) = Runs(there, same, LowerSubject(t))

Silenced(rows, bindings) ==
    [i \in DOMAIN rows |->
        IF rows[i].binding \in bindings THEN [rows[i] EXCEPT !.row = NotDescribed] ELSE rows[i]]

\* A program is refused for what is known of its sources, never for what is not: one that
\* is accepted is accepted when fewer of them are described (check.rs:1549-1552).
SilenceAcceptsOf(rows, body) ==
    Accepted(rows, body) =>
        \A quiet \in SUBSET {rows[i].binding : i \in DOMAIN rows} : Accepted(Silenced(rows, quiet), body)
=============================================================================
