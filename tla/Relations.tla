----------------------------- MODULE Relations -----------------------------
(***************************************************************************)
(* A source pipeline read twice: by the checker, which keeps the rows it   *)
(* makes addressable, each under the binding that brought it in            *)
(* (fossil_hir::infer), and by the planner, which keeps the columns of a   *)
(* frame, each under the relation that qualifies it (fossil_exec::plan),   *)
(* of the operators it was lowered to (fossil_mir::lower, op).             *)
(*                                                                         *)
(* A row is a sequence of fields, or Undeclared.  A condition is the       *)
(* sequence of its conjuncts, a comparison of two operands each; an        *)
(* operand of no relation is a literal, and its name is its type.          *)
(***************************************************************************)
EXTENDS Integers, Sequences, FiniteSets

LOCAL INSTANCE SequencesExt

CONSTANTS
    Sources,        \* binding -> [fields, described]: the columns the file has, and
                    \* whether a host described them
    Undeclared,     \* the row of a source nobody described
    NoAlias

\* A program is the sequence of its pipelines, [name, base, verbs].
PipeOf(prog, name) == SelectSeq(prog, LAMBDA p : p.name = name)

Refuse(cause) == [refused |-> cause]
Admit(it) == [refused |-> "no", is |-> it]

\* One thing after another, up to the first refusal.
Then(result, next(_)) == IF result.refused = "no" THEN next(result.is) ELSE result

-----------------------------------------------------------------------------
(* Rows, the checker's scope: ty.rs.                                       *)

One(binding, row) == <<[binding |-> binding, row |-> row]>>
Has(rows, b) == \E i \in DOMAIN rows : rows[i].binding = b

\* The first entry of a name answers for it.
RowOf(rows, b) == SelectSeq(rows, LAMBDA r : r.binding = b)[1].row

\* Every column, or Undeclared where one row is.
Fields(rows) ==
    IF \E i \in DOMAIN rows : rows[i].row = Undeclared THEN Undeclared
    ELSE FlattenSeq([i \in DOMAIN rows |-> rows[i].row])

RenameTo(rows, name) == One(name, Fields(rows))

FieldOf(row, name) == SelectSeq(row, LAMBDA f : f.name = name)

\* column_of, lookup_column: the binding, then its column.
ColumnOf(rows, col) ==
    IF ~Has(rows, col.rel) THEN Refuse("row-not-in-scope")
    ELSE IF RowOf(rows, col.rel) = Undeclared THEN Admit(Undeclared)
    ELSE LET found == FieldOf(RowOf(rows, col.rel), col.name)
         IN  IF found = <<>> THEN Refuse("unknown-field") ELSE Admit(found[1])

\* The first refusal over a sequence of columns, or none.
ColumnsOf(rows, cols) ==
    FoldLeft(LAMBDA r, c : Then(r, LAMBDA fs : Then(ColumnOf(rows, c), LAMBDA f : Admit(Append(fs, f)))),
             Admit(<<>>), cols)

-----------------------------------------------------------------------------
(* The checker: infer.rs.                                                  *)

IsLiteral(operand) == operand.rel = ""
Operands(on) == FlattenSeq([i \in DOMAIN on |-> <<on[i].l, on[i].r>>])
Refs(on) == SelectSeq(Operands(on), LAMBDA o : ~IsLiteral(o))

TypeIn(rows, operand) ==
    IF IsLiteral(operand) THEN operand.name ELSE ColumnOf(rows, operand).is.type

Subtype(s, t) == s = t \/ (s = "int" /\ t = "float")

\* typecheck_stage: every column is there, and what is compared can be.
TypecheckStage(rows, on) ==
    Then(ColumnsOf(rows, Refs(on)), LAMBDA fs :
        IF \A i \in DOMAIN on : LET s == TypeIn(rows, on[i].l) t == TypeIn(rows, on[i].r)
                                IN  Subtype(s, t) \/ Subtype(t, s)
        THEN Admit(rows) ELSE Refuse("incomparable"))

\* side_of: the left side answers first.
SideOf(left, right, o) == IF Has(left, o.rel) THEN "left" ELSE IF Has(right, o.rel) THEN "right" ELSE "none"

\* check_join_condition: equalities, each of a column of one side and one of the other.
CheckJoinCondition(left, right, on) ==
    LET sides(c) == {SideOf(left, right, c.l), SideOf(left, right, c.r)} IN
    IF \E i \in DOMAIN on : ~on[i].eq THEN Refuse("join-not-equality")
    ELSE IF \E i \in DOMAIN on : IsLiteral(on[i].l) \/ IsLiteral(on[i].r) THEN Refuse("join-key-not-column")
    ELSE IF \E i \in DOMAIN on : "none" \in sides(on[i]) THEN Refuse("row-not-in-scope")
    ELSE IF \E i \in DOMAIN on : Cardinality(sides(on[i])) = 1 THEN Refuse("join-one-side")
    ELSE Admit(left \o right)

\* select: each row keeps the columns named under it.
Selected(rows, cols) ==
    [i \in DOMAIN rows |->
        [rows[i] EXCEPT !.row =
            LET named == SelectSeq(cols, LAMBDA c : c.rel = rows[i].binding
                                            /\ \A j \in 1 .. i - 1 : rows[j].binding # c.rel)
            IN  [k \in DOMAIN named |-> ColumnOf(rows, named[k]).is]]]

\* grouped_scope: every binding keeps its keys, and the aggregates are a row of the
\* pipeline's own.  All four are declared Float -> Float, and what they are of is asked
\* for its name alone.
GroupedScope(pipe, rows, verb) ==
    [i \in DOMAIN rows |->
        [rows[i] EXCEPT !.row =
            IF RowOf(rows, rows[i].binding) = Undeclared THEN Undeclared
            ELSE LET keys == SelectSeq(verb.keys, LAMBDA k : k.rel = rows[i].binding
                                 /\ FieldOf(RowOf(rows, k.rel), k.name) # <<>>)
                 IN  [k \in DOMAIN keys |-> ColumnOf(rows, keys[k]).is]]]
    \o One(pipe, [k \in DOMAIN verb.aggs |-> [name |-> verb.aggs[k].out, type |-> "float"]])

RECURSIVE Scope(_, _, _)

\* right_scope: the right side's rows, collapsed under its alias.
RightScope(prog, verb, within) ==
    Then(Scope(prog, verb.right, within), LAMBDA rows :
        Admit(IF verb.alias = NoAlias THEN rows ELSE RenameTo(rows, verb.alias)))

Joined(rows, right, verb) ==
    IF Fields(rows) = Undeclared THEN CheckJoinCondition(rows, right, verb.on)
    ELSE IF Fields(right) = Undeclared THEN Refuse("schemaless-join")
    ELSE Then(TypecheckStage(rows \o right, verb.on), LAMBDA both :
             CheckJoinCondition(rows, right, verb.on))

\* Column by column, in order, by name and type.
Unites(pipe, rows, right) ==
    IF Undeclared \in {Fields(rows), Fields(right)} \/ Fields(rows) = Fields(right)
    THEN Admit(RenameTo(rows, pipe)) ELSE Refuse("union-mismatch")

\* apply_source_op
ApplySourceOp(prog, pipe, verb, rows, within) ==
    LET declared == Fields(rows) # Undeclared IN
    CASE verb.verb = "where" -> IF declared THEN TypecheckStage(rows, verb.on) ELSE Admit(rows)
      [] verb.verb = "select" ->
            IF declared THEN Then(ColumnsOf(rows, verb.cols), LAMBDA fs : Admit(Selected(rows, verb.cols)))
            ELSE Admit(rows)
      [] verb.verb = "distinct" -> Admit(rows)
      [] verb.verb = "join" ->
            Then(RightScope(prog, verb, within), LAMBDA right : Joined(rows, right, verb))
      [] verb.verb = "union" ->
            IF declared
            THEN Then(RightScope(prog, verb, within), LAMBDA right : Unites(pipe, rows, right))
            ELSE Admit(RenameTo(rows, pipe))
      [] verb.verb = "group_by" ->
            IF declared
            THEN Then(ColumnsOf(rows, verb.keys \o [k \in DOMAIN verb.aggs |-> verb.aggs[k].col]),
                      LAMBDA fs : Admit(GroupedScope(pipe, rows, verb)))
            ELSE Admit(GroupedScope(pipe, rows, verb))

\* resolve_binding_scope: a pipeline is its base put through its verbs, and one that
\* reaches itself is refused.
Scope(prog, name, within) ==
    LET pipe == PipeOf(prog, name) IN
    IF pipe = <<>>
    THEN Admit(One(name, IF Sources[name].described THEN Sources[name].fields ELSE Undeclared))
    ELSE IF name \in within THEN Refuse("pipeline-cycle")
    ELSE FoldLeft(LAMBDA r, verb : Then(r, LAMBDA rows :
                      ApplySourceOp(prog, name, verb, rows, within \cup {name})),
                  Scope(prog, pipe[1].base, within \cup {name}), pipe[1].verbs)

-----------------------------------------------------------------------------
(* The operators: op.rs.  One names its inputs by their place in the list  *)
(* it is in.                                                               *)

SourceOp(binding) == [op |-> "Source", binding |-> binding]
ProjectOp(input, cols) == [op |-> "Project", input |-> input, cols |-> cols]
FilterOp(input, pred) == [op |-> "Filter", input |-> input, pred |-> pred]
JoinOp(left, right, on) == [op |-> "Join", left |-> left, right |-> right, on |-> on]
UnionOp(left, right, relation) == [op |-> "Union", left |-> left, right |-> right, relation |-> relation]
GroupByOp(input, keys, aggs, relation) ==
    [op |-> "GroupBy", input |-> input, keys |-> keys, aggs |-> aggs, relation |-> relation]
DistinctOp(input) == [op |-> "Distinct", input |-> input]

JoinSide(chain, alias) == [input |-> chain.last, relations |-> chain.relations, alias |-> alias]

\* JoinSide::names: the alias alone, where there is one.
NamesOf(side) == IF side.alias = NoAlias THEN side.relations ELSE <<side.alias>>

-----------------------------------------------------------------------------
(* The lowering: mir lower_source_chain.  A chain is its operators, the    *)
(* last of them and the names its columns are addressed by.                *)

\* Chain::add
AddRelations(relations, names) ==
    FoldLeft(LAMBDA rs, n : IF Contains(rs, n) THEN rs ELSE Append(rs, n), relations, names)

Push(chain, op, relations) ==
    [ops |-> Append(chain.ops, op), last |-> Len(chain.ops) + 1, relations |-> relations]

\* Mutant: a join leaves the pipeline's own name addressable and neither side's.
JoinRelationsPipe(pipe, chain, right) == <<pipe>>

\* A join keeps both sides addressable.
JoinRelations(pipe, chain, right) == AddRelations(chain.relations, NamesOf(right))

\* The keys keep the names they were written with, the aggregates have the pipeline's.
GroupRelations(pipe, chain, keys) ==
    AddRelations(SelectSeq(chain.relations, LAMBDA r : \E k \in DOMAIN keys : keys[k].rel = r), <<pipe>>)

RECURSIVE LowerSourceChain(_, _, _, _)

LowerOp(prog, pipe, verb, chain, path) ==
    LET \* The other side's operators follow the chain's.
        beside(next(_, _)) ==
            Then(LowerSourceChain(prog, verb.right, chain.ops, path),
                 LAMBDA other : Admit(next([chain EXCEPT !.ops = other.ops], other)))
    IN  CASE verb.verb = "where" -> Admit(Push(chain, FilterOp(chain.last, verb.on), chain.relations))
          [] verb.verb = "select" -> Admit(Push(chain, ProjectOp(chain.last, verb.cols), chain.relations))
          [] verb.verb = "distinct" -> Admit(Push(chain, DistinctOp(chain.last), chain.relations))
          [] verb.verb = "join" ->
                beside(LAMBDA both, other :
                    LET right == JoinSide(other, verb.alias)
                    IN  Push(both, JoinOp(JoinSide(chain, NoAlias), right, verb.on), JoinRelations(pipe, chain, right)))
          [] verb.verb = "union" ->
                beside(LAMBDA both, other : Push(both, UnionOp(chain.last, other.last, pipe), <<pipe>>))
          [] verb.verb = "group_by" ->
                Admit(Push(chain, GroupByOp(chain.last, verb.keys, verb.aggs, pipe), GroupRelations(pipe, chain, verb.keys)))

\* A binding that reads a file is one operator; the finished pipeline is addressed by
\* what its verbs left addressable and not by its own name.
LowerSourceChain(prog, name, ops, path) ==
    LET pipe == PipeOf(prog, name) IN
    IF pipe = <<>> THEN Admit(Push([ops |-> ops], SourceOp(name), <<name>>))
    ELSE IF name \in path THEN Refuse("bug")
    ELSE FoldLeft(LAMBDA r, verb : Then(r, LAMBDA chain : LowerOp(prog, name, verb, chain, path \cup {name})),
                  LowerSourceChain(prog, pipe[1].base, ops, path \cup {name}), pipe[1].verbs)

-----------------------------------------------------------------------------
(* The planner: plan.rs.  A relation is the columns of its frame.          *)

Inputs(op) ==
    CASE op.op = "Source" -> {}
      [] op.op \in {"Project", "Filter", "GroupBy", "Distinct"} -> {op.input}
      [] op.op = "Join" -> {op.left.input, op.right.input}
      [] op.op = "Union" -> {op.left, op.right}

\* evaluation_order: what an operator depends on, itself included, found backwards.
EvaluationOrder(ops, index) ==
    LET needed == FoldLeft(LAMBDA found, k :
                               LET i == index - k IN IF i \in found THEN found \cup Inputs(ops[i]) ELSE found,
                           {index}, [k \in 1 .. index - 1 |-> k - 1])
    IN  IF \E i \in needed : \E d \in Inputs(ops[i]) : d >= i THEN Refuse("not-topological")
        ELSE Admit(SelectSeq([i \in 1 .. index |-> i], LAMBDA i : i \in needed))

\* derived_from: the sources of a relation, as a set.
DerivedFrom(ops, index) ==
    Then(EvaluationOrder(ops, index), LAMBDA order :
        Admit({ops[i].binding : i \in {j \in ToSet(order) : ops[j].op = "Source"}}))

\* alias, qualify: a whole frame under one name.
Qualify(frame, rel) == [i \in DOMAIN frame |-> [frame[i] EXCEPT !.rel = rel]]

Named(frame, col) == SelectSeq(frame, LAMBDA f : f.rel = col.rel /\ f.name = col.name)

\* Two columns of one qualified name: how the engine tells them apart is its own.
Twice(frame) ==
    \E i, j \in DOMAIN frame : i # j /\ frame[i].rel = frame[j].rel /\ frame[i].name = frame[j].name

\* An engine that reads a column it does not have, or has one twice, refuses the plan.
Reading(frame, cols, next) ==
    IF \E i \in DOMAIN cols : Named(frame, cols[i]) = <<>> THEN Refuse("no-such-column")
    ELSE IF Twice(next) THEN Refuse("ambiguous")
    ELSE Admit(next)

\* join_equalities
JoinEqualities(on, left, right) ==
    \A i \in DOMAIN on :
        /\ on[i].eq
        /\ \A o \in {on[i].l, on[i].r} :
              ~IsLiteral(o) /\ (Contains(NamesOf(left), o.rel) \/ Contains(NamesOf(right), o.rel))

\* alias_of
AliasOf(frame, side) == IF side.alias = NoAlias THEN frame ELSE Qualify(frame, side.alias)

Join(op, left, right) ==
    IF ~JoinEqualities(op.on, op.left, op.right) THEN Refuse("neither-input")
    ELSE LET both == AliasOf(left, op.left) \o AliasOf(right, op.right) IN Reading(both, Refs(op.on), both)

\* sum, min and max answer in their column's type, avg in Float
\* (fossil-exec/tests/aggregate_result_types.rs).
AggCall(frame, agg) == IF agg.func = "avg" THEN "float" ELSE Named(frame, agg.col)[1].type

\* The engine has no sum and no average of a text; its least one it has.
Totals == {"sum", "avg"}
TextTotalled(frame, agg) == agg.func \in Totals /\ Named(frame, agg.col)[1].type = "str"

Aggregate(op, frame) ==
    LET reads == op.keys \o [k \in DOMAIN op.aggs |-> op.aggs[k].col] IN
    IF \E i \in DOMAIN reads : Named(frame, reads[i]) = <<>> THEN Refuse("no-such-column")
    ELSE IF \E k \in DOMAIN op.aggs : TextTotalled(frame, op.aggs[k]) THEN Refuse("not-a-number")
    ELSE Reading(frame, reads,
            [k \in DOMAIN op.keys |-> Named(frame, op.keys[k])[1]]
            \o [k \in DOMAIN op.aggs |->
                  [rel |-> op.relation, name |-> op.aggs[k].out, type |-> AggCall(frame, op.aggs[k])]])

\* read_source, under the binding's name.
ReadSource(binding) ==
    LET file == Sources[binding].fields
    IN  Admit([i \in DOMAIN file |-> [rel |-> binding, name |-> file[i].name, type |-> file[i].type]])

\* build: the frame of one operator, from those it reads.
Build(op, built) ==
    CASE op.op = "Source" -> ReadSource(op.binding)
      [] op.op = "Filter" -> Reading(built[op.input], Refs(op.pred), built[op.input])
      [] op.op = "Distinct" -> Admit(built[op.input])
      [] op.op = "Project" ->
            LET frame == built[op.input] IN
            IF \E i \in DOMAIN op.cols : Named(frame, op.cols[i]) = <<>> THEN Refuse("no-such-column")
            ELSE Reading(frame, op.cols, [i \in DOMAIN op.cols |-> Named(frame, op.cols[i])[1]])
      [] op.op = "Join" -> Join(op, built[op.left.input], built[op.right.input])
      [] op.op = "Union" ->
            IF Len(built[op.left]) # Len(built[op.right]) THEN Refuse("widths-differ")
            ELSE LET frame == Qualify(built[op.left], op.relation) IN Reading(frame, <<>>, frame)
      [] op.op = "GroupBy" -> Aggregate(op, built[op.input])

\* plan_relation: no operator is planned twice, and none that is not needed.
PlanRelation(ops, index) ==
    Then(EvaluationOrder(ops, index), LAMBDA order :
        Then(FoldLeft(LAMBDA r, i :
                          Then(r, LAMBDA built :
                              Then(Build(ops[i], built), LAMBDA frame :
                                  Admit([j \in DOMAIN built \cup {i} |-> IF j = i THEN frame ELSE built[j]]))),
                      Admit([i \in {} |-> <<>>]), order),
             LAMBDA built : Admit(built[index])))

-----------------------------------------------------------------------------
(* The names of a relation's columns without planning it: schema.rs.       *)

RecordFieldNames(binding) ==
    IF Sources[binding].described THEN {f.name : f \in ToSet(Sources[binding].fields)} ELSE {}

RECURSIVE SchemaOf(_, _)
SchemaOf(ops, i) ==
    LET op == ops[i] IN
    CASE op.op = "Source" -> RecordFieldNames(op.binding)
      [] op.op = "Project" -> {c.name : c \in ToSet(op.cols)}
      [] op.op \in {"Filter", "Distinct"} -> SchemaOf(ops, op.input)
      [] op.op = "Join" -> SchemaOf(ops, op.left.input) \cup SchemaOf(ops, op.right.input)
      [] op.op = "Union" -> SchemaOf(ops, op.left)
      [] op.op = "GroupBy" -> {k.name : k \in ToSet(op.keys)} \cup {a.out : a \in ToSet(op.aggs)}

-----------------------------------------------------------------------------
(* Properties                                                              *)

Mentions(prog) ==
    {prog[k].base : k \in DOMAIN prog} \cup
    UNION {{prog[k].verbs[i].right : i \in {j \in DOMAIN prog[k].verbs : prog[k].verbs[j].verb \in {"join", "union"}}} :
              k \in DOMAIN prog}

Described(prog) == \A n \in Mentions(prog) \cap DOMAIN Sources : Sources[n].described

\* The files a relation reads, through as many pipelines as there are.
Reached(prog, name) ==
    FoldLeft(LAMBDA names, p : names \cup UNION {Mentions(PipeOf(prog, n)) : n \in names}, {name}, prog)
        \cap DOMAIN Sources

\* Every column the checker answers, under the first row of its name, is one column of
\* the frame, and every column of the frame is answered, unless two rows share its name.
Agree(rows, frame, relations) ==
    /\ \A i \in DOMAIN rows : LET b == rows[i].binding IN
         \A f \in ToSet(RowOf(rows, b)) : Len(Named(frame, [rel |-> b, name |-> f.name])) = 1
    /\ \A c \in ToSet(frame) :
         Cardinality({i \in DOMAIN rows : rows[i].binding = c.rel}) = 1 =>
             FieldOf(RowOf(rows, c.rel), c.name) # <<>>
    /\ \A c \in ToSet(frame) : Contains(relations, c.rel)

\* Each conjunct of a join relates a column of one side to one of the other.
PairsSides(ops) ==
    \A i \in DOMAIN ops : ops[i].op = "Join" =>
        \A k \in DOMAIN ops[i].on :
            Contains(ops[i].left.relations, ops[i].on[k].l.rel) # Contains(ops[i].left.relations, ops[i].on[k].r.rel)

\* Some grouping of it totals a column that is text where it is read: a column of a file,
\* or the least of one, which the checker has as a Float.
TotalsText(ops) ==
    \E i \in DOMAIN ops : ops[i].op = "GroupBy" /\
        LET below == PlanRelation(ops, ops[i].input)
        IN  below.refused = "no" /\ \E k \in DOMAIN ops[i].aggs : TextTotalled(below.is, ops[i].aggs[k])

\* A pipeline the checker accepts over described sources is planned, but for one that
\* totals a text, which never is; and the columns a body may write of it are the columns it
\* has (infer.rs:413-443, mir lower.rs:505-522), by the names schema.rs has for them.
\* Described or not, none of its joins is a filter over a product (infer.rs:782-880), no
\* operator is lowered that is not needed, and it is derived from the files it reaches.
AcceptedIsPlanned(prog, name) ==
    LET scope == Scope(prog, name, {})
        lowered == LowerSourceChain(prog, name, <<>>, {})
        chain == lowered.is
        plan == PlanRelation(chain.ops, chain.last)
        described == Described(prog)
    IN  scope.refused = "no" =>
            /\ described => lowered.refused = "no"
                           /\ plan.refused \in (IF TotalsText(chain.ops) THEN {"not-a-number"} ELSE {"no", "ambiguous"})
            /\ lowered.refused = "no" =>
                 /\ EvaluationOrder(chain.ops, chain.last) = Admit([i \in DOMAIN chain.ops |-> i])
                 /\ DerivedFrom(chain.ops, chain.last) = Admit(Reached(prog, name))
                 /\ plan.refused = "no" => PairsSides(chain.ops)
                 /\ described /\ plan.refused = "no" =>
                      /\ Agree(scope.is, plan.is, chain.relations)
                      /\ SchemaOf(chain.ops, chain.last) = {c.name : c \in ToSet(plan.is)}

\* Violated.  An aggregate takes a Float (generated/stdlib.mdx:32), so a pipeline that is
\* accepted has its plan, however its aggregates are nested.
TypedIsPlanned(prog, name) ==
    Described(prog) /\ Scope(prog, name, {}).refused = "no" =>
        LET chain == LowerSourceChain(prog, name, <<>>, {}).is
        IN  PlanRelation(chain.ops, chain.last).refused # "not-a-number"
=============================================================================
