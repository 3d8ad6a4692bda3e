------------------------------ MODULE Session -------------------------------
(***************************************************************************)
(* The plan a run executes, after the two rules of its session: OneTask,   *)
(* which leaves nothing in it that spawns a task, and Compact, which gives  *)
(* an operator that holds its input rows in buffers of their own            *)
(* (fossil_exec::session, fossil_exec::memory).                             *)
(*                                                                         *)
(* A plan is an operator over its inputs.  What it yields is a sequence of  *)
(* partitions, a partition a sequence of batches, and a batch the rows it   *)
(* spans beside the rows its buffers hold.  Several partitions drained      *)
(* into one arrive in any order.                                            *)
(***************************************************************************)
EXTENDS Naturals, Sequences

LOCAL INSTANCE SequencesExt
LOCAL INSTANCE FiniteSetsExt
LOCAL INSTANCE FiniteSets

CONSTANT NoFetch

Plan(op, inputs) == [op |-> op, rows |-> <<>>, fetch |-> NoFetch, inputs |-> inputs]
Scan(rows) == [op |-> "scan", rows |-> rows, fetch |-> NoFetch, inputs |-> <<>>]
Fetch(op, n, input) == [op |-> op, rows |-> <<>>, fetch |-> n, inputs |-> <<input>>]

\* Those that start a task for what they read; the planner's own, before the rules.
Spawning == {"coalesce", "buffer", "repartition"}

\* A sort holds its input, a hash join what it builds on, which is its first.
Holding == {"sort", "join"}

-----------------------------------------------------------------------------
(* The rules, from the leaves up.                                          *)

RECURSIVE Partitions(_), Spawns(_), OneTaskUp(_), CompactUp(_), Operators(_)

\* properties().output_partitioning(), of the operators the planner makes with one
\* target partition.
Partitions(p) ==
    CASE p.op = "scan" -> 1
      [] p.op = "union" -> FoldLeft(LAMBDA n, i : n + Partitions(i), 0, p.inputs)
      [] p.op \in {"coalesce", "one_task", "merge", "limit"} -> 1
      [] p.op = "join" -> Partitions(p.inputs[2])
      [] OTHER -> Partitions(p.inputs[1])

\* Mutant: the fetch of the operator replaced is forgotten.
OneTaskOfAll(input, fetch) == Plan("one_task", <<input>>)

\* one_task: what coalesces from one stream, within the fetch of the operator it replaces.
OneTaskOf(input, fetch) ==
    IF fetch = NoFetch THEN Plan("one_task", <<input>>)
    ELSE Fetch("limit", fetch, Plan("one_task", <<input>>))

Spawns(p) == p.op = "repartition" \/ \E i \in ToSet(p.inputs) : Spawns(i)

OneTaskUp(p) ==
    LET inputs == [i \in DOMAIN p.inputs |-> OneTaskUp(p.inputs[i])] IN
    CASE p.op = "coalesce" -> OneTaskOf(inputs[1], p.fetch)
      [] p.op = "buffer" -> inputs[1]
      [] OTHER -> [p EXCEPT !.inputs = inputs]

\* OneTask::optimize: a repartition has no single task that could feed it.
Refused(p) == Spawns(p)
OneTask(p) ==
    LET plan == OneTaskUp(p) IN
    IF Partitions(plan) > 1 THEN OneTaskOf(plan, NoFetch) ELSE plan

CompactUp(p) ==
    LET plan == [p EXCEPT !.inputs = [i \in DOMAIN p.inputs |-> CompactUp(p.inputs[i])]] IN
    IF p.op \in Holding /\ plan.inputs[1].op # "compact"
    THEN [plan EXCEPT !.inputs[1] = Plan("compact", <<plan.inputs[1]>>)]
    ELSE plan

\* The rules run in this order, after the engine's own.
Session(p) == CompactUp(OneTask(p))

Operators(p) == {p} \cup UNION {Operators(i) : i \in ToSet(p.inputs)}

-----------------------------------------------------------------------------
(* What a plan yields.                                                     *)

Batch(rows, holds) == [rows |-> rows, holds |-> holds]
RowsOf(partition) == FoldLeft(LAMBDA all, b : all \o b.rows, <<>>, partition)

\* compact: rows are copied out of buffers that hold more than twice of them.
Copied(b) == IF b.holds <= Len(b.rows) * 2 THEN b ELSE Batch(b.rows, Len(b.rows))

Ascending(rows) == SortSeq(rows, <)

\* The same rows whatever the order they are in.
Times(rows, r) == Cardinality({i \in DOMAIN rows : rows[i] = r})
SameRows(a, b) == \A r \in ToSet(a) \cup ToSet(b) : Times(a, r) = Times(b, r)

\* Every order in which the batches of two partitions may arrive.
RECURSIVE Arrive(_, _)
Arrive(a, b) ==
    IF a = <<>> \/ b = <<>> THEN {a \o b}
    ELSE {<<a[1]>> \o s : s \in Arrive(Tail(a), b)} \cup {<<b[1]>> \o s : s \in Arrive(a, Tail(b))}

Drained(partitions) == FoldLeft(LAMBDA ways, p : UNION {Arrive(w, p) : w \in ways}, {<<>>}, partitions)

\* The first rows of a stream, batch by batch.
Within(partition, n) ==
    FoldLeft(LAMBDA kept, b :
                LET left == n - Len(RowsOf(kept)) IN
                IF left = 0 THEN kept
                ELSE Append(kept, Batch(SubSeq(b.rows, 1, IF left < Len(b.rows) THEN left ELSE Len(b.rows)), b.holds)),
             <<>>, partition)

Fetched(partition, fetch) == IF fetch = NoFetch THEN partition ELSE Within(partition, fetch)

\* An aggregate makes one batch of its groups and hands it on a row at a time.
Groups(partition) ==
    LET rows == Ascending(SetToSeq(ToSet(RowsOf(partition)))) IN
    [i \in DOMAIN rows |-> Batch(<<rows[i]>>, Len(rows))]

Whole(rows) == IF rows = <<>> THEN <<>> ELSE <<Batch(rows, Len(rows))>>

RECURSIVE Yields(_)

\* Every sequence of partitions an operator may yield.
Yields(p) ==
    LET Each(f(_)) == {[i \in DOMAIN parts |-> f(parts[i])] : parts \in Yields(p.inputs[1])} IN
    CASE p.op = "scan" -> {<<Whole(p.rows)>>}
      [] p.op = "union" -> {x \o y : x \in Yields(p.inputs[1]), y \in Yields(p.inputs[2])}
      [] p.op \in {"coalesce", "one_task"} ->
            UNION {{<<Fetched(s, p.fetch)>> : s \in Drained(parts)} : parts \in Yields(p.inputs[1])}
      [] p.op = "limit" -> Each(LAMBDA s : Within(s, p.fetch))
      [] p.op = "dedup" -> Each(Groups)
      [] p.op = "sort" -> Each(LAMBDA s : Whole(Ascending(RowsOf(s))))
      [] p.op = "merge" ->
            {<<Whole(Ascending(FoldLeft(LAMBDA all, s : all \o RowsOf(s), <<>>, parts)))>> : parts \in Yields(p.inputs[1])}
      [] p.op = "compact" -> Each(LAMBDA s : [i \in DOMAIN s |-> Copied(s[i])])
      [] p.op = "join" ->
            {[i \in DOMAIN right |->
                Whole(SelectSeq(RowsOf(right[i]), LAMBDA r : r \in ToSet(RowsOf(left[1]))))] :
                    left \in Yields(p.inputs[1]), right \in Yields(p.inputs[2])}
      [] OTHER -> Yields(p.inputs[1])

-----------------------------------------------------------------------------

\* collect: what the run makes of a plan, its partitions drained into one.
Collected(p) == UNION {{RowsOf(s) : s \in Drained(parts)} : parts \in Yields(p)}

\* The plan a run executes is one partition of operators none of which spawns a task.
OneTaskOnly(p) ==
    /\ Partitions(Session(p)) = 1
    /\ \A o \in Operators(Session(p)) : o.op \notin Spawning

\* It yields what the engine's own plan could have yielded.
YieldsTheSame(p) ==
    \A rows \in Collected(Session(p)) : \E own \in Collected(p) : SameRows(rows, own)

\* What it holds it holds at no more than twice its rows.
HeldIsSpanned(p) ==
    \A o \in Operators(Session(p)) : o.op \in {"sort", "join"} =>
        \A parts \in Yields(o.inputs[1]) : \A i \in DOMAIN parts : \A b \in ToSet(parts[i]) :
            b.holds <= 2 * Len(b.rows)

SessionKeeps(p) == ~Refused(p) => OneTaskOnly(p) /\ YieldsTheSame(p) /\ HeldIsSpanned(p)
=============================================================================
