----------------------------- MODULE Profiler -----------------------------
(***************************************************************************)
(* fossil_profile::Profiler: describe every source, count each one's       *)
(* columns, find the commonest values of a column that repeats, test the   *)
(* inclusions the types allow, keep a sample.  A phase's queries are       *)
(* handed out together, answered in any order, refused, or answered with   *)
(* no row; the next phase begins once all of them are.                     *)
(*                                                                         *)
(* The engine (DuckDB, the host's) is outside: it answers from `data`.     *)
(***************************************************************************)
EXTENDS Naturals, Sequences, FiniteSets, Functions

CONSTANTS
    Sources,    \* the bindings a profile may be asked about
    Primitives,
    Unkeyable,  \* the primitives whose equality is not exact: Float and Bool
    Null,       \* a cell with no value
    Datas,      \* what the sources hold: [Sources -> tables]
    Options     \* [sample, shown, depth]

\* A table: its columns' primitives, and rows of one cell a column.
ASSUME ProfilerAssumption ==
    /\ \A d \in Datas : \A s \in Sources :
          /\ d[s].types \in Seq(Primitives) /\ d[s].rows \in Seq(Range(d[s].rows))
          /\ \A r \in DOMAIN d[s].rows : Len(d[s].rows[r]) = Len(d[s].types)
    /\ \A o \in Options : o.sample \in Nat /\ o.shown \in Nat /\ o.depth \in {"types", "whole"}

VARIABLES
    data,       \* what the engine reads
    options,
    states,     \* the sources of the plan
    phase,
    queue,      \* asks to hand out
    pending,    \* asks not answered, those of the queue among them
    described,  \* sources whose columns are known
    counts,     \* source -> what its counts answered, of those answered
    top,        \* columns whose commonest values are known
    inclusions,
    sampled,    \* sources with a sample
    failed,     \* sources with a failure
    lost        \* the asks refused, or answered with no row

plan == <<data, options, states, phase, queue, pending, described, counts, top, inclusions,
          sampled, failed, lost>>

Phases == {"describe", "stats", "top", "inclusions", "sample", "done"}

\* A column is <<source, index>>.
ColumnsOf(s) == IF s \in described THEN {<<s, c>> : c \in DOMAIN data[s].types} ELSE {}
Columns == UNION {ColumnsOf(s) : s \in states}
Primitive(col) == data[col[1]].types[col[2]]

------------------------------------------------------------------------------
(* The engine                                                              *)

\* The rows a query with LIMIT reads; 0 reads every row.
RowsRead(s) ==
    IF options.sample = 0 \/ Len(data[s].rows) < options.sample
    THEN DOMAIN data[s].rows ELSE 1 .. options.sample

\* A column's values over some rows: those present.
Values(col, rows) == {data[col[1]].rows[r][col[2]] : r \in rows} \ {Null}
NullsIn(col, rows) == {r \in rows : data[col[1]].rows[r][col[2]] = Null}

Counted(s) ==
    [rows     |-> Cardinality(RowsRead(s)),
     nulls    |-> [c \in DOMAIN data[s].types |-> Cardinality(NullsIn(<<s, c>>, RowsRead(s)))],
     distinct |-> [c \in DOMAIN data[s].types |-> Cardinality(Values(<<s, c>>, RowsRead(s)))]]

\* The referenced side is read whole.
Holds(from, to) ==
    LET values == Values(from, RowsRead(from[1])) IN
    values # {} /\ values \subseteq Values(to, DOMAIN data[to[1]].rows)

------------------------------------------------------------------------------
(* The plan                                                                *)

\* Before there is a plan.
Unplanned ==
    /\ states = {} /\ phase = "describe" /\ queue = {} /\ pending = {}
    /\ described = {} /\ sampled = {} /\ failed = {} /\ lost = {} /\ top = {} /\ inclusions = {}
    /\ counts = [s \in {} |-> [rows |-> 0]]

\* new: one state a source, each asked for its columns.
New(sources) ==
    /\ states' = sources
    /\ queue' = [kind : {"describe"}, of : sources]
    /\ pending' = queue'
    /\ UNCHANGED <<data, options, phase, described, counts, top, inclusions, sampled, failed, lost>>

HasCounts(col) == col[1] \in DOMAIN counts
Rows(col)     == counts[col[1]].rows
Nulls(col)    == counts[col[1]].nulls[col[2]]
Distinct(col) == counts[col[1]].distinct[col[2]]

\* Its values repeat, so it has commonest ones.
Repeats(col) == HasCounts(col) /\ Distinct(col) < Rows(col) - Nulls(col)

\* candidate_keys
CandidateKey(col) ==
    /\ HasCounts(col) /\ Rows(col) > 0
    /\ Primitive(col) \notin Unkeyable
    /\ Nulls(col) = 0 /\ Distinct(col) = Rows(col)

HasValues(col) == HasCounts(col) /\ Nulls(col) < Rows(col)

\* Mutant: the referenced column need not be a key.
Inclusions(from, to) == Primitive(from) = Primitive(to) /\ from # to /\ HasValues(from)

InclusionAsksAny ==
    {[kind |-> "inclusion", from |-> p[1], to |-> p[2]] :
        p \in {p \in Columns \X Columns : Inclusions(p[1], p[2])}}

\* plan_inclusions
InclusionAsks ==
    {[kind |-> "inclusion", from |-> p[1], to |-> p[2]] :
        p \in {p \in Columns \X Columns : CandidateKey(p[2]) /\ Inclusions(p[1], p[2])}}

WithColumns == {s \in states : ColumnsOf(s) # {}}

Ask(next, asks) == phase' = next /\ queue' = asks /\ pending' = asks

\* advance, one turn of next_ask's loop: nobody else can move while nothing is pending.
Advance ==
    /\ queue = {} /\ pending = {} /\ phase # "done"
    /\ \/ phase = "describe" /\ options.depth = "types" /\ Ask("done", {})
       \/ /\ phase = "describe" /\ options.depth = "whole"
          /\ Ask("stats", [kind : {"counts"}, of : WithColumns])
       \/ phase = "stats" /\ Ask("top", [kind : {"top"}, of : {c \in Columns : Repeats(c)}])
       \/ phase = "top" /\ Ask("inclusions", InclusionAsks)
       \/ /\ phase = "inclusions"
          /\ Ask("sample", [kind : {"sample"}, of : IF options.shown = 0 THEN {} ELSE WithColumns])
       \/ phase = "sample" /\ Ask("done", {})
    /\ UNCHANGED <<data, options, states, described, counts, top, inclusions, sampled, failed, lost>>

\* next_ask with the queue full; a phase's are handed out before any is awaited.
HandOut ==
    /\ queue # {} /\ queue' = {}
    /\ UNCHANGED <<data, options, states, phase, pending, described, counts, top, inclusions,
                   sampled, failed, lost>>

\* feed: what the ask learns of a row.
Learn(a) ==
    /\ described' = IF a.kind = "describe" THEN described \cup {a.of} ELSE described
    /\ counts' = IF a.kind = "counts"
                 THEN [s \in DOMAIN counts \cup {a.of} |->
                         IF s = a.of THEN Counted(s) ELSE counts[s]]
                 ELSE counts
    /\ top' = IF a.kind = "top" THEN top \cup {a.of} ELSE top
    /\ inclusions' = IF a.kind = "inclusion" /\ Holds(a.from, a.to)
                     THEN inclusions \cup {<<a.from, a.to>>} ELSE inclusions
    /\ sampled' = IF a.kind = "sample" THEN sampled \cup {a.of} ELSE sampled

\* The source fail blames.
Blamed(a) ==
    CASE a.kind = "inclusion" -> a.from[1]
      [] a.kind = "top"       -> a.of[1]
      [] OTHER                -> a.of

Out == pending \ queue

\* feed(id): an ask not pending is ignored, so each is answered once.
Feed(a) ==
    /\ a \in Out
    /\ pending' = pending \ {a}
    /\ Learn(a)
    /\ UNCHANGED <<data, options, states, phase, queue, failed, lost>>

\* feed of an answer with no row, or a row that is not counts: nothing is learnt.
FeedNothing(a) ==
    /\ a \in Out /\ a.kind \in {"counts", "inclusion"}
    /\ pending' = pending \ {a}
    /\ lost' = lost \cup {a}
    /\ UNCHANGED <<data, options, states, phase, queue, described, counts, top, inclusions,
                   sampled, failed>>

\* fail(id, reason)
Fail(a) ==
    /\ a \in Out
    /\ pending' = pending \ {a}
    /\ failed' = failed \cup {Blamed(a)}
    /\ lost' = lost \cup {a}
    /\ UNCHANGED <<data, options, states, phase, queue, described, counts, top, inclusions,
                   sampled>>

Answered == \E a \in pending : Feed(a) \/ FeedNothing(a) \/ Fail(a)

------------------------------------------------------------------------------
(* Properties                                                              *)

\* A key of the rows read, in the data itself.
TrueKey(col) ==
    LET s == col[1]
        cells == [r \in RowsRead(s) |-> data[s].rows[r][col[2]]] IN
    /\ RowsRead(s) # {} /\ Primitive(col) \notin Unkeyable
    /\ \A r \in RowsRead(s) : cells[r] # Null
    /\ \A r, q \in RowsRead(s) : cells[r] = cells[q] => r = q

\* The queries an inclusion is known by.
Known(from, to) ==
    /\ {from[1], to[1]} \subseteq described \cap DOMAIN counts
    /\ [kind |-> "inclusion", from |-> from, to |-> to] \notin lost

\* A whole profile names every inclusion that holds of a key, and no other, save those
\* whose own queries were lost; in any order of the answers, at any sample.
ProfileExact ==
    phase = "done" /\ options.depth = "whole" =>
        inclusions =
            {p \in Columns \X Columns :
                /\ p[1] # p[2] /\ Primitive(p[1]) = Primitive(p[2])
                /\ TrueKey(p[2]) /\ Holds(p[1], p[2]) /\ Known(p[1], p[2])}

=============================================================================
