------------------------------ MODULE GraphWrite ------------------------------
(***************************************************************************)
(* A run, from its program to the graph it writes: `Executor::execute` of  *)
(* fossil-exec, and the writers of fossil-sinks it ends in.                *)
(*                                                                         *)
(* Several runs may write at once, and to one job: the host vends each the *)
(* prefix it writes under.  A run is one task, and a step is the code      *)
(* between two awaits.  A put is a request: it may be refused, or go       *)
(* unanswered past its deadline, or be dropped with its run, and in those  *)
(* last two cases the store may still carry it out, later.                 *)
(***************************************************************************)
EXTENDS Naturals, Sequences, FiniteSets, Functions

CONSTANTS
    Runs,       \* the calls of execute
    Prefixes,   \* the prefixes a host may vend `write` on
    Types,      \* the names of vertex and edge types
    Vertices,   \* run -> the vertex tables of its graph, in the schema's order
    Edges,      \* run -> its edge tables
    Sinks,      \* the choices of format, one a run, that hosts make with set_sink
    MaxReads,   \* bound: how many ranges of its sources a run reads
    None

ASSUME WriteAssumption ==
    /\ Vertices \in [Runs -> Seq(Types)]
    /\ Edges \in [Runs -> Seq(Types)]
    /\ Sinks \subseteq [Runs -> {"graphar", "ntriples"}]
    /\ MaxReads \in Nat
    /\ None \notin Runs
    /\ Runs \cap Prefixes = {}

VARIABLES
    sink,      \* run -> the format it writes
    step,      \* where each call of execute stands
    failure,   \* the code it failed with
    dest,      \* dest: the prefix it writes under, or the run itself for its memory
    request,   \* the request of it that is out: its head awaited, or its body, or a put
    reads,     \* ranges read
    refused,   \* budget.refusal(): an operator was refused memory
    sent,      \* how many puts were acknowledged
    answer,    \* the files an in-memory run answered with
    stored,    \* place -> file -> the run that wrote the object there
    late       \* puts nobody waits for, which the store may still carry out

run  == <<sink, step, failure, dest, request, reads, refused, sent, answer>>
vars == <<run, stored, late>>

Places   == Prefixes \cup Runs     \* a run into memory has a store of its own
Mapping  == <<"file", "mapping.ttl">>
Document == <<"file", "fossil.graph.yml">>
Triples  == <<"file", "graph.nt">>
Files    == ({"chunk", "info"} \X Types) \cup {Mapping, Document, Triples}

Chunks(tables) == [i \in DOMAIN tables |-> <<"chunk", tables[i]>>]
Infos(tables)  == [i \in DOMAIN tables |-> <<"info", tables[i]>>]
Tables(r)      == Vertices[r] \o Edges[r]

\* Mutant: the graph document goes before the mapping.
OrderMappingLast(r) ==
    IF sink[r] = "ntriples" THEN <<Triples>>
    ELSE Chunks(Tables(r)) \o Infos(Tables(r)) \o <<Document, Mapping>>

\* The objects a run puts, in order: write_info puts the graph document last.
Order(r) ==
    IF sink[r] = "ntriples" THEN <<Triples>>
    ELSE Chunks(Tables(r)) \o <<Mapping>> \o Infos(Tables(r)) \o <<Document>>

Listed(r) == Range(Order(r))   \* what r's document names, itself included

Ended == {"done", "failed", "stopped"}
Steps == {"idle", "granting", "routing", "executing", "laying", "writing", "holding"} \cup Ended

TypeOK ==
    /\ sink \in Sinks
    /\ step \in [Runs -> Steps]
    /\ failure \in [Runs -> {"none", "document", "host", "ambiguous", "source",
                             "over-budget", "engine", "data", "write"}]
    /\ dest \in [Runs -> Places \cup {None}]
    /\ request \in [Runs -> {"none", "host", "head", "body", "put"}]
    /\ reads \in [Runs -> 0 .. MaxReads]
    /\ refused \in [Runs -> BOOLEAN]
    /\ sent \in [Runs -> Nat]
    /\ answer \in [Runs -> SUBSET Files]
    /\ stored \in [Places -> [Files -> Runs \cup {None}]]
    /\ late \subseteq Runs \X Prefixes \X Files

Init ==
    /\ sink \in Sinks
    /\ step = [r \in Runs |-> "idle"]
    /\ failure = [r \in Runs |-> "none"]
    /\ dest = [r \in Runs |-> None]
    /\ request = [r \in Runs |-> "none"]
    /\ reads = [r \in Runs |-> 0]
    /\ refused = [r \in Runs |-> FALSE]
    /\ sent = [r \in Runs |-> 0]
    /\ answer = [r \in Runs |-> {}]
    /\ stored = [p \in Places |-> [f \in Files |-> None]]
    /\ late = {}

To(r, s) == step' = [step EXCEPT ![r] = s]
Await(r, what) == request' = [request EXCEPT ![r] = what]

\* A run rejects with its first failure, and makes no request after it.
Fail(r, code) ==
    /\ To(r, "failed")
    /\ Await(r, "none")
    /\ failure' = [failure EXCEPT ![r] = code]

(***************************************************************************)
(* Before anything is written.                                             *)
(***************************************************************************)

\* graph_type, then where the output goes: a job's prefix is asked for, memory is made.
Begin(r) ==
    /\ step[r] = "idle"
    /\ \/ Fail(r, "document") /\ UNCHANGED dest
       \/ To(r, "granting") /\ Await(r, "host") /\ UNCHANGED <<failure, dest>>
       \/ /\ To(r, "routing") /\ Await(r, "host")
          /\ dest' = [dest EXCEPT ![r] = r]
          /\ UNCHANGED failure
    /\ UNCHANGED <<sink, reads, refused, sent, answer, stored, late>>

\* granted: the host vends the prefixes of the job, and a run takes exactly one.
Vended(r, prefixes) ==
    /\ step[r] = "granting"
    /\ \/ prefixes = {} /\ Fail(r, "host") /\ UNCHANGED dest
       \/ Cardinality(prefixes) > 1 /\ Fail(r, "ambiguous") /\ UNCHANGED dest
       \/ \E p \in Prefixes :
            /\ prefixes = {p}
            /\ To(r, "routing")
            /\ dest' = [dest EXCEPT ![r] = p]
            /\ UNCHANGED <<failure, request>>
    /\ UNCHANGED <<sink, reads, refused, sent, answer, stored, late>>

\* The host refuses, or its deadline fires; or a source does not route, or is not RDF.
NotVended(r) ==
    /\ step[r] \in {"granting", "routing"}
    /\ Fail(r, IF step[r] = "granting" THEN "host" ELSE "source")
    /\ UNCHANGED <<sink, dest, reads, refused, sent, answer, stored, late>>

\* Every source is routed, and the RDF ones are read and decoded.
Route(r) ==
    /\ step[r] = "routing"
    /\ To(r, "executing")
    /\ Await(r, "none")
    /\ UNCHANGED <<sink, failure, dest, reads, refused, sent, answer, stored, late>>

\* A scan asks its store for a range.
Read(r) ==
    /\ step[r] = "executing" /\ request[r] = "none" /\ reads[r] < MaxReads
    /\ reads' = [reads EXCEPT ![r] = @ + 1]
    /\ Await(r, "head")
    /\ UNCHANGED <<sink, step, failure, dest, refused, sent, answer, stored, late>>

\* get_opts answers, and the body is a stream with no deadline over it.
HeadArrives(r) ==
    /\ request[r] = "head"
    /\ Await(r, "body")
    /\ UNCHANGED <<sink, step, failure, dest, reads, refused, sent, answer, stored, late>>

BodyArrives(r) ==
    /\ request[r] = "body"
    /\ Await(r, "none")
    /\ UNCHANGED <<sink, step, failure, dest, reads, refused, sent, answer, stored, late>>

\* try_grow refuses an operator: it may fail for it, or do with less.
OverBudget(r) ==
    /\ step[r] = "executing" /\ request[r] = "none"
    /\ refused' = [refused EXCEPT ![r] = TRUE]
    /\ UNCHANGED <<sink, step, failure, dest, request, reads, sent, answer, stored, late>>

EngineFailure(r) == Fail(r, IF refused[r] THEN "over-budget" ELSE "engine")

\* engine_failure: whatever the engine failed with, a refusal of the budget is told first.
EngineFails(r) ==
    /\ step[r] = "executing" /\ request[r] = "none"
    /\ EngineFailure(r)
    /\ UNCHANGED <<sink, dest, reads, refused, sent, answer, stored, late>>

\* The store refuses a range, or its body breaks off.
Breaks(r) ==
    /\ request[r] \in {"head", "body"}
    /\ EngineFailure(r)
    /\ UNCHANGED <<sink, dest, reads, refused, sent, answer, stored, late>>

Execute(r) ==
    /\ step[r] = "executing" /\ request[r] = "none"
    /\ To(r, "laying")
    /\ UNCHANGED <<sink, failure, dest, request, reads, refused, sent, answer, stored, late>>

\* layout, validate, describe and turtle: the data is a graph and the mapping is one,
\* or the write is refused.
LayOut(r) ==
    /\ step[r] = "laying"
    /\ \/ Fail(r, "data")
       \/ To(r, "writing") /\ UNCHANGED <<failure, request>>
    /\ UNCHANGED <<sink, dest, reads, refused, sent, answer, stored, late>>

(***************************************************************************)
(* The writer.                                                             *)
(***************************************************************************)

Turn(r) == Order(r)[sent[r] + 1]      \* the object whose turn it is

\* The next object goes to the store.
Put(r) ==
    /\ step[r] = "writing" /\ request[r] = "none"
    /\ Await(r, "put")
    /\ UNCHANGED <<sink, step, failure, dest, reads, refused, sent, answer, stored, late>>

Store(p, f, r) == stored' = [stored EXCEPT ![p][f] = r]

\* The store has it; after the last one the write is over.
Acknowledge(r) ==
    /\ request[r] = "put"
    /\ Store(dest[r], Turn(r), r)
    /\ sent' = [sent EXCEPT ![r] = @ + 1]
    /\ Await(r, "none")
    /\ IF sent[r] + 1 < Len(Order(r)) THEN UNCHANGED step
       ELSE To(r, IF dest[r] = r THEN "holding" ELSE "done")
    /\ UNCHANGED <<sink, failure, dest, reads, refused, answer, late>>

Refuse(r) ==
    /\ request[r] = "put" /\ dest[r] \in Prefixes
    /\ Fail(r, "write")
    /\ UNCHANGED <<sink, dest, reads, refused, sent, answer, stored, late>>

\* A put nobody waits for: the store may have it, may yet get it, or never will.
Abandoned(r) ==
    IF request[r] = "put" /\ dest[r] \in Prefixes THEN {<<r, dest[r], Turn(r)>>} ELSE {}

\* Mutant: a put has no deadline.
SilentForever(r) ==
    /\ request[r] = "head" /\ EngineFailure(r)
    /\ UNCHANGED <<sink, dest, reads, refused, sent, answer, stored, late>>

\* bounded: the request's deadline fires, whether or not the store got it.
Silent(r) ==
    /\ \/ request[r] = "put" /\ dest[r] \in Prefixes /\ Fail(r, "write")
       \/ request[r] = "head" /\ EngineFailure(r)
    /\ late' = late \cup Abandoned(r)
    /\ UNCHANGED <<sink, dest, reads, refused, sent, answer, stored>>

\* held: every file of the memory, and the run answers with them.
Hold(r) ==
    /\ step[r] = "holding"
    /\ answer' = [answer EXCEPT ![r] = {f \in Files : stored[r][f] # None}]
    /\ To(r, "done")
    /\ UNCHANGED <<sink, failure, dest, request, reads, refused, sent, stored, late>>

(***************************************************************************)
(* Around a run.                                                           *)
(***************************************************************************)

\* Mutant: the objects that are left are all put at once.
StopLate(r) ==
    /\ step[r] \notin {"idle"} \cup Ended
    /\ To(r, "stopped")
    /\ Await(r, "none")
    /\ late' = late \cup (IF step[r] = "writing" /\ dest[r] \in Prefixes
                            THEN {<<r, dest[r], Order(r)[i]>> : i \in sent[r] + 1 .. Len(Order(r))}
                            ELSE {})
    /\ UNCHANGED <<sink, failure, dest, reads, refused, sent, answer, stored>>

\* The signal aborts, the worker is terminated or dies, the tab is closed: the run is
\* dropped where it stands.
Stop(r) ==
    /\ step[r] \notin {"idle"} \cup Ended
    /\ To(r, "stopped")
    /\ Await(r, "none")
    /\ late' = late \cup Abandoned(r)
    /\ UNCHANGED <<sink, failure, dest, reads, refused, sent, answer, stored>>

\* The store carries out a put nobody waits for.
Land(r, p, f) ==
    /\ <<r, p, f>> \in late
    /\ late' = late \ {<<r, p, f>>}
    /\ Store(p, f, r)
    /\ UNCHANGED run

Work(r) ==
    \/ Begin(r) \/ NotVended(r) \/ Read(r) \/ OverBudget(r) \/ EngineFails(r)
    \/ Execute(r) \/ LayOut(r) \/ Put(r) \/ Silent(r) \/ Hold(r)

Answered(r) ==
    \/ \E prefixes \in SUBSET Prefixes : Vended(r, prefixes)
    \/ Route(r) \/ HeadArrives(r) \/ Acknowledge(r) \/ Refuse(r)

Body(r) == BodyArrives(r) \/ (request[r] = "body" /\ Breaks(r))

Next ==
    \/ \E r \in Runs : Work(r) \/ Answered(r) \/ BodyArrives(r) \/ Breaks(r) \/ Stop(r)
    \/ \E r \in Runs, p \in Prefixes, f \in Files : Land(r, p, f)

Spec == Init /\ [][Next]_vars

\* The code goes on by itself, its deadlines included, and the in-memory store answers.
\* No store of a host's need answer, but one that began a body is taken to end it:
\* nothing in the code bounds that wait.
WriteFairness ==
    \A r \in Runs :
        /\ WF_vars(Work(r))
        /\ WF_vars(Body(r))
        /\ WF_vars(dest[r] = r /\ Acknowledge(r))

FairSpec == Spec /\ WriteFairness

(***************************************************************************)
(* Properties.                                                             *)
(***************************************************************************)

\* The commit: a reader that finds fossil.graph.yml under a prefix finds every object it
\* lists (write.rs, and the format), whatever runs wrote there, however they ended and
\* whenever the store carried their puts out.
ListedPresent ==
    \A p \in Places : stored[p][Document] # None =>
        \A f \in Listed(stored[p][Document]) : stored[p][f] # None

\* A run that is refused before its writer puts anything leaves nothing, now or later: no
\* failure but write/failed has an object behind it (write's and execute's # Errors).
RefusedWritesNothing ==
    \A r \in Runs : step[r] = "failed" /\ failure[r] # "write" =>
        /\ \A p \in Places, f \in Files : stored[p][f] # r
        /\ \A p \in Prefixes, f \in Files : <<r, p, f>> \notin late

\* A run that ended before its document's turn leaves no document, now or later: what may
\* still be carried out is the one put that was out.
EarlyEndNoGraph ==
    \A r \in Runs : sent[r] + 1 < Len(Order(r)) =>
        \A p \in Places :
            /\ stored[p][Document] # r
            /\ p \in Prefixes => <<r, p, Document>> \notin late

\* A run that answers has committed: its last object is where it wrote, and what an
\* in-memory run hands back is every file of its graph.
DoneIsCommitted ==
    \A r \in Runs : step[r] = "done" =>
        /\ stored[dest[r]][Order(r)[Len(Order(r))]] # None
        /\ dest[r] = r => answer[r] = Listed(r)

\* How a run ended tells what it left: a refusal nothing, an early end no graph, an answer all
\* of one.
EndsAsTold == RefusedWritesNothing /\ EarlyEndNoGraph /\ DoneIsCommitted

\* Every run ends, though no host and no store need answer it: each wait has a deadline
\* but the one on a body that began (store.rs's bounded).
RunSettles == \A r \in Runs : step[r] # "idle" ~> step[r] \in Ended

\* The bindings' promise, that a stopped run leaves no graph because fossil.graph.yml is
\* written last.
StoppedLeavesNoGraph ==
    \A r \in Runs : step[r] = "stopped" => \A p \in Prefixes : stored[p][Document] # r
=============================================================================
