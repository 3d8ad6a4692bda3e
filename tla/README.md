# fossil, specified

fossil is a typed mapping language. A program names sources, types and mappings; the compiler lowers it
to an operator algebra; the executor runs that algebra on DataFusion inside WebAssembly and writes a
GraphAr graph or N-Triples to object storage. The editor runs the same compiler in the page.

Two kinds of difficulty are modelled here. Around the compiler a page, a worker, a host, a SQL engine
and a store talk through promises, with deadlines, aborts, renewals and partial writes. Inside it one
meaning is worked out several times over: the checker and the planner follow a pipeline's columns by rules of
their own, three readers decode shapes, two sinks say a graph as RDF; each pair must agree.

This directory holds TLA+ models of those parts, TLC runs over small instances, and TLAPS proofs for
every instance.

```
tlc -workers 2 -config GraphWrite.cfg MCGraphWrite  # a run
tlapm GraphWriteProofs.tla                           # the proofs of a component
```

## The system

| Part | State it keeps | Operations | Talks to | Hard because |
| --- | --- | --- | --- | --- |
| `packages/executor` run protocol | calls in flight, settled, started; the worker's waits | drive, serve, ask, answer, abort | page ↔ worker by messages, host by promises | two threads, aborts, worker death, two sets of deadlines |
| `packages/storage` mounts | entries counted by holders, timers, the engine's secrets | mount, files, close, renew | host for credentials, engine by SQL | overlapping calls on one table across awaits |
| `crates/fossil-exec` executor | the run's progress, the budget's refusal | execute | storage, DataFusion, sinks | several runs, stops and failures between two puts |
| `crates/fossil-exec` tables, plans, sources | none but the run's tables | execute_graph, read_source, render | DataFusion | merges by identity, order of ids, rules over the engine's plan |
| `crates/fossil-sinks` writers | objects put so far | write (GraphAr, N-Triples) | object store | the last put is the commit; two sinks, one graph |
| `crates/fossil-storage` | routes, granted scopes, current credentials | grant, route, public, at, get, put, renew | host, object stores | deadline on each request, renewal under a lock |
| `fossil-exec::memory` budget | bytes reserved, first refusal | try_grow, grow, shrink | DataFusion | arithmetic at the limit, no lock around the count |
| `bindings/executor`, `packages/executor` here/load | one executor behind a RefCell, one boot promise | register…, run, boot | page or worker | a registration while a run waits (the boot promise is not modelled) |
| `packages/storage` documents, `packages/wasm` program | the text, unread documents | resolveDocuments, update, diagnostics, describe, profileInputs | workspace, host, engine | overlapping settles, a fixpoint over what is read |
| `crates/fossil-profile` | phase, queue, pending asks | next_ask, answer, fail | engine through the page | answers in any order |
| `fossil-syntax`, `-hir`, `-mir`, `-shapes`, `-graph-schema` | none but memo tables | pure queries | each other | recoveries, and one fact computed in several places |
| `fossil-base`, `bindings/editor` workspace | buffers, the registry of documents, connections, descriptions | open, update, close, register…, missingDocuments, inputs | compiler queries, the host | answers that come after the text or the connections changed |
| `fossil-ide` | none | completion, hover, tokens | compiler queries | not modelled |
| `packages/codemirror-fossil`, `packages/types`, `crates/xtask` | presentation, types, tooling | – | – | not modelled |

What makes each part correct: the run protocol tells its caller what happened, once, and leaves nothing
behind; a mount's credentials are in the engine while somebody reads by them and not after, and are
renewed or reported; a graph document never precedes what it lists; a refused run writes nothing; a run reads one program; a
grant is asked for once and routes what it covers; every outside wait ends; a program means what its
text says, however laid out; what the checker accepts can be planned, run and written as it was typed;
both sinks publish one graph. `PROJECT.json` lists the hazards at the lines where they bite, with the
properties that would catch each.

## Modules

| Module | Models |
| --- | --- |
| `Mount` | `packages/storage/src/mount.ts` |
| `RunOutcome` | what a run in a worker promises its caller (abstract) |
| `RunProtocol` | `packages/executor/src/protocol.ts`, `run.ts`, `worker.ts`, `packages/types/src/deadline.ts` |
| `Renewal` | `Vended` and `bounded` of `fossil-storage/src/store.rs`, `JsHost` of `js.rs`, on wasm32 |
| `Storage` | grants, routes and the requests they serve, `fossil-storage/src/store.rs` |
| `GraphWrite` | `Executor::execute` and the writers of `fossil-sinks`, over `fossil-storage`'s requests |
| `Tables` | `execute_graph`: mappings merged into vertex and edge tables, the GraphAr layout, the N-Triples of it |
| `Terms` | what a column means as RDF: `layout.rs`, `ntriples.rs`, `fossil-mir/src/describe.rs` |
| `Relations` | a source pipeline as checked (`infer.rs`), lowered to operators (mir `lower.rs`, `op.rs`) and planned (`plan.rs`, `schema.rs`) |
| `Session` | the two rules on the physical plan, `fossil-exec/src/session.rs`, `memory.rs` |
| `Budget` | the memory pool, `fossil-exec/src/memory.rs` |
| `Sources` | `read_source`, CSV headers and zeros, the pivot of an RDF graph, `fossil-exec/src/lib.rs`, `rdf.rs` |
| `Templates` | the catalogue's SQL rows, `render_expr_template` |
| `Profiler`, `Describe` | `fossil-profile`, and `describe.ts`/`profile.ts` over mounts |
| `Program` | `program.ts`, `documents.ts`, `objects.ts` |
| `Workspace` | `fossil-base`'s database, and its two hosts: `bindings/editor` and `bindings/executor` |
| `Trees`, `Grammar` | the layout pass and the parser; the published grammar they are held to is in `MCSyntax` |
| `Literals` | strings, holes, escapes and names, character by character |
| `Names`, `Lowering` | `def_map.rs` and the lowering to HIR; when what was lowered says what was written is in `MCLowering` |
| `Bodies` | a mapping's body as checked, as lowered to MIR, and as the engine writes it |
| `Checks` | asserts, annotations and rejections; everything said of a mapping against its shape |
| `Shapes` | the ShEx, SHACL and declared-type readers and the graph schema drawn from them |
| `MC…` | small instances, where the `.cfg` alone does not give them; `MCExecutor`, `MCCompiler`, `MCEditor`, `MCRun` and `MCPage` put several parts side by side |
| `…Proofs` | theorems and proofs (see Proofs) |

A definition with a comment "Mutant:" is not part of a specification: it is a plausible bug, kept to show
that the property beside it in `PROJECT.json` notices it.

The umbrella modules run parts that do not interact in one behaviour set: a behaviour is of one part, the variables of
the others stand still. What does interact is composed where it meets: `Describe` runs `Profiler`'s plan over
mounts, `Storage` states what a run and a batch of reads make of one table of routes, `GraphWrite` has the
requests of `Renewal` from a run's side, `Bodies` is checked, lowered and executed in one module,
`RunProtocol` implements `RunOutcome`.

### Mount

The page is one thread, so a step is the code between two awaits. `pc[m]` says where one call of
`mount`, and later of `close`, stands; `got` and `rel` are how far its loops over the vended
credentials went. `table` and `held` are the code's table and its `Held` records. `table` loses an entry
before its release's awaits, as the code does, and an entry lives on for the release, timer or renewal that still
refers to it. `queue` holds statements issued to the engine and not answered, in order; `granted`
is what the engine holds under each name. `Take` is one turn of `mount`'s loop, `Release` one stretch of
`release`'s loop up to an await or its end, `Uninstall` what follows the wait for `entry.ready`.
`Fire`, `Renewed`, `NotRenewed` are `renew`. Time is abstracted to a credential that is fresh, due,
expired or for ever.

### RunProtocol and RunOutcome

Two halves, two FIFO channels, and a worker's `error` event that comes beside them. `handler[i]` is
where the page's handler of an ask stands (its await, or after it), `calls` the live AbortControllers,
`waiting` the worker's map, `wait[i]` the worker's own deadline. `Settle` is `settle`, all of it. A
request or an answer that does not survive the structured clone is modelled: the first rejects the
promise with everything left listening, the second goes back as a refusal. `RunOutcome` states the
promise with no messages: it ends once, no call is in flight after that, none is started. The
refinement maps its `inFlight` to the handlers that are asking and its `spent` to those ever opened.

### GraphWrite

`step[r]` is where `execute` stands, `request[r]` the one request of it that is out. `Order(r)` is the
order in which the writers put objects. A table's several objects (its groups' chunks, its counts, its
offsets) stand as one: they are put one after another, between the same neighbours, by one call. `stored` is the objects of each
prefix and of each run's memory, with the run that wrote them. A put may be acknowledged,
refused, unanswered past its deadline, or dropped with its run; in the last two cases it joins `late`
and `Land` may carry it out at any later time, or never.

Taken from outside `src/`: `graphar_parquet::write_info` puts the type documents before
the graph document (`write.rs` and its documentation rely on it), and a store may carry out a request
whose client is gone.

### Renewal

One store and the requests that share its credential. `stage[r]` is where a request stands: waiting for
the lock, asking the host with the lock held, or sent. `life` is the credential's, read when the code reads
the clock: before the host is asked, and again once its answer has failed. `call[r]` outlives its request, since the
host is owned by a task of its own (`js.rs:55-68`) and is not told when the asker goes. REQUEST and
HOST_MS are the same 30 s, so timers fire in the order they were set and the module needs a queue of
them, not a clock; `Unbounded` is the requests `bounded` is not around (a listing, a deletion, the
abort of an upload). Taken from the host's contract: what it vends has not expired. Left out: the native
build, where `bounded` is its argument. `GraphWrite` has the same requests from a run's side, with the
renewal inside one step of each.

### Storage

Locations and prefixes are sequences of segments, the authority first. `memo` is the scopes granted,
`routes` the servers by prefix; `Grant` asks the host, routes each credential and memoizes at the end, a bad one
leaving the earlier prefixes routed. `Covering` is the longest routed prefix over a location. A client is a batch of
reads or a run, which grants its inputs and its target and then reads and puts. Nothing is assumed of what a host vends:
prefixes may nest, lie beside what was asked about, or lie beneath the run's own. `RoutesStay` is what then moves and what
never does; `WritesReachDest` is the claim of store.rs:287-289, that a prefix vended for writing covers everything beneath it, with
the one case it fails in by name (`VendedBeside`): a prefix beneath it that a host vended about a source that is not beneath it.

### Tables and Terms

`Tables` is a program's mappings, grown a mapping and a row at a time, so that every program is a state of it, and what a
run makes of one: the merge of mappings of one type by subject (values by their least, a property of one value refused when
two differ), the dense ids, the edges by a second plan over the tables, what is dropped and counted, the layout's conditions
on subjects and sets, and both writers' image of the result. A running sum or a sort is said by counting: the first id of a
type is the rows of the types opened before it, a subject's place the subjects before it. `Said` is what the rows say,
read off the program and no table, and `Causes` why a program has no graph, read off its rows too.

`Terms` is one graph that grows a value at a time, of one column or of any of its tables: how Arrow
types are held, converted or refused by GraphAr, what the mapping beside the tables notes and declares, and what
the N-Triples sink writes instead; and A2, the graphs a mapping may be of.

### Relations, Session, Sources, Templates, Budget

`Relations` reads a pipeline of verbs twice. The checker (`Scope`) keeps rows by binding. The lowering
(`LowerSourceChain`) makes a list of operators that name their inputs by index, with the names its columns are addressed by;
the planner (`PlanRelation`) builds the frame of each operator in the evaluation order. `AcceptedReads` asks that an accepted
pipeline over described sources is planned, but for one that totals a text (`TotalsText`; the run `text_summed`), which never is, and that its columns are those the checker answers, by the names `SchemaOf` has for
them; and of every accepted one that no join of it is a filter over a product, that no operator is lowered that is not
needed, and that it is derived from the files it reaches. `Session` takes the engine's optimized plan through `OneTask` and `Compact` and asks
what a plan yields and what it holds. `Sources` is a CSV's header names, which columns keep their zeros, what
is at a location, and the pivot of an RDF graph. `Templates` is the reader of catalogue rows.
`Budget` is a count updated without a lock beside a refusal kept under one; `upto` is a ghost, the sums of the first
reservations.

### Profiler, Describe, Program

`Profiler` hands out the asks of a phase together and takes answers in any order, refused or
empty. `Describe` mounts the files of one profile side by side, runs the profiler over them and closes every
mount on every way out. `Program` is the settles of overlapping calls over a text that names documents that
name others, each a loop with an await per turn.

### Workspace

One database and one host: an editor, which opens, updates and closes buffers, or an executor, which is given its program once.
`buffers` is the files by handle, and a closed handle is spent (`workspace.rs`); `registry` is what a program reads at a key: a
buffer, whose text is read when it is asked for, or the text of a document a host read. A reference is what a program writes: a
name beside it, a path through a connection, or a location. `Location` is where it is read, by the connections; `RegistryKey` is what
it is held under, which no connection is part of. `AskMissing` is the host's question, and `told`, `failed` and `asked` are
what the host did with the answer: what it is still reading, what it could not, and the text it asked about; the code does not
keep them, its callers do (`documents.ts`, and `Program` here). `Run`, `Borrow` and `EndRun` are the executor's `run`: it opens
its storage, borrows, and holds the borrow across its awaits, which is `Busy`; every call that writes is
refused then. `seen` is a ghost, what the run read as it began. `Init` is an editor with nothing open or an executor whose
program no registry holds (`FossilExecutor::new` registers none). What is recomputed when an input changes is salsa's, and is taken as right.

### The compiler

`Grammar` is the pass that inserts INDENT and DEDENT and the recursive-descent parser with its recoveries,
one turn of a loop a step so that its termination is a question of a bound on turns. `MCSyntax` has the published grammar as a
set of trees. `Literals` has strings and names as sequences of characters. `Names` and `Lowering` take trees to
what the checker reads, and how a run opens a source (`ResolveSource`: by which reader, with what delimiter); `MCLowering`
says when that is what was written, or by the code's own comments is for the run to refuse. `Bodies` follows a value through checker, lowering, rendering and
storage: an expression is a record whose `form` says which. A property is lowered with its edges resolved;
a subject with its edges as they are, and what of it differs by row is asserted to be there. `IdentityForm` is what two mappings of one type are compared by;
it drops which binding a column is of, so `OneIdentity` is asked of subjects that name no column under two bindings. The lowering
works a value's type out again where the checker has it already (`operator_ty`, `field_ty`), and not by the same rules. `WrittenAsMeant` asks
that what is held is of the declared type, and leaves out by name (`Mistyped`) the values the two are known to type
differently, in a slot no shape narrows: an operator over a conditional whose branches are of two types (the run
`lowered_type`), and one over a column whose name an earlier row has with another type (no run of its own). A conditional that is the whole value is not among
them: it is declared a String, which its value reads back from. Rows nobody described are left out too. `Shapes` reads documents as their parsers
return them. `Checks` folds asserts over constants with the code's own arithmetic (i64 with its checked
operations, floats with their zeros and infinities, texts) and collects all a mapping is told. What is worked out by one of these
readers and again by another is compared: that is what most of their properties say.

## Runs

| Run | Instance | Shows |
| --- | --- | --- |
| `mount_race` | two mounts of one prefix | a close drops the secret of a mount opened meanwhile |
| `run` | two host calls, with and without host, request that clones or not; three requests on one store; two mounts, one key, two hosts | what the caller is told is true and is over (`SettledTrue`), nothing is posted late, each ask is in one place, `RunOutcome` is implemented and a run ends (`AllEnds`); a silent host is unheard, no expired credential is sent, and nobody waits for ever (`WaitsEnd`, `MountSettles`) |
| `graph_write` | two runs, two prefixes, two types, one read each | the commit, what refusals, early ends and answers leave (`EndsAsTold`), and that runs end |
| `graph_stop` | one run | a stop during the last put leaves a graph |
| `renewal_silent` | three requests | a silent host costs a request whose credential still works |
| `editor` | three calls over two texts and two documents; two files behind two connections; a database of two buffers or of one run | what is missing is said, the profile is what the files hold, every mount is given back, every call ends; a host is told what is missing and of each source (`ToldTrue`), a run reads one program, what is held stays held and a handle its file's (`RegistryKept`) |
| `executor` | seven parts, see below | writes under their prefix, routes that stay, one image of two sinks, refusals with a cause, plans for what was accepted, limits kept, sources read as written, terms that mean one thing |
| `open_world` | two types, one unwritten | an edge whose destination no mapping writes fails the run |
| `text_summed` | two pipelines of a file with a text and two numbers | a sum over a text is accepted and refused when it is planned |
| `page` | six parts of the compiler, see below; two mounts, three keys, four hosts, two credentials an entry | programs, literals, shapes and bodies mean what was written; one identity is one node; recoveries end; checks decide as the run would; and `HeldIsHeld` (`HoldersExact`, `Accounted`), `SecretUntilRelease`, `RenewalReaches` (`RenewalLive`, `EngineKeepsUp`) |
| `lowered_type` | bodies of `page` | an operator over a conditional is declared as its first branch and holds the other |
| `reference_edge` | SHACL properties | a reference with a node kind is an edge to the graph and an IRI to the checker |

`mount_race`, `graph_stop`, `renewal_silent`, `open_world`, `text_summed`, `lowered_type` and `reference_edge` are expected to be
violated: each states what a comment or document of the repository says, and TLC's counterexample is what
the code does instead. The findings of `PROJECT.json` quote both.

**Why these bounds.**

- `Mount`: everything is between the mounts of one key, so two mounts give every pair of overlapping
  phases; a mount of two keys gives a loop with an await in the middle, whose second half fails after the first
  succeeded; two Azure prefixes over one file give two entries under one name. Two credentials an entry are one renewal,
  which fails and succeeds in every order with expiry.
- `RunProtocol`: handlers of different asks share only `calls` and the channels; two asks in flight are
  enough to mix them up, and the mutant that does so is caught.
- `GraphWrite`: two runs race over one prefix, with the tables of one not those of the other; one read gives head, body
  and every way they end.
- `Renewal`: a request meets others only at the lock: one holds it, one waits, one without a deadline is in either place.
- `Workspace` (in `Editor`): two buffers are a program and the document it names, opened in either order and again; one connection, which has a
  relative base or none, moves a reference in and out of the program's directory; two texts differ in what they name and read one source
  twice; what is read is compared key by key, so one run and one document to replace are enough.
- `Editor`: a settle overlaps at most two others that differ in what they read; one edit changes the text under
  them. Two files of two columns give every inclusion, key and refusal.
- `Executor`: storage, locations three segments deep, hosts that vend nested, neighbouring and several prefixes; tables, at most five mappings and rows, two
  vertices, two IRIs, one relative IRI and NULL; relations, two pipelines of three verbs together, at most two of them in the
  second, joins under an alias with three conditions, and groupings that take the least or the sum of a text, a
  number or an earlier grouping's column; session, plans
  of six operators over two scans; budget, two reservations against a limit of four in a word of six; sources,
  headers of five names, three records of two fields, graphs of four triples; templates, rows of depth
  two and one-atom edits; terms, thirteen Arrow types, sets of two values, an int32 that ends at 4 and an int64 at
  7, two types of three columns and two relations with at most three entries.
- The compiler, in `page`: bodies, one property (alone or beside a required one) of depth three, nine slots, four rows one of them all
  NULL; syntax, expressions of depth three, pairs of six kinds of item, four layouts, every one-token loss,
  replacement and addition in the fragile programs; literals, texts of three characters; lowering, some 10 700
  programs; shapes, some 2 800 documents; checks, integers of −8..7, conditions of depth three over one of
  four fields.

Numbers are eighths in `Bodies` and words of four bits in `Checks`: the widths are parameters, and each
edge (overflow, the largest, zero, a remainder by zero) is met.

**Fairness.** Continuations and timers of a page run (`WF` on the steps of the code), and every wait
with a deadline ends because its timer is such a step. No host, caller or network is assumed to do
anything: `Fairness` in `Mount` makes the engine answer each statement (types/engine.ts), and
`WriteFairness` in `GraphWrite` takes a body that has begun to arrive or to break, since nothing in the code
bounds it (`store.rs:384`). `ProtocolFairness` is the page's part of a run, `WorkerFair` the worker's event loop, which a
computation that never yields would starve; the properties that need it say so. `RenewalFairness` makes timers
fire and polls a request the lock's release wakes; neither the host nor the store is assumed to answer. In
`Describe` the host's `etag` and `engine.query` are assumed to answer or fail: `describe.ts` puts no deadline on them.

Deadlock is not checked: a closed mount, a settled run and a finished write have nothing left to do, and a pure
algorithm is over when it has answered.

## Proofs

The constants' assumptions are named in the modules (`ProtocolAssumption`, `WriteAssumption`,
`MountAssumption`, `RenewalAssumption`, …) and evaluated by TLC on each run. The proofs hold for any number of host calls, runs,
prefixes, types, tables, requests, reservations, hosts and clients.

**`RunProtocolProofs`.** None of the safety properties is inductive as it stands: that a
result was seen only of a runner that ended needs what is in the channels. The invariant of `Invariance`
adds to the types what each message in flight implies (a `done` only of a runner that is done, an ask
only of a call that was made, no `run` twice), what each end has seen, and what settled means for
the worker and the calls. `TypesHold` and `SettlesTrue` (`OutcomeIsTrue`, `SettlesClean`) follow from it;
`AsksAreSomewhere` needs a second one, `PlaceInv`: of each call the worker waits for, exactly one of three is so,
that its ask is in the one channel, that the page's handler has it, or that a reply is in the other; a reply in a
channel is the only one of its id, and is of a handler that is over. `NeverPostsLate` is an action property by cases on the step; `ImplementsRunOutcome` maps each
step to a call, a return, an end or a stutter of `RunOutcome`.

**`GraphWriteProofs`.** `IInv` is the types, `Standing(r)` for each run (what `step`, `request`,
`dest`, `failure` and `sent` say of each other) and four facts on the store: whatever was put is in
some run's order among what it had sent; whatever may still land is the object whose turn it was when
the run was dropped; what was acknowledged is there for good, whoever wrote over it; and a memory holds
exactly its own run's objects. The document's being last in `Order` (`DocumentIsLast`) then
gives `DocumentCommits`: a document in the store was sent when all the rest had been
acknowledged, and objects are never removed, only replaced. `RunsEndAsTold` is its three parts, each from the invariant.

**`RenewalProofs`.** `SilenceUnheard` rests on the order in which a request's two timers were set:
`IInv` adds to the types that a request which has not got the lock has no timer of the host's in the
queue (`Unasked`), and that from its start until it is sent its own deadline is in the queue, ahead of the host's
(`OwnFirst`). A firing moves the queue up by one; if it was the request's own, the request is over.

**`ExecutorProofs`.** *Storage*: `StorageTypes`, then `ServersStay` (the action property `RoutesStay`) and
`WritesReachTheirPrefix` (`WritesReachDest`), whatever the hosts vend. Routes are only added (`RouteExtends`), and only when what was
asked about has no cover. A location that was served is then served as before, or by a longer prefix that was vended
beside what was asked about and is not over it (`ServedNow`): had it been over it, what served the location, being no longer, would
have been over it too. `WritesReachDest` needs beside the types that a run's destination is routed (`DestRouted`), and follows step by
step: a target routed later can come between only by such a prefix, which is `VendedBeside`.

*Budget*: the pool's count is a sum over reservations, and sums are out of reach by induction
over data; the model carries the sums of the first reservations as a ghost (`upto`), each step moves a suffix of
them by one amount, and the invariant relates neighbours. `BudgetCounts` is `BudgetCounted`: the count while what is held
fits a word, and that whatever is refused was due. `BudgetIsKept` is that a request which may be refused never passes the
limit and that the first refusal is kept.

*Tables*: `SinksSayTheRows` (`TablesSpec => []SameImage`) and `RunTellsTrue` (`TablesSpec => []RowsToldTrue`) hold of any
number of mappings, types, columns and rows. Every state is a program (`ProgramsGrow`), so the work is in what is true of one, and none of it is
an induction over its rows, since a running sum was said by counting. The subjects of a type are finite and strictly ordered, NULL last; the place of
each, how many come before it, is one to one onto 0 .. n − 1 (`PlacesAreIndices`, by the least place nobody has). The types are
ordered by when they were opened (`OpenedOrders`); the ids of one end before those of the next begin (`RangesApart`), so an id has one owner
(`OwnerIs`) and one subject. Then what each table holds is read back to the rows that made it (`RowIs`, `ValuesAre`, `PairsAre`), and the triples
(`TriplesAreSaid`) and what a reader gets of the layout (`ImageIsSaid`) both equal `Said`. A refusal is shown equivalent to its
cause, one at a time (`TwoValuesIs`, `OutgrownIs`, `UnwrittenIs`, `TwoEndsIs`, `LayoutAsks`), which gives
`EveryRefusalHasCause`: no program is refused without a cause its rows show, none with a cause passes. A row counted as dropped
is one that names no vertex (`EveryDropIsDangling`). `TablesAssumption` asks that subjects and values stand for places in an order (they are integers,
NULL is none) and that the rows enumerated have the shape of their mapping; nothing bounds how many there are.

**`MountProofs`.** `HeldIsHeld`, `SecretUntilRelease` and `RenewalReaches` all speak of the entry table and
of the engine, which meet only through statements that are on their way; what makes them inductive is what a
statement in `queue` implies at each place of it. `Inv` has five layers, each kept by every step given the ones
before it. `Core` is the types and the books: a key is in the table exactly while a mount holds it, its
entry counts those mounts, and an entry being taken out is out of the table and one release's. `Mail` says of each
statement what it is for: an install's entry is still pending, a renewal's is in the middle of it,
no entry has two. `Backing` is `Accounted` made inductive: whatever the engine holds or a statement brings
belongs to an entry somebody holds or will take out, or a later statement takes the name out. `Ready` and `Renewals`
replay the queue for an open mount's secret and for a credential that ran out. `MountAssumption` asks
that two keys share a name only if both are lent (`mount.ts` names a secret after its prefix, a file after its
account), that a host vends one mount no key twice, and that no entry and no grant is `None`. The layers were
model-checked on small instances before they were proved.

**`EditorProofs`.** Of a program (`Program`), `MissingIsSaid` speaks of a call that has settled, while other calls go on
registering and editing: `ProgramInv` adds that what a call has attempted is registered, was tried in
vain or is in its batch, and that a call whose loop returned tried all that is missing (`Traced`); that of whichever
settles last is then what is unread, and an edit, between events, finds no call settled (`Quiet`). Of a profile (`Describe` over `Profiler`), `DescribeInv` has the plan's part and
the reader's: what is pending is of the phase (`PlanTypes`), a count is its rows' (`Truthful`), a
source is described, failed or awaited (`Described`), an inclusion is there once its ask was answered and held
(`Found`), a plan of types asks nothing else (`Shallow`); what the plan has before it is made (`Planned`), that a source is read or has its
problem unless everything failed (`Answering`), and that the end leaves no mount (`AllSettled`). `ProfilesAreExact` then
rests on one fact of sets, that as many values as rows, none of them null, is a key
(`TrueKey`): a map onto as many as it comes from is one to one. The assumptions are `ProgramAssumption`, `ProfilerAssumption` (tables are sequences of rows as
long as their types) and `DescribeAssumption` (the public and the local way are no connection). Both invariants were
model-checked on the instance of `Editor.cfg` before they were proved.

**`WorkspaceProofs`.** `MissingIsTold` is not inductive: a buffer may be edited away from the text its host asked about and back to it, and by
then the connections are others. `AskedIsTold` speaks of the text asked about instead, whatever the buffer holds, and it stands on two facts
each step is shown to keep: a key is made of no connection (`KeyOfNoConnection`), and what is held stays held (`NeverMissingAgain`). `RunsOfExecutors` says that only an executor runs, so that the
borrow covers every call that could change what a run reads; `SourcesAreAnsweredOnce` takes the least binding that reads a
source. `ToldIsTrue` is the two together; `RegistryIsKept` adds `OnlyAReadReplaces` and `HandlesStay`,
by cases on the step. `WorkspaceAssumption` asks only that the
absence of a reference, of a text and of an entry is none of them. `IInv` was model-checked before it was proved.

**`TermsProofs`.** `MeaningIsKept` (`MeaningSpec => []MeaningKept`) keeps two facts of the graph as it grows, `ColumnOf` of a column and `TablesOf`
of tables, and cites a theorem for each. `GraphsReadBack` takes any schema and tables in which a subject is
of one type (`TablesOf`, A1) and gets back from the triples, where A2 holds, each type's subjects, each column's values and each relation's
pairs: a triple of a predicate and a subject can only be of one column or relation, since the subject gives its
type and A2 then gives the column. `TablesOf` also asks that no predicate is `rdf:type`, which nothing in
`admissible` refuses; a column of that predicate is outside the theorem. `SinksAgree` takes any column of a type the
compiler gives (`ColumnOf`): a value that is stored is kept as its text but for floats, zoned instants and bytes (`ElementsAreKept`), a literal has one datatype in both
(`DatatypesAgree`), and a set that was not refused tells its values apart (`ToldApart`). `NothingIsNoTerm` says that
what stands for no term is none. `MeaningAssumption` asks that the empty graphs a behaviour starts from are graphs of tables and that an
array's values are of its type.

Only model-checked: liveness (`AllEnds`, `RunSettles`, `CredentialsSettle`, `EditorSettles`, `ParserAnswers`' end), which is out of
the prover's reach, as are `ENABLED` and induction over data; and what the recursive operators of `Relations`, `Session`, `Sources`, `Templates`,
`Trees`, `Bodies`, `Checks`, `Grammar`, `Literals`, `Lowering` and `Shapes` compute, which no theorem may reach: `AcceptedReads`,
`PlanKept`, `ReadAsWritten` and all that `MCCompiler` checks. They read trees (expressions, plans, types, tokens), and a claim about
every tree is an induction on it. The invariants of `Tables`, `Terms` and `Budget` are checked as part of `MCExecutor`, whose other parts
are recursive, and proved of those modules' own specifications.

## What the models showed besides

Each of these was met while a definition was translated or a property first failed. They are not findings of a
run; where a property would state the stricter reading, the property says the exception by name.

**Text.** Comparisons chain through `and`/`or` without a word (expr.rs:80-84 and grammar.bnf say
non-associative); a conditional is taken as a then-branch; a missing mapping body before a name or the end is silent in
the parser (MIR reports `MissingSubject`); `from` with nothing after it and a ternary without `:` are silent
there too; a DEDENT eaten by an expected `)` lets a body swallow what follows; `}` inside a nested string
ends a hole early, against lexer.rs:239-246; a string may span lines; a literal's ESCAPE is never resolved in
HIR (lower.rs 2180-2186).

**Lowering.** Unclaimed named arguments of a verb and unknown arguments of a source call are dropped;
`from A + B` and `from (A.where(…))` read `A`; a second source or mapping of one name is not refused; an IRI
introduced twice is checked against the first in written order and run against declarations first
(`CheckedIsAlwaysRun` in `MCLowering`, not run); a refused document nobody uses refuses the run unsaid (`RefusedIsSaid`).

**Shapes.** ShExJ `max: -1` without `min` reads as max 0; bounds inside an option's or sequence's argument are dropped; a
disjunction of a reference and a datatype keeps the reference alone; several `sh:class` are read as a union; a group's
cardinality, EXTRA and inverse are ignored; `min` alone means exactly `min`.

**Checks.** The suggested split of a disjunction does not compile (`SplitCompilesOf` in `Checks`, not run; check.rs:222-225
says it has to); a disjunction is refused as an error that does not taint; no code of the run reads an assert, though
asserts.rs:20-24 leaves the rest to it; two fields of one predicate are checked against the first's type; an assert
with a field of refused type in scope goes unchecked.

**Bodies.** `@subject = Person(Row.x)` is accepted and reaches MIR unresolved; `c ? null : null` is written as the empty
text; aggregates in property position pass and fail at run; the expected type leaks into call
arguments and comparisons. A column whose name an earlier row has with another type is taken by the lowering for that row's
(mir lower.rs:206-213, 246-254; `OthersColumn`), so an operator over it may be declared as what it does not hold.

**Tables and relations.** An aggregate's column is asked for its name alone (infer.rs:475-477), so a sum or an average of a text is accepted (the
run `text_summed`), and the least of a text is typed a Float. A single relation over A or B keeps one object per table; dropped counts include rows that resolve
in the other table and NULL keys; two aggregations in one pipeline; bindings of one name twice are left out of
`Relations`. A union over a source nobody described never scopes its right side (infer.rs:384-387), so `P := C.union(P)` passes
the checker's guard against cycles and the lowering reports a bug of its own, where mir lower.rs:541-543 says the checker has
refused it; `AcceptedIsPlanned` says the exception as `Described(prog)`.

**Sources.** The pivot of an RDF graph is built from the mapping's output type, so a mapping whose output differs from the
source's shape reads NULL without a word (`PivotOfItsShape`, not run); a column used only inside a call is not pivoted; two
mappings of one RDF binding register a table twice.

**Storage.** store.rs:287-289 has a prefix vended for writing cover everything beneath it. It does not where a host
vended, about a source outside it, a prefix beneath it as well (`VendedBeside`): puts there go through the source's credential.

**Workspace.** A document read late takes the place of a buffer opened under its key meanwhile (`BufferIsTruth`, not run;
editor lib.rs:692-694 says the buffer is the truth), and no later edit reaches the programs that name it. A settle that was overtaken
by an edit answers of the text it began with (`UnreadIsMissing` in `Program`, not run).

**Terms.** The two sinks do not say one thing of every value (`SpeltTwice` names where): a float's shortest decimal
against its exact double; a zone kept by one; hexadecimal in capitals by one; and, where a shape declares no
datatype, a column stored as another type than its own has a string's or a double's datatype in the tables and its natural one in the triples. A text declared an IRI
that is none is written by GraphAr and refused by N-Triples. Two relations of one source, predicate and destination are
admitted by A2 and merged by the image.

**Limits.** The pool may undercount once a sum has passed the word (`past` in `Budget`); failure.mdx:52-66 says every
wait has a deadline, but the wait for the worker's `ready` has none, and page and worker hold one call to
equal deadlines.

## Not modelled

- Salsa's recomputation: what is read of the database is taken to follow its inputs.
- `fossil-ide`, the queries of the editor's binding, `codemirror-fossil`: pure queries and presentation.
- The boot promise of `here.ts`/`load.ts`.
- Formats and names of credentials; S3 and Azure clients; DataFusion, DuckDB, rudof, `rml`, `graphar`: external, modelled
  where `src/` relies on what they do, and mapped as external.
- The registry of problems and its generated copies, the catalogue generator, build and release tooling.
- Wording, spans, layout of messages, chunk sizes and prefixes of the written tables.

`components` in `PROJECT.json` says of each part what is modelled and what is not. Its `map` names whole
items, with the comments that document them.
