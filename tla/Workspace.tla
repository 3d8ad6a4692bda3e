------------------------------ MODULE Workspace ------------------------------
(***************************************************************************)
(* The database a compiler is asked through (fossil-base), and its two     *)
(* hosts: the editor's FossilWorkspace, which opens, updates and closes    *)
(* buffers, and FossilExecutor, which holds one program and runs it.  Both *)
(* take the connections, the documents and the descriptions of the sources *)
(* from whoever reads them, one call at a time, while the host's own reads *)
(* are under way.                                                          *)
(*                                                                         *)
(* A reference is what a program writes: a name beside it, a path through  *)
(* a connection, or a whole location.  What a text says, beyond the        *)
(* documents and the sources it names, is the compiler's (Names).          *)
(***************************************************************************)
EXTENDS Naturals, Sequences

CONSTANTS
    Nowhere,                \* the directory of a program that has none
    Aliases, Bases,     \* what @name expands to, of which
    Joined,                 \* some are relative themselves
    FileNames,
    Paths,                  \* the paths buffers are opened under
    Claimed,                \* those a provider's extension claims: documents, no programs
    FileTexts,              \* of a file: the documents its types name, and its sources
    ColumnLists, Problems,      \* what a source is described as
    Runs,
    MostOpened,             \* a bound on the buffers opened
    None

References == {<<"beside", n>> : n \in FileNames} \cup {<<"url", n>> : n \in FileNames}
                \cup {<<"at", c, n>> : c \in Aliases, n \in FileNames}

Files == [types : Seq(References),
          sources : Seq([uri : References \cup {None}, schema : References \cup {None}])]

\* Absence is no reference, no text, and nothing a key is read as.
ASSUME WorkspaceAssumption ==
    /\ FileTexts \subseteq Files
    /\ None \notin References /\ None \notin FileTexts
    /\ None \notin {"text"} \X FileTexts /\ None \notin {"buffer"} \X Nat

\* expand_alias: through the connection, when the map has it.
Expanded(known, r) ==
    IF r[1] = "at" /\ known[r[2]] # None THEN <<"under", known[r[2]], r[3]>> ELSE r

\* An alias nothing expands, a scheme and an absolute path stay as they are.
IsLocation(e) == e[1] \in {"at", "url"} \/ (e[1] = "under" /\ e[2] \notin Joined)

\* SourceAnchor::location: the program's directory wins.
Location(dir, known, r) ==
    LET e == Expanded(known, r) IN IF dir = Nowhere \/ IsLocation(e) THEN e ELSE <<"in", dir, e>>

NoConnections == [c \in Aliases |-> None]

\* program_dir
DirectoryOf(path) == IF path[1] = "in" THEN path[2] ELSE Nowhere

\* SourceAnchor::connection: whom a credential is asked of.
ConnectionOf(known, r) == IF r[1] = "at" /\ known[r[2]] # None THEN r[2] ELSE None

\* Mutant: the key follows the connections.
RegistryKeyMoved(path, known, r) == Location(DirectoryOf(path), known, r)

\* registry_key: whatever the connections are, it is anchored with none.
RegistryKey(path, known, r) == Location(DirectoryOf(path), NoConnections, r)

Keys == Paths \cup {RegistryKey(p, known, r) :
                        p \in Paths, known \in [Aliases -> Bases \cup {None}], r \in References}

SourcesOf(t) == {t.sources[i].uri : i \in DOMAIN t.sources} \ {None}

\* What the texts read: what a host describes.
SourcesNamed == UNION {SourcesOf(t) : t \in FileTexts}

Descriptions == [is : {"columns"}, of : ColumnLists] \cup [is : {"refused"}, of : Problems]
NotDescribed == [is |-> "none"]

VARIABLES
    host,           \* an editor's workspace, or an executor
    buffers,        \* the file of each handle given: its path, and its text now
    closed,         \* the handles closed
    registry,       \* what is read at a key: a buffer, the text of a document, or nothing
    connections,
    descriptions,
    told,           \* the missing documents the host was told of and still reads
    unreadable,         \* the keys of those it could not read
    asked,          \* of each handle, the text it was last asked about
    flight,         \* of each run, where it is
    seen            \* of each run, what it read when it began

registers == <<buffers, closed, registry, connections, descriptions>>
outside == <<told, unreadable, asked>>
runs == <<flight, seen>>
workspaceVars == <<host, registers, outside, runs>>

Open == DOMAIN buffers \ closed

\* A run holds a shared borrow of its executor: what writes meanwhile is refused as busy.
Busy == \E r \in Runs : flight[r] = "running"

\* documents_named: of the types and of the sources' schemas, each once.
DocumentsNamed(t) ==
    ({t.types[i] : i \in DOMAIN t.types} \cup {t.sources[i].schema : i \in DOMAIN t.sources}) \ {None}

\* file_at
Held(key) == registry[key] # None

TextAt(key) ==
    IF ~Held(key) THEN None
    ELSE IF registry[key][1] = "buffer" THEN buffers[registry[key][2]].text ELSE registry[key][2]

\* missing_documents: what one is registered under, where it is read from, and whose it is.
MissingDocuments(f) ==
    {[key |-> RegistryKey(f.path, connections, r),
      location |-> Location(DirectoryOf(f.path), connections, r),
      connection |-> ConnectionOf(connections, r)] :
        r \in {d \in DocumentsNamed(f.text) : ~Held(RegistryKey(f.path, connections, d))}}

MissingKeys(f) == {row.key : row \in MissingDocuments(f)}

\* refused_sources: one warning for a source nobody could describe, at the first binding
\* that reads it; a document reads nothing.
RefusedSources(f) ==
    LET uri(i) == f.text.sources[i].uri
    IN  {[at |-> i, problem |-> descriptions[uri(i)].of] :
            i \in {i \in DOMAIN f.text.sources :
                     /\ f.path \notin Claimed
                     /\ uri(i) # None /\ descriptions[uri(i)].is = "refused"
                     /\ \A j \in 1 .. i - 1 : uri(j) # uri(i)}}

\* The columns the host found, which type a source.
TypingColumns(r) == IF descriptions[r].is = "columns" THEN descriptions[r].of ELSE None

\* inputs: the sources, then the documents.
Inputs(f) ==
    LET read(role, r) == [role |-> role, key |-> r, connection |-> ConnectionOf(connections, r),
                          location |-> Location(DirectoryOf(f.path), connections, r)]
    IN  {read("data", r) : r \in SourcesOf(f.text)} \cup {read("schema", r) : r \in DocumentsNamed(f.text)}

\* What a run makes of its program: where its sources are, which columns they have, and the
\* documents its types and its graph come of.
ReadBy(f) ==
    [inputs |-> Inputs(f),
     columns |-> [r \in SourcesOf(f.text) |-> TypingColumns(r)],
     documents |-> [r \in DocumentsNamed(f.text) |-> TextAt(RegistryKey(f.path, connections, r))]]

-----------------------------------------------------------------------------

\* An editor starts with nothing open; an executor with its program, which no registry holds.
WorkspaceInit ==
    /\ registry = [k \in Keys |-> None]
    /\ connections = NoConnections
    /\ descriptions = [r \in SourcesNamed |-> NotDescribed]
    /\ closed = {} /\ told = {} /\ unreadable = {}
    /\ flight = [r \in Runs |-> "idle"] /\ seen = [r \in Runs |-> None]
    /\ \/ host = "editor" /\ buffers = <<>> /\ asked = <<>>
       \/ /\ host = "executor" /\ asked = <<None>>
          /\ \E p \in Paths \ Claimed, t \in FileTexts : buffers = <<[path |-> p, text |-> t]>>

\* open_file: the buffer goes into the registry under its own path.  An editor opens a path
\* that is not open.
OpenFile(p, t) ==
    /\ host = "editor" /\ Len(buffers) < MostOpened
    /\ \A h \in Open : buffers[h].path # p
    /\ buffers' = Append(buffers, [path |-> p, text |-> t])
    /\ registry' = [registry EXCEPT ![p] = <<"buffer", Len(buffers) + 1>>]
    /\ asked' = Append(asked, None)
    /\ UNCHANGED <<host, closed, connections, descriptions, told, unreadable, runs>>

\* update_file: the file keeps its identity; an unknown handle is refused.
UpdateFile(h, t) ==
    /\ host = "editor" /\ h \in Open /\ buffers[h].text # t
    /\ buffers' = [buffers EXCEPT ![h].text = t]
    /\ UNCHANGED <<host, closed, registry, connections, descriptions, outside, runs>>

\* close_file: the file leaves the workspace and stays in the registry.
CloseFile(h) ==
    /\ host = "editor" /\ h \in Open
    /\ closed' = closed \cup {h}
    /\ UNCHANGED <<host, buffers, registry, connections, descriptions, outside, runs>>

\* Mutant: while a run is in flight too.
SetConnectionsMeanwhile(known) ==
    /\ known # connections
    /\ connections' = known
    /\ UNCHANGED <<host, buffers, closed, registry, descriptions, outside, runs>>

\* set_connections: of a map the database does not hold already.
SetConnections(known) ==
    /\ ~Busy /\ known # connections
    /\ connections' = known
    /\ UNCHANGED <<host, buffers, closed, registry, descriptions, outside, runs>>

\* The host asks what a program lacks, and goes to read it.
AskMissing(h) ==
    /\ h \in Open /\ buffers[h].path \notin Claimed
    /\ told' = told \cup MissingDocuments(buffers[h])
    /\ asked' = [asked EXCEPT ![h] = buffers[h].text]
    /\ UNCHANGED <<host, registers, unreadable, runs>>

\* A read that answered: its text is registered under the key it was told.
RegisterDocument(row, t) ==
    /\ ~Busy /\ row \in told
    /\ registry' = [registry EXCEPT ![row.key] = <<"text", t>>]
    /\ told' = told \ {row}
    /\ UNCHANGED <<host, buffers, closed, connections, descriptions, unreadable, asked, runs>>

\* One that did not.
LeaveUnread(row) ==
    /\ row \in told
    /\ told' = told \ {row} /\ unreadable' = unreadable \cup {row.key}
    /\ UNCHANGED <<host, registers, asked, runs>>

\* Mutant: what is held is read again.
RegisterMissingAgain(h, got) ==
    /\ ~Busy /\ h \in Open /\ got # {}
    /\ got \subseteq {RegistryKey(buffers[h].path, connections, r) : r \in DocumentsNamed(buffers[h].text)}
    /\ \E read \in [got -> FileTexts] :
         registry' = [k \in Keys |-> IF k \in got THEN <<"text", read[k]>> ELSE registry[k]]
    /\ UNCHANGED <<host, buffers, closed, connections, descriptions, outside, runs>>

\* register_missing_documents: a host that reads each location itself asks and registers in
\* one call.
RegisterMissing(h, got) ==
    /\ ~Busy /\ h \in Open /\ got # {} /\ got \subseteq MissingKeys(buffers[h])
    /\ \E read \in [got -> FileTexts] :
         registry' = [k \in Keys |-> IF k \in got THEN <<"text", read[k]>> ELSE registry[k]]
    /\ UNCHANGED <<host, buffers, closed, connections, descriptions, outside, runs>>

\* describe: the latest answer about a source replaces the one before it.
Describe(r, d) ==
    /\ ~Busy /\ descriptions[r] # d
    /\ descriptions' = [descriptions EXCEPT ![r] = d]
    /\ UNCHANGED <<host, buffers, closed, registry, connections, outside, runs>>

RegisterInferredDescriptor(r, columns) == Describe(r, [is |-> "columns", of |-> columns])
RegisterUndescribed(r, problem) == Describe(r, [is |-> "refused", of |-> problem])

\* run: the storage is opened before the executor is borrowed, and what is written until
\* then is in the run.
Run(r) ==
    /\ host = "executor" /\ flight[r] = "idle"
    /\ flight' = [flight EXCEPT ![r] = "opening"]
    /\ UNCHANGED <<host, registers, outside, seen>>

Borrow(r) ==
    /\ flight[r] = "opening"
    /\ flight' = [flight EXCEPT ![r] = "running"]
    /\ seen' = [seen EXCEPT ![r] = ReadBy(buffers[1])]
    /\ UNCHANGED <<host, registers, outside>>

\* It ends, is refused, or is stopped: dropped where it stands.
EndRun(r) ==
    /\ flight[r] \in {"opening", "running"}
    /\ flight' = [flight EXCEPT ![r] = "done"]
    /\ seen' = [seen EXCEPT ![r] = None]
    /\ UNCHANGED <<host, registers, outside>>

WorkspaceNext ==
    \/ \E p \in Paths, t \in FileTexts : OpenFile(p, t)
    \/ \E h \in DOMAIN buffers :
         \/ \E t \in FileTexts : UpdateFile(h, t)
         \/ CloseFile(h) \/ AskMissing(h)
         \/ \E got \in SUBSET Keys : RegisterMissing(h, got)
    \/ \E known \in [Aliases -> Bases \cup {None}] : SetConnections(known)
    \/ \E row \in told : LeaveUnread(row) \/ \E t \in FileTexts : RegisterDocument(row, t)
    \/ \E r \in SourcesNamed : \/ \E c \in ColumnLists : RegisterInferredDescriptor(r, c)
                          \/ \E p \in Problems : RegisterUndescribed(r, p)
    \/ \E r \in Runs : Run(r) \/ Borrow(r) \/ EndRun(r)

WorkspaceSpec == WorkspaceInit /\ [][WorkspaceNext]_workspaceVars

------------------------------------------------------------------------------
(* Properties                                                              *)

WorkspaceTypeOK ==
    /\ host \in {"editor", "executor"}
    /\ buffers \in Seq([path : Paths, text : FileTexts]) /\ closed \subseteq DOMAIN buffers
    /\ registry \in [Keys -> {None} \cup ({"buffer"} \X DOMAIN buffers) \cup ({"text"} \X FileTexts)]
    /\ connections \in [Aliases -> Bases \cup {None}]
    /\ descriptions \in [SourcesNamed -> Descriptions \cup {NotDescribed}]
    /\ {row.key : row \in told} \cup unreadable \subseteq Keys
    /\ asked \in Seq(FileTexts \cup {None}) /\ Len(asked) = Len(buffers)
    /\ flight \in [Runs -> {"idle", "opening", "running", "done"}]
    /\ seen = [r \in Runs |-> seen[r]]

\* The key a host is told is the key the checker asks for, whatever becomes of the
\* connections in between (documents.rs:96-97): what a program lacks of the text its host
\* last asked about is still being read, or could not be.
MissingIsTold ==
    \A h \in Open :
        asked[h] = buffers[h].text =>
            MissingKeys(buffers[h]) \subseteq {row.key : row \in told} \cup unreadable

\* A source the host has answered about types the program or is warned about, never both,
\* and one warning says it for every binding that reads it (infer.rs:94-102).
AnsweredOnce ==
    \A h \in Open : buffers[h].path \notin Claimed =>
        LET f == buffers[h]
            about(r) == {w \in RefusedSources(f) : f.text.sources[w.at].uri = r}
        IN  \A i \in DOMAIN f.text.sources :
                LET r == f.text.sources[i].uri IN
                r # None =>
                    /\ TypingColumns(r) # None => about(r) = {}
                    /\ descriptions[r].is = "refused" =>
                          \E w \in about(r) : /\ about(r) = {w} /\ w.at <= i
                                             /\ w.problem = descriptions[r].of

\* What a program still needs of its host the host is told: each missing document, and each
\* source nobody could describe.
ToldTrue == MissingIsTold /\ AnsweredOnce

\* What a run reads late is what it would have read when it began: a register issued while it
\* is in flight fails instead of changing the program under it (bindings/executor/lib.rs:169-171).
RunReadsOneProgram == \A r \in Runs : flight[r] = "running" => seen[r] = ReadBy(buffers[1])

\* A document that is held is never missing again: closing its buffer, repointing a
\* connection and every later read leave it one.
NeverMissingAgain == \A k \in Keys : Held(k) => Held(k)'

\* What is held is replaced by a buffer that is opened, or by the answer of a read the host
\* was told to make; the loop of a host that reads for itself replaces nothing.
OnlyAReadReplaces ==
    \A k \in Keys : Held(k) /\ registry'[k] # registry[k] =>
        Len(buffers') > Len(buffers) \/ \E row \in told \ told' : row.key = k

\* A handle is one file for ever, and a closed one never edits another.
HandlesStay ==
    \A h \in DOMAIN buffers :
        /\ h \in DOMAIN buffers' /\ buffers'[h].path = buffers[h].path
        /\ h \in closed => h \in closed' /\ buffers'[h] = buffers[h]

\* No call, in whatever order they come, takes from a program what it reads or gives it
\* another file under the name of one it had: what each step keeps.
RegistryKept == [][NeverMissingAgain /\ OnlyAReadReplaces /\ HandlesStay]_workspaceVars

\* An open document is what every program naming it reads: the buffer is the truth, not a
\* copy the host fetched (bindings/editor/lib.rs:692-694).  It is not so: a read that answers
\* after the buffer was opened takes its place (files.rs:123).
BufferIsTruth == host = "editor" => \A h \in Open : TextAt(buffers[h].path) = buffers[h].text

=============================================================================
