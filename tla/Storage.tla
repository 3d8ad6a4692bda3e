------------------------------ MODULE Storage ------------------------------
(***************************************************************************)
(* fossil_storage::Storage and its two clients.  A Storage is built for    *)
(* one batch of reads (storageRead) or for one run (Executor::execute); it *)
(* asks the host for credentials, routes the prefixes they cover, and      *)
(* every read and every put goes to the longest routed prefix over it.     *)
(*                                                                         *)
(* A location and a prefix are sequences of segments, the authority first; *)
(* a prefix that ends in `/` covers what it is an initial segment of.      *)
(* Grants are awaited one after another with the Storage borrowed, so a    *)
(* grant, its await included, is one step.                                 *)
(***************************************************************************)
EXTENDS Naturals, Sequences, FiniteSets

CONSTANTS
    Segments,       \* what a location is made of
    Locations,      \* what may be read or written
    Prefixes,       \* what a host may vend
    Authorities,    \* the segments a location may begin with
    Web,            \* the authorities that are http(s)
    Connections,
    None,           \* a target with no connection
    Hosts,          \* what each host may answer on each scope
    Clients         \* what may be asked of a Storage

\* The memory store a run writes into when it is asked for no job (executor.rs:79).
Memory == <<"memory">>

Roots == {<<a>> : a \in Authorities}
Paths == Locations \cup Prefixes \cup Roots \cup {Memory}

\* A target is read through its connection's credential, or as it is.
Targets == [location : Locations, connection : Connections \cup {None}]

\* A scope is asked for with the one access its callers need: a connection is read,
\* the job is written.
Scopes == Connections \cup {"job"}

\* A credential, and whether Grant::try_from reads it.
Credentials == [prefix : Prefixes, reads : BOOLEAN]

ASSUME StorageAssumption ==
    /\ None \notin Connections /\ "job" \notin Connections
    /\ "memory" \in Segments \ Authorities /\ Authorities \subseteq Segments
    /\ \A p \in Locations \cup Prefixes :
          p \in Seq(Segments) /\ Len(p) > 0 /\ p[1] \in Authorities
    /\ Hosts \subseteq [Scopes -> SUBSET Seq(Credentials)]
    /\ Clients \subseteq [kind : {"batch", "run"}, job : BOOLEAN, files : SUBSET Roots,
                          targets : Seq(Targets)]

\* Who serves a prefix: the credential vended on a scope, nobody's (an http store
\* that sends none), or a store the host held already.
Servers == Scopes \cup {"public", "held"}

Covers(p, l) ==
    /\ Len(p) <= Len(l)
    /\ \A i \in 1 .. Len(p) : p[i] = l[i]

\* Mutant: covering takes the first prefix it finds, not the longest.
CoveringFirst(ps, l) ==
    {p \in ps : Covers(p, l) /\ \A q \in ps : Covers(q, l) => Len(p) <= Len(q)}

\* covering: the longest prefix of ps over l, a set of one, or empty.
Covering(ps, l) ==
    {p \in ps : Covers(p, l) /\ \A q \in ps : Covers(q, l) => Len(q) <= Len(p)}

VARIABLES
    host,       \* what this host vends
    client,     \* what this Storage was built for
    routes,     \* prefix -> who serves it
    granted,    \* scope -> the prefixes its grant answered, in order, once memoized
    stage,      \* where the client stands
    answers,    \* what each target's route answered, in order
    dest        \* where the run writes: a set of one prefix, empty until it is known

vars == <<host, client, routes, granted, stage, answers, dest>>

Stages == {"start", "routing", "using", "refused"}

Init ==
    /\ host \in Hosts
    /\ client \in Clients
    \* held: one store for each authority of the files (bindings/executor lib.rs:278-311)
    /\ routes = [p \in client.files |-> "held"]
    \* NoHost: a run over files has nobody to ask
    /\ client.files # {} => \A s \in Scopes : host[s] = {}
    /\ granted = [s \in {} |-> <<>>]
    /\ stage = IF client.kind = "run" THEN "start" ELSE "routing"
    /\ answers = <<>>
    /\ dest = {}

\* covers, resolve
Covered(l) == \E p \in DOMAIN routes : Covers(p, l)

\* Routed::add: the prefix's route, in place of any it had.
Add(rs, p, server) ==
    [q \in DOMAIN rs \cup {p} |-> IF q = p THEN server ELSE rs[q]]

AddAll(rs, ps, server) ==
    [q \in DOMAIN rs \cup ps |-> IF q \in ps THEN server ELSE rs[q]]

\* What grant reads of the credentials a host answered: those before the first it
\* cannot read.
Readable(cs) ==
    {cs[i].prefix : i \in {i \in DOMAIN cs : \A j \in 1 .. i : cs[j].reads}}

\* grant(scope): the memo, or the host's answer; it may refuse or be silent, vend
\* nothing, or vend a credential fossil cannot read, and then the prefixes routed
\* before it stay routed and the scope is not memoized.
Grant(scope, ok) ==
    IF scope \in DOMAIN granted
    THEN ok /\ UNCHANGED <<routes, granted>>
    ELSE \/ ~ok /\ UNCHANGED <<routes, granted>>
         \/ \E cs \in host[scope] :
              /\ cs # <<>>
              /\ routes' = AddAll(routes, Readable(cs), scope)
              /\ ok <=> \A i \in DOMAIN cs : cs[i].reads
              /\ granted' = IF ok
                             THEN Add(granted, scope, [i \in DOMAIN cs |-> cs[i].prefix])
                             ELSE granted

\* public(location): an http store over its whole authority, unless something has it.
Public(l, ok) ==
    /\ ok <=> l[1] \in Web
    /\ routes' = IF ok /\ <<l[1]>> \notin DOMAIN routes
                 THEN Add(routes, <<l[1]>>, "public") ELSE routes
    /\ UNCHANGED granted

\* Mutant: route asks for a connection's credential without looking whether the
\* location is covered already.
RouteAlways(t, ok) ==
    IF t.connection # None THEN Grant(t.connection, ok)
    ELSE Public(t.location, ok)

\* route(location, connection)
Route(t, ok) ==
    IF Covered(t.location)
    THEN ok /\ UNCHANGED <<routes, granted>>
    ELSE IF t.connection # None THEN Grant(t.connection, ok)
    ELSE Public(t.location, ok)

\* execute asks for the job's prefix, exactly one, before any source is routed; a run
\* into memory routes a store of its own.
Begin ==
    /\ stage = "start"
    /\ \/ /\ client.job
          /\ \E ok \in BOOLEAN :
               /\ Grant("job", ok)
               /\ IF ok /\ Len(granted'["job"]) = 1
                  THEN dest' = {granted'["job"][1]} /\ stage' = "routing"
                  ELSE dest' = {} /\ stage' = "refused"
       \/ /\ ~client.job
          /\ routes' = Add(routes, Memory, "held")
          /\ dest' = {Memory}
          /\ stage' = "routing"
          /\ UNCHANGED granted
    /\ UNCHANGED <<host, client, answers>>

\* The next target: a batch keeps its failure as the target's own answer, a run ends.
RouteNext ==
    LET i == Len(answers) + 1 IN
    /\ stage = "routing" /\ i <= Len(client.targets)
    /\ \E ok \in BOOLEAN :
         /\ Route(client.targets[i], ok)
         /\ answers' = Append(answers, ok)
         /\ stage' = IF ok \/ client.kind = "batch" THEN "routing" ELSE "refused"
    /\ UNCHANGED <<host, client, dest>>

\* Every target routed: the stores are handed to DataFusion and the writer, or the
\* batch's gets begin.
Use ==
    /\ stage = "routing" /\ Len(answers) = Len(client.targets)
    /\ stage' = "using"
    /\ UNCHANGED <<host, client, routes, granted, answers, dest>>

Next == Begin \/ RouteNext \/ Use

Spec == Init /\ [][Next]_vars

------------------------------------------------------------------------------
(* Properties                                                              *)

\* Who serves a read or a put at l.
Serves(l) == {routes[p] : p \in Covering(DOMAIN routes, l)}

TypeOK ==
    /\ host \in Hosts /\ client \in Clients
    /\ DOMAIN routes \subseteq Paths
    /\ \A p \in DOMAIN routes : routes[p] \in Servers
    /\ DOMAIN granted \subseteq Scopes
    /\ stage \in Stages
    /\ answers \in Seq(BOOLEAN) /\ Len(answers) <= Len(client.targets)
    /\ dest \subseteq Paths
    /\ stage # "start" /\ stage # "refused" /\ client.kind = "run" => dest # {}

\* The target whose turn it is to be routed.
Asked == client.targets[Len(answers) + 1]

\* Whoever serves a location serves it to the end, with one exception: a host asked about
\* a location nothing covers may vend, beside it, a prefix that is not over it; that one
\* takes over what lies beneath it, unless what served it is longer.  Never does a prefix
\* take over what it was vended for itself, or a public store anything, and nothing that
\* was served is served by nobody (store.rs:239-241, "left where it is routed", and
\* 526-540, which resolves anew at each request).
RoutesStay ==
    \A l \in Paths : Serves(l) # {} =>
        \/ (Serves(l))' = Serves(l)
        \/ /\ stage = "routing" /\ ~Covered(Asked.location)
           /\ (Serves(l))' = {Asked.connection}
           /\ \A p \in Covering(DOMAIN routes', l) :
                /\ ~Covers(p, Asked.location)
                /\ \E cs \in host[Asked.connection] : p \in Readable(cs)

RoutesNeverMove == [][RoutesStay]_vars

\* A prefix beneath d that a host vended, on a connection, about a location outside d.
VendedBeside(d, p) ==
    /\ routes[p] \in Connections /\ Covers(d, p)
    /\ \E cs \in host[routes[p]] : p \in Readable(cs)
    /\ \E i \in 1 .. Len(answers) :
         /\ client.targets[i].connection = routes[p]
         /\ ~Covers(d, client.targets[i].location)

\* A put of a run goes through what was vended for writing, whatever the sources it reads
\* are vended, and a run into memory writes into its memory.  "A prefix the host vended
\* for writing covers everything beneath it" (store.rs:287-289) but for this: a prefix
\* beneath the run's own, vended about a source that is not, comes between.
WritesReachDest ==
    stage \in {"routing", "using"} =>
        \A d \in dest : \A l \in Paths : Covers(d, l) =>
            \/ Serves(l) = {IF client.job THEN "job" ELSE "held"}
            \/ \E p \in Covering(DOMAIN routes, l) : VendedBeside(d, p)
==============================================================================
