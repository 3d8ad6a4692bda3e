-------------------------------- MODULE Mount --------------------------------
(***************************************************************************)
(* The credentials a page lends its SQL engine: packages/storage/mount.ts. *)
(*                                                                         *)
(* `mount` asks the host for the credentials of a scope and puts each one  *)
(* into the engine: an S3 prefix as a named secret, an Azure prefix file   *)
(* by file under a lent name.  Mounts of one prefix share one Held entry,  *)
(* counted by `holders`; the last one to let go takes the secret back.  A  *)
(* timer renews an entry's credential before it expires.                   *)
(*                                                                         *)
(* The page is one thread: a step below is the code between two awaits.    *)
(* Statements reach the engine in the order they are issued and run one at *)
(* a time (types/engine.ts).                                               *)
(***************************************************************************)
EXTENDS Naturals, Sequences, FiniteSets

CONSTANTS
    Mounts,      \* the calls of `mount` on one engine
    Keys,        \* access and prefix: what the table of entries is keyed by
    Lent,        \* the keys of Azure prefixes, lent file by file
    Names,       \* what the engine knows a secret or a lent file by
    NameOf,      \* the name of each key's secret, or of the one file lent under it
    Hosts,       \* the hosts: the keys each vends for a mount, the lives of a key's credentials
    MaxVersion,  \* bound: how many credentials the host vends for one entry
    None

Entries == Mounts \X Keys     \* the entry a mount created for a key
KeyOf(e) == e[2]

ASSUME MountAssumption ==
    /\ Lent \subseteq Keys
    /\ NameOf \in [Keys -> Names]
    /\ \A k, l \in Keys : NameOf[k] = NameOf[l] => k = l \/ {k, l} \subseteq Lent
    /\ \A h \in Hosts :
         /\ h.vends \in [Mounts -> Seq(Keys)]
         /\ \A m \in Mounts : \A i, j \in DOMAIN h.vends[m] :
              h.vends[m][i] = h.vends[m][j] => i = j
         /\ h.lives \in [Keys -> SUBSET {"fresh", "forever"}]
    /\ MaxVersion \in Nat \ {0}
    /\ None \notin Entries \cup [entry : Entries, version : 0 .. MaxVersion]

VARIABLES
    host,      \* the host of this page, the same throughout
    pc,        \* where each call of mount, and then of close, stands
    got,       \* how many of its keys a mount has taken
    rel,       \* the last of its keys a mount has let go
    leaving,   \* the entry a release is waiting to take out of the engine
    opened,    \* the mounts that were answered
    aborted,   \* the mounts whose signal was aborted while it mattered
    table,     \* key -> the Held entry the page knows for it
    held,      \* the Held entries, by who created them
    queue,     \* statements issued and not yet answered
    granted,   \* name -> the entry and credential the engine holds under it
    httpfs,    \* whether the engine was seen to have httpfs
    orphans    \* names whose release the engine refused

page   == <<host, pc, got, rel, leaving, opened, aborted>>
cache  == <<table, held>>
engine == <<queue, granted, httpfs, orphans>>
vars   == <<page, cache, engine>>

Lives == {"fresh", "due", "expired", "forever"}
Jobs  == {"none", "install", "armed", "retry", "ask", "renew"}

NoHeld == [holders |-> 0, ready |-> "none", job |-> "none", life |-> "fresh",
           version |-> 0, failed |-> FALSE, lent |-> FALSE]

Statement == [op : {"probe", "create", "lend", "drop", "forget"},
              entry : Entries, version : 0 .. MaxVersion,
              by : Mounts \cup {"install", "renew", "files"}]

TypeOK ==
    /\ host \in Hosts
    /\ pc \in [Mounts -> {"idle", "asking", "waiting", "open", "awaiting",
                          "dropping", "dropped", "closed", "failed"}]
    /\ got \in [Mounts -> Nat]
    /\ rel \in [Mounts -> Nat]
    /\ leaving \in [Mounts -> Entries \cup {None}]
    /\ opened \subseteq Mounts
    /\ aborted \subseteq Mounts
    /\ table \in [Keys -> Entries \cup {None}]
    /\ held \in [Entries -> [holders : Nat, ready : {"none", "pending", "ok", "failed"},
                             job : Jobs, life : Lives, version : 0 .. MaxVersion,
                             failed : BOOLEAN, lent : BOOLEAN]]
    /\ queue \in Seq(Statement)
    /\ granted \in [Names -> [entry : Entries, version : 0 .. MaxVersion] \cup {None}]
    /\ httpfs \in BOOLEAN
    /\ orphans \subseteq Names

Init ==
    /\ host \in Hosts
    /\ pc = [m \in Mounts |-> "idle"]
    /\ got = [m \in Mounts |-> 0]
    /\ rel = [m \in Mounts |-> 0]
    /\ leaving = [m \in Mounts |-> None]
    /\ opened = {}
    /\ aborted = {}
    /\ table = [k \in Keys |-> None]
    /\ held = [e \in Entries |-> NoHeld]
    /\ queue = <<>>
    /\ granted = [n \in Names |-> None]
    /\ httpfs = FALSE
    /\ orphans = {}

-----------------------------------------------------------------------------
(* Statements, and the two ends of an install.                             *)

Stmt(op, e, h, by) == [op |-> op, entry |-> e, version |-> h.version, by |-> by]

\* `schedule`: a credential that never expires is never renewed.
Scheduled(h) == [h EXCEPT !.job = IF h.life = "forever" THEN "none" ELSE "armed"]

\* What `install` sends first for an entry, and nothing for one with no file lent.
InstallStmts(e, h, by) ==
    IF KeyOf(e) \notin Lent
    THEN <<Stmt(IF httpfs THEN "create" ELSE "probe", e, h, by)>>
    ELSE IF h.lent THEN <<Stmt("lend", e, h, by)>> ELSE <<>>

\* Mutant: a failed renewal is not tried again.
RenewalFailedOnce(h) ==
    IF h.life \in {"fresh", "due"} THEN [h EXCEPT !.job = "none"]
    ELSE [h EXCEPT !.job = "none", !.failed = TRUE]

\* The catch of `renew`: try again while the credential works, else keep the failure.
RenewalFailed(h) ==
    IF h.life \in {"fresh", "due"}
    THEN [h EXCEPT !.job = "retry"]
    ELSE [h EXCEPT !.job = "none", !.failed = TRUE]

\* An entry nothing refers to any more: it keeps only that it existed.
Freed == [NoHeld EXCEPT !.version = 1]

\* The timer or request of an entry nobody holds ends; a release may still wait on it.
Stopped(e) ==
    IF \E m \in Mounts : leaving[m] = e THEN [held[e] EXCEPT !.job = "none"] ELSE Freed

-----------------------------------------------------------------------------
(* mount                                                                   *)

Begin(m) ==
    /\ pc[m] = "idle"
    /\ pc' = [pc EXCEPT ![m] = "asking"]
    /\ UNCHANGED <<host, got, rel, leaving, opened, aborted, cache, engine>>

\* The host's credentials did not come: refused, silent past HOST_MS, or the caller's abort.
Unvended(m) ==
    /\ pc[m] = "asking"
    /\ pc' = [pc EXCEPT ![m] = "failed"]
    /\ UNCHANGED <<host, got, rel, leaving, opened, aborted, cache, engine>>

\* An iteration of the loop up to its await: share the key's entry, or make one.
Share(k) ==
    /\ table[k] # None
    /\ held' = [held EXCEPT ![table[k]].holders = @ + 1]
    /\ UNCHANGED <<table, engine>>

Create(m, k, life) ==
    LET e == <<m, k>>
        h == [NoHeld EXCEPT !.holders = 1, !.life = life, !.version = 1,
                            !.ready = "pending", !.job = "install"]
    IN  /\ table[k] = None
        /\ table' = [table EXCEPT ![k] = e]
        /\ held' = [held EXCEPT ![e] =
                      IF k \in Lent THEN Scheduled([h EXCEPT !.ready = "ok"]) ELSE h]
        /\ queue' = queue \o InstallStmts(e, h, "install")
        /\ UNCHANGED <<granted, httpfs, orphans>>

Take(m) ==
    /\ got[m] < Len(host.vends[m])
    /\ LET k == host.vends[m][got[m] + 1]
       IN  Share(k) \/ \E life \in host.lives[k] : Create(m, k, life)
    /\ got' = [got EXCEPT ![m] = @ + 1]
    /\ pc' = [pc EXCEPT ![m] = "waiting"]
    /\ UNCHANGED <<host, rel, leaving, opened, aborted>>

Vended(m) ==
    \/ pc[m] = "asking" /\ Take(m)
    \/ /\ pc[m] = "asking" /\ host.vends[m] = <<>>          \* storage/no-credential
       /\ pc' = [pc EXCEPT ![m] = "failed"]
       /\ UNCHANGED <<host, got, rel, leaving, opened, aborted, cache, engine>>

Waited(m) == held[table[host.vends[m][got[m]]]]

\* Mutant: the mount goes on without its entry's install.
InstallIgnored(m) == TRUE

InstallDone(m) == Waited(m).ready = "ok"

\* The await of `entry.ready` ended: on to the next credential, or answer the mount.
Proceed(m) ==
    /\ pc[m] = "waiting" /\ InstallDone(m)
    /\ \/ Take(m)
       \/ /\ got[m] = Len(host.vends[m])
          /\ pc' = [pc EXCEPT ![m] = "open"]
          /\ opened' = opened \cup {m}
          /\ aborted' = aborted \ {m}
          /\ UNCHANGED <<host, got, rel, leaving, cache, engine>>

Abort(m) ==
    /\ pc[m] \in {"asking", "waiting"} /\ m \notin aborted
    /\ aborted' = aborted \cup {m}
    /\ UNCHANGED <<host, pc, got, rel, leaving, opened, cache, engine>>

\* `files` on an Azure prefix: the location is lent with the credential of now.
Files(m, k) ==
    LET e == table[k]
    IN  /\ pc[m] = "open" /\ k \in Lent /\ \E i \in 1 .. got[m] : host.vends[m][i] = k
        /\ ~held[e].failed
        /\ \A i \in DOMAIN queue : queue[i].by # "files"    \* bound: one at a time
        /\ held' = [held EXCEPT ![e].lent = TRUE]
        /\ queue' = Append(queue, Stmt("lend", e, held[e], "files"))
        /\ UNCHANGED <<page, table, granted, httpfs, orphans>>

-----------------------------------------------------------------------------
(* release: close, and the cleanup of a mount that failed                  *)

\* From key i on, the first whose last holder is letting go; past the end when none is.
\* A key the table does not know is passed over.
LastHeld(m, i) ==
    LET last == {j \in i .. got[m] : LET e == table[host.vends[m][j]]
                                     IN  e # None /\ held[e].holders = 1}
    IN  IF last = {} THEN got[m] + 1 ELSE CHOOSE j \in last : \A l \in last : j <= l

LetGo(h) == [h EXCEPT !.holders = @ - 1,
                      !.job = IF h.holders = 1 /\ @ \in {"armed", "retry"} THEN "none" ELSE @]

\* The loop of `release` from key i to the await of the first entry to be taken out,
\* or to its end.
Release(m, i) ==
    LET j == LastHeld(m, i)
        passed == {table[host.vends[m][l]] : l \in i .. (IF j > got[m] THEN got[m] ELSE j)}
    IN  /\ held' = [e \in Entries |->
                      IF e \in passed THEN LetGo(held[e])
                      ELSE IF e = leaving[m] /\ held[e].job = "none" THEN Freed
                      ELSE held[e]]
        /\ IF j > got[m]
           THEN /\ pc' = [pc EXCEPT ![m] = IF m \in opened THEN "closed" ELSE "failed"]
                /\ rel' = [rel EXCEPT ![m] = got[m]]
                /\ leaving' = [leaving EXCEPT ![m] = None]
                /\ UNCHANGED table
           ELSE /\ pc' = [pc EXCEPT ![m] = "awaiting"]
                /\ rel' = [rel EXCEPT ![m] = j]
                /\ leaving' = [leaving EXCEPT ![m] = table[host.vends[m][j]]]
                /\ table' = [table EXCEPT ![host.vends[m][j]] = None]
        /\ aborted' = aborted \ {m}
        /\ UNCHANGED <<host, got, opened, engine>>

Close(m) == pc[m] = "open" /\ Release(m, 1)

\* The catch of `mount`: the install failed, or the signal stopped the wait for it.
Fail(m) ==
    /\ pc[m] = "waiting"
    /\ Waited(m).ready = "failed" \/ m \in aborted
    /\ Release(m, 1)

\* Mutant: the release does not wait for the install in flight.
UninstallAtOnce(m) ==
    /\ pc[m] = "awaiting"
    /\ pc' = [pc EXCEPT ![m] = "dropping"]
    /\ queue' = Append(queue, Stmt("drop", leaving[m], held[leaving[m]], m))
    /\ UNCHANGED <<host, got, rel, leaving, opened, aborted, cache, granted, httpfs, orphans>>

\* The entry's install has settled: take its secret, or its lent files, out of the engine.
Uninstall(m) ==
    LET e == leaving[m]
        op == IF KeyOf(e) \in Lent THEN "forget" ELSE "drop"
        nothing == KeyOf(e) \in Lent /\ ~held[e].lent
    IN  /\ pc[m] = "awaiting" /\ held[e].ready # "pending"
        /\ pc' = [pc EXCEPT ![m] = IF nothing THEN "dropped" ELSE "dropping"]
        /\ queue' = IF nothing THEN queue ELSE Append(queue, Stmt(op, e, held[e], m))
        /\ UNCHANGED <<host, got, rel, leaving, opened, aborted, cache, granted, httpfs, orphans>>

Resume(m) == pc[m] = "dropped" /\ Release(m, rel[m] + 1)

-----------------------------------------------------------------------------
(* renew                                                                   *)

\* Time passes for the credential an entry holds; one nobody holds, and no timer or
\* request concerns, is never looked at again.
Tick(e) ==
    /\ held[e].holders > 0 \/ held[e].job # "none"
    /\ held[e].life \in {"fresh", "due"}
    /\ held' = [held EXCEPT ![e].life = IF @ = "fresh" THEN "due" ELSE "expired"]
    /\ UNCHANGED <<page, table, engine>>

\* The timer of an entry fires; an entry nobody holds is not renewed.
Fire(e) ==
    /\ \/ held[e].job = "armed" /\ held[e].life # "fresh"
       \/ held[e].job = "retry"
    /\ held' = [held EXCEPT ![e] = IF @.holders = 0 THEN Stopped(e) ELSE [@ EXCEPT !.job = "ask"]]
    /\ UNCHANGED <<page, table, engine>>

\* The host vends the prefix again: the entry takes the credential and installs it.
Renewed(e, life) ==
    /\ held[e].job = "ask" /\ held[e].version < MaxVersion
    /\ LET fresh == [held[e] EXCEPT !.life = life, !.version = @ + 1, !.job = "renew"]
           sent == InstallStmts(e, fresh, "renew")
       IN  IF held[e].holders = 0
           THEN /\ held' = [held EXCEPT ![e] = Stopped(e)]
                /\ UNCHANGED queue
           ELSE /\ held' = [held EXCEPT ![e] = IF sent = <<>> THEN Scheduled(fresh) ELSE fresh]
                /\ queue' = queue \o sent
    /\ UNCHANGED <<page, table, granted, httpfs, orphans>>

\* The host refuses, is silent past HOST_MS, or vends the scope without this prefix.
NotRenewed(e) ==
    /\ held[e].job = "ask"
    /\ held' = [held EXCEPT ![e] = RenewalFailed(held[e])]
    /\ UNCHANGED <<page, table, engine>>

-----------------------------------------------------------------------------
(* the engine answers the statement at the head of its queue               *)

Answered(op) == queue # <<>> /\ Head(queue).op \in op

\* An install statement failed, for the mount that waits on it or for a renewal.
Refused(s) ==
    held' = [held EXCEPT ![s.entry] =
               CASE s.by = "install" -> [@ EXCEPT !.ready = "failed", !.job = "none"]
                 [] s.by = "renew"   -> RenewalFailed(@)
                 [] OTHER            -> @]

\* `requireHttpfs`: loaded, and remembered, or the install fails.
Probe ==
    /\ Answered({"probe"})
    /\ LET s == Head(queue)
       IN  \/ /\ httpfs' = TRUE
              /\ queue' = Append(Tail(queue), [s EXCEPT !.op = "create"])
              /\ UNCHANGED held
           \/ Refused(s) /\ queue' = Tail(queue) /\ UNCHANGED httpfs
    /\ UNCHANGED <<page, table, granted, orphans>>

\* CREATE OR REPLACE SECRET, or registerFiles: the name now answers with this credential.
Put ==
    /\ Answered({"create", "lend"})
    /\ queue' = Tail(queue)
    /\ LET s == Head(queue)
           n == NameOf[KeyOf(s.entry)]
       IN  \/ /\ granted' = [granted EXCEPT ![n] = [entry |-> s.entry, version |-> s.version]]
              /\ held' = [held EXCEPT ![s.entry] =
                            CASE s.by = "install" -> Scheduled([@ EXCEPT !.ready = "ok"])
                              [] s.by = "renew"   -> Scheduled(@)
                              [] OTHER            -> @]
           \/ Refused(s) /\ UNCHANGED granted
    /\ UNCHANGED <<page, table, httpfs, orphans>>

\* DROP SECRET IF EXISTS, or dropFiles.  A failure is kept for the end of the release,
\* which goes on.
Drop ==
    /\ Answered({"drop", "forget"})
    /\ queue' = Tail(queue)
    /\ LET s == Head(queue)
           n == NameOf[KeyOf(s.entry)]
       IN  /\ \/ granted' = [granted EXCEPT ![n] = None] /\ orphans' = orphans \ {n}
              \/ orphans' = orphans \cup {n} /\ UNCHANGED granted
           /\ pc' = [pc EXCEPT ![s.by] = "dropped"]
    /\ UNCHANGED <<host, got, rel, leaving, opened, aborted, cache, httpfs>>

-----------------------------------------------------------------------------

Caller(m) == Begin(m) \/ Abort(m) \/ Close(m) \/ \E k \in Keys : Files(m, k)
Work(m)   == Unvended(m) \/ Vended(m) \/ Proceed(m) \/ Fail(m) \/ Uninstall(m) \/ Resume(m)
Renewal(e) == Fire(e) \/ NotRenewed(e) \/ \E life \in host.lives[KeyOf(e)] : Renewed(e, life)
Engine    == Probe \/ Put \/ Drop

Next ==
    \/ \E m \in Mounts : Caller(m) \/ Work(m)
    \/ \E e \in Entries : Tick(e) \/ Renewal(e)
    \/ Engine

Spec == Init /\ [][Next]_vars

\* The page runs its continuations and its timers, time passes, every host wait has
\* the deadline HOST_MS, and the engine answers each statement.  Nothing makes a
\* caller open, stop, read or close.
Fairness ==
    /\ \A m \in Mounts : WF_vars(Work(m))
    /\ \A e \in Entries : WF_vars(Tick(e)) /\ WF_vars(Renewal(e))
    /\ WF_vars(Engine)

FairSpec == Spec /\ Fairness

-----------------------------------------------------------------------------
(* Properties                                                              *)

HeldKeys(m) == {host.vends[m][i] : i \in (rel[m] + 1) .. got[m]}
Holders(k)  == {m \in Mounts : k \in HeldKeys(m)}

\* An entry's count is exactly the mounts that took its key and have not let it go,
\* whichever of them failed, was stopped or closed; and a key is in the table exactly
\* while somebody holds it.
HoldersExact ==
    /\ \A k \in Keys :
         IF table[k] = None THEN Holders(k) = {}
         ELSE KeyOf(table[k]) = k /\ held[table[k]].holders = Cardinality(Holders(k)) /\ Holders(k) # {}
    /\ \A e \in Entries : table[KeyOf(e)] # e => held[e].holders = 0

Sent(e) == \E i \in DOMAIN queue : queue[i].entry = e

\* What the engine holds is somebody's: an entry that is held, one whose release is
\* under way, one sharing its name with such an entry, or a name the engine refused to
\* let go.  An install still in flight at the release never puts a secret back for good.
Accounted ==
    \A n \in Names : granted[n] # None =>
        \/ n \in orphans
        \/ held[granted[n].entry].holders > 0
        \/ \E m \in Mounts : /\ pc[m] \in {"awaiting", "dropping"}
                             /\ NameOf[KeyOf(leaving[m])] = n

\* Both: the table and the engine hold what somebody holds, and nothing else.
HeldIsHeld == HoldersExact /\ Accounted

\* An open mount's secret is in the engine unless an earlier entry of the same prefix
\* was released: no abort, failure, renewal or close of a sharer takes it away.
SecretUntilRelease ==
    \A m \in Mounts : pc[m] = "open" =>
        \A k \in HeldKeys(m) \ Lent :
            \/ granted[NameOf[k]] # None
            \/ table[k] # None /\ \E e \in Entries : KeyOf(e) = k /\ e # table[k] /\ held[e].version > 0

\* Nobody is left with a credential that will expire unnoticed: a held entry is waiting
\* for its renewal, in the middle of it, or carries the failure a reader is told.
RenewalLive ==
    \A e \in Entries : held[e].holders > 0 /\ held[e].ready = "ok" =>
        held[e].life = "forever" \/ held[e].job # "none" \/ held[e].failed

\* The engine never stays behind an entry: what it holds under the entry's name is the
\* entry's own credential, unless the statement that brings it is on its way or will be
\* tried again.
EngineKeepsUp ==
    \A n \in Names : granted[n] # None =>
        LET e == granted[n].entry
        IN  held[e].holders > 0 /\ granted[n].version < held[e].version =>
                Sent(e) \/ held[e].job \in {"retry", "ask"} \/ held[e].failed

\* Both: a credential that runs out is replaced in the entry and in the engine, or its
\* failure is kept.
RenewalReaches == RenewalLive /\ EngineKeepsUp

\* Every mount is answered or fails, and every close ends: nothing waits for ever on the
\* host, on another mount's install or on another mount's release.
MountEnds ==
    \A m \in Mounts : /\ pc[m] \in {"asking", "waiting"} ~> pc[m] \in {"open", "failed"}
                      /\ pc[m] \in {"awaiting", "dropping", "dropped"} ~> pc[m] \in {"closed", "failed"}

\* A credential about to expire is renewed, or its failure is kept where the next read
\* finds it, or nobody holds it any more.
DueSettles ==
    \A e \in Entries : (held[e].life = "due" /\ held[e].ready = "ok") ~>
        \/ held[e].life \in {"fresh", "forever"}
        \/ held[e].failed
        \/ held[e].holders = 0

\* Both: nothing of a mount is left waiting.
MountSettles == MountEnds /\ DueSettles

\* mount.ts:62-63: "Two mounts of one prefix on one engine share the secret, and the
\* last to close drops it": an open mount has its secret.
MountedHasSecret ==
    \A m \in Mounts : pc[m] = "open" =>
        \A k \in HeldKeys(m) \ Lent : granted[NameOf[k]] # None
=============================================================================
