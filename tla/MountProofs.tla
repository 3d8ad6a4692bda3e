----------------------------- MODULE MountProofs -----------------------------
(* Proofs about Mount: its types, and the three invariants the runs check.  *)
(* None is inductive.  What makes them so is built in layers, each proved   *)
(* from the ones before it:                                                 *)
(*   Core     the types, and the books: who holds a key, which entry stands *)
(*            for it, what a release is taking out;                         *)
(*   Mail     what a statement on its way to the engine is for;             *)
(*   Backing  what the engine holds, somebody is there to take out again;   *)
(*   Ready    what is known at the end of the queue of a mount that opens;  *)
(*   Renewals a credential that ran out is on its way to being replaced.    *)
EXTENDS Mount, FiniteSetTheorems, NaturalsInduction, WellFoundedInduction, TLAPS

(***************************************************************************)
(* The inductive invariant.                                                *)
(***************************************************************************)

Taken(m) == {host.vends[m][i] : i \in 1 .. got[m]}

\* Where a mount stands with the keys it has taken and let go.
Progress(m) ==
    /\ got[m] <= Len(host.vends[m]) /\ rel[m] <= got[m]
    /\ pc[m] \in {"idle", "asking"} => got[m] = 0
    /\ pc[m] \in {"waiting", "open"} => rel[m] = 0 /\ got[m] > 0
    /\ pc[m] \in {"closed", "failed"} => rel[m] = got[m]
    /\ pc[m] \in {"awaiting", "dropping", "dropped"} <=> leaving[m] # None

\* A key is in the table exactly while somebody holds it, and its entry counts them.
Counted(k) ==
    IF table[k] = None THEN Holders(k) = {}
    ELSE /\ KeyOf(table[k]) = k
         /\ IsFiniteSet(Holders(k)) /\ Holders(k) # {}
         /\ held[table[k]].holders = Cardinality(Holders(k))

\* An entry exists once its mount has taken its key, and is held while the table knows it.
Placed(e) ==
    /\ table[KeyOf(e)] # e => held[e].holders = 0
    /\ table[KeyOf(e)] = e => held[e].version > 0
    /\ held[e].version > 0 => KeyOf(e) \in Taken(e[1])
    /\ held[e].version = 0 => held[e].ready = "none" /\ held[e].job = "none"

\* The entry a release waits to take out is out of the table, and no other release's.
Parting(m) ==
    leaving[m] # None =>
        /\ table[KeyOf(leaving[m])] # leaving[m] /\ held[leaving[m]].version > 0
        /\ \A n \in Mounts : leaving[n] = leaving[m] => n = m

Takes(s) == s.op \in {"drop", "forget"}

\* A release waits for the one statement it sent.
Dropping(i) ==
    Takes(queue[i]) =>
        /\ queue[i].by \in Mounts
        /\ pc[queue[i].by] = "dropping" /\ leaving[queue[i].by] = queue[i].entry
        /\ \A j \in DOMAIN queue : Takes(queue[j]) /\ queue[j].by = queue[i].by => i = j

Books ==
    /\ \A m \in Mounts : Progress(m) /\ Parting(m)
    /\ \A k \in Keys : Counted(k)
    /\ \A e \in Entries : Placed(e)
    /\ \A i \in DOMAIN queue : held[queue[i].entry].version > 0 /\ Dropping(i)

Core == TypeOK /\ Books

Brings(s)  == s.op \in {"probe", "create", "lend"}
Installing(s) == Brings(s) /\ s.by \in {"install", "renew"}
NameFor(e) == NameOf[KeyOf(e)]

\* What a statement is for, and what is known when it is sent.
Formed(s) ==
    /\ s.op \in {"probe", "create", "drop"} => KeyOf(s.entry) \notin Lent
    /\ s.op \in {"lend", "forget"} => KeyOf(s.entry) \in Lent
    /\ s.op = "probe" => s.by = "install"
    /\ s.op = "create" => httpfs /\ s.by \in {"install", "renew"}
    /\ s.op = "lend" => s.by \in {"renew", "files"}
    /\ s.version > 0

\* The entry of an install waits for it; that of a renewal is in the middle of it.
InFlight(s) ==
    /\ Brings(s) /\ s.by = "install" =>
         /\ held[s.entry].ready = "pending" /\ held[s.entry].job = "install"
         /\ held[s.entry].version = 1
    /\ Brings(s) /\ s.by = "renew" =>
         held[s.entry].job = "renew" /\ s.version = held[s.entry].version

\* An entry has one such statement at a time.
Once(i, j) ==
    Installing(queue[i]) /\ Installing(queue[j]) /\ queue[i].entry = queue[j].entry => i = j

\* The engine has httpfs before a secret is renewed.
Loaded(e) ==
    KeyOf(e) \notin Lent /\ held[e].job \in {"armed", "retry", "ask", "renew"} => httpfs

\* The engine knows an entry by its own name.
Named(n) ==
    granted[n] # None =>
        /\ NameFor(granted[n].entry) = n /\ held[granted[n].entry].version > 0
        /\ granted[n].version > 0

Mail ==
    /\ \A i \in DOMAIN queue : Formed(queue[i]) /\ InFlight(queue[i])
    /\ \A i, j \in DOMAIN queue : Once(i, j)
    /\ \A e \in Entries : Loaded(e)
    /\ \A n \in Names : Named(n)

\* An entry somebody answers for: one that is held, or that a release has yet to take out.
Backed(e) == held[e].holders > 0 \/ \E m \in Mounts : pc[m] = "awaiting" /\ leaving[m] = e

\* After the i-th statement the name is taken out.
Ending(n, i) == \E j \in DOMAIN queue : j > i /\ Takes(queue[j]) /\ NameFor(queue[j].entry) = n

\* The engine holds something for an entry, or is about to.
Known(e) ==
    \/ \E n \in Names : granted[n] # None /\ granted[n].entry = e
    \/ \E i \in DOMAIN queue : Brings(queue[i]) /\ queue[i].entry = e

\* Somebody takes out what a statement brings, and what the engine holds.
Covered(i) ==
    Brings(queue[i]) => Backed(queue[i].entry) \/ Ending(NameFor(queue[i].entry), i)

Charged(n) ==
    granted[n] # None => n \in orphans \/ Backed(granted[n].entry) \/ Ending(n, 0)

\* A lent file is known to the entry that takes it out.
Lending(e) == KeyOf(e) \in Lent /\ Backed(e) /\ Known(e) => held[e].lent

Backing ==
    /\ \A e \in Entries : (held[e].ready = "pending" => Backed(e)) /\ Lending(e)
    /\ \A i \in DOMAIN queue : Covered(i)
    /\ \A n \in Names : Charged(n)

(***************************************************************************)
(* What the operators on an entry do.                                      *)
(***************************************************************************)

HeldRecord == [holders : Nat, ready : {"none", "pending", "ok", "failed"},
               job : Jobs, life : Lives, version : 0 .. MaxVersion,
               failed : BOOLEAN, lent : BOOLEAN]

LEMMA HeldFields ==
    ASSUME NEW h \in HeldRecord
    PROVE  /\ h.holders \in Nat /\ h.version \in Nat /\ h.job \in Jobs /\ h.life \in Lives
           /\ h.ready \in {"none", "pending", "ok", "failed"}
           /\ h.failed \in BOOLEAN /\ h.lent \in BOOLEAN
  BY MountAssumption DEF HeldRecord

LEMMA NoHeldType == NoHeld \in HeldRecord /\ Freed \in HeldRecord
<1>1. MaxVersion \in Nat /\ 0 \in 0 .. MaxVersion /\ 1 \in 0 .. MaxVersion
  BY MountAssumption
<1>2. NoHeld \in HeldRecord
  BY <1>1 DEF NoHeld, HeldRecord, Jobs, Lives
<1>3. Freed \in HeldRecord
  BY <1>1, <1>2 DEF Freed, HeldRecord
<1> QED
  BY <1>2, <1>3

\* What an entry nothing refers to any more keeps.
LEMMA FreedFields ==
    /\ Freed.holders = 0 /\ Freed.ready = "none" /\ Freed.job = "none"
    /\ Freed.version = 1 /\ Freed.failed = FALSE /\ Freed.lent = FALSE
<1>1. NoHeld \in HeldRecord
  BY NoHeldType
<1>2. /\ NoHeld.holders = 0 /\ NoHeld.ready = "none" /\ NoHeld.job = "none"
      /\ NoHeld.failed = FALSE /\ NoHeld.lent = FALSE
  BY DEF NoHeld
<1> QED
  BY <1>1, <1>2 DEF Freed, HeldRecord

\* Letting go changes an entry's count, and its timer.
LEMMA LetGoFields ==
    ASSUME NEW h \in HeldRecord, h.holders > 0
    PROVE  /\ LetGo(h) \in HeldRecord
           /\ LetGo(h).holders = h.holders - 1
           /\ \/ LetGo(h).job = h.job
              \/ h.holders = 1 /\ h.job \in {"armed", "retry"} /\ LetGo(h).job = "none"
           /\ LetGo(h).ready = h.ready /\ LetGo(h).life = h.life /\ LetGo(h).version = h.version
           /\ LetGo(h).failed = h.failed /\ LetGo(h).lent = h.lent
<1> DEFINE v == IF h.holders = 1 /\ h.job \in {"armed", "retry"} THEN "none" ELSE h.job
<1>1. v \in Jobs
  BY DEF HeldRecord, Jobs
<1>2. h.holders - 1 \in Nat
  BY DEF HeldRecord
<1>3. LetGo(h) = [h EXCEPT !.holders = @ - 1, !.job = v]
  BY DEF LetGo, HeldRecord
<1> HIDE DEF v
<1>4. LetGo(h) \in HeldRecord
  BY <1>1, <1>2, <1>3 DEF HeldRecord
<1>5. LetGo(h).job = v
  BY <1>1, <1>3 DEF HeldRecord
<1>6. /\ LetGo(h).holders = h.holders - 1
      /\ LetGo(h).ready = h.ready /\ LetGo(h).life = h.life /\ LetGo(h).version = h.version
      /\ LetGo(h).failed = h.failed /\ LetGo(h).lent = h.lent
  BY <1>3 DEF HeldRecord
<1> QED
  BY <1>4, <1>5, <1>6 DEF v

LEMMA ScheduledFields ==
    ASSUME NEW h \in HeldRecord
    PROVE  /\ Scheduled(h) \in HeldRecord
           /\ Scheduled(h).job = IF h.life = "forever" THEN "none" ELSE "armed"
           /\ Scheduled(h).holders = h.holders /\ Scheduled(h).ready = h.ready
           /\ Scheduled(h).life = h.life /\ Scheduled(h).version = h.version
           /\ Scheduled(h).failed = h.failed /\ Scheduled(h).lent = h.lent
  BY DEF Scheduled, HeldRecord, Jobs

LEMMA RenewalFailedFields ==
    ASSUME NEW h \in HeldRecord
    PROVE  /\ RenewalFailed(h) \in HeldRecord
           /\ \/ RenewalFailed(h).job = "retry"
              \/ RenewalFailed(h).job = "none" /\ RenewalFailed(h).failed
           /\ h.failed => RenewalFailed(h).failed
           /\ RenewalFailed(h).holders = h.holders /\ RenewalFailed(h).ready = h.ready
           /\ RenewalFailed(h).life = h.life /\ RenewalFailed(h).version = h.version
           /\ RenewalFailed(h).lent = h.lent
<1>1. CASE h.life \in {"fresh", "due"}
  BY <1>1 DEF RenewalFailed, HeldRecord, Jobs
<1>2. CASE h.life \notin {"fresh", "due"}
  BY <1>2 DEF RenewalFailed, HeldRecord, Jobs
<1> QED
  BY <1>1, <1>2

LEMMA StoppedFields ==
    ASSUME NEW e \in Entries, held[e] \in HeldRecord
    PROVE  /\ Stopped(e) \in HeldRecord
           /\ \/ /\ \E m \in Mounts : leaving[m] = e
                 /\ Stopped(e).job = "none"
                 /\ Stopped(e).holders = held[e].holders /\ Stopped(e).ready = held[e].ready
                 /\ Stopped(e).life = held[e].life /\ Stopped(e).version = held[e].version
                 /\ Stopped(e).failed = held[e].failed /\ Stopped(e).lent = held[e].lent
              \/ /\ \A m \in Mounts : leaving[m] # e
                 /\ Stopped(e) = Freed
<1>1. CASE \E m \in Mounts : leaving[m] = e
  BY <1>1 DEF Stopped, HeldRecord, Jobs
<1>2. CASE ~ \E m \in Mounts : leaving[m] = e
  BY <1>2, NoHeldType DEF Stopped
<1> QED
  BY <1>1, <1>2

(***************************************************************************)
(* Sequences and numbers.                                                  *)
(***************************************************************************)

LEMMA LeastOf ==
    ASSUME NEW S \in SUBSET Nat, S # {}
    PROVE  \E x \in S : \A y \in S : x <= y
<1>1. PICK x \in S : \A y \in S : <<y, x>> \notin OpToRel(<, Nat)
  BY WFMin, NatLessThanWellFounded, Zenon
<1>2. \A y \in S : ~ (y < x)
  BY <1>1, Zenon DEF OpToRel
<1> QED
  BY <1>2

LEMMA TailOf ==
    ASSUME NEW S, NEW q \in Seq(S), q # <<>>
    PROVE  /\ Tail(q) \in Seq(S) /\ Head(q) = q[1] /\ Head(q) \in S /\ 1 \in DOMAIN q
           /\ DOMAIN q = 1 .. Len(q) /\ Len(q) \in Nat \ {0}
           /\ DOMAIN Tail(q) = 1 .. (Len(q) - 1)
           /\ \A i \in DOMAIN Tail(q) : i + 1 \in DOMAIN q /\ Tail(q)[i] = q[i + 1]
           /\ \A i \in DOMAIN q : i > 1 => i - 1 \in DOMAIN Tail(q) /\ Tail(q)[i - 1] = q[i]
  OBVIOUS

LEMMA AppendOf ==
    ASSUME NEW S, NEW q \in Seq(S), NEW s \in S
    PROVE  /\ Append(q, s) \in Seq(S)
           /\ DOMAIN q = 1 .. Len(q) /\ Len(q) \in Nat
           /\ DOMAIN Append(q, s) = 1 .. (Len(q) + 1)
           /\ \A i \in DOMAIN q : i \in DOMAIN Append(q, s) /\ Append(q, s)[i] = q[i]
           /\ Append(q, s)[Len(q) + 1] = s
  OBVIOUS

LEMMA StmtFields ==
    ASSUME NEW op \in {"probe", "create", "lend", "drop", "forget"}, NEW e \in Entries,
           NEW h \in HeldRecord, NEW by \in Mounts \cup {"install", "renew", "files"}
    PROVE  /\ Stmt(op, e, h, by) \in Statement
           /\ Stmt(op, e, h, by).op = op /\ Stmt(op, e, h, by).entry = e
           /\ Stmt(op, e, h, by).version = h.version /\ Stmt(op, e, h, by).by = by
  BY DEF Stmt, Statement, HeldRecord

\* What an install sends: one statement, or nothing for an entry with no file lent.
Installs(q, r, e, h, by) ==
    \/ KeyOf(e) \in Lent /\ ~ h.lent /\ r = q
    \/ \E s \in Statement :
         /\ r = Append(q, s)
         /\ s.entry = e /\ s.version = h.version /\ s.by = by
         /\ IF KeyOf(e) \in Lent THEN h.lent /\ s.op = "lend"
            ELSE s.op = IF httpfs THEN "create" ELSE "probe"

LEMMA SendsOne ==
    ASSUME NEW q \in Seq(Statement), NEW e \in Entries, NEW h \in HeldRecord,
           NEW by \in {"install", "renew"}
    PROVE  /\ Installs(q, q \o InstallStmts(e, h, by), e, h, by)
           /\ InstallStmts(e, h, by) = <<>> <=> (KeyOf(e) \in Lent /\ ~ h.lent)
<1> DEFINE op == IF KeyOf(e) \in Lent THEN "lend" ELSE IF httpfs THEN "create" ELSE "probe"
           s == Stmt(op, e, h, by)
<1>1. op \in {"probe", "create", "lend", "drop", "forget"}
  OBVIOUS
<1>2. s \in Statement /\ s.entry = e /\ s.version = h.version /\ s.by = by /\ s.op = op
  BY <1>1, StmtFields
<1>3. q \o <<s>> = Append(q, s) /\ q \o <<>> = q /\ <<s>> # <<>>
  BY <1>2
<1>4. CASE KeyOf(e) \in Lent /\ ~ h.lent
  BY <1>3, <1>4 DEF InstallStmts, Installs
<1>5. CASE KeyOf(e) \notin Lent \/ h.lent
  <2>1. InstallStmts(e, h, by) = <<s>>
    BY <1>5 DEF InstallStmts
  <2> QED
    BY <1>2, <1>3, <1>5, <2>1 DEF Installs
<1> QED
  BY <1>4, <1>5

(***************************************************************************)
(* The steps.                                                              *)
(***************************************************************************)

\* A step of a mount that neither takes a key nor lets one go.
Phase(m) ==
    /\ UNCHANGED <<host, got, rel, leaving, cache, engine>>
    /\ opened' \subseteq Mounts /\ aborted' \subseteq Mounts
    /\ \/ pc' = pc
       \/ pc[m] = "idle" /\ pc' = [pc EXCEPT ![m] = "asking"]
       \/ pc[m] = "asking" /\ pc' = [pc EXCEPT ![m] = "failed"]
       \/ /\ pc[m] = "waiting" /\ InstallDone(m) /\ got[m] = Len(host.vends[m])
          /\ pc' = [pc EXCEPT ![m] = "open"]

Taking(m) ==
    /\ pc[m] = "asking" \/ (pc[m] = "waiting" /\ InstallDone(m))
    /\ Take(m)

Letting(m) == pc[m] \in {"open", "waiting", "dropped"} /\ Release(m, rel[m] + 1)

LEMMA Steps ==
    ASSUME TypeOK, Books, Next
    PROVE  \/ \E m \in Mounts : Phase(m) \/ Taking(m) \/ Letting(m) \/ Uninstall(m)
           \/ \E m \in Mounts, k \in Keys : Files(m, k)
           \/ \E e \in Entries : Tick(e) \/ Fire(e) \/ NotRenewed(e)
           \/ \E e \in Entries : \E life \in host.lives[KeyOf(e)] : Renewed(e, life)
           \/ Probe \/ Put \/ Drop
<1>1. CASE \E m \in Mounts : Caller(m) \/ Work(m)
  <2> PICK m \in Mounts : Caller(m) \/ Work(m)
    BY <1>1
  <2>0. /\ opened \subseteq Mounts /\ aborted \subseteq Mounts
        /\ pc[m] \in {"open", "waiting"} => rel[m] = 0
        /\ 0 + 1 = 1
    BY DEF TypeOK, Books, Progress
  <2>1. CASE Begin(m)
    BY <2>0, <2>1 DEF Begin, Phase
  <2>2. CASE Abort(m)
    BY <2>0, <2>2 DEF Abort, Phase
  <2>3. CASE Close(m)
    BY <2>0, <2>3 DEF Close, Letting
  <2>4. CASE \E k \in Keys : Files(m, k)
    BY <2>4
  <2>5. CASE Unvended(m)
    BY <2>0, <2>5 DEF Unvended, Phase
  <2>6. CASE Vended(m)
    BY <2>0, <2>6 DEF Vended, Phase, Taking
  <2>7. CASE Proceed(m)
    BY <2>0, <2>7 DEF Proceed, Phase, Taking
  <2>8. CASE Fail(m)
    BY <2>0, <2>8 DEF Fail, Letting
  <2>9. CASE Uninstall(m)
    BY <2>9
  <2>10. CASE Resume(m)
    BY <2>0, <2>10 DEF Resume, Letting
  <2> QED
    BY <2>1, <2>2, <2>3, <2>4, <2>5, <2>6, <2>7, <2>8, <2>9, <2>10 DEF Caller, Work
<1>2. CASE \E e \in Entries : Tick(e) \/ Renewal(e)
  BY <1>2 DEF Renewal
<1>3. CASE Engine
  BY <1>3 DEF Engine
<1> QED
  BY <1>1, <1>2, <1>3 DEF Next

\* The statements that take something out stay those of their releases.
LEMMA MailKept ==
    ASSUME Core, NEW d \in {0, 1}, DOMAIN queue' \in SUBSET Nat,
           \A i \in DOMAIN queue' : Takes(queue'[i]) =>
             /\ i + d \in DOMAIN queue /\ queue'[i] = queue[i + d]
             /\ pc'[queue'[i].by] = pc[queue'[i].by]
             /\ leaving'[queue'[i].by] = leaving[queue'[i].by]
    PROVE  \A i \in DOMAIN queue' : Dropping(i)'
  BY DEF Core, Books, Dropping

\* A step that takes no key, lets none go and makes no entry keeps the books.
LEMMA BooksKept ==
    ASSUME Core, UNCHANGED <<host, got, rel, leaving, table>>,
           \A m \in Mounts : Progress(m)',
           \A e \in Entries :
             \/ held'[e] = held[e]
             \/ held[e].version > 0 /\ held'[e].version > 0 /\ held'[e].holders = held[e].holders,
           \A i \in DOMAIN queue' : queue'[i].entry \in Entries /\ held[queue'[i].entry].version > 0,
           \A i \in DOMAIN queue' : Dropping(i)'
    PROVE  Books'
<1>0. \A e \in Entries : held'[e].holders = held[e].holders /\ (held[e].version > 0 => held'[e].version > 0)
  OBVIOUS
<1>1. \A m \in Mounts : Parting(m)'
  BY <1>0 DEF Core, TypeOK, Books, Parting
<1>2. \A k \in Keys : Holders(k)' = Holders(k)
  BY DEF Holders, HeldKeys
<1>3. \A k \in Keys : Counted(k)'
  BY <1>0, <1>2 DEF Core, TypeOK, Books, Counted
<1>4. \A e \in Entries : Placed(e)'
  <2> TAKE e \in Entries
  <2>1. Placed(e)
    BY DEF Core, Books
  <2>2. CASE held'[e] = held[e]
    BY <2>1, <2>2 DEF Placed, Taken
  <2>3. CASE held[e].version > 0 /\ held'[e].version > 0 /\ held'[e].holders = held[e].holders
    BY <2>1, <2>3 DEF Placed, Taken
  <2> QED
    BY <2>2, <2>3
<1> QED
  BY <1>0, <1>1, <1>3, <1>4 DEF Books

\* An entry the table knows is held by someone.
LEMMA HeldByOne ==
    ASSUME Core, NEW k \in Keys, table[k] # None
    PROVE  /\ table[k] \in Entries /\ KeyOf(table[k]) = k
           /\ held[table[k]].holders > 0 /\ held[table[k]].version > 0
<1>1. /\ table[k] \in Entries /\ KeyOf(table[k]) = k /\ IsFiniteSet(Holders(k)) /\ Holders(k) # {}
      /\ held[table[k]].holders = Cardinality(Holders(k))
  BY DEF Core, TypeOK, Books, Counted
<1>2. held[table[k]].holders \in Nat /\ held[table[k]].holders # 0
  BY <1>1, FS_EmptySet, FS_CardinalityType
<1> QED
  BY <1>1, <1>2 DEF Core, Books, Placed

LEMMA HeldType == ASSUME TypeOK PROVE held \in [Entries -> HeldRecord]
  BY DEF TypeOK, HeldRecord

LEMMA QueueType ==
    ASSUME TypeOK
    PROVE  /\ DOMAIN queue = 1 .. Len(queue) /\ Len(queue) \in Nat
           /\ \A i \in DOMAIN queue : /\ queue[i] \in Statement /\ queue[i].entry \in Entries
                                    /\ queue[i].version \in 0 .. MaxVersion
<1>1. queue \in Seq(Statement)
  BY DEF TypeOK
<1>2. \A i \in DOMAIN queue : queue[i] \in Statement
  BY <1>1
<1> QED
  BY <1>1, <1>2 DEF Statement

\* A timer or a request belongs to an entry that exists.
LEMMA WorkedExists ==
    ASSUME Core, NEW e \in Entries, held[e].job # "none" \/ held[e].holders > 0
    PROVE  held[e].version > 0
<1>1. held[e].version \in Nat /\ held[e].holders \in Nat
  BY HeldType DEF Core, HeldRecord
<1>2. Placed(e)
  BY DEF Core, Books
<1> QED
  BY <1>1, <1>2 DEF Placed

LEMMA PhaseCore ==
    ASSUME Core, NEW m \in Mounts, Phase(m)
    PROVE  Core'
<1>1. TypeOK'
  BY DEF Core, TypeOK, Phase, cache, engine
<1>2. \A n \in Mounts : Progress(n)'
  BY DEF Core, TypeOK, Books, Progress, Phase
<1>3. \A i \in DOMAIN queue' : Takes(queue'[i]) =>
        queue'[i] = queue[i] /\ pc'[queue'[i].by] = pc[queue'[i].by]
  BY DEF Core, TypeOK, Books, Dropping, Phase, engine
<1>4. \A i \in DOMAIN queue' : Dropping(i)'
  BY <1>3 DEF Core, TypeOK, Books, Dropping, Phase, engine
<1>5. \A i \in DOMAIN queue' : queue'[i].entry \in Entries /\ held[queue'[i].entry].version > 0
  BY QueueType DEF Core, Books, Phase, engine
<1> QED
  BY <1>1, <1>2, <1>4, <1>5, BooksKept DEF Core, Phase, cache

Grants == [Names -> [entry : Entries, version : 0 .. MaxVersion] \cup {None}]

\* A step that changes one entry that exists, takes at most the head of the queue, and
\* sends nothing that takes a secret out.
LEMMA ChangeCore ==
    ASSUME Core, UNCHANGED <<page, table>>, NEW e \in Entries, NEW h \in HeldRecord,
           held' = [held EXCEPT ![e] = h],
           h.holders = held[e].holders, held[e].version > 0, h.version > 0,
           granted' \in Grants, httpfs' \in BOOLEAN, orphans' \subseteq Names,
           queue' \in Seq(Statement), NEW d \in {0, 1},
           \A i \in DOMAIN queue' :
             \/ i + d \in DOMAIN queue /\ queue'[i] = queue[i + d]
             \/ ~ Takes(queue'[i]) /\ held[queue'[i].entry].version > 0
    PROVE  Core'
<1>1. TypeOK'
  BY HeldType DEF Core, TypeOK, HeldRecord, page, Grants
<1>2. \A n \in Mounts : Progress(n)'
  BY DEF Core, Books, Progress, page
<1>3. \A x \in Entries : held'[x] = IF x = e THEN h ELSE held[x]
  BY DEF Core, TypeOK
<1>4. \A i \in DOMAIN queue' : Dropping(i)'
  <2>1. DOMAIN queue' \in SUBSET Nat
    BY <1>1, QueueType DEF TypeOK
  <2> QED
    BY <2>1, MailKept DEF page
<1>5. \A i \in DOMAIN queue' : queue'[i].entry \in Entries /\ held[queue'[i].entry].version > 0
  <2>1. \A i \in DOMAIN queue' : queue'[i] \in Statement
    OBVIOUS
  <2> QED
    BY <2>1 DEF Core, Books, Statement
<1> QED
  BY <1>1, <1>2, <1>3, <1>4, <1>5, BooksKept DEF Core, page

LEMMA EntryCore ==
    ASSUME Core, UNCHANGED <<page, table, engine>>, NEW e \in Entries, NEW h \in HeldRecord,
           held' = [held EXCEPT ![e] = h],
           h.holders = held[e].holders, held[e].version > 0, h.version > 0
    PROVE  Core'
<1>1. /\ granted' \in Grants /\ httpfs' \in BOOLEAN /\ orphans' \subseteq Names
      /\ queue' \in Seq(Statement)
      /\ \A i \in DOMAIN queue' : i + 0 \in DOMAIN queue /\ queue'[i] = queue[i + 0]
  BY QueueType DEF Core, TypeOK, engine, Grants
<1> QED
  BY <1>1, ChangeCore

\* A step that sends one statement for an entry that exists, or none.
LEMMA SendCore ==
    ASSUME Core, UNCHANGED <<page, table, granted, httpfs, orphans>>,
           NEW e \in Entries, NEW h \in HeldRecord, held' = [held EXCEPT ![e] = h],
           h.holders = held[e].holders, held[e].version > 0, h.version > 0,
           \/ queue' = queue
           \/ \E s \in Statement : queue' = Append(queue, s) /\ s.entry = e /\ ~ Takes(s)
    PROVE  Core'
<1>1. granted' \in Grants /\ httpfs' \in BOOLEAN /\ orphans' \subseteq Names
  BY DEF Core, TypeOK, Grants
<1>2. CASE queue' = queue
  BY <1>2, EntryCore DEF engine
<1>3. CASE \E s \in Statement : queue' = Append(queue, s) /\ s.entry = e /\ ~ Takes(s)
  <2> PICK s \in Statement : queue' = Append(queue, s) /\ s.entry = e /\ ~ Takes(s)
    BY <1>3
  <2>1. queue \in Seq(Statement)
    BY DEF Core, TypeOK
  <2>2. /\ queue' \in Seq(Statement) /\ DOMAIN queue' = 1 .. (Len(queue) + 1)
        /\ DOMAIN queue = 1 .. Len(queue) /\ Len(queue) \in Nat
        /\ \A i \in DOMAIN queue : queue'[i] = queue[i]
        /\ queue'[Len(queue) + 1] = s
    BY <2>1, AppendOf
  <2>3. \A i \in DOMAIN queue' :
          \/ i + 0 \in DOMAIN queue /\ queue'[i] = queue[i + 0]
          \/ ~ Takes(queue'[i]) /\ held[queue'[i].entry].version > 0
    <3> TAKE i \in DOMAIN queue'
    <3>1. CASE i = Len(queue) + 1
      BY <2>2, <3>1
    <3>2. CASE i # Len(queue) + 1
      <4>0. i \in 1 .. (Len(queue) + 1)
        BY <2>2, Zenon
      <4>1. i \in DOMAIN queue /\ i + 0 = i
        BY <2>1, <3>2, <4>0
      <4> QED
        BY <2>2, <4>1
    <3> QED
      BY <3>1, <3>2
  <2> QED
    BY <1>1, <2>2, <2>3, ChangeCore
<1> QED
  BY <1>2, <1>3

LEMMA TickCore ==
    ASSUME Core, NEW e \in Entries, Tick(e)
    PROVE  Core'
<1> DEFINE l == IF held[e].life = "fresh" THEN "due" ELSE "expired"
           h == [held[e] EXCEPT !.life = l]
<1>1. held[e] \in HeldRecord /\ l \in Lives
  BY HeldType DEF Core, Lives
<1>2. held' = [held EXCEPT ![e] = h]
  BY DEF Tick, Core, TypeOK
<1> HIDE DEF l
<1>3. h \in HeldRecord /\ h.holders = held[e].holders /\ h.version = held[e].version
  BY <1>1 DEF HeldRecord
<1>4. held[e].version > 0
  BY WorkedExists DEF Tick
<1> QED
  BY <1>2, <1>3, <1>4, EntryCore DEF Tick

LEMMA FireCore ==
    ASSUME Core, NEW e \in Entries, Fire(e)
    PROVE  Core'
<1>1. held[e] \in HeldRecord /\ held[e].version > 0
  BY HeldType, WorkedExists DEF Fire, Core
<1>2. CASE held[e].holders = 0
  <2>1. held' = [held EXCEPT ![e] = Stopped(e)]
    BY <1>2 DEF Fire, Core, TypeOK
  <2>2. Stopped(e) \in HeldRecord /\ Stopped(e).holders = held[e].holders /\ Stopped(e).version > 0
    BY <1>1, <1>2, StoppedFields, FreedFields
  <2> QED
    BY <1>1, <2>1, <2>2, EntryCore DEF Fire
<1>3. CASE held[e].holders # 0
  <2> DEFINE h == [held[e] EXCEPT !.job = "ask"]
  <2>1. held' = [held EXCEPT ![e] = h]
    BY <1>3 DEF Fire, Core, TypeOK
  <2>2. h \in HeldRecord /\ h.holders = held[e].holders /\ h.version = held[e].version
    BY <1>1 DEF HeldRecord, Jobs
  <2> QED
    BY <1>1, <2>1, <2>2, EntryCore DEF Fire
<1> QED
  BY <1>2, <1>3

LEMMA NotRenewedCore ==
    ASSUME Core, NEW e \in Entries, NotRenewed(e)
    PROVE  Core'
<1>1. held[e] \in HeldRecord /\ held[e].version > 0
  BY HeldType, WorkedExists DEF NotRenewed, Core
<1> QED
  BY <1>1, RenewalFailedFields, EntryCore DEF NotRenewed

\* What a renewal makes of an entry.
LEMMA RenewedFields ==
    ASSUME Core, NEW e \in Entries, NEW life \in host.lives[KeyOf(e)], Renewed(e, life)
    PROVE  \/ /\ held[e].holders = 0 /\ held' = [held EXCEPT ![e] = Stopped(e)] /\ queue' = queue
           \/ \E fresh \in HeldRecord :
                /\ held[e].holders > 0
                /\ fresh.holders = held[e].holders /\ fresh.ready = held[e].ready
                /\ fresh.life = life /\ fresh.version = held[e].version + 1 /\ fresh.job = "renew"
                /\ fresh.failed = held[e].failed /\ fresh.lent = held[e].lent
                /\ held' = [held EXCEPT ![e] = IF InstallStmts(e, fresh, "renew") = <<>>
                                               THEN Scheduled(fresh) ELSE fresh]
                /\ queue' = queue \o InstallStmts(e, fresh, "renew")
<1> DEFINE fresh == [held[e] EXCEPT !.life = life, !.version = @ + 1, !.job = "renew"]
<1>1. held[e] \in HeldRecord /\ held[e].version + 1 \in 0 .. MaxVersion
  BY HeldType, MountAssumption DEF Core, Renewed, HeldRecord
<1>2. life \in Lives
  BY MountAssumption DEF Core, TypeOK, Entries, KeyOf, Lives
<1>3. fresh \in HeldRecord
  BY <1>1, <1>2 DEF HeldRecord, Jobs
<1>4. /\ fresh.holders = held[e].holders /\ fresh.ready = held[e].ready
      /\ fresh.life = life /\ fresh.version = held[e].version + 1 /\ fresh.job = "renew"
      /\ fresh.failed = held[e].failed /\ fresh.lent = held[e].lent
  BY <1>1 DEF HeldRecord
<1>5. CASE held[e].holders = 0
  BY <1>5 DEF Renewed
<1>6. CASE held[e].holders # 0
  <2>1. held[e].holders > 0
    BY <1>1, <1>6 DEF HeldRecord
  <2>2. /\ held' = [held EXCEPT ![e] = IF InstallStmts(e, fresh, "renew") = <<>>
                                       THEN Scheduled(fresh) ELSE fresh]
        /\ queue' = queue \o InstallStmts(e, fresh, "renew")
    BY <1>6, Zenon DEF Renewed
  <2> QED
    BY <1>3, <1>4, <2>1, <2>2
<1> QED
  BY <1>5, <1>6


LEMMA RenewedCore ==
    ASSUME Core, NEW e \in Entries, NEW life \in host.lives[KeyOf(e)], Renewed(e, life)
    PROVE  Core'
<1>1. held[e] \in HeldRecord /\ held[e].version > 0
  BY HeldType, WorkedExists DEF Renewed, Core
<1>2. UNCHANGED <<page, table, granted, httpfs, orphans>>
  BY DEF Renewed
<1>3. CASE held[e].holders = 0 /\ held' = [held EXCEPT ![e] = Stopped(e)] /\ queue' = queue
  <2>1. Stopped(e) \in HeldRecord /\ Stopped(e).holders = held[e].holders /\ Stopped(e).version > 0
    BY <1>1, <1>3, StoppedFields, FreedFields
  <2> QED
    BY <1>1, <1>2, <1>3, <2>1, SendCore
<1>4. ASSUME NEW fresh \in HeldRecord,
             fresh.holders = held[e].holders, fresh.version = held[e].version + 1,
             held' = [held EXCEPT ![e] = IF InstallStmts(e, fresh, "renew") = <<>>
                                         THEN Scheduled(fresh) ELSE fresh],
             queue' = queue \o InstallStmts(e, fresh, "renew")
      PROVE  Core'
  <2> DEFINE h == IF InstallStmts(e, fresh, "renew") = <<>> THEN Scheduled(fresh) ELSE fresh
  <2>1. h \in HeldRecord /\ h.holders = held[e].holders /\ h.version = fresh.version
    BY <1>4, ScheduledFields
  <2>2. h.version > 0
    BY <1>1, <1>4, <2>1 DEF HeldRecord
  <2>3. \/ queue' = queue
        \/ \E s \in Statement : queue' = Append(queue, s) /\ s.entry = e /\ ~ Takes(s)
    <3>1. queue \in Seq(Statement)
      BY DEF Core, TypeOK
    <3>2. Installs(queue, queue', e, fresh, "renew")
      BY <1>4, <3>1, SendsOne
    <3> QED
      BY <3>2 DEF Takes, Installs
  <2> HIDE DEF h
  <2>4. held' = [held EXCEPT ![e] = h]
    BY <1>4 DEF h
  <2> QED
    BY <1>1, <1>2, <2>1, <2>2, <2>3, <2>4, SendCore
<1> QED
  BY <1>3, <1>4, RenewedFields

LEMMA FilesCore ==
    ASSUME Core, NEW m \in Mounts, NEW k \in Keys, Files(m, k)
    PROVE  /\ Core'
           /\ table[k] \in Entries /\ KeyOf(table[k]) = k /\ held[table[k]].holders > 0
<1> DEFINE e == table[k]
           h == [held[e] EXCEPT !.lent = TRUE]
           s == Stmt("lend", e, held[e], "files")
<1>1. m \in Holders(k)
  BY DEF Files, Core, TypeOK, Books, Progress, Holders, HeldKeys
<1>2. table[k] # None
  BY <1>1 DEF Core, Books, Counted
<1>3. /\ e \in Entries /\ KeyOf(e) = k
      /\ held[e] \in HeldRecord /\ held[e].version > 0 /\ held[e].holders > 0
  BY <1>2, HeldByOne, HeldType DEF Core
<1>4. h \in HeldRecord /\ h.holders = held[e].holders /\ h.version = held[e].version
  BY <1>3 DEF HeldRecord
<1>5. s \in Statement /\ s.entry = e /\ ~ Takes(s)
  BY <1>3, StmtFields DEF Takes
<1>6. held' = [held EXCEPT ![e] = h] /\ queue' = Append(queue, s)
  BY DEF Files
<1> HIDE DEF h, s
<1> QED
  BY <1>3, <1>4, <1>5, <1>6, SendCore DEF Files, page

LEMMA UninstallCore ==
    ASSUME Core, NEW m \in Mounts, Uninstall(m)
    PROVE  Core'
<1> DEFINE e == leaving[m]
           op == IF KeyOf(e) \in Lent THEN "forget" ELSE "drop"
           s == Stmt(op, e, held[e], m)
<1>0. e # None /\ pc[m] = "awaiting"
  BY DEF Uninstall, Core, Books, Progress
<1>1. e \in Entries /\ held[e] \in HeldRecord /\ held[e].version > 0
  BY <1>0, HeldType DEF Core, TypeOK, Books, Parting
<1>2. s \in Statement /\ s.entry = e /\ s.by = m /\ Takes(s)
  BY <1>1, StmtFields DEF Takes
<1>3. /\ \/ queue' = queue /\ pc' = [pc EXCEPT ![m] = "dropped"]
         \/ queue' = Append(queue, s) /\ pc' = [pc EXCEPT ![m] = "dropping"]
      /\ UNCHANGED <<host, got, rel, leaving, opened, aborted, cache, granted, httpfs, orphans>>
  BY DEF Uninstall
<1> HIDE DEF s
<1>4. queue \in Seq(Statement)
  BY DEF Core, TypeOK
<1>5. /\ queue' \in Seq(Statement)
      /\ \A i \in DOMAIN queue' :
           \/ i \in DOMAIN queue /\ queue'[i] = queue[i]
           \/ /\ i \notin DOMAIN queue /\ queue'[i] = s /\ i = Len(queue) + 1
              /\ pc'[m] = "dropping"
  <2>1. CASE queue' = queue
    BY <1>4, <2>1
  <2>2. CASE queue' = Append(queue, s) /\ pc' = [pc EXCEPT ![m] = "dropping"]
    <3>1. pc'[m] = "dropping"
      BY <2>2 DEF Core, TypeOK
    <3>2. /\ queue' \in Seq(Statement) /\ DOMAIN queue' = 1 .. (Len(queue) + 1)
          /\ DOMAIN queue = 1 .. Len(queue) /\ Len(queue) \in Nat
          /\ \A i \in DOMAIN queue : queue'[i] = queue[i]
          /\ queue'[Len(queue) + 1] = s
      BY <1>2, <1>4, <2>2, AppendOf
    <3> QED
      BY <3>1, <3>2
  <2> QED
    BY <1>3, <2>1, <2>2
<1>6. TypeOK'
  BY <1>3, <1>5 DEF Core, TypeOK, cache
<1>7. \A n \in Mounts : Progress(n)'
  BY <1>0, <1>3 DEF Core, TypeOK, Books, Progress
<1>8. \A i \in DOMAIN queue : Takes(queue[i]) => queue[i].by # m /\ pc'[queue[i].by] = pc[queue[i].by]
  BY <1>0, <1>3 DEF Core, TypeOK, Books, Dropping
<1>9. \A i \in DOMAIN queue' : Dropping(i)'
  BY <1>2, <1>3, <1>5, <1>8 DEF Core, Books, Dropping
<1>10. \A i \in DOMAIN queue' : queue'[i].entry \in Entries /\ held[queue'[i].entry].version > 0
  BY <1>1, <1>2, <1>5, QueueType DEF Core, Books
<1> QED
  BY <1>3, <1>6, <1>7, <1>9, <1>10, BooksKept DEF Core, cache


\* What a refused statement, and one that landed, make of an entry.
Refusal(h, by) ==
    CASE by = "install" -> [h EXCEPT !.ready = "failed", !.job = "none"]
      [] by = "renew"   -> RenewalFailed(h)
      [] OTHER          -> h

Landing(h, by) ==
    CASE by = "install" -> Scheduled([h EXCEPT !.ready = "ok"])
      [] by = "renew"   -> Scheduled(h)
      [] OTHER          -> h

LEMMA RefusalFields ==
    ASSUME NEW h \in HeldRecord, NEW by
    PROVE  /\ Refusal(h, by) \in HeldRecord
           /\ Refusal(h, by).holders = h.holders /\ Refusal(h, by).version = h.version
           /\ Refusal(h, by).life = h.life /\ Refusal(h, by).lent = h.lent
           /\ h.failed => Refusal(h, by).failed
           /\ by = "install" => /\ Refusal(h, by).ready = "failed" /\ Refusal(h, by).job = "none"
           /\ by = "renew" =>
                /\ Refusal(h, by).ready = h.ready
                /\ \/ Refusal(h, by).job = "retry"
                   \/ Refusal(h, by).job = "none" /\ Refusal(h, by).failed
           /\ by \notin {"install", "renew"} => Refusal(h, by) = h
<1>1. CASE by = "install"
  BY <1>1 DEF Refusal, HeldRecord, Jobs
<1>2. CASE by = "renew"
  <2>1. Refusal(h, by) = RenewalFailed(h)
    BY <1>2 DEF Refusal
  <2> QED
    BY <1>2, <2>1, RenewalFailedFields
<1>3. CASE by \notin {"install", "renew"}
  <2>1. Refusal(h, by) = h
    BY <1>3 DEF Refusal
  <2> QED
    BY <1>3, <2>1
<1> QED
  BY <1>1, <1>2, <1>3

LEMMA LandingFields ==
    ASSUME NEW h \in HeldRecord, NEW by
    PROVE  /\ Landing(h, by) \in HeldRecord
           /\ Landing(h, by).holders = h.holders /\ Landing(h, by).version = h.version
           /\ Landing(h, by).life = h.life /\ Landing(h, by).lent = h.lent
           /\ Landing(h, by).failed = h.failed
           /\ by = "install" => Landing(h, by).ready = "ok"
           /\ by \in {"install", "renew"} =>
                Landing(h, by).job = IF h.life = "forever" THEN "none" ELSE "armed"
           /\ by = "renew" => Landing(h, by).ready = h.ready
           /\ by \notin {"install", "renew"} => Landing(h, by) = h
<1>1. CASE by = "install"
  <2> DEFINE g == [h EXCEPT !.ready = "ok"]
  <2>1. /\ g \in HeldRecord /\ g.ready = "ok" /\ g.holders = h.holders /\ g.version = h.version
        /\ g.life = h.life /\ g.lent = h.lent /\ g.failed = h.failed
    BY DEF HeldRecord
  <2>2. Landing(h, by) = Scheduled(g)
    BY <1>1 DEF Landing
  <2> HIDE DEF g
  <2> QED
    BY <1>1, <2>1, <2>2, ScheduledFields
<1>2. CASE by = "renew"
  <2>1. Landing(h, by) = Scheduled(h)
    BY <1>2 DEF Landing
  <2> QED
    BY <1>2, <2>1, ScheduledFields
<1>3. CASE by \notin {"install", "renew"}
  <2>1. Landing(h, by) = h
    BY <1>3 DEF Landing
  <2> QED
    BY <1>3, <2>1
<1> QED
  BY <1>1, <1>2, <1>3

\* The statement at the head of the queue, when the engine answers it.
LEMMA HeadOf ==
    ASSUME Core, queue # <<>>
    PROVE  /\ Head(queue) \in Statement /\ Head(queue) = queue[1] /\ 1 \in DOMAIN queue
           /\ Head(queue).entry \in Entries /\ held[Head(queue).entry] \in HeldRecord
           /\ Head(queue).by \in Mounts \cup {"install", "renew", "files"}
           /\ Head(queue).version \in 0 .. MaxVersion
           /\ held[Head(queue).entry].version > 0
<1>1. queue \in Seq(Statement)
  BY DEF Core, TypeOK
<1>2. Head(queue) \in Statement /\ Head(queue) = queue[1] /\ 1 \in DOMAIN queue
  BY <1>1, TailOf
<1> QED
  BY <1>2, HeldType DEF Core, Books, Statement

LEMMA ProbeFields ==
    ASSUME Core, Probe
    PROVE  \/ /\ httpfs' = TRUE /\ queue' = Append(Tail(queue), [Head(queue) EXCEPT !.op = "create"])
              /\ held' = held
           \/ /\ held' = [held EXCEPT ![Head(queue).entry] = Refusal(held[Head(queue).entry], Head(queue).by)]
              /\ queue' = Tail(queue) /\ httpfs' = httpfs
  BY DEF Probe, Refused, Refusal, Core, TypeOK

LEMMA PutFields ==
    ASSUME Core, Put
    PROVE  \/ /\ granted' = [granted EXCEPT ![NameOf[KeyOf(Head(queue).entry)]] =
                               [entry |-> Head(queue).entry, version |-> Head(queue).version]]
              /\ held' = [held EXCEPT ![Head(queue).entry] = Landing(held[Head(queue).entry], Head(queue).by)]
           \/ /\ held' = [held EXCEPT ![Head(queue).entry] = Refusal(held[Head(queue).entry], Head(queue).by)]
              /\ granted' = granted
  BY DEF Put, Refused, Refusal, Landing, Core, TypeOK


\* What is left of the queue is what it was, one place nearer.
LEMMA AnsweredQueue ==
    ASSUME Core, queue # <<>>
    PROVE  /\ Tail(queue) \in Seq(Statement)
           /\ \A i \in DOMAIN Tail(queue) : i + 1 \in DOMAIN queue /\ Tail(queue)[i] = queue[i + 1]
           /\ \A i \in DOMAIN queue : i > 1 => i - 1 \in DOMAIN Tail(queue) /\ Tail(queue)[i - 1] = queue[i]
           /\ Len(Tail(queue)) = Len(queue) - 1 /\ Len(queue) \in Nat \ {0}
<1>1. queue \in Seq(Statement)
  BY DEF Core, TypeOK
<1> QED
  BY <1>1, TailOf

LEMMA ProbeCore ==
    ASSUME Core, Probe
    PROVE  Core'
<1> DEFINE s == Head(queue)
           e == s.entry
           c == [s EXCEPT !.op = "create"]
<1>0. queue # <<>>
  BY DEF Probe, Answered
<1>1. /\ s \in Statement /\ e \in Entries /\ held[e] \in HeldRecord /\ held[e].version > 0
  BY <1>0, HeadOf
<1>2. UNCHANGED <<page, table, granted, orphans>> /\ granted' \in Grants /\ orphans' \subseteq Names
  BY DEF Probe, Core, TypeOK, Grants
<1>3. CASE httpfs' = TRUE /\ queue' = Append(Tail(queue), c) /\ held' = held
  <2>1. c \in Statement /\ c.entry = e /\ ~ Takes(c)
    BY <1>1 DEF Statement, Takes
  <2>2. held' = [held EXCEPT ![e] = held[e]]
    BY <1>1, <1>3 DEF Core, TypeOK
  <2>3. Tail(queue) \in Seq(Statement)
    BY <1>0, AnsweredQueue
  <2> HIDE DEF c
  <2>4. queue' \in Seq(Statement)
    BY <1>3, <2>1, <2>3
  <2>5. \A i \in DOMAIN queue' :
          \/ i + 1 \in DOMAIN queue /\ queue'[i] = queue[i + 1]
          \/ ~ Takes(queue'[i]) /\ held[queue'[i].entry].version > 0
    <3> TAKE i \in DOMAIN queue'
    <3>1. CASE i \in DOMAIN Tail(queue)
      BY <1>0, <1>3, <2>1, <2>3, <3>1, AnsweredQueue, AppendOf
    <3>2. CASE i \notin DOMAIN Tail(queue)
      <4>1. queue'[i] = c
        BY <1>3, <2>1, <2>3, <3>2
      <4> QED
        BY <1>1, <2>1, <4>1
    <3> QED
      BY <3>1, <3>2
  <2>6. held[e].holders = held[e].holders /\ httpfs' \in BOOLEAN
    BY <1>3
  <2> QED
    BY <1>1, <1>2, <2>2, <2>4, <2>5, <2>6, ChangeCore
<1>4. CASE /\ held' = [held EXCEPT ![e] = Refusal(held[e], s.by)]
           /\ queue' = Tail(queue) /\ httpfs' = httpfs
  <2>1. /\ Refusal(held[e], s.by) \in HeldRecord /\ Refusal(held[e], s.by).holders = held[e].holders
        /\ Refusal(held[e], s.by).version = held[e].version
    BY <1>1, RefusalFields
  <2>2. queue' \in Seq(Statement) /\ \A i \in DOMAIN queue' : i + 1 \in DOMAIN queue /\ queue'[i] = queue[i + 1]
    BY <1>0, <1>4, AnsweredQueue
  <2>3. httpfs' \in BOOLEAN
    BY <1>4 DEF Core, TypeOK
  <2> QED
    BY <1>1, <1>2, <1>4, <2>1, <2>2, <2>3, ChangeCore
<1> QED
  BY <1>3, <1>4, ProbeFields

LEMMA PutCore ==
    ASSUME Core, Put
    PROVE  Core'
<1> DEFINE s == Head(queue)
           e == s.entry
           n == NameOf[KeyOf(e)]
           g == [entry |-> e, version |-> s.version]
<1>0. queue # <<>>
  BY DEF Put, Answered
<1>1. /\ s \in Statement /\ e \in Entries /\ held[e] \in HeldRecord /\ held[e].version > 0
      /\ s.version \in 0 .. MaxVersion
  BY <1>0, HeadOf
<1>2. /\ UNCHANGED <<page, table, httpfs, orphans>> /\ httpfs' \in BOOLEAN /\ orphans' \subseteq Names
      /\ queue' = Tail(queue)
  BY DEF Put, Core, TypeOK
<1>3. queue' \in Seq(Statement) /\ \A i \in DOMAIN queue' : i + 1 \in DOMAIN queue /\ queue'[i] = queue[i + 1]
  BY <1>0, <1>2, AnsweredQueue
<1>4. CASE granted' = [granted EXCEPT ![n] = g] /\ held' = [held EXCEPT ![e] = Landing(held[e], s.by)]
  <2>1. granted' \in Grants
    BY <1>1, <1>4 DEF Core, TypeOK, Grants
  <2>2. /\ Landing(held[e], s.by) \in HeldRecord /\ Landing(held[e], s.by).holders = held[e].holders
        /\ Landing(held[e], s.by).version = held[e].version
    BY <1>1, LandingFields
  <2> QED
    BY <1>1, <1>2, <1>3, <1>4, <2>1, <2>2, ChangeCore
<1>5. CASE held' = [held EXCEPT ![e] = Refusal(held[e], s.by)] /\ granted' = granted
  <2>1. granted' \in Grants
    BY <1>5 DEF Core, TypeOK, Grants
  <2>2. /\ Refusal(held[e], s.by) \in HeldRecord /\ Refusal(held[e], s.by).holders = held[e].holders
        /\ Refusal(held[e], s.by).version = held[e].version
    BY <1>1, RefusalFields
  <2> QED
    BY <1>1, <1>2, <1>3, <1>5, <2>1, <2>2, ChangeCore
<1> QED
  BY <1>4, <1>5, PutFields

LEMMA DropCore ==
    ASSUME Core, Drop
    PROVE  Core'
<1> DEFINE s == Head(queue)
           n == NameOf[KeyOf(s.entry)]
<1>0. queue # <<>> /\ Takes(s)
  BY DEF Drop, Answered, Takes
<1>1. /\ s \in Statement /\ s.entry \in Entries /\ s = queue[1] /\ 1 \in DOMAIN queue
  BY <1>0, HeadOf
<1>2. s.by \in Mounts /\ pc[s.by] = "dropping" /\ leaving[s.by] = s.entry
  BY <1>0, <1>1 DEF Core, Books, Dropping
<1>3. /\ UNCHANGED <<host, got, rel, leaving, opened, aborted, cache, httpfs>>
      /\ queue' = Tail(queue) /\ pc' = [pc EXCEPT ![s.by] = "dropped"]
      /\ granted' = [granted EXCEPT ![n] = None] \/ granted' = granted
      /\ orphans' = orphans \ {n} \/ orphans' = orphans \cup {n}
  BY DEF Drop
<1>4. n \in Names
  BY <1>1, MountAssumption DEF Entries, KeyOf
<1>5. queue' \in Seq(Statement) /\ \A i \in DOMAIN queue' : i + 1 \in DOMAIN queue /\ queue'[i] = queue[i + 1]
  BY <1>0, <1>3, AnsweredQueue
<1>6. TypeOK'
  BY <1>2, <1>3, <1>4, <1>5 DEF Core, TypeOK, cache
<1>7. \A m \in Mounts : Progress(m)'
  BY <1>2, <1>3 DEF Core, TypeOK, Books, Progress
<1>8. DOMAIN queue' \in SUBSET Nat
  BY <1>6, QueueType DEF TypeOK
<1>9. \A i \in DOMAIN queue' : Takes(queue'[i]) => pc'[queue'[i].by] = pc[queue'[i].by]
  <2> SUFFICES ASSUME NEW i \in DOMAIN queue', Takes(queue'[i])
               PROVE  pc'[queue'[i].by] = pc[queue'[i].by]
    OBVIOUS
  <2>1. i \in Nat /\ i + 1 \in DOMAIN queue /\ queue'[i] = queue[i + 1] /\ i # 0
    BY <1>5, <1>8
  <2>2. queue[i + 1].by # s.by
    <3>1. Dropping(1)
      BY <1>1 DEF Core, Books
    <3> QED
      BY <1>0, <1>1, <2>1, <3>1 DEF Dropping
  <2> QED
    BY <1>3, <2>1, <2>2 DEF Core, TypeOK
<1>10. \A i \in DOMAIN queue' : Dropping(i)'
  BY <1>3, <1>5, <1>8, <1>9, MailKept
<1>11. \A i \in DOMAIN queue' : queue'[i].entry \in Entries /\ held[queue'[i].entry].version > 0
  BY <1>5, QueueType DEF Core, Books
<1> QED
  BY <1>3, <1>6, <1>7, <1>10, <1>11, BooksKept DEF Core, cache


(***************************************************************************)
(* A mount takes a key.                                                    *)
(***************************************************************************)

LEMMA VendsOf ==
    ASSUME TypeOK, NEW m \in Mounts
    PROVE  /\ host.vends[m] \in Seq(Keys) /\ Len(host.vends[m]) \in Nat
           /\ \A i \in 1 .. Len(host.vends[m]) : host.vends[m][i] \in Keys
           /\ \A i, j \in 1 .. Len(host.vends[m]) : host.vends[m][i] = host.vends[m][j] => i = j
<1>1. host.vends[m] \in Seq(Keys)
  BY MountAssumption DEF TypeOK
<1>2. \A i, j \in DOMAIN host.vends[m] : host.vends[m][i] = host.vends[m][j] => i = j
  BY MountAssumption DEF TypeOK
<1> QED
  BY <1>1, <1>2

\* The key a mount takes: who holds it, and any other, afterwards.
LEMMA TakeHolders ==
    ASSUME Core, NEW m \in Mounts, Taking(m),
           NEW k, k = host.vends[m][got[m] + 1]
    PROVE  /\ k \in Keys /\ got[m] + 1 <= Len(host.vends[m]) /\ rel[m] = 0 /\ leaving[m] = None
           /\ got' = [got EXCEPT ![m] = @ + 1] /\ pc' = [pc EXCEPT ![m] = "waiting"]
           /\ UNCHANGED <<host, rel, leaving, opened, aborted>>
           /\ m \notin Holders(k) /\ Holders(k)' = Holders(k) \cup {m}
           /\ \A l \in Keys : l # k => Holders(l)' = Holders(l)
           /\ k \notin Taken(m) /\ k \in Taken(m)'
           /\ \A n \in Mounts : Taken(n) \subseteq Taken(n)'
<1>1. /\ got[m] \in Nat /\ got[m] < Len(host.vends[m]) /\ rel[m] = 0 /\ leaving[m] = None
      /\ got' = [got EXCEPT ![m] = @ + 1] /\ pc' = [pc EXCEPT ![m] = "waiting"]
      /\ UNCHANGED <<host, rel, leaving, opened, aborted>>
  <2>1. Progress(m) /\ got[m] \in Nat /\ rel[m] \in Nat
    BY DEF Core, TypeOK, Books
  <2>2. pc[m] \in {"asking", "waiting"} /\ Take(m)
    BY DEF Taking
  <2>3. rel[m] = 0 /\ leaving[m] = None
    BY <2>1, <2>2 DEF Progress
  <2>4. /\ got[m] < Len(host.vends[m])
        /\ got' = [got EXCEPT ![m] = @ + 1] /\ pc' = [pc EXCEPT ![m] = "waiting"]
        /\ UNCHANGED <<host, rel, leaving, opened, aborted>>
    BY <2>2, Zenon DEF Take
  <2> QED
    BY <2>1, <2>3, <2>4
<1>2. k \in Keys /\ got[m] + 1 \in 1 .. Len(host.vends[m]) /\ got[m] + 1 <= Len(host.vends[m])
  BY <1>1, VendsOf DEF Core
<1>3. got'[m] = got[m] + 1 /\ \A n \in Mounts : n # m => got'[n] = got[n]
  BY <1>1 DEF Core, TypeOK
<1>4. \A n \in Mounts : n # m => HeldKeys(n)' = HeldKeys(n) /\ Taken(n)' = Taken(n)
  BY <1>1, <1>3 DEF HeldKeys, Taken
<1>5. HeldKeys(m) = Taken(m) /\ HeldKeys(m)' = Taken(m)'
  BY <1>1 DEF HeldKeys, Taken
<1>6. Taken(m)' = Taken(m) \cup {k}
  BY <1>1, <1>3 DEF Taken
<1>7. k \notin Taken(m)
  <2> SUFFICES ASSUME NEW i \in 1 .. got[m], host.vends[m][i] = k PROVE FALSE
    BY DEF Taken
  <2> QED
    BY <1>1, <1>2, VendsOf DEF Core
<1>8. m \notin Holders(k) /\ Holders(k)' = Holders(k) \cup {m}
  BY <1>4, <1>5, <1>6, <1>7 DEF Holders
<1>9. \A l \in Keys : l # k => Holders(l)' = Holders(l)
  BY <1>4, <1>5, <1>6 DEF Holders
<1> QED
  BY <1>1, <1>2, <1>4, <1>6, <1>7, <1>8, <1>9

\* The entry a mount makes for a key that has none: what it installs, and what it leaves.
Making(e, life, h, g) ==
    /\ h.holders = 1 /\ h.version = 1 /\ h.life = life /\ ~ h.failed /\ ~ h.lent
    /\ h.ready = "pending" /\ h.job = "install"
    /\ g.holders = 1 /\ g.version = 1 /\ g.life = life /\ ~ g.failed /\ ~ g.lent
    /\ IF KeyOf(e) \in Lent
       THEN g.ready = "ok" /\ g.job = IF life = "forever" THEN "none" ELSE "armed"
       ELSE g = h
    /\ held' = [held EXCEPT ![e] = g]
    /\ queue' = queue \o InstallStmts(e, h, "install")

LEMMA CreateFields ==
    ASSUME Core, NEW m \in Mounts, NEW k \in Keys, NEW life \in host.lives[k], Create(m, k, life)
    PROVE  \E h, g \in HeldRecord : Making(<<m, k>>, life, h, g)
<1> DEFINE h == [NoHeld EXCEPT !.holders = 1, !.life = life, !.version = 1,
                               !.ready = "pending", !.job = "install"]
           f == [h EXCEPT !.ready = "ok"]
           g == IF k \in Lent THEN Scheduled(f) ELSE h
<1>1. life \in Lives /\ 1 \in 0 .. MaxVersion
  BY MountAssumption DEF Core, TypeOK, Lives
<1>2. /\ h \in HeldRecord /\ h.holders = 1 /\ h.version = 1 /\ h.life = life
      /\ ~ h.failed /\ ~ h.lent /\ h.ready = "pending" /\ h.job = "install"
  BY <1>1, NoHeldType DEF HeldRecord, Jobs, NoHeld
<1>3. held' = [held EXCEPT ![<<m, k>>] = g] /\ queue' = queue \o InstallStmts(<<m, k>>, h, "install")
  BY DEF Create
<1> HIDE DEF h
<1>4. /\ f \in HeldRecord /\ f.holders = 1 /\ f.version = 1 /\ f.life = life
      /\ ~ f.failed /\ ~ f.lent /\ f.ready = "ok"
  BY <1>2 DEF HeldRecord
<1> HIDE DEF f
<1>5. /\ g \in HeldRecord /\ g.holders = 1 /\ g.version = 1 /\ g.life = life /\ ~ g.failed /\ ~ g.lent
      /\ IF k \in Lent
         THEN g.ready = "ok" /\ g.job = IF life = "forever" THEN "none" ELSE "armed"
         ELSE g = h
  BY <1>2, <1>4, ScheduledFields
<1> HIDE DEF g
<1>6. KeyOf(<<m, k>>) = k
  BY DEF KeyOf
<1> QED
  BY <1>2, <1>3, <1>5, <1>6 DEF Making


\* A mount shares the entry of its key, or makes one.
LEMMA TakeCases ==
    ASSUME Core, NEW m \in Mounts, Taking(m),
           NEW k, k = host.vends[m][got[m] + 1]
    PROVE  Share(k) \/ \E life \in host.lives[k] : Create(m, k, life)
  BY Zenon DEF Taking, Take

LEMMA TakingTypes ==
    ASSUME Core, NEW m \in Mounts, Taking(m), held' \in [Entries -> HeldRecord],
           table' \in [Keys -> Entries \cup {None}], queue' \in Seq(Statement),
           UNCHANGED <<granted, httpfs, orphans>>
    PROVE  TypeOK'
<1>1. /\ got[m] \in Nat /\ got' = [got EXCEPT ![m] = @ + 1] /\ pc' = [pc EXCEPT ![m] = "waiting"]
      /\ UNCHANGED <<host, rel, leaving, opened, aborted>>
  BY TakeHolders DEF Core, TypeOK
<1> QED
  BY <1>1 DEF Core, TypeOK, HeldRecord

LEMMA TakingProgress ==
    ASSUME Core, NEW m \in Mounts, Taking(m)
    PROVE  \A n \in Mounts : Progress(n)'
<1>1. /\ got' = [got EXCEPT ![m] = @ + 1] /\ pc' = [pc EXCEPT ![m] = "waiting"]
      /\ UNCHANGED <<host, rel, leaving, opened, aborted>>
      /\ got[m] + 1 <= Len(host.vends[m]) /\ rel[m] = 0 /\ leaving[m] = None
  BY TakeHolders
<1>2. got \in [Mounts -> Nat] /\ pc \in [Mounts -> {"idle", "asking", "waiting", "open", "awaiting",
                          "dropping", "dropped", "closed", "failed"}]
  BY DEF Core, TypeOK
<1> TAKE n \in Mounts
<1>3. Progress(n)
  BY DEF Core, Books
<1>4. CASE n = m
  BY <1>1, <1>2, <1>4 DEF Progress
<1>5. CASE n # m
  BY <1>1, <1>2, <1>3, <1>5 DEF Progress
<1> QED
  BY <1>4, <1>5

\* A mount that has taken a key has its entry in the table, counted once more.
LEMMA TakeCore ==
    ASSUME Core, NEW m \in Mounts, Taking(m),
           NEW k, k = host.vends[m][got[m] + 1],
           NEW e \in Entries, KeyOf(e) = k, table[k] \in {None, e}, KeyOf(e) \in Taken(e[1])',
           NEW h \in HeldRecord, h.version > 0, h.holders = Cardinality(Holders(k)) + 1,
           IsFiniteSet(Holders(k)), \A n \in Mounts : leaving[n] # e,
           held' = [held EXCEPT ![e] = h], table' = [table EXCEPT ![k] = e],
           UNCHANGED <<granted, httpfs, orphans>>, queue' \in Seq(Statement),
           \A i \in DOMAIN queue' :
             \/ i \in DOMAIN queue /\ queue'[i] = queue[i]
             \/ ~ Takes(queue'[i]) /\ queue'[i].entry = e
    PROVE  Core'
<1>1. k \in Keys /\ table \in [Keys -> Entries \cup {None}] /\ None \notin Entries
  BY TakeHolders, MountAssumption DEF Core, TypeOK
<1>2. /\ \A x \in Entries : held'[x] = IF x = e THEN h ELSE held[x]
      /\ \A l \in Keys : table'[l] = IF l = k THEN e ELSE table[l]
  BY <1>1 DEF Core, TypeOK
<1>3. h.version # 0
  BY HeldFields
<1>4. TypeOK'
  <2>1. held' \in [Entries -> HeldRecord] /\ table' \in [Keys -> Entries \cup {None}]
    BY <1>1, HeldType DEF Core
  <2> QED
    BY <2>1, TakingTypes
<1>5. /\ Holders(k)' = Holders(k) \cup {m} /\ m \notin Holders(k)
      /\ \A l \in Keys : l # k => Holders(l)' = Holders(l)
      /\ \A n \in Mounts : Taken(n) \subseteq Taken(n)'
      /\ UNCHANGED <<leaving>> /\ pc' = [pc EXCEPT ![m] = "waiting"]
  BY TakeHolders
<1>6. \A l \in Keys : Counted(l)'
  <2> TAKE l \in Keys
  <2>1. Counted(l)
    BY DEF Core, Books
  <2>2. CASE l = k
    <3>1. IsFiniteSet(Holders(k) \cup {m}) /\ Cardinality(Holders(k) \cup {m}) = Cardinality(Holders(k)) + 1
      BY <1>5, FS_AddElement
    <3>2. held'[e].holders = Cardinality(Holders(k)')
      BY <1>2, <1>5, <3>1
    <3>3. IsFiniteSet(Holders(k)') /\ Holders(k)' # {} /\ table'[k] = e
      BY <1>1, <1>2, <1>5, <3>1
    <3> QED
      BY <1>1, <2>2, <3>2, <3>3 DEF Counted
  <2>3. CASE l # k
    <3>1. table[l] # None => table[l] # e /\ table[l] \in Entries
      BY <1>1, <2>1, <2>3 DEF Counted
    <3> QED
      BY <1>2, <1>5, <2>1, <2>3, <3>1 DEF Counted
  <2> QED
    BY <2>2, <2>3
<1>7. \A x \in Entries : Placed(x)'
  <2> TAKE x \in Entries
  <2>1. Placed(x) /\ x[1] \in Mounts /\ KeyOf(x) \in Keys
    BY DEF Core, Books, Entries, KeyOf
  <2>2. KeyOf(x) \in Taken(x[1]) => KeyOf(x) \in Taken(x[1])'
    BY <1>5, <2>1
  <2>3. CASE x = e
    BY <1>1, <1>2, <1>3, <2>3 DEF Placed
  <2>4. CASE x # e
    <3>1. table[KeyOf(x)] = x => table'[KeyOf(x)] = x
      BY <1>1, <1>2, <2>1, <2>4
    <3>2. table'[KeyOf(x)] # x => table[KeyOf(x)] # x
      BY <3>1
    <3>3. table'[KeyOf(x)] = x => table[KeyOf(x)] = x
      BY <1>2, <2>1, <2>4
    <3> QED
      BY <1>2, <2>1, <2>2, <2>4, <3>2, <3>3 DEF Placed
  <2> QED
    BY <2>3, <2>4
<1>8. \A n \in Mounts : Parting(n)'
  <2> TAKE n \in Mounts
  <2>1. Parting(n) /\ leaving[n] \in Entries \cup {None} /\ leaving[n] # e
    BY DEF Core, TypeOK, Books
  <2>2. \A x \in Entries : held[x].version > 0 => held'[x].version > 0
    BY <1>2
  <2>3. \A x \in Entries : x # e /\ table[KeyOf(x)] # x => table'[KeyOf(x)] # x
    BY <1>2 DEF Entries, KeyOf
  <2> QED
    BY <1>5, <2>1, <2>2, <2>3 DEF Parting
<1>9. \A i \in DOMAIN queue' : held'[queue'[i].entry].version > 0
  BY <1>2, QueueType DEF Core, Books
<1>10. \A i \in DOMAIN queue' : Dropping(i)'
  <2>1. \A i \in DOMAIN queue : Takes(queue[i]) => pc'[queue[i].by] = pc[queue[i].by]
    <3>1. pc[m] # "dropping"
      BY DEF Taking
    <3> QED
      BY <1>5, <3>1 DEF Core, TypeOK, Books, Dropping
  <2>2. DOMAIN queue' \in SUBSET Nat
    BY <1>4, QueueType DEF TypeOK
  <2>3. \A i \in DOMAIN queue' : Takes(queue'[i]) =>
          /\ i + 0 \in DOMAIN queue /\ queue'[i] = queue[i + 0]
          /\ pc'[queue'[i].by] = pc[queue'[i].by]
          /\ leaving'[queue'[i].by] = leaving[queue'[i].by]
    BY <1>5, <2>1, <2>2
  <2> QED
    BY <2>2, <2>3, MailKept
<1>11. \A n \in Mounts : Progress(n)'
  BY TakingProgress
<1> QED
  BY <1>4, <1>6, <1>7, <1>8, <1>9, <1>10, <1>11 DEF Core, Books

LEMMA ShareCore ==
    ASSUME Core, NEW m \in Mounts, Taking(m),
           NEW k, k = host.vends[m][got[m] + 1], Share(k)
    PROVE  Core'
<1>1. k \in Keys
  BY TakeHolders
<1>2. table[k] # None /\ table[k] \in Entries
  BY <1>1, HeldByOne DEF Share
<1> PICK e \in Entries : e = table[k]
  BY <1>2
<1> DEFINE h == [held[e] EXCEPT !.holders = @ + 1]
<1>3. held' = [held EXCEPT ![e] = h] /\ UNCHANGED <<table, engine>>
  BY <1>2 DEF Share, Core, TypeOK
<1>4. /\ KeyOf(e) = k /\ held[e] \in HeldRecord /\ held[e].version > 0
      /\ IsFiniteSet(Holders(k)) /\ held[e].holders = Cardinality(Holders(k))
      /\ KeyOf(e) \in Taken(e[1]) /\ e[1] \in Mounts
  BY <1>1, <1>2, HeldByOne, HeldType DEF Core, Books, Counted, Placed, Entries
<1>5. h \in HeldRecord /\ h.holders = held[e].holders + 1 /\ h.version = held[e].version
  <2>1. held[e].holders + 1 \in Nat
    BY <1>4, HeldFields
  <2> QED
    BY <1>4, <2>1 DEF HeldRecord
<1> HIDE DEF h
<1>6. KeyOf(e) \in Taken(e[1])'
  BY <1>4, TakeHolders
<1>7. /\ table' = [table EXCEPT ![k] = e] /\ queue' \in Seq(Statement) /\ queue' = queue
      /\ UNCHANGED <<granted, httpfs, orphans>>
  BY <1>1, <1>3 DEF Core, TypeOK, engine
<1>8. \A n \in Mounts : leaving[n] # e
  BY <1>2, <1>4, MountAssumption DEF Core, Books, Parting
<1>9. table[k] \in {None, e} /\ h.version > 0 /\ h.holders = Cardinality(Holders(k)) + 1
  BY <1>4, <1>5
<1> QED
  BY <1>3, <1>4, <1>5, <1>6, <1>7, <1>8, <1>9, TakeCore

LEMMA CreateCore ==
    ASSUME Core, NEW m \in Mounts, Taking(m),
           NEW k, k = host.vends[m][got[m] + 1],
           NEW life \in host.lives[k], Create(m, k, life)
    PROVE  Core'
<1>1. k \in Keys /\ k \notin Taken(m) /\ k \in Taken(m)'
  BY TakeHolders
<1> PICK e \in Entries : e = <<m, k>>
  BY <1>1 DEF Entries
<1>2. KeyOf(e) = k /\ e[1] = m /\ KeyOf(e) \in Taken(e[1])'
  BY <1>1 DEF KeyOf
<1>0. PICK h, g \in HeldRecord : Making(e, life, h, g)
  BY <1>1, CreateFields
<1>3. /\ g.holders = 1 /\ g.version = 1
      /\ held' = [held EXCEPT ![e] = g]
      /\ queue' = queue \o InstallStmts(e, h, "install")
  BY <1>0 DEF Making
<1>4. /\ table[k] = None /\ table' = [table EXCEPT ![k] = e]
      /\ UNCHANGED <<granted, httpfs, orphans>>
  BY DEF Create
<1>5. IsFiniteSet(Holders(k)) /\ g.holders = Cardinality(Holders(k)) + 1
  <2>1. Holders(k) = {}
    BY <1>1, <1>4 DEF Core, Books, Counted
  <2> QED
    BY <1>3, <2>1, FS_EmptySet
<1>6. \A n \in Mounts : leaving[n] # e
  <2>1. ~ (held[e].version > 0)
    BY <1>1, <1>2 DEF Core, Books, Placed
  <2> QED
    BY <2>1, MountAssumption DEF Core, Books, Parting
<1>7. queue \in Seq(Statement) /\ Installs(queue, queue', e, h, "install")
  BY <1>3, SendsOne DEF Core, TypeOK
<1>8. /\ queue' \in Seq(Statement)
      /\ \A i \in DOMAIN queue' : \/ i \in DOMAIN queue /\ queue'[i] = queue[i]
                                  \/ ~ Takes(queue'[i]) /\ queue'[i].entry = e
  <2>1. CASE queue' = queue
    BY <1>7, <2>1
  <2>2. CASE \E s \in Statement : queue' = Append(queue, s) /\ s.entry = e /\ ~ Takes(s)
    BY <1>7, <2>2, AppendOf
  <2> QED
    BY <1>7, <2>1, <2>2 DEF Installs, Takes
<1>9. g.version > 0
  BY <1>3
<1> QED
  BY <1>2, <1>3, <1>4, <1>5, <1>6, <1>8, <1>9, TakeCore

LEMMA TakingCore ==
    ASSUME Core, NEW m \in Mounts, Taking(m)
    PROVE  Core'
<1> PICK k : k = host.vends[m][got[m] + 1]
  OBVIOUS
<1> QED
  BY TakeCases, ShareCore, CreateCore

(***************************************************************************)
(* A mount lets keys go.                                                   *)
(***************************************************************************)

LastHolder(k) == table[k] # None /\ held[table[k]].holders = 1

LEMMA LastHeldIs ==
    ASSUME TypeOK, NEW m \in Mounts, NEW i \in Nat \ {0}, i <= got[m] + 1
    PROVE  \/ /\ LastHeld(m, i) = got[m] + 1
              /\ \A l \in i .. got[m] : ~ LastHolder(host.vends[m][l])
           \/ /\ LastHeld(m, i) \in i .. got[m]
              /\ LastHolder(host.vends[m][LastHeld(m, i)])
              /\ \A l \in i .. (LastHeld(m, i) - 1) : ~ LastHolder(host.vends[m][l])
<1> DEFINE last == {j \in i .. got[m] : LastHolder(host.vends[m][j])}
<1>0. got[m] \in Nat
  BY DEF TypeOK
<1>1. LastHeld(m, i) = IF last = {} THEN got[m] + 1 ELSE CHOOSE j \in last : \A l \in last : j <= l
  BY DEF LastHeld, LastHolder
<1>2. CASE last = {}
  BY <1>1, <1>2
<1>3. CASE last # {}
  <2>1. last \in SUBSET Nat
    BY <1>0
  <2>2. \E j \in last : \A l \in last : j <= l
    BY <1>3, <2>1, LeastOf
  <2>3. LastHeld(m, i) \in last /\ \A l \in last : LastHeld(m, i) <= l
    BY <1>1, <1>3, <2>2
  <2>4. ASSUME NEW l \in i .. (LastHeld(m, i) - 1), LastHolder(host.vends[m][l])
        PROVE  FALSE
    <3>1. LastHeld(m, i) \in i .. got[m]
      BY <2>3
    <3>2. l \in last
      BY <1>0, <2>4, <3>1
    <3> QED
      BY <1>0, <2>3, <2>4, <3>1, <3>2
  <2> QED
    BY <2>3, <2>4
<1> QED
  BY <1>2, <1>3

\* A release lets go of the keys of G, up to its z-th.  It stops at the key it was the last
\* to hold, or holds none any more.
Lets(m, G, z) ==
    /\ UNCHANGED <<host, got, opened, engine>>
    /\ aborted' = aborted \ {m}
    /\ rel' = [rel EXCEPT ![m] = z]
    /\ held' = [e \in Entries |->
                  IF KeyOf(e) \in G /\ table[KeyOf(e)] = e THEN LetGo(held[e])
                  ELSE IF e = leaving[m] /\ held[e].job = "none" THEN Freed
                  ELSE held[e]]
    /\ \/ /\ z = got[m]
          /\ pc' = [pc EXCEPT ![m] = IF m \in opened THEN "closed" ELSE "failed"]
          /\ leaving' = [leaving EXCEPT ![m] = None]
          /\ table' = table
          /\ \A k \in G : held[table[k]].holders # 1
       \/ \E k \in G :
          /\ pc' = [pc EXCEPT ![m] = "awaiting"]
          /\ leaving' = [leaving EXCEPT ![m] = table[k]]
          /\ table' = [table EXCEPT ![k] = None]
          /\ held[table[k]].holders = 1
          /\ \A l \in G : l # k => held[table[l]].holders # 1

LEMMA LettingFacts ==
    ASSUME Core, NEW m \in Mounts, Letting(m)
    PROVE  \E z \in 0 .. got[m], G \in SUBSET Keys :
             /\ Lets(m, G, z) /\ rel[m] <= z
             /\ G = {host.vends[m][l] : l \in (rel[m] + 1) .. z}
<1> DEFINE i == rel[m] + 1
           j == LastHeld(m, i)
           z == IF j > got[m] THEN got[m] ELSE j
           G == {host.vends[m][l] : l \in i .. z}
           v == host.vends[m]
<1>1. /\ rel[m] \in Nat /\ got[m] \in Nat /\ rel[m] <= got[m] /\ got[m] <= Len(host.vends[m])
      /\ Release(m, i) /\ i \in Nat \ {0}
  BY DEF Core, TypeOK, Books, Progress, Letting
<1>2. /\ \A l \in 1 .. got[m] : v[l] \in Keys
      /\ \A k, l \in 1 .. got[m] : v[k] = v[l] => k = l
  BY <1>1, VendsOf DEF Core
<1>3. \/ j = got[m] + 1 /\ \A l \in i .. got[m] : ~ LastHolder(v[l])
      \/ j \in i .. got[m] /\ LastHolder(v[j]) /\ \A l \in i .. (j - 1) : ~ LastHolder(v[l])
  BY <1>1, LastHeldIs DEF Core
<1> HIDE DEF j
<1>4. z \in 0 .. got[m] /\ rel[m] <= z /\ (j > got[m] => z = got[m]) /\ (j <= got[m] => z = j) /\ j \in Nat
  BY <1>1, <1>3
<1>5. G \in SUBSET Keys
  BY <1>1, <1>2, <1>4
<1>6. \A k \in G : m \in Holders(k)
  BY <1>1, <1>2, <1>4 DEF Holders, HeldKeys
<1>7. \A k \in G : table[k] # None /\ table[k] \in Entries /\ KeyOf(table[k]) = k
  BY <1>5, <1>6, HeldByOne DEF Core, Books, Counted
<1> DEFINE passed == {table[v[l]] : l \in i .. z}
<1>8. \A e \in Entries : e \in passed <=> (KeyOf(e) \in G /\ table[KeyOf(e)] = e)
  <2> TAKE e \in Entries
  <2>1. ASSUME e \in passed PROVE KeyOf(e) \in G /\ table[KeyOf(e)] = e
    <3>1. PICK l \in i .. z : e = table[v[l]]
      BY <2>1
    <3>2. v[l] \in G
      OBVIOUS
    <3> QED
      BY <1>7, <3>1, <3>2
  <2>2. ASSUME KeyOf(e) \in G, table[KeyOf(e)] = e PROVE e \in passed
    BY <2>2
  <2> QED
    BY <2>1, <2>2
<1>9. held' = [e \in Entries |-> IF e \in passed THEN LetGo(held[e])
                                 ELSE IF e = leaving[m] /\ held[e].job = "none" THEN Freed
                                 ELSE held[e]]
  BY <1>1 DEF Release, j
<1>10. held' = [e \in Entries |->
                  IF KeyOf(e) \in G /\ table[KeyOf(e)] = e THEN LetGo(held[e])
                  ELSE IF e = leaving[m] /\ held[e].job = "none" THEN Freed
                  ELSE held[e]]
  <2> HIDE DEF passed, G
  <2> QED
    BY <1>8, <1>9
<1>11. UNCHANGED <<host, got, opened, engine>> /\ aborted' = aborted \ {m}
  BY <1>1 DEF Release
<1>12. CASE j = got[m] + 1 /\ \A l \in i .. got[m] : ~ LastHolder(v[l])
  <2>1. /\ pc' = [pc EXCEPT ![m] = IF m \in opened THEN "closed" ELSE "failed"]
        /\ rel' = [rel EXCEPT ![m] = got[m]]
        /\ leaving' = [leaving EXCEPT ![m] = None] /\ table' = table
    BY <1>1, <1>12 DEF Release, j
  <2>2. \A k \in G : held[table[k]].holders # 1
    BY <1>1, <1>4, <1>7, <1>12 DEF LastHolder
  <2>3. z = got[m]
    BY <1>1, <1>4, <1>12
  <2> QED
    BY <1>4, <1>5, <1>10, <1>11, <2>1, <2>2, <2>3 DEF Lets
<1>13. CASE j \in i .. got[m] /\ LastHolder(v[j]) /\ \A l \in i .. (j - 1) : ~ LastHolder(v[l])
  <2>1. z = j /\ ~ (j > got[m])
    BY <1>1, <1>4, <1>13
  <2>2. /\ pc' = [pc EXCEPT ![m] = "awaiting"] /\ rel' = [rel EXCEPT ![m] = j]
        /\ leaving' = [leaving EXCEPT ![m] = table[v[j]]]
        /\ table' = [table EXCEPT ![v[j]] = None]
    BY <1>1, <2>1 DEF Release, j
  <2>3. v[j] \in G /\ held[table[v[j]]].holders = 1
    BY <1>13, <2>1 DEF LastHolder
  <2>4. \A k \in G : k # v[j] => held[table[k]].holders # 1
    <3> SUFFICES ASSUME NEW l \in i .. z, v[l] # v[j] PROVE held[table[v[l]]].holders # 1
      OBVIOUS
    <3>1. l \in i .. (j - 1)
      BY <1>1, <1>13, <2>1
    <3>2. table[v[l]] # None
      BY <1>7
    <3> QED
      BY <1>13, <3>1, <3>2 DEF LastHolder
  <2> QED
    BY <1>4, <1>5, <1>10, <1>11, <2>1, <2>2, <2>3, <2>4 DEF Lets
<1> QED
  BY <1>3, <1>12, <1>13


\* Who holds a key after a release: its mount no longer those it let go.
LEMMA LetHolders ==
    ASSUME Core, NEW m \in Mounts, NEW z \in 0 .. got[m], NEW G \in SUBSET Keys,
           Lets(m, G, z), rel[m] <= z, G = {host.vends[m][l] : l \in (rel[m] + 1) .. z}
    PROVE  /\ \A k \in G : m \in Holders(k)
           /\ \A k \in Keys : Holders(k)' = IF k \in G THEN Holders(k) \ {m} ELSE Holders(k)
<1>1. /\ got[m] \in Nat /\ rel[m] \in Nat /\ got[m] <= Len(host.vends[m])
      /\ host' = host /\ got' = got /\ rel' = [rel EXCEPT ![m] = z]
  BY DEF Core, TypeOK, Books, Progress, Lets
<1>2. rel'[m] = z /\ \A n \in Mounts : n # m => rel'[n] = rel[n]
  BY <1>1 DEF Core, TypeOK
<1>3. \A n \in Mounts : n # m => HeldKeys(n)' = HeldKeys(n)
  BY <1>1, <1>2 DEF HeldKeys
<1>4. \A i, j \in 1 .. got[m] : host.vends[m][i] = host.vends[m][j] => i = j
  BY <1>1, VendsOf DEF Core
<1>5. HeldKeys(m)' = {host.vends[m][l] : l \in (z + 1) .. got[m]}
  BY <1>1, <1>2 DEF HeldKeys
<1>6. G \subseteq HeldKeys(m)
  BY <1>1 DEF HeldKeys
<1>7. HeldKeys(m)' = HeldKeys(m) \ G
  <2>1. ASSUME NEW k \in HeldKeys(m)' PROVE k \in HeldKeys(m) \ G
    <3>1. PICK l \in (z + 1) .. got[m] : k = host.vends[m][l]
      BY <1>5, <2>1
    <3>2. k \in HeldKeys(m)
      BY <1>1, <3>1 DEF HeldKeys
    <3>3. ASSUME NEW x \in (rel[m] + 1) .. z, k = host.vends[m][x] PROVE FALSE
      <4>1. x \in 1 .. got[m] /\ l \in 1 .. got[m] /\ x # l
        BY <1>1, <3>1
      <4> QED
        BY <1>4, <3>1, <3>3, <4>1
    <3> QED
      BY <3>2, <3>3
  <2>2. ASSUME NEW k \in HeldKeys(m) \ G PROVE k \in HeldKeys(m)'
    <3>1. PICK l \in (rel[m] + 1) .. got[m] : k = host.vends[m][l]
      BY <2>2 DEF HeldKeys
    <3>2. l \in (z + 1) .. got[m]
      BY <1>1, <2>2, <3>1
    <3> QED
      BY <1>5, <3>1, <3>2
  <2> QED
    BY <2>1, <2>2
<1> QED
  BY <1>3, <1>6, <1>7 DEF Holders

LEMMA LettingCore ==
    ASSUME Core, NEW m \in Mounts, Letting(m)
    PROVE  Core'
<1>1. PICK z \in 0 .. got[m], G \in SUBSET Keys :
         /\ Lets(m, G, z) /\ rel[m] <= z
         /\ G = {host.vends[m][l] : l \in (rel[m] + 1) .. z}
  BY LettingFacts
<1>2. /\ \A k \in G : m \in Holders(k)
      /\ \A k \in Keys : Holders(k)' = IF k \in G THEN Holders(k) \ {m} ELSE Holders(k)
  BY <1>1, LetHolders
<1>3. /\ UNCHANGED <<host, got, opened, engine>> /\ aborted' = aborted \ {m}
      /\ rel' = [rel EXCEPT ![m] = z]
      /\ pc[m] \in {"open", "waiting", "dropped"} /\ got[m] \in Nat
  BY <1>1 DEF Lets, Letting, Core, TypeOK
<1>4. \A k \in G : /\ table[k] \in Entries /\ table[k] # None /\ KeyOf(table[k]) = k
                   /\ IsFiniteSet(Holders(k)) /\ held[table[k]].holders = Cardinality(Holders(k))
                   /\ held[table[k]].holders > 0
  BY <1>2, HeldByOne DEF Core, Books, Counted
<1> DEFINE let(e) == KeyOf(e) \in G /\ table[KeyOf(e)] = e
           free(e) == ~ let(e) /\ e = leaving[m] /\ held[e].job = "none"
<1>5. \A e \in Entries : held'[e] = IF let(e) THEN LetGo(held[e]) ELSE IF free(e) THEN Freed ELSE held[e]
  BY <1>1 DEF Lets
<1>6. \A e \in Entries : held[e] \in HeldRecord
  BY HeldType DEF Core
<1>7. \A e \in Entries : let(e) => /\ held'[e] \in HeldRecord
                                   /\ held'[e].holders = held[e].holders - 1
                                   /\ held'[e].version = held[e].version
                                   /\ held'[e].ready = held[e].ready /\ held'[e].job \in {"none", held[e].job}
  BY <1>4, <1>5, <1>6, LetGoFields
<1>8. \A e \in Entries : free(e) => /\ held'[e] = Freed /\ leaving[m] # None
                                    /\ held[e].version > 0 /\ table[KeyOf(e)] # e
  BY <1>5, MountAssumption DEF Core, Books, Parting
<1> HIDE DEF let, free
<1>9. \A e \in Entries : ~ let(e) /\ ~ free(e) => held'[e] = held[e]
  BY <1>5
<1>10. held' \in [Entries -> HeldRecord]
  <2>1. held' = [e \in Entries |-> IF let(e) THEN LetGo(held[e]) ELSE IF free(e) THEN Freed ELSE held[e]]
    BY <1>1, Zenon DEF Lets, let, free
  <2>2. \A e \in Entries : (IF let(e) THEN LetGo(held[e]) ELSE IF free(e) THEN Freed ELSE held[e]) \in HeldRecord
    BY <1>5, <1>6, <1>7, NoHeldType
  <2> QED
    BY <2>1, <2>2, Zenon
<1>11. \A e \in Entries : held[e].version > 0 => held'[e].version > 0
  BY <1>7, <1>8, <1>9, FreedFields
<1> HIDE DEF let, free
<1>12. \A k \in Keys : table'[k] # None => table'[k] = table[k]
  BY <1>1 DEF Lets, Core, TypeOK
<1>13. \A e \in Entries : table[KeyOf(e)] # e => table'[KeyOf(e)] # e
  BY <1>12, MountAssumption DEF Entries, KeyOf
<1>14. \A k \in Keys : table'[k] = None /\ table[k] # None =>
         k \in G /\ held[table[k]].holders = 1 /\ leaving'[m] = table[k]
  BY <1>1 DEF Lets, Core, TypeOK
<1>15. \A k \in G : table'[k] # None => held[table[k]].holders # 1
  BY <1>1 DEF Lets, Core, TypeOK
<1>16. /\ leaving'[m] # None => \E k \in G : leaving'[m] = table[k] /\ table'[k] = None
       /\ leaving' \in [Mounts -> Entries \cup {None}]
       /\ \A n \in Mounts : n # m => leaving'[n] = leaving[n]
  BY <1>1, <1>4 DEF Lets, Core, TypeOK
<1>17. TypeOK'
  <2>1. /\ rel' \in [Mounts -> Nat]
        /\ pc' \in [Mounts -> {"idle", "asking", "waiting", "open", "awaiting",
                               "dropping", "dropped", "closed", "failed"}]
    <3>1. z \in Nat
      BY <1>3
    <3>2. rel' \in [Mounts -> Nat]
      BY <1>3, <3>1 DEF Core, TypeOK
    <3>3. \E s \in {"awaiting", "closed", "failed"} : pc' = [pc EXCEPT ![m] = s]
      BY <1>1 DEF Lets
    <3> QED
      BY <3>2, <3>3 DEF Core, TypeOK
  <2>2. table' \in [Keys -> Entries \cup {None}] /\ aborted' \subseteq Mounts
    BY <1>1 DEF Lets, Core, TypeOK
  <2> QED
    BY <1>3, <1>10, <1>16, <2>1, <2>2 DEF Core, TypeOK, HeldRecord, engine
<1>18. \A n \in Mounts : Progress(n)'
  <2> TAKE n \in Mounts
  <2>1. Progress(n)
    BY DEF Core, Books
  <2>2. CASE n = m
    BY <1>1, <1>3, <1>4, <2>1, <2>2 DEF Lets, Core, TypeOK, Progress
  <2>3. CASE n # m
    BY <1>1, <1>3, <2>1, <2>3 DEF Lets, Core, TypeOK, Progress
  <2> QED
    BY <2>2, <2>3
<1>19. \A k \in Keys : Counted(k)'
  <2> TAKE k \in Keys
  <2>1. Counted(k)
    BY DEF Core, Books
  <2>2. CASE k \notin G
    <3>1. Holders(k)' = Holders(k) /\ table'[k] = table[k]
      BY <1>2, <1>12, <1>14, <2>2
    <3>2. table[k] # None => /\ table[k] \in Entries /\ KeyOf(table[k]) = k
                             /\ ~ let(table[k]) /\ ~ free(table[k])
      BY <1>8, <2>1, <2>2, HeldByOne DEF let, Counted
    <3> QED
      BY <1>9, <2>1, <3>1, <3>2 DEF Counted
  <2>3. CASE k \in G
    <3> PICK e \in Entries : e = table[k]
      BY <1>4, <2>3
    <3>1. /\ KeyOf(e) = k /\ IsFiniteSet(Holders(k)) /\ held[e].holders = Cardinality(Holders(k))
          /\ held[e].holders \in Nat /\ held[e].holders > 0 /\ m \in Holders(k) /\ e # None
      BY <1>2, <1>4, <1>6, <2>3, HeldFields
    <3>2. /\ IsFiniteSet(Holders(k)') /\ Cardinality(Holders(k)') = held[e].holders - 1
      BY <1>2, <2>3, <3>1, FS_RemoveElement
    <3>3. held'[e].holders = held[e].holders - 1
      BY <1>7, <2>3, <3>1 DEF let
    <3>4. CASE table'[k] = None
      <4>1. Holders(k)' = {}
        BY <1>14, <2>3, <3>1, <3>2, <3>4, FS_EmptySet
      <4> QED
        BY <3>4, <4>1 DEF Counted
    <3>5. CASE table'[k] # None
      <4>1. held[e].holders # 1 /\ table'[k] = e
        BY <1>12, <1>15, <2>3, <3>5
      <4>2. Holders(k)' # {}
        BY <3>1, <3>2, <4>1, FS_EmptySet
      <4> QED
        BY <3>1, <3>2, <3>3, <3>5, <4>1, <4>2 DEF Counted
    <3> QED
      BY <3>4, <3>5
  <2> QED
    BY <2>2, <2>3
<1>20. \A e \in Entries : Placed(e)'
  <2> TAKE e \in Entries
  <2>1. Placed(e) /\ KeyOf(e) \in Keys /\ held[e].version \in Nat
    BY <1>6, HeldFields DEF Core, Books, Entries, KeyOf
  <2>2. table'[KeyOf(e)] # e => held'[e].holders = 0
    <3>1. CASE let(e)
      BY <1>4, <1>7, <1>12, <1>14, <2>1, <3>1 DEF let
    <3>2. CASE free(e)
      BY <1>8, <3>2, FreedFields
    <3>3. CASE ~ let(e) /\ ~ free(e)
      <4>1. table[KeyOf(e)] = e => table'[KeyOf(e)] = e
        BY <1>12, <1>14, <2>1, <3>3, MountAssumption DEF let
      <4> QED
        BY <1>9, <2>1, <3>3, <4>1 DEF Placed
    <3> QED
      BY <3>1, <3>2, <3>3
  <2>3. table'[KeyOf(e)] = e => held'[e].version > 0
    BY <1>11, <1>13, <2>1 DEF Placed
  <2>4. held'[e].version > 0 => held[e].version > 0
    BY <1>7, <1>8, <1>9
  <2>5. Taken(e[1])' = Taken(e[1])
    BY <1>3 DEF Taken
  <2>6. held'[e].version = 0 => held'[e].ready = "none" /\ held'[e].job = "none"
    BY <1>7, <1>8, <1>9, <2>1, FreedFields DEF Placed
  <2> QED
    BY <2>1, <2>2, <2>3, <2>4, <2>5, <2>6 DEF Placed
<1>21. \A n \in Mounts : Parting(n)'
  <2>1. \A n \in Mounts : Parting(n) /\ leaving[n] \in Entries \cup {None}
    BY DEF Core, TypeOK, Books
  <2>2. \A k \in G, n \in Mounts : leaving[n] # table[k]
    BY <1>4, <2>1 DEF Parting
  <2> TAKE n \in Mounts
  <2>3. CASE n = m
    <3> SUFFICES ASSUME leaving'[m] # None PROVE Parting(m)'
      BY <2>3 DEF Parting
    <3>1. PICK k \in G : leaving'[m] = table[k] /\ table'[k] = None
      BY <1>16
    <3> PICK e \in Entries : e = table[k]
      BY <1>4
    <3>2. KeyOf(e) = k /\ held'[e].version > 0 /\ table'[KeyOf(e)] # e /\ leaving'[m] = e
      BY <1>4, <1>11, <3>1, HeldByOne
    <3>3. \A x \in Mounts : leaving'[x] = e => x = m
      BY <1>16, <2>2
    <3> QED
      BY <2>3, <3>2, <3>3 DEF Parting
  <2>4. CASE n # m
    <3> SUFFICES ASSUME leaving[n] # None PROVE Parting(n)'
      BY <1>16, <2>4 DEF Parting
    <3>1. leaving[n] \in Entries /\ leaving'[n] = leaving[n]
      BY <1>16, <2>1, <2>4
    <3>2. table'[KeyOf(leaving[n])] # leaving[n] /\ held'[leaving[n]].version > 0
      BY <1>11, <1>13, <2>1, <3>1 DEF Parting
    <3>3. \A x \in Mounts : leaving'[x] = leaving[n] => x = n
      BY <1>16, <2>1, <2>2 DEF Parting
    <3> QED
      BY <3>1, <3>2, <3>3 DEF Parting
  <2> QED
    BY <2>3, <2>4
<1>22. \A i \in DOMAIN queue' : held'[queue'[i].entry].version > 0 /\ Dropping(i)'
  <2>1. queue' = queue
    BY <1>3 DEF engine
  <2>2. \A i \in DOMAIN queue : Takes(queue[i]) =>
          pc'[queue[i].by] = pc[queue[i].by] /\ leaving'[queue[i].by] = leaving[queue[i].by]
    <3>1. \A n \in Mounts : n # m => pc'[n] = pc[n]
      BY <1>1 DEF Lets, Core, TypeOK
    <3> QED
      BY <1>3, <1>16, <3>1 DEF Core, Books, Dropping
  <2>3. \A i \in DOMAIN queue : Dropping(i)'
    BY <2>1, <2>2 DEF Core, Books, Dropping
  <2> QED
    BY <1>11, <2>1, <2>3, QueueType DEF Core, Books
<1> QED
  BY <1>17, <1>18, <1>19, <1>20, <1>21, <1>22 DEF Core, Books


LEMMA CoreStarts == ASSUME Init PROVE Core
<1>1. TypeOK
  <2>1. held \in [Entries -> HeldRecord]
    BY NoHeldType DEF Init
  <2>2. queue \in Seq(Statement)
    BY DEF Init
  <2> QED
    BY <2>1, <2>2 DEF Init, TypeOK, HeldRecord
<1>2. /\ \A m \in Mounts : Len(host.vends[m]) \in Nat
      /\ NoHeld.holders = 0 /\ NoHeld.ready = "none" /\ NoHeld.job = "none" /\ NoHeld.version = 0
  BY <1>1, VendsOf DEF NoHeld
<1>3. \A m \in Mounts : Progress(m) /\ Parting(m)
  BY <1>2 DEF Init, Progress, Parting
<1>4. \A k \in Keys : Counted(k)
  BY DEF Init, Counted, Holders, HeldKeys
<1>5. \A e \in Entries : Placed(e)
  BY <1>2, MountAssumption DEF Init, Placed, Entries, KeyOf
<1>6. DOMAIN queue = {}
  BY DEF Init
<1> QED
  BY <1>1, <1>3, <1>4, <1>5, <1>6 DEF Core, Books

LEMMA CoreKept == ASSUME Core, [Next]_vars PROVE Core'
<1>1. CASE UNCHANGED vars
  <2>1. TypeOK'
    BY <1>1 DEF Core, TypeOK, vars, page, cache, engine
  <2>2. (\A m \in Mounts : Progress(m) /\ Parting(m))'
    BY <1>1 DEF Core, Books, Progress, Parting, vars, page, cache, engine
  <2>3. (\A k \in Keys : Counted(k))'
    <3>1. \A k \in Keys : Holders(k)' = Holders(k)
      BY <1>1 DEF Holders, HeldKeys, vars, page
    <3> QED
      BY <1>1, <3>1 DEF Core, Books, Counted, vars, cache
  <2>4. (\A e \in Entries : Placed(e))'
    BY <1>1 DEF Core, Books, Placed, Taken, vars, page, cache, engine
  <2>5. (\A i \in DOMAIN queue : held[queue[i].entry].version > 0 /\ Dropping(i))'
    BY <1>1 DEF Core, Books, Dropping, vars, page, cache, engine
  <2> QED
    BY <2>1, <2>2, <2>3, <2>4, <2>5 DEF Core, Books
<1>2. CASE Next
  BY <1>2, Steps, PhaseCore, TakingCore, LettingCore, UninstallCore, FilesCore, TickCore, FireCore,
     NotRenewedCore, RenewedCore, ProbeCore, PutCore, DropCore DEF Core
<1> QED
  BY <1>1, <1>2


(***************************************************************************)
(* The queue of a step: what is left of it, and what was sent.             *)
(***************************************************************************)

Was(i, d) == i + d \in DOMAIN queue /\ queue'[i] = queue[i + d]

Moves(d) == \A j \in DOMAIN queue : j > d => j - d \in DOMAIN queue' /\ queue'[j - d] = queue[j]

LEMMA QueueSame ==
    ASSUME TypeOK, queue' = queue
    PROVE  Moves(0) /\ DOMAIN queue' \in SUBSET (Nat \ {0}) /\ \A i \in DOMAIN queue' : Was(i, 0)
  BY QueueType DEF Moves, Was

LEMMA QueueSent ==
    ASSUME TypeOK, NEW s \in Statement, queue' = Append(queue, s)
    PROVE  /\ Moves(0) /\ DOMAIN queue' \in SUBSET (Nat \ {0})
           /\ \A i \in DOMAIN queue' : Was(i, 0) \/ (i = Len(queue) + 1 /\ queue'[i] = s)
           /\ Len(queue) + 1 \in DOMAIN queue' /\ queue'[Len(queue) + 1] = s
           /\ \A i \in DOMAIN queue : i < Len(queue) + 1
<1>1. queue \in Seq(Statement)
  BY DEF TypeOK
<1>2. /\ DOMAIN queue = 1 .. Len(queue) /\ Len(queue) \in Nat
      /\ DOMAIN queue' = 1 .. (Len(queue) + 1)
      /\ \A i \in DOMAIN queue : i \in DOMAIN queue' /\ queue'[i] = queue[i]
      /\ queue'[Len(queue) + 1] = s
  BY <1>1, AppendOf
<1>3. Moves(0)
  BY <1>1, <1>2 DEF Moves
<1>4. ASSUME NEW i \in DOMAIN queue', i # Len(queue) + 1 PROVE Was(i, 0)
  <2>1. i \in 1 .. (Len(queue) + 1)
    BY <1>2, Zenon
  <2>2. i \in DOMAIN queue /\ i + 0 = i
    BY <1>1, <1>4, <2>1
  <2> QED
    BY <1>2, <2>2 DEF Was
<1>5. \A i \in DOMAIN queue : i < Len(queue) + 1
  BY <1>1
<1> QED
  BY <1>1, <1>2, <1>3, <1>4, <1>5

LEMMA QueueAnswered ==
    ASSUME Core, queue # <<>>, queue' = Tail(queue)
    PROVE  /\ Moves(1) /\ DOMAIN queue' \in SUBSET (Nat \ {0})
           /\ \A i \in DOMAIN queue' : Was(i, 1)
<1>1. DOMAIN queue' \in SUBSET (Nat \ {0})
  BY AnsweredQueue
<1> QED
  BY <1>1, AnsweredQueue DEF Moves, Was

LEMMA QueueTurned ==
    ASSUME Core, queue # <<>>, NEW s \in Statement, queue' = Append(Tail(queue), s)
    PROVE  /\ Moves(1) /\ DOMAIN queue' \in SUBSET (Nat \ {0})
           /\ \A i \in DOMAIN queue' : Was(i, 1) \/ (queue'[i] = s /\ i = Len(queue))
           /\ \A i \in DOMAIN queue' : Was(i, 1) => i < Len(queue)
<1> DEFINE q == Tail(queue)
<1>1. /\ q \in Seq(Statement) /\ Len(q) = Len(queue) - 1 /\ Len(queue) \in Nat \ {0}
      /\ \A i \in DOMAIN q : i + 1 \in DOMAIN queue /\ q[i] = queue[i + 1]
      /\ \A i \in DOMAIN queue : i > 1 => i - 1 \in DOMAIN q /\ q[i - 1] = queue[i]
  BY AnsweredQueue
<1>2. queue' = Append(q, s) /\ DOMAIN queue = 1 .. Len(queue)
  BY QueueType DEF Core
<1> HIDE DEF q
<1>3. /\ DOMAIN q = 1 .. Len(q)
      /\ DOMAIN queue' = 1 .. (Len(q) + 1)
      /\ \A i \in DOMAIN q : i \in DOMAIN queue' /\ queue'[i] = q[i]
      /\ queue'[Len(q) + 1] = s
  BY <1>1, <1>2, AppendOf
<1>4. Moves(1)
  BY <1>1, <1>3 DEF Moves
<1>5. \A i \in DOMAIN queue' : i \in 1 .. Len(queue)
  BY <1>1, <1>3
<1>6. ASSUME NEW i \in DOMAIN queue', i # Len(queue) PROVE Was(i, 1)
  <2>1. i \in DOMAIN q
    BY <1>1, <1>3, <1>5, <1>6
  <2> QED
    BY <1>1, <1>3, <2>1 DEF Was
<1>7. queue'[Len(queue)] = s
  BY <1>1, <1>3
<1>8. ASSUME NEW i \in DOMAIN queue', Was(i, 1) PROVE i < Len(queue)
  <2>1. i \in 1 .. Len(queue) /\ i + 1 \in 1 .. Len(queue)
    BY <1>2, <1>5, <1>8 DEF Was
  <2> QED
    BY <1>1, <2>1
<1>9. DOMAIN queue' \in SUBSET (Nat \ {0})
  BY <1>1, <1>5
<1> QED
  BY <1>4, <1>6, <1>7, <1>8, <1>9


(***************************************************************************)
(* Mail.                                                                   *)
(***************************************************************************)

Same(e) == /\ held'[e].ready = held[e].ready /\ held'[e].job = held[e].job
           /\ held'[e].version = held[e].version

LEMMA MailMoves ==
    ASSUME Core, Mail, NEW d \in {0, 1}, httpfs => httpfs',
           DOMAIN queue' \in SUBSET (Nat \ {0}),
           \A i \in DOMAIN queue' :
             \/ Was(i, d) /\ (Installing(queue'[i]) => Same(queue'[i].entry))
             \/ /\ Formed(queue[i])' /\ InFlight(queue[i])'
                /\ \A j \in DOMAIN queue' : Once(i, j)' /\ Once(j, i)',
           \A e \in Entries : Loaded(e)', \A n \in Names : Named(n)'
    PROVE  Mail'
<1>1. ASSUME NEW i \in DOMAIN queue', Was(i, d), Installing(queue'[i]) => Same(queue'[i].entry)
      PROVE  Formed(queue[i])' /\ InFlight(queue[i])'
  <2>1. Formed(queue[i + d]) /\ InFlight(queue[i + d]) /\ queue'[i] = queue[i + d]
    BY <1>1 DEF Mail, Was
  <2>2. Formed(queue[i])'
    BY <2>1 DEF Formed
  <2>3. InFlight(queue[i])'
    BY <1>1, <2>1 DEF InFlight, Installing, Same
  <2> QED
    BY <2>2, <2>3
<1>2. ASSUME NEW i \in DOMAIN queue', NEW j \in DOMAIN queue', Was(i, d), Was(j, d)
      PROVE  Once(i, j)'
  <2>1. Once(i + d, j + d) /\ queue'[i] = queue[i + d] /\ queue'[j] = queue[j + d]
    BY <1>2 DEF Mail, Was
  <2>2. i + d = j + d => i = j
    OBVIOUS
  <2> QED
    BY <2>1, <2>2 DEF Once
<1> QED
  BY <1>1, <1>2 DEF Mail

\* An install or a renewal in flight is its entry's job.
LEMMA InFlightJob ==
    ASSUME Mail, NEW i \in DOMAIN queue, Installing(queue[i])
    PROVE  /\ held[queue[i].entry].job \in {"install", "renew"}
           /\ queue[i].by = "install" =>
                /\ held[queue[i].entry].job = "install" /\ held[queue[i].entry].ready = "pending"
           /\ queue[i].by = "renew" => held[queue[i].entry].job = "renew"
  BY DEF Mail, InFlight, Installing

\* A step that leaves the queue, the engine, and the state of installs as they were.
LEMMA MailQuiet ==
    ASSUME Core, Mail, UNCHANGED <<queue, granted, httpfs>>,
           \A e \in Entries :
             /\ held[e].job \in {"install", "renew"} => Same(e)
             /\ held'[e].job \in {"armed", "retry", "ask", "renew"} =>
                  held[e].job \in {"armed", "retry", "ask", "renew"} \/ KeyOf(e) \in Lent
             /\ held[e].version > 0 => held'[e].version > 0
    PROVE  Mail'
<1>1. /\ DOMAIN queue' \in SUBSET (Nat \ {0})
      /\ \A i \in DOMAIN queue' : Was(i, 0) /\ i \in DOMAIN queue /\ queue'[i] = queue[i]
  BY QueueSame DEF Core
<1>2. \A i \in DOMAIN queue' : Installing(queue'[i]) => Same(queue'[i].entry)
  BY <1>1, InFlightJob, QueueType DEF Core
<1>3. \A e \in Entries : Loaded(e)'
  BY DEF Mail, Loaded
<1>4. \A n \in Names : Named(n)'
  BY DEF Mail, Named, Core, TypeOK
<1> QED
  BY <1>1, <1>2, <1>3, <1>4, MailMoves

\* The entry of a step, and the others.
LEMMA OneEntry ==
    ASSUME TypeOK, NEW e \in Entries, NEW h, held' = [held EXCEPT ![e] = h]
    PROVE  held'[e] = h /\ \A x \in Entries : x # e => held'[x] = held[x]
  BY DEF TypeOK

LEMMA PhaseMail ==
    ASSUME Core, Mail, NEW m \in Mounts, Phase(m)
    PROVE  Mail'
  BY MailQuiet DEF Phase, cache, engine, Same

LEMMA TickMail ==
    ASSUME Core, Mail, NEW e \in Entries, Tick(e)
    PROVE  Mail'
<1> DEFINE l == IF held[e].life = "fresh" THEN "due" ELSE "expired"
           h == [held[e] EXCEPT !.life = l]
<1>1. held[e] \in HeldRecord
  BY HeldType DEF Core
<1>2. held' = [held EXCEPT ![e] = h] /\ UNCHANGED <<queue, granted, httpfs>>
  BY DEF Tick, Core, TypeOK, engine
<1> HIDE DEF l
<1>3. h.ready = held[e].ready /\ h.job = held[e].job /\ h.version = held[e].version
  BY <1>1 DEF HeldRecord
<1> HIDE DEF h
<1>4. \A x \in Entries : Same(x)
  BY <1>2, <1>3, OneEntry DEF Same, Core
<1> QED
  BY <1>2, <1>4, MailQuiet DEF Same

LEMMA FireMail ==
    ASSUME Core, Mail, NEW e \in Entries, Fire(e)
    PROVE  Mail'
<1>1. held[e] \in HeldRecord /\ held[e].job \in {"armed", "retry"} /\ UNCHANGED <<queue, granted, httpfs>>
  BY HeldType DEF Core, Fire, engine
<1>2. PICK h : /\ held' = [held EXCEPT ![e] = h] /\ h.job \in {"none", "ask"} /\ h.version > 0
  <2>1. CASE held[e].holders = 0
    <3>1. held' = [held EXCEPT ![e] = Stopped(e)]
      BY <2>1 DEF Fire, Core, TypeOK
    <3>2. Stopped(e).job = "none" /\ Stopped(e).version > 0
      BY <1>1, WorkedExists, StoppedFields, FreedFields
    <3> QED
      BY <3>1, <3>2
  <2>2. CASE held[e].holders # 0
    <3> DEFINE h == [held[e] EXCEPT !.job = "ask"]
    <3>1. held' = [held EXCEPT ![e] = h]
      BY <2>2 DEF Fire, Core, TypeOK
    <3>2. h.job = "ask" /\ h.version > 0
      BY <1>1, WorkedExists DEF HeldRecord
    <3> QED
      BY <3>1, <3>2
  <2> QED
    BY <2>1, <2>2
<1>3. held'[e] = h /\ \A x \in Entries : x # e => held'[x] = held[x]
  BY <1>2, OneEntry DEF Core
<1> QED
  BY <1>1, <1>2, <1>3, MailQuiet DEF Same

LEMMA NotRenewedMail ==
    ASSUME Core, Mail, NEW e \in Entries, NotRenewed(e)
    PROVE  Mail'
<1>1. held[e] \in HeldRecord /\ held[e].job = "ask" /\ UNCHANGED <<queue, granted, httpfs>>
  BY HeldType DEF Core, NotRenewed, engine
<1>2. held'[e] = RenewalFailed(held[e]) /\ \A x \in Entries : x # e => held'[x] = held[x]
  BY OneEntry DEF Core, NotRenewed
<1>3. RenewalFailed(held[e]).version = held[e].version
  BY <1>1, RenewalFailedFields
<1> QED
  BY <1>1, <1>2, <1>3, MailQuiet DEF Same


\* What a release does to an entry: lets it go, forgets the one it took out, or nothing.
LetEntry(m, G, e) ==
    \/ /\ KeyOf(e) \in G /\ table[KeyOf(e)] = e
       /\ held[e].holders > 0 /\ held'[e].holders = held[e].holders - 1
       /\ \/ held'[e].job = held[e].job
          \/ /\ held[e].holders = 1 /\ held[e].job \in {"armed", "retry"}
             /\ held'[e].job = "none"
       /\ held'[e].ready = held[e].ready /\ held'[e].life = held[e].life
       /\ held'[e].version = held[e].version
       /\ held'[e].failed = held[e].failed /\ held'[e].lent = held[e].lent
    \/ /\ leaving[m] = e /\ pc[m] = "dropped" /\ table[KeyOf(e)] # e
       /\ held[e].job = "none" /\ held[e].version > 0 /\ held'[e] = Freed
    \/ held'[e] = held[e] /\ ~ (KeyOf(e) \in G /\ table[KeyOf(e)] = e)

LEMMA LetEntries ==
    ASSUME Core, NEW m \in Mounts, Letting(m), NEW z \in 0 .. got[m], NEW G \in SUBSET Keys,
           Lets(m, G, z), rel[m] <= z, G = {host.vends[m][l] : l \in (rel[m] + 1) .. z}
    PROVE  \A e \in Entries : LetEntry(m, G, e)
<1> TAKE e \in Entries
<1>1. held'[e] = IF KeyOf(e) \in G /\ table[KeyOf(e)] = e THEN LetGo(held[e])
                 ELSE IF e = leaving[m] /\ held[e].job = "none" THEN Freed
                 ELSE held[e]
  BY DEF Lets
<1>2. held[e] \in HeldRecord /\ e # None
  BY HeldType, MountAssumption DEF Core
<1>3. CASE KeyOf(e) \in G /\ table[KeyOf(e)] = e
  <2>1. held[e].holders > 0
    BY <1>2, <1>3, HeldByOne
  <2> QED
    BY <1>1, <1>2, <1>3, <2>1, LetGoFields DEF LetEntry
<1>4. CASE ~ (KeyOf(e) \in G /\ table[KeyOf(e)] = e) /\ e = leaving[m] /\ held[e].job = "none"
  <2>1. held[e].version > 0 /\ table[KeyOf(e)] # e /\ pc[m] = "dropped"
    BY <1>2, <1>4 DEF Core, Books, Parting, Progress, Letting
  <2> QED
    BY <1>1, <1>4, <2>1 DEF LetEntry
<1>5. CASE ~ (KeyOf(e) \in G /\ table[KeyOf(e)] = e) /\ ~ (e = leaving[m] /\ held[e].job = "none")
  BY <1>1, <1>5 DEF LetEntry
<1> QED
  BY <1>3, <1>4, <1>5

LEMMA LettingEffect ==
    ASSUME Core, NEW m \in Mounts, Letting(m)
    PROVE  \E z \in 0 .. got[m], G \in SUBSET Keys :
             /\ Lets(m, G, z) /\ \A e \in Entries : LetEntry(m, G, e)
             /\ \A k \in G : m \in Holders(k) /\ table[k] \in Entries /\ KeyOf(table[k]) = k
  <1>1. PICK z \in 0 .. got[m], G \in SUBSET Keys :
           /\ Lets(m, G, z) /\ rel[m] <= z
           /\ G = {host.vends[m][l] : l \in (rel[m] + 1) .. z}
    BY LettingFacts
  <1>2. \A k \in G : m \in Holders(k)
    BY <1>1, LetHolders
  <1>3. \A k \in G : table[k] # None
    BY <1>2 DEF Core, Books, Counted
  <1>4. \A k \in G : table[k] \in Entries /\ KeyOf(table[k]) = k
    BY <1>3, HeldByOne
  <1> QED
    BY <1>1, <1>2, <1>4, LetEntries

LEMMA LettingMail ==
    ASSUME Core, Mail, NEW m \in Mounts, Letting(m)
    PROVE  Mail'
<1>1. PICK z \in 0 .. got[m], G \in SUBSET Keys :
         Lets(m, G, z) /\ \A e \in Entries : LetEntry(m, G, e)
  BY LettingEffect
<1>2. UNCHANGED <<queue, granted, httpfs>>
  BY <1>1 DEF Lets, engine
<1>3. \A e \in Entries :
        /\ held[e].job \in {"install", "renew"} => Same(e)
        /\ held'[e].job \in {"armed", "retry", "ask", "renew"} =>
             held[e].job \in {"armed", "retry", "ask", "renew"} \/ KeyOf(e) \in Lent
        /\ held[e].version > 0 => held'[e].version > 0
  <2> TAKE e \in Entries
  <2>1. LetEntry(m, G, e)
    BY <1>1
  <2> QED
    BY <2>1, FreedFields DEF LetEntry, Same
<1> QED
  BY <1>2, <1>3, MailQuiet

LEMMA UninstallSends ==
    ASSUME Core, NEW m \in Mounts, Uninstall(m)
    PROVE  /\ leaving[m] \in Entries /\ pc[m] = "awaiting" /\ held[leaving[m]].ready # "pending"
           /\ UNCHANGED <<host, got, rel, leaving, opened, aborted, cache, granted, httpfs, orphans>>
           /\ \/ /\ queue' = queue /\ pc' = [pc EXCEPT ![m] = "dropped"]
                 /\ KeyOf(leaving[m]) \in Lent /\ ~ held[leaving[m]].lent
              \/ \E s \in Statement :
                 /\ queue' = Append(queue, s) /\ pc' = [pc EXCEPT ![m] = "dropping"]
                 /\ s.entry = leaving[m] /\ s.by = m /\ s.version = held[leaving[m]].version
                 /\ s.op = IF KeyOf(leaving[m]) \in Lent THEN "forget" ELSE "drop"
<1> DEFINE e == leaving[m]
           op == IF KeyOf(e) \in Lent THEN "forget" ELSE "drop"
           s == Stmt(op, e, held[e], m)
<1>0. e # None /\ pc[m] = "awaiting" /\ held[e].ready # "pending"
  BY DEF Uninstall, Core, Books, Progress
<1>1. e \in Entries /\ held[e] \in HeldRecord
  BY <1>0, HeldType DEF Core, TypeOK
<1>2. s \in Statement /\ s.entry = e /\ s.by = m /\ s.op = op /\ s.version = held[e].version
  BY <1>1, StmtFields
<1>3. /\ UNCHANGED <<host, got, rel, leaving, opened, aborted, cache, granted, httpfs, orphans>>
      /\ \/ /\ queue' = queue /\ pc' = [pc EXCEPT ![m] = "dropped"]
            /\ KeyOf(e) \in Lent /\ ~ held[e].lent
         \/ queue' = Append(queue, s) /\ pc' = [pc EXCEPT ![m] = "dropping"]
  BY DEF Uninstall
<1> HIDE DEF s
<1> QED
  BY <1>0, <1>1, <1>2, <1>3

LEMMA UninstallMail ==
    ASSUME Core, Mail, NEW m \in Mounts, Uninstall(m)
    PROVE  Mail'
<1>1. CASE queue' = queue
  BY <1>1, UninstallSends, MailQuiet DEF cache, Same
<1>2. CASE \E s \in Statement : queue' = Append(queue, s) /\ s.op \in {"drop", "forget"}
  <2>0. held' = held /\ granted' = granted /\ httpfs' = httpfs /\ leaving[m] \in Entries
    BY UninstallSends DEF cache
  <2> PICK s \in Statement :
         /\ queue' = Append(queue, s) /\ s.entry = leaving[m] /\ s.version = held[leaving[m]].version
         /\ s.op = IF KeyOf(leaving[m]) \in Lent THEN "forget" ELSE "drop"
    BY <1>2, UninstallSends DEF cache
  <2>1. /\ DOMAIN queue' \in SUBSET (Nat \ {0})
        /\ \A i \in DOMAIN queue' : Was(i, 0) \/ queue'[i] = s
    BY QueueSent DEF Core
  <2>2. s.version > 0
    BY UninstallSends DEF Core, Books, Parting, Progress
  <2>3. ASSUME NEW i \in DOMAIN queue', queue'[i] = s
        PROVE  Formed(queue[i])' /\ InFlight(queue[i])' /\ \A j \in DOMAIN queue' : Once(i, j)' /\ Once(j, i)'
    <3>1. Formed(queue[i])' /\ InFlight(queue[i])'
      BY <2>2, <2>3 DEF Formed, InFlight, Brings
    <3>2. \A j \in DOMAIN queue' : Once(i, j)' /\ Once(j, i)'
      BY <2>3 DEF Once, Installing, Brings
    <3> QED
      BY <3>1, <3>2
  <2>4. (\A e \in Entries : Loaded(e)') /\ (\A n \in Names : Named(n)')
    BY <2>0 DEF Mail, Loaded, Named
  <2>5. \A e \in Entries : Same(e)
    BY <2>0 DEF Same
  <2>6. \A i \in DOMAIN queue' : queue'[i].entry \in Entries
    <3>1. queue' \in Seq(Statement)
      BY DEF Core, TypeOK
    <3>2. \A i \in DOMAIN queue' : queue'[i] \in Statement
      BY <3>1
    <3> QED
      BY <3>2 DEF Statement
  <2>7. httpfs => httpfs'
    BY <2>0
  <2>8. \A i \in DOMAIN queue' :
          \/ Was(i, 0) /\ (Installing(queue'[i]) => Same(queue'[i].entry))
          \/ /\ Formed(queue[i])' /\ InFlight(queue[i])'
             /\ \A j \in DOMAIN queue' : Once(i, j)' /\ Once(j, i)'
    BY <2>1, <2>3, <2>5, <2>6
  <2> QED
    BY <2>1, <2>4, <2>7, <2>8, MailMoves
<1> QED
  BY <1>1, <1>2, UninstallSends


\* A step that sends one statement that brings something.
LEMMA MailSent ==
    ASSUME Core, Mail, UNCHANGED <<granted, httpfs>>,
           NEW s \in Statement, queue' = Append(queue, s), Formed(s)', InFlight(s)',
           Installing(s) => held[s.entry].job \notin {"install", "renew"} \/ held[s.entry].version = 0,
           \A e \in Entries :
             /\ held[e].job \in {"install", "renew"} => Same(e)
             /\ held'[e].job \in {"armed", "retry", "ask", "renew"} =>
                  held[e].job \in {"armed", "retry", "ask", "renew"} \/ KeyOf(e) \in Lent
             /\ held[e].version > 0 => held'[e].version > 0
    PROVE  Mail'
<1>1. /\ DOMAIN queue' \in SUBSET (Nat \ {0})
      /\ \A i \in DOMAIN queue' : Was(i, 0) \/ (i = Len(queue) + 1 /\ queue'[i] = s)
  BY QueueSent DEF Core
<1>2. \A i \in DOMAIN queue' : Was(i, 0) /\ Installing(queue'[i]) =>
        /\ Same(queue'[i].entry) /\ held[queue'[i].entry].version > 0
        /\ held[queue'[i].entry].job \in {"install", "renew"}
  <2> SUFFICES ASSUME NEW i \in DOMAIN queue', Was(i, 0), Installing(queue'[i])
               PROVE  /\ Same(queue'[i].entry) /\ held[queue'[i].entry].version > 0
                      /\ held[queue'[i].entry].job \in {"install", "renew"}
    OBVIOUS
  <2>1. i \in DOMAIN queue /\ queue'[i] = queue[i]
    BY <1>1 DEF Was
  <2> QED
    BY <2>1, InFlightJob, QueueType DEF Core, Books
<1>3. \A e \in Entries : held[e].version > 0 => held[e].version # 0
  BY HeldType, HeldFields DEF Core
<1>4. \A i \in DOMAIN queue' : queue'[i].entry \in Entries
  <2>1. \A i \in DOMAIN queue' : queue'[i] \in Statement
    <3>1. queue' \in Seq(Statement)
      BY DEF Core, TypeOK
    <3> QED
      BY <3>1
  <2> QED
    BY <2>1 DEF Statement
<1>5. ASSUME NEW i \in DOMAIN queue', i = Len(queue) + 1, queue'[i] = s
      PROVE  \A j \in DOMAIN queue' : Once(i, j)' /\ Once(j, i)'
  <2> TAKE j \in DOMAIN queue'
  <2>1. CASE j = i
    BY <2>1 DEF Once
  <2>2. CASE j # i
    <3>1. Was(j, 0)
      BY <1>1, <1>5, <2>2
    <3>2. Installing(s) /\ Installing(queue'[j]) => queue'[j].entry # s.entry
      BY <1>2, <1>3, <1>4, <3>1
    <3> QED
      BY <1>5, <3>2 DEF Once
  <2> QED
    BY <2>1, <2>2
<1>6. \A i \in DOMAIN queue' :
        \/ Was(i, 0) /\ (Installing(queue'[i]) => Same(queue'[i].entry))
        \/ /\ Formed(queue[i])' /\ InFlight(queue[i])'
           /\ \A j \in DOMAIN queue' : Once(i, j)' /\ Once(j, i)'
  <2> TAKE i \in DOMAIN queue'
  <2>1. CASE Was(i, 0)
    BY <1>2, <2>1
  <2>2. CASE i = Len(queue) + 1 /\ queue'[i] = s
    <3>1. Formed(queue[i])'
      BY <2>2 DEF Formed
    <3>2. InFlight(queue[i])'
      BY <2>2 DEF InFlight
    <3> QED
      BY <1>5, <2>2, <3>1, <3>2
  <2> QED
    BY <1>1, <2>1, <2>2
<1>7. \A e \in Entries : Loaded(e)'
  BY DEF Mail, Loaded
<1>8. \A n \in Names : Named(n)'
  BY DEF Mail, Named, Core, TypeOK
<1> QED
  BY <1>1, <1>6, <1>7, <1>8, MailMoves

LEMMA FilesSends ==
    ASSUME Core, NEW m \in Mounts, NEW k \in Keys, Files(m, k)
    PROVE  \E e \in Entries, s \in Statement, h \in HeldRecord :
             /\ e = table[k] /\ KeyOf(e) = k /\ k \in Lent /\ held[e].holders > 0 /\ held[e].version > 0
             /\ held' = [held EXCEPT ![e] = h] /\ queue' = Append(queue, s)
             /\ Same(e) /\ h.holders = held[e].holders /\ h.life = held[e].life
             /\ h.failed = held[e].failed /\ h.lent
             /\ s.op = "lend" /\ s.entry = e /\ s.version = held[e].version /\ s.by = "files"
             /\ UNCHANGED <<page, table, granted, httpfs, orphans>>
<1>1. table[k] \in Entries /\ KeyOf(table[k]) = k /\ held[table[k]].holders > 0
  BY FilesCore
<1> PICK e \in Entries : e = table[k]
  BY <1>1
<1> DEFINE h == [held[e] EXCEPT !.lent = TRUE]
           s == Stmt("lend", e, held[e], "files")
<1>2. held[e] \in HeldRecord /\ held[e].version > 0
  BY <1>1, HeldType, WorkedExists DEF Core
<1>3. /\ h \in HeldRecord /\ h.holders = held[e].holders /\ h.version = held[e].version
      /\ h.ready = held[e].ready /\ h.job = held[e].job /\ h.life = held[e].life
      /\ h.failed = held[e].failed /\ h.lent
  BY <1>2 DEF HeldRecord
<1>4. s \in Statement /\ s.entry = e /\ s.op = "lend" /\ s.version = held[e].version /\ s.by = "files"
  BY <1>2, StmtFields
<1>5. /\ held' = [held EXCEPT ![e] = h] /\ queue' = Append(queue, s) /\ k \in Lent
      /\ UNCHANGED <<page, table, granted, httpfs, orphans>>
  BY DEF Files
<1> HIDE DEF h, s
<1>6. Same(e)
  BY <1>3, <1>5, OneEntry DEF Same, Core
<1> QED
  BY <1>1, <1>2, <1>3, <1>4, <1>5, <1>6

LEMMA FilesMail ==
    ASSUME Core, Mail, NEW m \in Mounts, NEW k \in Keys, Files(m, k)
    PROVE  Mail'
<1> PICK e \in Entries, s \in Statement, h \in HeldRecord :
      /\ KeyOf(e) = k /\ k \in Lent /\ held[e].version > 0
      /\ held' = [held EXCEPT ![e] = h] /\ queue' = Append(queue, s) /\ Same(e)
      /\ s.op = "lend" /\ s.entry = e /\ s.version = held[e].version /\ s.by = "files"
      /\ UNCHANGED <<granted, httpfs>>
  BY FilesSends
<1>1. \A x \in Entries : Same(x)
  BY OneEntry DEF Core, Same
<1>2. Formed(s)' /\ InFlight(s)' /\ ~ Installing(s)
  BY DEF Formed, InFlight, Installing
<1> QED
  BY <1>1, <1>2, MailSent DEF Same

\* A renewal of an entry nobody holds stops; else it sends what brings the credential.
RenewStops(e) ==
    held[e].holders = 0 /\ held' = [held EXCEPT ![e] = Stopped(e)] /\ queue' = queue

RenewSends(e, life, h) ==
    /\ held[e].holders > 0 /\ held[e].job = "ask"
    /\ held' = [held EXCEPT ![e] = h]
    /\ h.holders = held[e].holders /\ h.ready = held[e].ready /\ h.life = life
    /\ h.version = held[e].version + 1 /\ h.failed = held[e].failed /\ h.lent = held[e].lent
    /\ \/ /\ KeyOf(e) \in Lent /\ ~ h.lent /\ queue' = queue
          /\ h.job = IF life = "forever" THEN "none" ELSE "armed"
       \/ /\ h.job = "renew"
          /\ \E s \in Statement :
               /\ queue' = Append(queue, s)
               /\ s.entry = e /\ s.version = h.version /\ s.by = "renew"
               /\ IF KeyOf(e) \in Lent THEN h.lent /\ s.op = "lend"
                  ELSE s.op = IF httpfs THEN "create" ELSE "probe"

LEMMA RenewedEffect ==
    ASSUME Core, NEW e \in Entries, NEW life \in host.lives[KeyOf(e)], Renewed(e, life)
    PROVE  /\ held[e].job = "ask" /\ UNCHANGED <<page, table, granted, httpfs, orphans>>
           /\ RenewStops(e) \/ \E h \in HeldRecord : RenewSends(e, life, h)
<1>1. held[e].job = "ask" /\ UNCHANGED <<page, table, granted, httpfs, orphans>>
  BY DEF Renewed
<1>2. ASSUME NEW f \in HeldRecord,
             /\ held[e].holders > 0
             /\ f.holders = held[e].holders /\ f.ready = held[e].ready
             /\ f.life = life /\ f.version = held[e].version + 1 /\ f.job = "renew"
             /\ f.failed = held[e].failed /\ f.lent = held[e].lent
             /\ held' = [held EXCEPT ![e] = IF InstallStmts(e, f, "renew") = <<>>
                                            THEN Scheduled(f) ELSE f]
             /\ queue' = queue \o InstallStmts(e, f, "renew")
      PROVE  \E h \in HeldRecord : RenewSends(e, life, h)
  <2>1. queue \in Seq(Statement)
    BY DEF Core, TypeOK
  <2>2. /\ Installs(queue, queue', e, f, "renew")
        /\ InstallStmts(e, f, "renew") = <<>> <=> (KeyOf(e) \in Lent /\ ~ f.lent)
    BY <1>2, <2>1, SendsOne
  <2>3. CASE KeyOf(e) \in Lent /\ ~ f.lent
    <3>1. held' = [held EXCEPT ![e] = Scheduled(f)]
      BY <1>2, <2>2, <2>3
    <3>2. queue' = queue
      BY <2>2, <2>3 DEF Installs
    <3> QED
      <4> DEFINE g == Scheduled(f)
      <4>1. /\ g \in HeldRecord /\ g.holders = held[e].holders /\ g.ready = held[e].ready
            /\ g.life = life /\ g.version = held[e].version + 1
            /\ g.failed = held[e].failed /\ g.lent = held[e].lent
            /\ g.job = IF life = "forever" THEN "none" ELSE "armed"
        BY <1>2, ScheduledFields
      <4> HIDE DEF g
      <4>2. RenewSends(e, life, g)
        BY <1>1, <1>2, <2>3, <3>1, <3>2, <4>1 DEF RenewSends, g
      <4> QED
        BY <4>1, <4>2
  <2>4. CASE ~ (KeyOf(e) \in Lent /\ ~ f.lent)
    <3>1. held' = [held EXCEPT ![e] = f]
      BY <1>2, <2>2, <2>4
    <3>2. \E s \in Statement :
            /\ queue' = Append(queue, s)
            /\ s.entry = e /\ s.version = f.version /\ s.by = "renew"
            /\ IF KeyOf(e) \in Lent THEN f.lent /\ s.op = "lend"
               ELSE s.op = IF httpfs THEN "create" ELSE "probe"
      BY <2>2, <2>4 DEF Installs
    <3> QED
      BY <1>1, <1>2, <3>1, <3>2 DEF RenewSends
  <2> QED
    BY <2>3, <2>4
<1>3. CASE held[e].holders = 0 /\ held' = [held EXCEPT ![e] = Stopped(e)] /\ queue' = queue
  BY <1>1, <1>3 DEF RenewStops
<1> QED
  BY <1>1, <1>2, <1>3, RenewedFields

LEMMA RenewedMail ==
    ASSUME Core, Mail, NEW e \in Entries, NEW life \in host.lives[KeyOf(e)], Renewed(e, life)
    PROVE  Mail'
<1>1. /\ held[e].job = "ask" /\ UNCHANGED <<granted, httpfs>>
      /\ held[e] \in HeldRecord /\ held[e].version > 0 /\ held[e].version \in Nat
  BY RenewedEffect, HeldType, HeldFields, WorkedExists DEF Core
<1>2. CASE RenewStops(e)
  <2>1. Stopped(e).job = "none" /\ Stopped(e).version > 0
    BY <1>1, StoppedFields, FreedFields
  <2>2. held'[e] = Stopped(e) /\ \A x \in Entries : x # e => held'[x] = held[x]
    BY <1>2, OneEntry DEF Core, RenewStops
  <2> QED
    BY <1>1, <1>2, <2>1, <2>2, MailQuiet DEF RenewStops, Same
<1>3. ASSUME NEW h \in HeldRecord, RenewSends(e, life, h) PROVE Mail'
  <2>1. held'[e] = h /\ \A x \in Entries : x # e => held'[x] = held[x]
    BY <1>3, OneEntry DEF Core, RenewSends
  <2>2. h.version > 0
    BY <1>1, <1>3 DEF RenewSends
  <2>3. CASE queue' = queue /\ KeyOf(e) \in Lent
    BY <1>1, <2>1, <2>2, <2>3, MailQuiet DEF Same
  <2>4. CASE \E s \in Statement :
               /\ queue' = Append(queue, s) /\ h.job = "renew"
               /\ s.entry = e /\ s.version = h.version /\ s.by = "renew"
               /\ IF KeyOf(e) \in Lent THEN s.op = "lend" ELSE s.op = IF httpfs THEN "create" ELSE "probe"
    <3> PICK s \in Statement :
          /\ queue' = Append(queue, s) /\ h.job = "renew"
          /\ s.entry = e /\ s.version = h.version /\ s.by = "renew"
          /\ IF KeyOf(e) \in Lent THEN s.op = "lend" ELSE s.op = IF httpfs THEN "create" ELSE "probe"
      BY <2>4
    <3>1. KeyOf(e) \notin Lent => httpfs
      BY <1>1 DEF Mail, Loaded
    <3>2. Formed(s)'
      BY <1>1, <2>2, <3>1 DEF Formed
    <3>3. InFlight(s)'
      BY <2>1 DEF InFlight
    <3> QED
      BY <1>1, <2>1, <2>2, <3>2, <3>3, MailSent DEF Same
  <2> QED
    BY <1>3, <2>3, <2>4 DEF RenewSends
<1> QED
  BY <1>2, <1>3, RenewedEffect


\* A mount that finds its key in the table is counted in, and changes nothing else.
LEMMA ShareEffect ==
    ASSUME Core, NEW k \in Keys, Share(k)
    PROVE  \E e \in Entries, h \in HeldRecord :
             /\ e = table[k] /\ KeyOf(e) = k /\ held[e].holders > 0 /\ held[e].version > 0
             /\ held' = [held EXCEPT ![e] = h] /\ UNCHANGED <<table, engine>>
             /\ Same(e) /\ h.holders = held[e].holders + 1 /\ h.life = held[e].life
             /\ h.failed = held[e].failed /\ h.lent = held[e].lent
<1>1. table[k] # None /\ table[k] \in Entries
  BY HeldByOne DEF Share
<1> PICK e \in Entries : e = table[k]
  BY <1>1
<1> DEFINE h == [held[e] EXCEPT !.holders = @ + 1]
<1>2. held' = [held EXCEPT ![e] = h] /\ UNCHANGED <<table, engine>>
  BY <1>1 DEF Share, Core, TypeOK
<1>3. KeyOf(e) = k /\ held[e] \in HeldRecord /\ held[e].version > 0 /\ held[e].holders > 0
  BY <1>1, HeldByOne, HeldType DEF Core
<1>4. held[e].holders + 1 \in Nat
  BY <1>3, HeldFields
<1>5. /\ h \in HeldRecord /\ h.holders = held[e].holders + 1 /\ h.version = held[e].version
      /\ h.ready = held[e].ready /\ h.job = held[e].job /\ h.life = held[e].life
      /\ h.failed = held[e].failed /\ h.lent = held[e].lent
  BY <1>3, <1>4 DEF HeldRecord
<1> HIDE DEF h
<1>6. Same(e)
  BY <1>2, <1>5, OneEntry DEF Same, Core
<1> QED
  BY <1>2, <1>3, <1>5, <1>6

\* A mount that does not find it makes the entry and, for a secret, sends its install.
Makes(e, life, g) ==
    /\ g.holders = 1 /\ g.version = 1 /\ g.life = life /\ ~ g.failed /\ ~ g.lent
    /\ held' = [held EXCEPT ![e] = g]
    /\ \/ /\ KeyOf(e) \in Lent /\ queue' = queue
          /\ g.ready = "ok" /\ g.job = IF life = "forever" THEN "none" ELSE "armed"
       \/ /\ KeyOf(e) \notin Lent /\ g.ready = "pending" /\ g.job = "install"
          /\ \E s \in Statement :
               /\ queue' = Append(queue, s)
               /\ s.entry = e /\ s.version = 1 /\ s.by = "install"
               /\ s.op = IF httpfs THEN "create" ELSE "probe"

LEMMA CreateEffect ==
    ASSUME Core, NEW m \in Mounts, Taking(m),
           NEW k, k = host.vends[m][got[m] + 1],
           NEW life \in host.lives[k], Create(m, k, life)
    PROVE  \E e \in Entries, g \in HeldRecord :
             /\ KeyOf(e) = k /\ held[e].version = 0 /\ held[e].holders = 0
             /\ table[k] = None /\ table' = [table EXCEPT ![k] = e]
             /\ UNCHANGED <<granted, httpfs, orphans>>
             /\ Makes(e, life, g)
<1>1. k \in Keys /\ k \notin Taken(m)
  BY TakeHolders
<1> PICK e \in Entries : e = <<m, k>>
  BY <1>1 DEF Entries
<1>2. KeyOf(e) = k /\ e[1] = m
  BY DEF KeyOf
<1>3. PICK h, g \in HeldRecord : Making(e, life, h, g)
  BY <1>1, CreateFields
<1>4. /\ table[k] = None /\ table' = [table EXCEPT ![k] = e] /\ UNCHANGED <<granted, httpfs, orphans>>
  BY DEF Create
<1>5. held[e].version = 0 /\ held[e].holders = 0
  <2>1. ~ (held[e].version > 0) /\ table[k] # e
    BY <1>1, <1>2, <1>4, MountAssumption DEF Core, Books, Placed
  <2>2. held[e].version \in Nat
    BY HeldType, HeldFields DEF Core
  <2> QED
    BY <1>2, <2>1, <2>2 DEF Core, Books, Placed
<1>6. queue \in Seq(Statement) /\ Installs(queue, queue', e, h, "install")
  BY <1>3, SendsOne DEF Core, TypeOK, Making
<1>7. ~ h.lent /\ h.version = 1
  BY <1>3 DEF Making
<1>8. \/ KeyOf(e) \in Lent /\ queue' = queue
      \/ /\ KeyOf(e) \notin Lent
         /\ \E s \in Statement :
              /\ queue' = Append(queue, s)
              /\ s.entry = e /\ s.version = 1 /\ s.by = "install"
              /\ s.op = IF httpfs THEN "create" ELSE "probe"
  BY <1>6, <1>7 DEF Installs
<1>9. Makes(e, life, g)
  BY <1>3, <1>8 DEF Making, Makes
<1> QED
  BY <1>2, <1>4, <1>5, <1>9

LEMMA TakingMail ==
    ASSUME Core, Mail, NEW m \in Mounts, Taking(m)
    PROVE  Mail'
<1> PICK k : k = host.vends[m][got[m] + 1]
  OBVIOUS
<1>1. k \in Keys
  BY TakeHolders
<1>2. CASE Share(k)
  <2> PICK e \in Entries, h \in HeldRecord :
        held' = [held EXCEPT ![e] = h] /\ UNCHANGED <<table, engine>> /\ Same(e)
    BY <1>1, <1>2, ShareEffect
  <2>1. \A x \in Entries : Same(x)
    BY OneEntry DEF Core, Same
  <2> QED
    BY <2>1, MailQuiet DEF Same, engine
<1>3. ASSUME NEW life \in host.lives[k], Create(m, k, life) PROVE Mail'
  <2> PICK e \in Entries, g \in HeldRecord :
        /\ KeyOf(e) = k /\ held[e].version = 0
        /\ UNCHANGED <<granted, httpfs>> /\ Makes(e, life, g)
    BY <1>3, CreateEffect
  <2>1. held'[e] = g /\ \A x \in Entries : x # e => held'[x] = held[x]
    BY OneEntry DEF Core, Makes
  <2>2. g.version = 1 /\ held[e].job = "none"
    BY DEF Makes, Core, Books, Placed
  <2>3. CASE KeyOf(e) \in Lent /\ queue' = queue
    BY <2>1, <2>2, <2>3, MailQuiet DEF Same
  <2>4. CASE /\ KeyOf(e) \notin Lent /\ g.ready = "pending" /\ g.job = "install"
             /\ \E s \in Statement :
                  /\ queue' = Append(queue, s)
                  /\ s.entry = e /\ s.version = 1 /\ s.by = "install"
                  /\ s.op = IF httpfs THEN "create" ELSE "probe"
    <3> PICK s \in Statement :
          /\ queue' = Append(queue, s)
          /\ s.entry = e /\ s.version = 1 /\ s.by = "install"
          /\ s.op = IF httpfs THEN "create" ELSE "probe"
      BY <2>4
    <3>1. Formed(s)'
      BY <2>4 DEF Formed
    <3>2. InFlight(s)'
      BY <2>1, <2>2, <2>4 DEF InFlight
    <3> QED
      <4>1. \A x \in Entries :
              /\ held[x].job \in {"install", "renew"} => Same(x)
              /\ held'[x].job \in {"armed", "retry", "ask", "renew"} =>
                   held[x].job \in {"armed", "retry", "ask", "renew"} \/ KeyOf(x) \in Lent
              /\ held[x].version > 0 => held'[x].version > 0
        BY <2>1, <2>2, <2>4 DEF Same
      <4>2. Installing(s) => held[s.entry].job \notin {"install", "renew"} \/ held[s.entry].version = 0
        BY <2>2
      <4> QED
        BY <3>1, <3>2, <4>1, <4>2, MailSent
  <2> QED
    BY <2>3, <2>4 DEF Makes
<1> QED
  BY <1>2, <1>3, TakeCases


\* What an answer changes is the entry of its own install.
Answers(s) ==
    /\ \A x \in Entries : x # s.entry => held'[x] = held[x]
    /\ ~ Installing(s) => held' = held

LEMMA AnswerSame ==
    ASSUME Core, Mail, queue # <<>>, Answers(Head(queue)),
           NEW i \in DOMAIN queue, i > 1, Installing(queue[i])
    PROVE  Same(queue[i].entry)
<1>1. Head(queue) = queue[1] /\ 1 \in DOMAIN queue /\ queue[i].entry \in Entries
  BY HeadOf, QueueType DEF Core
<1>2. CASE Installing(Head(queue))
  <2>1. queue[i].entry # queue[1].entry
    <3>1. Once(1, i)
      BY <1>1 DEF Mail
    <3> QED
      BY <1>1, <1>2, <3>1 DEF Once
  <2> QED
    BY <1>1, <2>1 DEF Answers, Same
<1>3. CASE ~ Installing(Head(queue))
  BY <1>3 DEF Answers, Same
<1> QED
  BY <1>2, <1>3

LEMMA AnswerMail ==
    ASSUME Core, Mail, queue # <<>>, Answers(Head(queue)), queue' = Tail(queue), httpfs' = httpfs,
           \A e \in Entries : Loaded(e)', \A n \in Names : Named(n)'
    PROVE  Mail'
<1>1. /\ DOMAIN queue' \in SUBSET (Nat \ {0})
      /\ \A i \in DOMAIN queue' : Was(i, 1)
  BY QueueAnswered
<1>2. \A i \in DOMAIN queue' : Installing(queue'[i]) => Same(queue'[i].entry)
  <2> SUFFICES ASSUME NEW i \in DOMAIN queue', Installing(queue'[i]) PROVE Same(queue'[i].entry)
    OBVIOUS
  <2>1. i + 1 \in DOMAIN queue /\ i + 1 > 1 /\ queue'[i] = queue[i + 1]
    BY <1>1 DEF Was
  <2> QED
    BY <2>1, AnswerSame
<1> QED
  BY <1>1, <1>2, MailMoves

\* The engine's answers, one by one.
LEMMA ProbeEffect ==
    ASSUME Core, Mail, Probe
    PROVE  /\ queue # <<>> /\ Head(queue).op = "probe" /\ Head(queue).by = "install"
           /\ UNCHANGED <<page, table, granted, orphans>>
           /\ \/ /\ httpfs' = TRUE /\ held' = held
                 /\ \E c \in Statement :
                      /\ queue' = Append(Tail(queue), c)
                      /\ c.op = "create" /\ c.by = "install"
                      /\ c.entry = Head(queue).entry /\ c.version = Head(queue).version
              \/ /\ queue' = Tail(queue) /\ httpfs' = httpfs
                 /\ held' = [held EXCEPT ![Head(queue).entry] = Refusal(held[Head(queue).entry], "install")]
<1>1. /\ queue # <<>> /\ Head(queue).op = "probe" /\ UNCHANGED <<page, table, granted, orphans>>
  BY DEF Probe, Answered
<1>2. Head(queue) \in Statement /\ Head(queue).by = "install"
  BY <1>1, HeadOf DEF Mail, Formed
<1> DEFINE s == Head(queue)
           c == [s EXCEPT !.op = "create"]
<1>3. c \in Statement /\ c.op = "create" /\ c.by = "install" /\ c.entry = s.entry /\ c.version = s.version
  BY <1>2 DEF Statement
<1> HIDE DEF c
<1>4. CASE httpfs' = TRUE /\ queue' = Append(Tail(queue), c) /\ held' = held
  BY <1>1, <1>2, <1>3, <1>4
<1>5. CASE /\ held' = [held EXCEPT ![s.entry] = Refusal(held[s.entry], s.by)]
           /\ queue' = Tail(queue) /\ httpfs' = httpfs
  BY <1>1, <1>2, <1>5
<1> QED
  BY <1>4, <1>5, ProbeFields DEF c

LEMMA PutEffect ==
    ASSUME Core, Mail, Put
    PROVE  /\ queue # <<>> /\ Head(queue).op \in {"create", "lend"} /\ queue' = Tail(queue)
           /\ UNCHANGED <<page, table, httpfs, orphans>>
           /\ \/ /\ granted' = [granted EXCEPT ![NameFor(Head(queue).entry)] =
                                  [entry |-> Head(queue).entry, version |-> Head(queue).version]]
                 /\ held' = [held EXCEPT ![Head(queue).entry] =
                               Landing(held[Head(queue).entry], Head(queue).by)]
              \/ /\ granted' = granted
                 /\ held' = [held EXCEPT ![Head(queue).entry] =
                               Refusal(held[Head(queue).entry], Head(queue).by)]
<1>1. /\ queue # <<>> /\ Head(queue).op \in {"create", "lend"} /\ queue' = Tail(queue)
      /\ UNCHANGED <<page, table, httpfs, orphans>>
  BY DEF Put, Answered
<1> QED
  BY <1>1, PutFields DEF NameFor

LEMMA DropEffect ==
    ASSUME Core, Drop
    PROVE  /\ queue # <<>> /\ Takes(Head(queue)) /\ queue' = Tail(queue)
           /\ Head(queue).by \in Mounts /\ pc[Head(queue).by] = "dropping"
           /\ leaving[Head(queue).by] = Head(queue).entry
           /\ UNCHANGED <<host, got, rel, leaving, opened, aborted, cache, httpfs>>
           /\ pc' = [pc EXCEPT ![Head(queue).by] = "dropped"]
           /\ \/ /\ granted' = [granted EXCEPT ![NameFor(Head(queue).entry)] = None]
                 /\ orphans' = orphans \ {NameFor(Head(queue).entry)}
              \/ granted' = granted /\ orphans' = orphans \cup {NameFor(Head(queue).entry)}
<1>1. queue # <<>> /\ Takes(Head(queue))
  BY DEF Drop, Answered, Takes
<1>2. Head(queue).by \in Mounts /\ pc[Head(queue).by] = "dropping" /\ leaving[Head(queue).by] = Head(queue).entry
  BY <1>1, HeadOf DEF Core, Books, Dropping
<1> QED
  BY <1>1, <1>2 DEF Drop, NameFor

LEMMA AnswersHead ==
    ASSUME Core, queue # <<>>, NEW h,
           held' = [held EXCEPT ![Head(queue).entry] = h],
           ~ Installing(Head(queue)) => h = held[Head(queue).entry]
    PROVE  /\ Answers(Head(queue)) /\ held'[Head(queue).entry] = h
<1> PICK e \in Entries : e = Head(queue).entry
  BY HeadOf
<1>1. held' = [held EXCEPT ![e] = h] /\ held'[e] = h /\ \A x \in Entries : x # e => held'[x] = held[x]
  BY OneEntry DEF Core
<1>2. ~ Installing(Head(queue)) => held' = held
  BY <1>1 DEF Core, TypeOK
<1> QED
  BY <1>1, <1>2 DEF Answers

LEMMA DropMail ==
    ASSUME Core, Mail, Drop
    PROVE  Mail'
<1>1. /\ queue # <<>> /\ queue' = Tail(queue) /\ httpfs' = httpfs /\ held' = held
      /\ granted' = [granted EXCEPT ![NameFor(Head(queue).entry)] = None] \/ granted' = granted
  BY DropEffect DEF cache
<1>2. Answers(Head(queue))
  BY <1>1 DEF Answers
<1>3. \A e \in Entries : Loaded(e)'
  BY <1>1 DEF Mail, Loaded
<1>4. \A n \in Names : granted'[n] = granted[n] \/ granted'[n] = None
  BY <1>1 DEF Core, TypeOK
<1>5. \A n \in Names : Named(n)'
  BY <1>1, <1>4 DEF Mail, Named
<1> QED
  BY <1>1, <1>2, <1>3, <1>5, AnswerMail

LEMMA ProbeMail ==
    ASSUME Core, Mail, Probe
    PROVE  Mail'
<1> DEFINE s == Head(queue)
<1>1. /\ queue # <<>> /\ s.op = "probe" /\ s.by = "install" /\ granted' = granted
      /\ s \in Statement /\ s.entry \in Entries /\ held[s.entry] \in HeldRecord
      /\ s = queue[1] /\ 1 \in DOMAIN queue /\ Installing(s)
  BY ProbeEffect, HeadOf DEF Installing, Brings
<1>2. CASE /\ httpfs' = TRUE /\ held' = held
           /\ \E c \in Statement :
                /\ queue' = Append(Tail(queue), c)
                /\ c.op = "create" /\ c.by = "install" /\ c.entry = s.entry /\ c.version = s.version
  <2> PICK c \in Statement :
        /\ queue' = Append(Tail(queue), c)
        /\ c.op = "create" /\ c.by = "install" /\ c.entry = s.entry /\ c.version = s.version
    BY <1>2
  <2>1. /\ DOMAIN queue' \in SUBSET (Nat \ {0})
        /\ \A i \in DOMAIN queue' : Was(i, 1) \/ (queue'[i] = c /\ i = Len(queue))
    BY <1>1, QueueTurned
  <2>2. Formed(s) /\ InFlight(s)
    BY <1>1 DEF Mail
  <2>3. Formed(c)' /\ InFlight(c)'
    BY <1>1, <1>2, <2>2 DEF Formed, InFlight, Brings
  <2>4. \A i \in DOMAIN queue' : Was(i, 1) /\ Installing(queue'[i]) => queue'[i].entry # c.entry
    <3> SUFFICES ASSUME NEW i \in DOMAIN queue', Was(i, 1), Installing(queue'[i]) PROVE queue'[i].entry # c.entry
      OBVIOUS
    <3>1. Once(1, i + 1) /\ i + 1 # 1
      BY <1>1, <2>1 DEF Mail, Was
    <3> QED
      BY <1>1, <3>1 DEF Once, Was
  <2>5. \A i \in DOMAIN queue' :
          \/ Was(i, 1) /\ (Installing(queue'[i]) => Same(queue'[i].entry))
          \/ /\ Formed(queue[i])' /\ InFlight(queue[i])'
             /\ \A j \in DOMAIN queue' : Once(i, j)' /\ Once(j, i)'
    <3> TAKE i \in DOMAIN queue'
    <3>1. CASE Was(i, 1)
      BY <1>2, <3>1 DEF Same
    <3>2. CASE queue'[i] = c /\ i = Len(queue)
      <4>1. Formed(queue[i])' /\ InFlight(queue[i])'
        BY <2>3, <3>2 DEF Formed, InFlight
      <4>2. \A j \in DOMAIN queue' : Once(i, j)' /\ Once(j, i)'
        BY <2>1, <2>4, <3>2 DEF Once
      <4> QED
        BY <4>1, <4>2
    <3> QED
      BY <2>1, <3>1, <3>2
  <2>6. (\A e \in Entries : Loaded(e)') /\ (\A n \in Names : Named(n)')
    BY <1>1, <1>2 DEF Mail, Loaded, Named
  <2> QED
    BY <1>2, <2>1, <2>5, <2>6, MailMoves
<1>3. CASE /\ queue' = Tail(queue) /\ httpfs' = httpfs
           /\ held' = [held EXCEPT ![s.entry] = Refusal(held[s.entry], "install")]
  <2>1. Answers(s) /\ held'[s.entry] = Refusal(held[s.entry], "install")
    BY <1>1, <1>3, AnswersHead
  <2>2. /\ Refusal(held[s.entry], "install").job = "none"
        /\ Refusal(held[s.entry], "install").version = held[s.entry].version
    BY <1>1, RefusalFields
  <2>3. \A e \in Entries : held'[e] = held[e] \/ (held'[e].job = "none" /\ held'[e].version = held[e].version)
    BY <2>1, <2>2 DEF Answers
  <2>4. \A e \in Entries : Loaded(e)'
    BY <1>3, <2>3 DEF Mail, Loaded
  <2>5. \A n \in Names : Named(n)'
    BY <1>1, <2>3 DEF Mail, Named, Core, TypeOK
  <2> QED
    BY <1>1, <1>3, <2>1, <2>4, <2>5, AnswerMail
<1> QED
  BY <1>2, <1>3, ProbeEffect

LEMMA PutMail ==
    ASSUME Core, Mail, Put
    PROVE  Mail'
<1> DEFINE s == Head(queue)
<1>1. /\ queue # <<>> /\ queue' = Tail(queue) /\ httpfs' = httpfs /\ s.op \in {"create", "lend"}
      /\ s \in Statement /\ s.entry \in Entries /\ held[s.entry] \in HeldRecord
      /\ s = queue[1] /\ 1 \in DOMAIN queue /\ held[s.entry].version > 0
  BY PutEffect, HeadOf
<1>2. Formed(s) /\ Brings(s)
  BY <1>1 DEF Mail, Brings
<1>3. KeyOf(s.entry) \notin Lent => httpfs
  BY <1>1, <1>2 DEF Formed
<1>4. CASE \E h : /\ held' = [held EXCEPT ![s.entry] = h] /\ h.version = held[s.entry].version
                  /\ ~ Installing(s) => h = held[s.entry]
  <2> PICK h : /\ held' = [held EXCEPT ![s.entry] = h] /\ h.version = held[s.entry].version
               /\ ~ Installing(s) => h = held[s.entry]
    BY <1>4
  <2>1. Answers(s) /\ held'[s.entry] = h
    BY <1>1, AnswersHead
  <2>2. \A e \in Entries : Loaded(e)'
    BY <1>1, <1>3, <2>1 DEF Mail, Loaded, Answers
  <2>3. \A e \in Entries : held'[e].version = held[e].version
    BY <2>1 DEF Answers
  <2>4. ASSUME NEW n \in Names PROVE Named(n)'
    <3>1. CASE granted'[n] = granted[n]
      BY <2>3, <2>4, <3>1 DEF Mail, Named, Core, TypeOK
    <3>2. CASE granted'[n] = [entry |-> s.entry, version |-> s.version] /\ n = NameFor(s.entry)
      BY <1>1, <1>2, <2>3, <3>2 DEF Named, Formed
    <3>3. granted'[n] = granted[n] \/ (granted'[n] = [entry |-> s.entry, version |-> s.version] /\ n = NameFor(s.entry))
      BY <2>4, PutEffect DEF Core, TypeOK
    <3> QED
      BY <3>1, <3>2, <3>3
  <2> QED
    BY <1>1, <2>1, <2>2, <2>4, AnswerMail
<1>5. ~ Installing(s) => s.by \notin {"install", "renew"}
  BY <1>2 DEF Installing
<1>6. \E h : /\ held' = [held EXCEPT ![s.entry] = h] /\ h.version = held[s.entry].version
             /\ ~ Installing(s) => h = held[s.entry]
  BY <1>1, <1>5, PutEffect, LandingFields, RefusalFields
<1> QED
  BY <1>4, <1>6

LEMMA MailKeeps == ASSUME Core, Mail, [Next]_vars PROVE Mail'
<1>1. CASE UNCHANGED vars
  <2>1. UNCHANGED <<queue, granted, httpfs, held>>
    BY <1>1 DEF vars, cache, engine
  <2> QED
    BY <2>1, MailQuiet DEF Same
<1>2. CASE Next
  BY <1>2, Steps, PhaseMail, TakingMail, LettingMail, UninstallMail, FilesMail, TickMail, FireMail,
     NotRenewedMail, RenewedMail, ProbeMail, PutMail, DropMail DEF Core
<1> QED
  BY <1>1, <1>2


(***************************************************************************)
(* Backing.                                                                *)
(***************************************************************************)

LEMMA EndingKept ==
    ASSUME TypeOK, NEW d \in {0, 1}, Moves(d), NEW n, NEW i \in Nat, Ending(n, i + d)
    PROVE  Ending(n, i)'
<1>1. PICK j \in DOMAIN queue : j > i + d /\ Takes(queue[j]) /\ NameFor(queue[j].entry) = n
  BY DEF Ending
<1>2. j \in Nat /\ j > d
  BY <1>1, QueueType
<1>3. j - d \in DOMAIN queue' /\ queue'[j - d] = queue[j] /\ j - d > i
  BY <1>1, <1>2 DEF Moves
<1> QED
  BY <1>1, <1>3 DEF Ending

LEMMA BackingMoves ==
    ASSUME Core, Backing, NEW d \in {0, 1}, Moves(d), DOMAIN queue' \in SUBSET (Nat \ {0}),
           \A e \in Entries : Backed(e) => Backed(e)',
           \A e \in Entries : held'[e].ready = "pending" => held[e].ready = "pending" \/ Backed(e)',
           \A i \in DOMAIN queue' : Brings(queue'[i]) => Was(i, d) \/ Backed(queue[i].entry)',
           \A e \in Entries : Lending(e)', \A n \in Names : Charged(n)'
    PROVE  Backing'
<1>1. \A e \in Entries : (held'[e].ready = "pending" => Backed(e)')
  BY DEF Backing
<1>2. \A i \in DOMAIN queue' : Covered(i)'
  <2> SUFFICES ASSUME NEW i \in DOMAIN queue', Brings(queue'[i]), Was(i, d)
               PROVE  Backed(queue[i].entry)' \/ Ending(NameFor(queue[i].entry), i)'
    BY DEF Covered
  <2>1. Covered(i + d) /\ queue'[i] = queue[i + d] /\ queue'[i].entry \in Entries /\ i \in Nat
    BY QueueType DEF Backing, Was, Core
  <2>2. Backed(queue'[i].entry) \/ Ending(NameFor(queue'[i].entry), i + d)
    BY <2>1 DEF Covered
  <2>3. CASE Backed(queue'[i].entry)
    <3> PICK e \in Entries : e = queue'[i].entry
      BY <2>1
    <3>1. Backed(e)'
      BY <2>3
    <3> QED
      BY <3>1 DEF Backed
  <2>4. CASE Ending(NameFor(queue'[i].entry), i + d)
    <3> PICK n : n = NameFor(queue'[i].entry)
      OBVIOUS
    <3>1. Ending(n, i)'
      BY <2>1, <2>4, EndingKept DEF Core
    <3> QED
      BY <3>1 DEF Ending, NameFor
  <2> QED
    BY <2>2, <2>3, <2>4
<1> QED
  BY <1>1, <1>2 DEF Backing

\* What the engine does not know yet, it does not hold.
LEMMA UnknownNew ==
    ASSUME Core, Mail, NEW e \in Entries, held[e].version = 0
    PROVE  ~ Known(e)
  BY QueueType DEF Core, TypeOK, Books, Mail, Named, Known

LEMMA BackingQuiet ==
    ASSUME Core, Mail, Backing, UNCHANGED <<queue, granted, orphans>>,
           \A e \in Entries : Backed(e) => Backed(e)',
           \A e \in Entries : held'[e].ready = "pending" => held[e].ready = "pending" \/ Backed(e)',
           \A e \in Entries : KeyOf(e) \in Lent /\ Backed(e)' =>
             \/ held[e].version = 0
             \/ Backed(e) /\ (held[e].lent => held'[e].lent)
    PROVE  Backing'
<1>1. Moves(0) /\ DOMAIN queue' \in SUBSET (Nat \ {0}) /\ \A i \in DOMAIN queue' : Was(i, 0)
  BY QueueSame DEF Core
<1>2. \A e \in Entries : Known(e)' => Known(e)
  BY DEF Known
<1>3. \A e \in Entries : Lending(e)'
  BY <1>2, UnknownNew DEF Backing, Lending
<1>4. ASSUME NEW n \in Names PROVE Charged(n)'
  <2>1. Ending(n, 0) => Ending(n, 0)'
    BY DEF Ending
  <2>2. granted[n] # None => granted[n].entry \in Entries
    BY DEF Core, TypeOK
  <2>3. granted'[n] # None /\ Backed(granted[n].entry) => Backed(granted[n].entry)'
    <3> SUFFICES ASSUME granted[n] # None, Backed(granted[n].entry) PROVE Backed(granted[n].entry)'
      OBVIOUS
    <3> PICK e \in Entries : e = granted[n].entry
      BY <2>2
    <3> QED
      BY DEF Backed
  <2> QED
    BY <2>1, <2>3 DEF Backing, Charged
<1> QED
  BY <1>1, <1>3, <1>4, BackingMoves

\* A step that keeps counts and releases keeps who answers for an entry.
LEMMA BackedKept ==
    ASSUME NEW e, held'[e].holders = held[e].holders, UNCHANGED leaving,
           \A m \in Mounts : pc[m] = "awaiting" <=> pc'[m] = "awaiting"
    PROVE  Backed(e)' <=> Backed(e)
  BY DEF Backed

LEMMA PhaseBacking ==
    ASSUME Core, Mail, Backing, NEW m \in Mounts, Phase(m)
    PROVE  Backing'
<1>1. /\ UNCHANGED <<held, leaving, queue, granted, orphans>>
      /\ \A n \in Mounts : pc[n] = "awaiting" <=> pc'[n] = "awaiting"
  BY DEF Phase, cache, engine, Core, TypeOK
<1>2. \A e \in Entries : Backed(e)' <=> Backed(e)
  BY <1>1, BackedKept
<1> QED
  BY <1>1, <1>2, BackingQuiet

\* A step that changes one entry, and neither its count nor what waits for it.
LEMMA EntryBacking ==
    ASSUME Core, Mail, Backing, UNCHANGED <<page, queue, granted, orphans>>,
           NEW e \in Entries, NEW h, held' = [held EXCEPT ![e] = h],
           h.holders = held[e].holders, h.ready = "pending" => held[e].ready = "pending",
           Backed(e) /\ held[e].lent => h.lent
    PROVE  Backing'
<1>1. held'[e] = h /\ \A x \in Entries : x # e => held'[x] = held[x]
  BY OneEntry DEF Core
<1>2. \A x \in Entries : Backed(x)' <=> Backed(x)
  BY <1>1, BackedKept DEF page
<1> QED
  BY <1>1, <1>2, BackingQuiet

LEMMA TickBacking ==
    ASSUME Core, Mail, Backing, NEW e \in Entries, Tick(e)
    PROVE  Backing'
<1> DEFINE l == IF held[e].life = "fresh" THEN "due" ELSE "expired"
           h == [held[e] EXCEPT !.life = l]
<1>1. held[e] \in HeldRecord
  BY HeldType DEF Core
<1>2. held' = [held EXCEPT ![e] = h] /\ UNCHANGED <<page, queue, granted, orphans>>
  BY DEF Tick, Core, TypeOK, engine
<1> HIDE DEF l
<1>3. h.ready = held[e].ready /\ h.holders = held[e].holders /\ h.lent = held[e].lent
  BY <1>1 DEF HeldRecord
<1> QED
  BY <1>2, <1>3, EntryBacking

\* Stopping an entry nobody holds changes nothing of one a release waits on.
LEMMA StopBacking ==
    ASSUME Core, Mail, Backing, UNCHANGED <<page, queue, granted, orphans>>,
           NEW e \in Entries, held[e].holders = 0, held' = [held EXCEPT ![e] = Stopped(e)]
    PROVE  Backing'
<1>1. held[e] \in HeldRecord
  BY HeldType DEF Core
<1>2. /\ Stopped(e).holders = held[e].holders
      /\ Stopped(e).ready = "pending" => held[e].ready = "pending"
      /\ Backed(e) /\ held[e].lent => Stopped(e).lent
  BY <1>1, StoppedFields, FreedFields DEF Backed
<1> QED
  BY <1>2, EntryBacking

LEMMA FireBacking ==
    ASSUME Core, Mail, Backing, NEW e \in Entries, Fire(e)
    PROVE  Backing'
<1>1. held[e] \in HeldRecord /\ UNCHANGED <<page, queue, granted, orphans>>
  BY HeldType DEF Core, Fire, engine
<1>2. CASE held[e].holders = 0
  <2>1. held' = [held EXCEPT ![e] = Stopped(e)]
    BY <1>2 DEF Fire, Core, TypeOK
  <2> QED
    BY <1>1, <1>2, <2>1, StopBacking
<1>3. CASE held[e].holders # 0
  <2> DEFINE h == [held[e] EXCEPT !.job = "ask"]
  <2>1. held' = [held EXCEPT ![e] = h]
    BY <1>3 DEF Fire, Core, TypeOK
  <2>2. h.holders = held[e].holders /\ h.ready = held[e].ready /\ h.lent = held[e].lent
    BY <1>1 DEF HeldRecord
  <2> QED
    BY <1>1, <2>1, <2>2, EntryBacking
<1> QED
  BY <1>2, <1>3

LEMMA NotRenewedBacking ==
    ASSUME Core, Mail, Backing, NEW e \in Entries, NotRenewed(e)
    PROVE  Backing'
<1>1. /\ held[e] \in HeldRecord /\ UNCHANGED <<page, queue, granted, orphans>>
      /\ held' = [held EXCEPT ![e] = RenewalFailed(held[e])]
  BY HeldType DEF Core, NotRenewed, engine
<1> QED
  BY <1>1, RenewalFailedFields, EntryBacking


LEMMA BackingSent ==
    ASSUME Core, Mail, Backing, UNCHANGED <<granted, orphans>>,
           NEW s \in Statement, queue' = Append(queue, s), Brings(s), Backed(s.entry)',
           \A e \in Entries : Backed(e) => Backed(e)',
           \A e \in Entries : held'[e].ready = "pending" => held[e].ready = "pending" \/ Backed(e)',
           \A e \in Entries : KeyOf(e) \in Lent /\ Backed(e)' =>
             \/ e = s.entry /\ held'[e].lent
             \/ e # s.entry /\ held[e].version = 0
             \/ e # s.entry /\ Backed(e) /\ (held[e].lent => held'[e].lent)
    PROVE  Backing'
<1>1. /\ Moves(0) /\ DOMAIN queue' \in SUBSET (Nat \ {0})
      /\ \A i \in DOMAIN queue' : Was(i, 0) \/ (i = Len(queue) + 1 /\ queue'[i] = s)
  BY QueueSent DEF Core
<1>2. \A e \in Entries : e # s.entry /\ Known(e)' => Known(e)
  BY <1>1 DEF Known, Was
<1>3. \A e \in Entries : Lending(e)'
  BY <1>2, UnknownNew DEF Backing, Lending
<1>4. ASSUME NEW n \in Names PROVE Charged(n)'
  <2>1. Ending(n, 0) => Ending(n, 0)'
    BY <1>1, EndingKept DEF Core
  <2>2. granted[n] # None => granted[n].entry \in Entries
    BY DEF Core, TypeOK
  <2>3. granted'[n] # None /\ Backed(granted[n].entry) => Backed(granted[n].entry)'
    <3> SUFFICES ASSUME granted[n] # None, Backed(granted[n].entry) PROVE Backed(granted[n].entry)'
      OBVIOUS
    <3> PICK e \in Entries : e = granted[n].entry
      BY <2>2
    <3> QED
      BY DEF Backed
  <2> QED
    BY <2>1, <2>3 DEF Backing, Charged
<1>5. \A i \in DOMAIN queue' : Brings(queue'[i]) => Was(i, 0) \/ Backed(queue[i].entry)'
  <2> TAKE i \in DOMAIN queue'
  <2>1. CASE queue'[i] = s
    BY <2>1 DEF Backed
  <2> QED
    BY <1>1, <2>1
<1> QED
  BY <1>1, <1>3, <1>4, <1>5, BackingMoves

LEMMA FilesBacking ==
    ASSUME Core, Mail, Backing, NEW m \in Mounts, NEW k \in Keys, Files(m, k)
    PROVE  Backing'
<1> PICK e \in Entries, s \in Statement, h \in HeldRecord :
      /\ held[e].holders > 0
      /\ held' = [held EXCEPT ![e] = h] /\ queue' = Append(queue, s) /\ Same(e)
      /\ h.holders = held[e].holders /\ h.lent
      /\ s.op = "lend" /\ s.entry = e
      /\ UNCHANGED <<page, table, granted, httpfs, orphans>>
  BY FilesSends
<1>1. held'[e] = h /\ \A x \in Entries : x # e => held'[x] = held[x]
  BY OneEntry DEF Core
<1>2. \A x \in Entries : Backed(x)' <=> Backed(x)
  BY <1>1, BackedKept DEF page
<1>3. Backed(s.entry)'
  BY <1>1 DEF Backed
<1>4. \A x \in Entries : held'[x].ready = "pending" => held[x].ready = "pending"
  BY <1>1 DEF Same
<1>5. Brings(s)
  BY DEF Brings
<1> QED
  BY <1>1, <1>2, <1>3, <1>4, <1>5, BackingSent

LEMMA RenewedBacking ==
    ASSUME Core, Mail, Backing, NEW e \in Entries, NEW life \in host.lives[KeyOf(e)], Renewed(e, life)
    PROVE  Backing'
<1>1. UNCHANGED <<page, granted, orphans>>
  BY RenewedEffect
<1>2. CASE RenewStops(e)
  BY <1>1, <1>2, StopBacking DEF RenewStops
<1>3. ASSUME NEW h \in HeldRecord, RenewSends(e, life, h) PROVE Backing'
  <2>1. /\ held' = [held EXCEPT ![e] = h] /\ held[e].holders > 0 /\ h.holders = held[e].holders
        /\ h.ready = held[e].ready /\ h.lent = held[e].lent
    BY <1>3 DEF RenewSends
  <2>2. CASE queue' = queue
    BY <1>1, <2>1, <2>2, EntryBacking
  <2>3. CASE \E s \in Statement : /\ queue' = Append(queue, s) /\ s.entry = e /\ Brings(s)
                                  /\ KeyOf(e) \in Lent => h.lent
    <3> PICK s \in Statement : /\ queue' = Append(queue, s) /\ s.entry = e /\ Brings(s)
                               /\ KeyOf(e) \in Lent => h.lent
      BY <2>3
    <3>1. held'[e] = h /\ \A x \in Entries : x # e => held'[x] = held[x]
      BY <2>1, OneEntry DEF Core
    <3>2. \A x \in Entries : Backed(x)' <=> Backed(x)
      BY <2>1, <3>1, BackedKept, <1>1 DEF page
    <3>3. Backed(s.entry)'
      BY <2>1, <3>1 DEF Backed
    <3>4. \A x \in Entries : held'[x].ready = "pending" => held[x].ready = "pending"
      BY <2>1, <3>1
    <3> QED
      BY <1>1, <3>1, <3>2, <3>3, <3>4, BackingSent
  <2> QED
    BY <1>3, <2>2, <2>3 DEF RenewSends, Brings
<1> QED
  BY <1>2, <1>3, RenewedEffect

LEMMA TakingBacking ==
    ASSUME Core, Mail, Backing, NEW m \in Mounts, Taking(m)
    PROVE  Backing'
<1> PICK k : k = host.vends[m][got[m] + 1]
  OBVIOUS
<1>1. k \in Keys /\ leaving' = leaving /\ pc' = [pc EXCEPT ![m] = "waiting"]
  BY TakeHolders
<1>2. pc[m] # "awaiting" /\ \A n \in Mounts : pc[n] = "awaiting" <=> pc'[n] = "awaiting"
  BY <1>1 DEF Taking, Core, TypeOK
<1>3. CASE Share(k)
  <2> PICK e \in Entries, h \in HeldRecord :
        /\ held' = [held EXCEPT ![e] = h] /\ UNCHANGED <<table, engine>> /\ Same(e)
        /\ held[e].holders > 0 /\ h.holders = held[e].holders + 1 /\ h.lent = held[e].lent
    BY <1>1, <1>3, ShareEffect
  <2>1. held'[e] = h /\ \A x \in Entries : x # e => held'[x] = held[x]
    BY OneEntry DEF Core
  <2>2. held[e].holders \in Nat
    BY HeldType, HeldFields DEF Core
  <2>3. Backed(e) /\ Backed(e)'
    BY <2>1, <2>2 DEF Backed
  <2>4. \A x \in Entries : Backed(x)' <=> Backed(x)
    BY <1>1, <1>2, <2>1, <2>3, BackedKept
  <2> QED
    BY <2>1, <2>4, BackingQuiet DEF engine, Same
<1>4. ASSUME NEW life \in host.lives[k], Create(m, k, life) PROVE Backing'
  <2> PICK e \in Entries, g \in HeldRecord :
        /\ held[e].version = 0 /\ held[e].holders = 0
        /\ UNCHANGED <<granted, orphans>> /\ Makes(e, life, g)
    BY <1>4, CreateEffect
  <2>1. held'[e] = g /\ \A x \in Entries : x # e => held'[x] = held[x]
    BY OneEntry DEF Core, Makes
  <2>2. Backed(e)'
    BY <2>1 DEF Backed, Makes
  <2>3. \A x \in Entries : x # e => (Backed(x)' <=> Backed(x))
    BY <1>1, <1>2, <2>1, BackedKept
  <2>4. CASE KeyOf(e) \in Lent /\ queue' = queue
    BY <2>1, <2>2, <2>3, <2>4, BackingQuiet
  <2>5. CASE KeyOf(e) \notin Lent /\ \E s \in Statement : queue' = Append(queue, s) /\ s.entry = e /\ Brings(s)
    <3> PICK s \in Statement : queue' = Append(queue, s) /\ s.entry = e /\ Brings(s)
      BY <2>5
    <3>1. Backed(s.entry)'
      BY <2>2 DEF Backed
    <3> QED
      BY <2>1, <2>2, <2>3, <2>5, <3>1, BackingSent
  <2> QED
    BY <2>4, <2>5 DEF Makes, Brings
<1> QED
  BY <1>3, <1>4, TakeCases

LEMMA LettingBacking ==
    ASSUME Core, Mail, Backing, NEW m \in Mounts, Letting(m)
    PROVE  Backing'
<1>1. PICK z \in 0 .. got[m], G \in SUBSET Keys :
         /\ Lets(m, G, z) /\ \A e \in Entries : LetEntry(m, G, e)
         /\ \A k \in G : m \in Holders(k) /\ table[k] \in Entries /\ KeyOf(table[k]) = k
  BY LettingEffect
<1>2. UNCHANGED <<queue, granted, orphans>> /\ pc[m] \in {"open", "waiting", "dropped"}
  BY <1>1 DEF Lets, engine, Letting
<1>3. /\ pc'[m] = "awaiting" <=> \E k \in G : leaving'[m] = table[k] /\ held[table[k]].holders = 1
      /\ \A n \in Mounts : n # m => pc'[n] = pc[n] /\ leaving'[n] = leaving[n]
      /\ \A k \in G : held[table[k]].holders = 1 => leaving'[m] = table[k]
  <2>1. CASE /\ pc' = [pc EXCEPT ![m] = IF m \in opened THEN "closed" ELSE "failed"]
             /\ leaving' = [leaving EXCEPT ![m] = None]
             /\ \A k \in G : held[table[k]].holders # 1
    BY <2>1 DEF Core, TypeOK
  <2>2. CASE \E k \in G :
               /\ pc' = [pc EXCEPT ![m] = "awaiting"]
               /\ leaving' = [leaving EXCEPT ![m] = table[k]]
               /\ held[table[k]].holders = 1
               /\ \A l \in G : l # k => held[table[l]].holders # 1
    BY <2>2 DEF Core, TypeOK
  <2> QED
    BY <1>1, <2>1, <2>2 DEF Lets
<1>4. \A e \in Entries : held[e].holders \in Nat
  BY HeldType, HeldFields DEF Core
<1>5. ASSUME NEW e \in Entries, Backed(e) PROVE Backed(e)'
  <2>1. LetEntry(m, G, e)
    BY <1>1
  <2>2. CASE held[e].holders > 0
    <3>1. CASE KeyOf(e) \in G /\ table[KeyOf(e)] = e /\ held'[e].holders = held[e].holders - 1
      <4>1. CASE held[e].holders = 1
        BY <1>3, <3>1, <4>1 DEF Backed
      <4>2. CASE held[e].holders # 1
        BY <1>4, <2>2, <3>1, <4>2 DEF Backed
      <4> QED
        BY <4>1, <4>2
    <3>2. CASE leaving[m] = e /\ table[KeyOf(e)] # e
      BY <2>2, <3>2 DEF Core, Books, Placed
    <3>3. CASE held'[e] = held[e]
      BY <2>2, <3>3 DEF Backed
    <3> QED
      BY <2>1, <3>1, <3>2, <3>3 DEF LetEntry
  <2>3. CASE \E n \in Mounts : pc[n] = "awaiting" /\ leaving[n] = e
    BY <1>2, <1>3, <2>3 DEF Backed
  <2> QED
    BY <1>5, <2>2, <2>3 DEF Backed
<1>6. ASSUME NEW e \in Entries, Backed(e)' PROVE Backed(e) /\ (held[e].lent => held'[e].lent)
  <2>1. LetEntry(m, G, e)
    BY <1>1
  <2>2. CASE KeyOf(e) \in G /\ held[e].holders > 0 /\ held'[e].lent = held[e].lent
    BY <2>2 DEF Backed
  <2>3. CASE leaving[m] = e /\ table[KeyOf(e)] # e /\ held'[e] = Freed
    <3>1. ~ (held'[e].holders > 0)
      BY <2>3, FreedFields
    <3>2. \A k \in G : table[k] # e
      BY <1>1, <2>3
    <3>3. PICK n \in Mounts : pc'[n] = "awaiting" /\ leaving'[n] = e
      BY <1>6, <3>1 DEF Backed
    <3>4. n # m
      BY <1>3, <3>2, <3>3
    <3>5. leaving[n] = e /\ leaving[n] = leaving[m]
      BY <1>3, <2>3, <3>3, <3>4
    <3>6. leaving[m] # None
      BY <2>3, MountAssumption
    <3> QED
      BY <3>4, <3>5, <3>6 DEF Core, Books, Parting
  <2>4. CASE held'[e] = held[e] /\ ~ (KeyOf(e) \in G /\ table[KeyOf(e)] = e)
    <3>1. \A k \in G : table[k] # e
      BY <1>1, <2>4
    <3> QED
      BY <1>3, <1>6, <2>4, <3>1 DEF Backed
  <2> QED
    BY <2>1, <2>2, <2>3, <2>4 DEF LetEntry
<1>7. \A e \in Entries : held'[e].ready = "pending" => held[e].ready = "pending"
  <2> TAKE e \in Entries
  <2>1. LetEntry(m, G, e)
    BY <1>1
  <2> QED
    BY <2>1, FreedFields DEF LetEntry
<1> QED
  BY <1>2, <1>5, <1>6, <1>7, BackingQuiet


\* A release that sends the statement that takes its entry out stops answering for it.
LEMMA UninstallBacking ==
    ASSUME Core, Mail, Backing, NEW m \in Mounts, Uninstall(m)
    PROVE  Backing'
<1> PICK e \in Entries : e = leaving[m]
  BY UninstallSends
<1>1. /\ pc[m] = "awaiting" /\ held[e].ready # "pending" /\ held' = held /\ leaving' = leaving
      /\ granted' = granted /\ orphans' = orphans
      /\ pc' = [pc EXCEPT ![m] = "dropped"] \/ pc' = [pc EXCEPT ![m] = "dropping"]
  BY UninstallSends DEF cache
<1>2. \A n \in Mounts : n # m => pc'[n] = pc[n]
  BY <1>1 DEF Core, TypeOK
<1>3. \A x \in Entries : Backed(x)' => Backed(x)
  <2>1. pc'[m] # "awaiting"
    BY <1>1 DEF Core, TypeOK
  <2> QED
    BY <1>1, <1>2, <2>1 DEF Backed
<1>4. \A x \in Entries : x # e /\ Backed(x) => Backed(x)'
  BY <1>1, <1>2 DEF Backed
<1>5. Backed(e)
  BY <1>1 DEF Backed
<1>6. \A x \in Entries : held'[x].ready = "pending" => Backed(x)'
  BY <1>1, <1>4 DEF Backing
<1>7. CASE queue' = queue /\ KeyOf(e) \in Lent /\ ~ held[e].lent
  <2>1. ~ Known(e)
    BY <1>5, <1>7 DEF Backing, Lending
  <2>2. \A x \in Entries : Known(x)' <=> Known(x)
    BY <1>1, <1>7 DEF Known
  <2>3. \A x \in Entries : Lending(x)'
    BY <1>1, <1>3, <2>2 DEF Backing, Lending
  <2>4. \A n, i : Ending(n, i) => Ending(n, i)'
    BY <1>7 DEF Ending
  <2>5. ASSUME NEW i \in DOMAIN queue' PROVE Covered(i)'
    <3>1. /\ i \in DOMAIN queue /\ queue'[i] = queue[i] /\ queue[i].entry \in Entries
          /\ Brings(queue[i]) => queue[i].entry # e
      BY <1>7, <2>1, <2>5, QueueType DEF Core, Known
    <3> PICK x \in Entries : x = queue[i].entry
      BY <3>1
    <3>2. Brings(queue[i]) => Backed(x) \/ Ending(NameFor(x), i)
      BY <3>1 DEF Backing, Covered
    <3>3. Brings(queue[i]) => Backed(x)' \/ Ending(NameFor(x), i)'
      BY <1>4, <2>4, <3>1, <3>2
    <3> QED
      BY <3>1, <3>3 DEF Covered, Backed, Ending
  <2>6. ASSUME NEW n \in Names PROVE Charged(n)'
    <3> SUFFICES ASSUME granted[n] # None PROVE Charged(n)'
      BY <1>1 DEF Charged
    <3>1. granted[n].entry \in Entries /\ granted[n].entry # e
      BY <2>1 DEF Core, TypeOK, Known
    <3> PICK x \in Entries : x = granted[n].entry
      BY <3>1
    <3>2. n \in orphans \/ Backed(x)' \/ Ending(n, 0)'
      BY <1>4, <2>4, <3>1 DEF Backing, Charged
    <3> QED
      BY <1>1, <3>2 DEF Charged, Backed
  <2> QED
    BY <1>6, <2>3, <2>5, <2>6 DEF Backing
<1>8. CASE \E s \in Statement : queue' = Append(queue, s) /\ s.entry = e /\ Takes(s)
  <2> PICK s \in Statement : queue' = Append(queue, s) /\ s.entry = e /\ Takes(s)
    BY <1>8
  <2>1. /\ Moves(0) /\ DOMAIN queue' \in SUBSET (Nat \ {0})
        /\ \A i \in DOMAIN queue' : Was(i, 0) \/ (i = Len(queue) + 1 /\ queue'[i] = s)
        /\ Len(queue) + 1 \in DOMAIN queue' /\ queue'[Len(queue) + 1] = s
        /\ \A i \in DOMAIN queue : i < Len(queue) + 1
    BY QueueSent DEF Core
  <2>2. \A n : \A i \in Nat : Ending(n, i) => Ending(n, i)'
    BY <2>1, EndingKept DEF Core
  <2>3. \A i \in DOMAIN queue \cup {0} : Ending(NameFor(e), i)'
    <3>1. \A i \in DOMAIN queue \cup {0} : Len(queue) + 1 > i
      BY <2>1, QueueType DEF Core
    <3> QED
      BY <2>1, <3>1 DEF Ending
  <2>4. ~ Brings(s)
    BY DEF Brings, Takes
  <2>5. \A x \in Entries : Known(x)' => Known(x)
    BY <1>1, <2>1, <2>4 DEF Known, Was
  <2>6. \A x \in Entries : Lending(x)'
    BY <1>1, <1>3, <2>5 DEF Backing, Lending
  <2>7. ASSUME NEW i \in DOMAIN queue', Brings(queue'[i]) PROVE Covered(i)'
    <3>1. i \in DOMAIN queue /\ i \in Nat /\ queue'[i] = queue[i] /\ queue[i].entry \in Entries
      BY <2>1, <2>4, <2>7, QueueType DEF Core, Was
    <3> PICK x \in Entries : x = queue[i].entry
      BY <3>1
    <3>2. Backed(x) \/ Ending(NameFor(x), i)
      BY <2>7, <3>1 DEF Backing, Covered
    <3>3. Backed(x)' \/ Ending(NameFor(x), i)'
      BY <1>4, <2>2, <2>3, <3>1, <3>2
    <3> QED
      BY <3>1, <3>3 DEF Covered, Backed, Ending
  <2>8. ASSUME NEW n \in Names PROVE Charged(n)'
    <3> SUFFICES ASSUME granted[n] # None PROVE Charged(n)'
      BY <1>1 DEF Charged
    <3>1. granted[n].entry \in Entries
      BY DEF Core, TypeOK
    <3> PICK x \in Entries : x = granted[n].entry
      BY <3>1
    <3>2. n \in orphans \/ Backed(x) \/ Ending(n, 0)
      BY DEF Backing, Charged
    <3>3. x = e => NameFor(e) = n
      BY DEF Mail, Named
    <3>4. n \in orphans \/ Backed(x)' \/ Ending(n, 0)'
      BY <1>4, <2>2, <2>3, <3>2, <3>3
    <3> QED
      BY <1>1, <3>4 DEF Charged, Backed
  <2>9. \A i \in DOMAIN queue' : Covered(i)'
    BY <2>7 DEF Covered
  <2> QED
    BY <1>6, <2>6, <2>8, <2>9 DEF Backing
<1> QED
  BY <1>7, <1>8, UninstallSends DEF Takes


\* The engine answers a statement that brings something: it may now hold it, or be about
\* to as before.
LEMMA BroughtBacking ==
    ASSUME Core, Mail, Backing, queue # <<>>, Brings(Head(queue)), UNCHANGED <<page, orphans>>,
           Moves(1), DOMAIN queue' \in SUBSET (Nat \ {0}),
           \A i \in DOMAIN queue' :
             \/ Was(i, 1)
             \/ queue'[i].entry = Head(queue).entry /\ Backed(Head(queue).entry),
           \A n \in Names :
             \/ granted'[n] = granted[n]
             \/ n = NameFor(Head(queue).entry) /\ granted'[n].entry = Head(queue).entry,
           \A x \in Entries : /\ held'[x].holders = held[x].holders
                              /\ held[x].lent => held'[x].lent
                              /\ held'[x].ready = "pending" => held[x].ready = "pending"
    PROVE  Backing'
<1> PICK e \in Entries : e = Head(queue).entry
  BY HeadOf
<1>1. Head(queue) = queue[1] /\ 1 \in DOMAIN queue /\ queue[1].entry = e
  BY HeadOf
<1>2. \A x \in Entries : Backed(x)' <=> Backed(x)
  BY BackedKept DEF page
<1>3. \A n : Ending(n, 0) => Ending(n, 1)
  <2> SUFFICES ASSUME NEW n, NEW j \in DOMAIN queue, Takes(queue[j]), NameFor(queue[j].entry) = n
               PROVE  Ending(n, 1)
    BY DEF Ending
  <2>1. j # 1
    BY <1>1 DEF Brings, Takes
  <2>2. j > 1
    BY <2>1, QueueType DEF Core
  <2> QED
    BY <2>2 DEF Ending
<1>4. \A n : Ending(n, 1) => Ending(n, 0)'
  <2>1. 0 + 1 = 1
    OBVIOUS
  <2> QED
    BY <2>1, EndingKept DEF Core
<1>5. \A x \in Entries : Known(x)' => Known(x)
  <2> SUFFICES ASSUME NEW x \in Entries, Known(x)' PROVE Known(x)
    OBVIOUS
  <2>0. Known(e)
    BY <1>1 DEF Known
  <2>1. CASE \E n \in Names : granted'[n] # None /\ granted'[n].entry = x
    BY <2>0, <2>1 DEF Known
  <2>2. CASE \E i \in DOMAIN queue' : Brings(queue'[i]) /\ queue'[i].entry = x
    BY <2>0, <2>2 DEF Known, Was
  <2> QED
    BY <2>1, <2>2 DEF Known
<1>6. \A x \in Entries : Lending(x)'
  BY <1>2, <1>5 DEF Backing, Lending
<1>7. ASSUME NEW n \in Names PROVE Charged(n)'
  <2>1. CASE granted'[n] = granted[n] /\ granted[n] # None
    <3>1. granted[n].entry \in Entries
      BY <2>1 DEF Core, TypeOK
    <3> PICK x \in Entries : x = granted[n].entry
      BY <3>1
    <3>2. n \in orphans \/ Backed(x) \/ Ending(n, 0)
      BY <2>1 DEF Backing, Charged
    <3>3. n \in orphans' \/ Backed(x)' \/ Ending(n, 0)'
      BY <1>2, <1>3, <1>4, <3>2
    <3> QED
      BY <2>1, <3>3 DEF Charged, Backed
  <2>2. CASE n = NameFor(e) /\ granted'[n].entry = e
    <3>1. Backed(e) \/ Ending(n, 1)
      BY <1>1, <2>2 DEF Backing, Covered, Brings
    <3>2. Backed(e)' \/ Ending(n, 0)'
      BY <1>2, <1>4, <3>1
    <3> QED
      BY <2>2, <3>2 DEF Charged, Backed
  <2> QED
    BY <2>1, <2>2 DEF Charged
<1>8. \A i \in DOMAIN queue' : Brings(queue'[i]) => Was(i, 1) \/ Backed(queue[i].entry)'
  <2> TAKE i \in DOMAIN queue'
  <2>1. CASE queue'[i].entry = e /\ Backed(e)
    <3>1. Backed(e)'
      BY <1>2, <2>1
    <3> QED
      BY <2>1, <3>1 DEF Backed
  <2> QED
    BY <2>1
<1>9. \A x \in Entries : held'[x].ready = "pending" => held[x].ready = "pending" \/ Backed(x)'
  OBVIOUS
<1> QED
  BY <1>2, <1>6, <1>7, <1>8, <1>9, BackingMoves

LEMMA ProbeBacking ==
    ASSUME Core, Mail, Backing, Probe
    PROVE  Backing'
<1> DEFINE s == Head(queue)
<1>1. /\ queue # <<>> /\ Brings(s) /\ UNCHANGED <<page, orphans, granted>>
      /\ s = queue[1] /\ 1 \in DOMAIN queue /\ s.entry \in Entries /\ held[s.entry] \in HeldRecord
      /\ s.by = "install"
  BY ProbeEffect, HeadOf DEF Brings
<1>2. CASE /\ held' = held
           /\ \E c \in Statement : queue' = Append(Tail(queue), c) /\ c.entry = s.entry
  <2> PICK c \in Statement : queue' = Append(Tail(queue), c) /\ c.entry = s.entry
    BY <1>2
  <2>1. /\ Moves(1) /\ DOMAIN queue' \in SUBSET (Nat \ {0})
        /\ \A i \in DOMAIN queue' : Was(i, 1) \/ queue'[i] = c
    BY <1>1, QueueTurned
  <2>2. Backed(s.entry)
    BY <1>1 DEF Mail, InFlight, Backing
  <2> QED
    BY <1>1, <1>2, <2>1, <2>2, BroughtBacking
<1>3. CASE /\ queue' = Tail(queue)
           /\ held' = [held EXCEPT ![s.entry] = Refusal(held[s.entry], "install")]
  <2>1. /\ Moves(1) /\ DOMAIN queue' \in SUBSET (Nat \ {0})
        /\ \A i \in DOMAIN queue' : Was(i, 1)
    BY <1>1, <1>3, QueueAnswered
  <2>2. \A x \in Entries : /\ held'[x].holders = held[x].holders
                           /\ held[x].lent => held'[x].lent
                           /\ held'[x].ready = "pending" => held[x].ready = "pending"
    BY <1>1, <1>3, RefusalFields, OneEntry DEF Core
  <2> QED
    BY <1>1, <2>1, <2>2, BroughtBacking
<1> QED
  BY <1>2, <1>3, ProbeEffect

LEMMA PutBacking ==
    ASSUME Core, Mail, Backing, Put
    PROVE  Backing'
<1> DEFINE s == Head(queue)
<1>1. /\ queue # <<>> /\ Brings(s) /\ UNCHANGED <<page, orphans>> /\ queue' = Tail(queue)
      /\ s.entry \in Entries /\ held[s.entry] \in HeldRecord
  BY PutEffect, HeadOf DEF Brings
<1>2. /\ Moves(1) /\ DOMAIN queue' \in SUBSET (Nat \ {0})
      /\ \A i \in DOMAIN queue' : Was(i, 1)
  BY <1>1, QueueAnswered
<1>3. \A n \in Names : \/ granted'[n] = granted[n]
                       \/ n = NameFor(s.entry) /\ granted'[n].entry = s.entry
  BY <1>1, PutEffect DEF Core, TypeOK
<1>4. \A x \in Entries : /\ held'[x].holders = held[x].holders
                         /\ held[x].lent => held'[x].lent
                         /\ held'[x].ready = "pending" => held[x].ready = "pending"
  <2>1. \E h \in HeldRecord :
          /\ held' = [held EXCEPT ![s.entry] = h]
          /\ h.holders = held[s.entry].holders /\ h.lent = held[s.entry].lent
          /\ h.ready = "pending" => held[s.entry].ready = "pending"
    <3>1. ASSUME NEW h \in {Landing(held[s.entry], s.by), Refusal(held[s.entry], s.by)}
          PROVE  /\ h \in HeldRecord /\ h.holders = held[s.entry].holders /\ h.lent = held[s.entry].lent
                 /\ h.ready = "pending" => held[s.entry].ready = "pending"
      BY <1>1, LandingFields, RefusalFields
    <3> QED
      BY <3>1, PutEffect
  <2> QED
    BY <1>1, <2>1, OneEntry DEF Core
<1> QED
  BY <1>1, <1>2, <1>3, <1>4, BroughtBacking

\* A release ends: what its entry's name held is gone, or the engine refused to let it go.
LEMMA DropBacking ==
    ASSUME Core, Mail, Backing, Drop
    PROVE  Backing'
<1> PICK e \in Entries : e = Head(queue).entry
  BY DropEffect, HeadOf
<1> DEFINE l == NameFor(e)
<1>1. /\ queue # <<>> /\ Takes(Head(queue)) /\ queue' = Tail(queue) /\ held' = held /\ leaving' = leaving
      /\ Head(queue) = queue[1] /\ 1 \in DOMAIN queue
      /\ pc[Head(queue).by] = "dropping" /\ pc' = [pc EXCEPT ![Head(queue).by] = "dropped"]
      /\ \/ granted' = [granted EXCEPT ![l] = None] /\ orphans' = orphans \ {l}
         \/ granted' = granted /\ orphans' = orphans \cup {l}
  BY DropEffect, HeadOf DEF cache
<1>2. \A x \in Entries : Backed(x)' <=> Backed(x)
  <2>1. \A m \in Mounts : pc[m] = "awaiting" <=> pc'[m] = "awaiting"
    BY <1>1 DEF Core, TypeOK
  <2> QED
    BY <1>1, <2>1, BackedKept
<1>3. /\ Moves(1) /\ DOMAIN queue' \in SUBSET (Nat \ {0})
      /\ \A i \in DOMAIN queue' : Was(i, 1)
  BY <1>1, QueueAnswered
<1>4. \A n : n # l /\ Ending(n, 0) => Ending(n, 0)'
  <2> SUFFICES ASSUME NEW n, n # l, NEW j \in DOMAIN queue, Takes(queue[j]), NameFor(queue[j].entry) = n
               PROVE  Ending(n, 0)'
    BY DEF Ending
  <2>1. j # 1
    BY <1>1
  <2>2. j > 0 + 1
    BY <2>1, QueueType DEF Core
  <2>3. Ending(n, 0 + 1)
    BY <2>2 DEF Ending
  <2> QED
    BY <1>3, <2>3, EndingKept DEF Core
<1>5. \A n \in Names : granted'[n] = granted[n] \/ granted'[n] = None
  BY <1>1 DEF Core, TypeOK
<1>6. \A x \in Entries : Known(x)' => Known(x)
  BY <1>3, <1>5 DEF Known, Was
<1>7. \A x \in Entries : Lending(x)'
  BY <1>1, <1>2, <1>6 DEF Backing, Lending
<1>8. ASSUME NEW n \in Names PROVE Charged(n)'
  <2> SUFFICES ASSUME granted'[n] # None PROVE Charged(n)'
    BY DEF Charged
  <2>1. granted'[n] = granted[n] /\ granted[n].entry \in Entries /\ granted[n] # None
    BY <1>5 DEF Core, TypeOK
  <2>2. CASE n = l
    <3>1. n \in orphans'
      BY <1>1, <2>2 DEF Core, TypeOK
    <3> QED
      BY <3>1 DEF Charged
  <2>3. CASE n # l
    <3> PICK x \in Entries : x = granted[n].entry
      BY <2>1
    <3>1. n \in orphans \/ Backed(x) \/ Ending(n, 0)
      BY <2>1 DEF Backing, Charged
    <3>2. n \in orphans' \/ Backed(x)' \/ Ending(n, 0)'
      BY <1>1, <1>2, <1>4, <2>3, <3>1
    <3> QED
      BY <2>1, <3>2 DEF Charged, Backed
  <2> QED
    BY <2>2, <2>3
<1>9. \A i \in DOMAIN queue' : Brings(queue'[i]) => Was(i, 1) \/ Backed(queue[i].entry)'
  BY <1>3
<1> QED
  BY <1>1, <1>2, <1>3, <1>7, <1>8, <1>9, BackingMoves

LEMMA BackingKeeps == ASSUME Core, Mail, Backing, [Next]_vars PROVE Backing'
<1>1. CASE UNCHANGED vars
  <2>1. UNCHANGED <<queue, granted, orphans, held, leaving, pc>>
    BY <1>1 DEF vars, page, cache, engine
  <2>2. \A e \in Entries : Backed(e)' <=> Backed(e)
    BY <2>1, BackedKept
  <2> QED
    BY <2>1, <2>2, BackingQuiet
<1>2. CASE Next
  BY <1>2, Steps, PhaseBacking, TakingBacking, LettingBacking, UninstallBacking, FilesBacking,
     TickBacking, FireBacking, NotRenewedBacking, RenewedBacking, ProbeBacking, PutBacking,
     DropBacking DEF Core
<1> QED
  BY <1>1, <1>2

LEMMA MailStarts == ASSUME Init PROVE Mail /\ Backing
<1>1. /\ DOMAIN queue = {} /\ \A n \in Names : granted[n] = None
      /\ \A e \in Entries : held[e].ready = "none" /\ held[e].job = "none"
  BY DEF Init, NoHeld
<1>2. \A e \in Entries : ~ Known(e)
  BY <1>1 DEF Known
<1>3. Mail
  BY <1>1 DEF Mail, Loaded, Named
<1>4. Backing
  BY <1>1, <1>2 DEF Backing, Lending, Charged
<1> QED
  BY <1>3, <1>4


(***************************************************************************)
(* An open mount's secret.                                                 *)
(***************************************************************************)

\* The key a mount has gone past: its install is done.
Past(m, i) == pc[m] = "open" \/ (pc[m] = "waiting" /\ i < got[m])

\* The name of an entry out of the table may have been taken out of the engine.
Older(k) == \E e \in Entries : KeyOf(e) = k /\ e # table[k] /\ held[e].version > 0

Ready ==
    /\ \A m \in Mounts : \A i \in 1 .. got[m] :
         Past(m, i) => held[table[host.vends[m][i]]].ready = "ok"
    /\ \A k \in Keys \ Lent :
         table[k] # None /\ held[table[k]].ready = "ok" => granted[NameOf[k]] # None \/ Older(k)

\* What no step does: forget that an entry was, undo an install while its key is in the
\* table, make one count without a secret in the engine, or take a secret out but for an
\* entry that has left the table.
Smooth ==
    /\ \A e \in Entries : held[e].version > 0 => held'[e].version > 0
    /\ \A k \in Keys : table[k] # None /\ table'[k] # None =>
         table'[k] = table[k] /\ (held[table[k]].ready = "ok" => held'[table[k]].ready = "ok")
    /\ \A k \in Keys \ Lent : table'[k] # None /\ held'[table'[k]].ready = "ok" =>
         (table'[k] = table[k] /\ held[table[k]].ready = "ok") \/ granted'[NameOf[k]] # None
    /\ \A n \in Names : granted[n] # None /\ granted'[n] = None =>
         \E e \in Entries : NameFor(e) = n /\ table[KeyOf(e)] # e /\ held[e].version > 0

LEMMA SmoothQuiet ==
    ASSUME Core, UNCHANGED <<table, granted>>,
           \A e \in Entries : held[e].version > 0 => held'[e].version > 0,
           \A e \in Entries : held[e].holders > 0 => (held'[e].ready = "ok" <=> held[e].ready = "ok")
    PROVE  Smooth
  BY HeldByOne DEF Smooth

LEMMA SmoothEntry ==
    ASSUME Core, UNCHANGED <<table, granted>>, NEW e \in Entries, NEW h,
           held' = [held EXCEPT ![e] = h], h.version > 0,
           held[e].holders > 0 => (h.ready = "ok" <=> held[e].ready = "ok")
    PROVE  Smooth
<1>1. held'[e] = h /\ \A x \in Entries : x # e => held'[x] = held[x]
  BY OneEntry DEF Core
<1> QED
  BY <1>1, SmoothQuiet

LEMMA TakingSmooth ==
    ASSUME Core, NEW m \in Mounts, Taking(m)
    PROVE  Smooth
<1> PICK k : k = host.vends[m][got[m] + 1]
  OBVIOUS
<1>1. k \in Keys
  BY TakeHolders
<1>2. CASE Share(k)
  <2> PICK e \in Entries, h \in HeldRecord :
        /\ held' = [held EXCEPT ![e] = h] /\ UNCHANGED <<table, engine>> /\ Same(e)
        /\ held[e].version > 0
    BY <1>1, <1>2, ShareEffect
  <2>1. held'[e] = h
    BY OneEntry DEF Core
  <2> QED
    BY <2>1, SmoothEntry DEF Same, engine
<1>3. ASSUME NEW life \in host.lives[k], Create(m, k, life) PROVE Smooth
  <2> PICK e \in Entries, g \in HeldRecord :
        /\ KeyOf(e) = k /\ table[k] = None /\ table' = [table EXCEPT ![k] = e]
        /\ held[e].version = 0 /\ UNCHANGED <<granted>> /\ Makes(e, life, g)
    BY <1>3, CreateEffect
  <2>1. held'[e] = g /\ \A x \in Entries : x # e => held'[x] = held[x]
    BY OneEntry DEF Core, Makes
  <2>2. table'[k] = e /\ \A l \in Keys : l # k => table'[l] = table[l]
    BY <1>1 DEF Core, TypeOK
  <2>3. \A l \in Keys : l # k /\ table[l] # None => table[l] \in Entries /\ table[l] # e
    BY HeldByOne
  <2>4. k \notin Lent => g.ready = "pending"
    BY DEF Makes
  <2>5. g.version > 0
    BY DEF Makes
  <2>6. \A x \in Entries : held[x].version > 0 => held'[x].version > 0
    BY <2>1, <2>5
  <2>7. \A l \in Keys : table[l] # None /\ table'[l] # None =>
          table'[l] = table[l] /\ held'[table[l]] = held[table[l]]
    BY <2>1, <2>2, <2>3
  <2>8. \A l \in Keys \ Lent : table'[l] # None /\ held'[table'[l]].ready = "ok" =>
          table'[l] = table[l] /\ held[table[l]].ready = "ok"
    BY <2>1, <2>2, <2>3, <2>4
  <2> QED
    BY <2>6, <2>7, <2>8 DEF Smooth
<1> QED
  BY <1>2, <1>3, TakeCases

LEMMA LettingSmooth ==
    ASSUME Core, NEW m \in Mounts, Letting(m)
    PROVE  Smooth
<1>1. PICK z \in 0 .. got[m], G \in SUBSET Keys :
         Lets(m, G, z) /\ \A e \in Entries : LetEntry(m, G, e)
  BY LettingEffect
<1>2. granted' = granted /\ \A k \in Keys : table'[k] # None => table'[k] = table[k]
  BY <1>1 DEF Lets, engine, Core, TypeOK
<1>3. \A e \in Entries : held[e].version > 0 => held'[e].version > 0
  <2> TAKE e \in Entries
  <2>1. LetEntry(m, G, e)
    BY <1>1
  <2> QED
    BY <2>1, FreedFields DEF LetEntry
<1>4. \A k \in Keys : table[k] # None => held'[table[k]].ready = held[table[k]].ready
  <2> SUFFICES ASSUME NEW k \in Keys, table[k] # None PROVE held'[table[k]].ready = held[table[k]].ready
    OBVIOUS
  <2> PICK e \in Entries : e = table[k]
    BY HeldByOne
  <2>1. LetEntry(m, G, e) /\ KeyOf(e) = k
    BY <1>1, HeldByOne
  <2> QED
    BY <2>1 DEF LetEntry
<1> QED
  BY <1>2, <1>3, <1>4 DEF Smooth

LEMMA StopSmooth ==
    ASSUME Core, UNCHANGED <<table, granted>>, NEW e \in Entries,
           held[e].holders = 0, held[e].version > 0, held' = [held EXCEPT ![e] = Stopped(e)]
    PROVE  Smooth
<1> PICK h : h = Stopped(e)
  OBVIOUS
<1>1. h.version > 0
  BY HeldType, StoppedFields, FreedFields DEF Core
<1>2. ~ (held[e].holders > 0)
  OBVIOUS
<1> QED
  BY <1>1, <1>2, SmoothEntry

LEMMA EntrySmooth ==
    ASSUME Core, Mail, NEW e \in Entries,
           \/ Tick(e) \/ Fire(e) \/ NotRenewed(e)
           \/ \E life \in host.lives[KeyOf(e)] : Renewed(e, life)
    PROVE  Smooth
<1>0. held[e] \in HeldRecord
  BY HeldType DEF Core
<1>1. CASE Tick(e)
  <2> DEFINE l == IF held[e].life = "fresh" THEN "due" ELSE "expired"
             h == [held[e] EXCEPT !.life = l]
  <2>1. held' = [held EXCEPT ![e] = h] /\ UNCHANGED <<table, granted>> /\ held[e].version > 0
    BY <1>1, WorkedExists DEF Tick, Core, TypeOK, engine
  <2>2. h.ready = held[e].ready /\ h.version = held[e].version
    BY <1>0 DEF HeldRecord
  <2> HIDE DEF h
  <2> QED
    BY <2>1, <2>2, SmoothEntry
<1>2. CASE Fire(e)
  <2>1. UNCHANGED <<table, granted>> /\ held[e].version > 0
    BY <1>2, WorkedExists DEF Fire, engine
  <2>2. CASE held[e].holders = 0
    <3>1. held' = [held EXCEPT ![e] = Stopped(e)]
      BY <1>2, <2>2 DEF Fire, Core, TypeOK
    <3> QED
      BY <2>1, <2>2, <3>1, StopSmooth
  <2>3. CASE held[e].holders # 0
    <3> DEFINE h == [held[e] EXCEPT !.job = "ask"]
    <3>1. held' = [held EXCEPT ![e] = h]
      BY <1>2, <2>3 DEF Fire, Core, TypeOK
    <3>2. h.ready = held[e].ready /\ h.version = held[e].version
      BY <1>0 DEF HeldRecord
    <3> HIDE DEF h
    <3> QED
      BY <2>1, <3>1, <3>2, SmoothEntry
  <2> QED
    BY <2>2, <2>3
<1>3. CASE NotRenewed(e)
  <2>1. /\ held' = [held EXCEPT ![e] = RenewalFailed(held[e])] /\ UNCHANGED <<table, granted>>
        /\ held[e].version > 0
    BY <1>3, WorkedExists DEF NotRenewed, engine
  <2> PICK h : h = RenewalFailed(held[e])
    OBVIOUS
  <2>2. h.version > 0 /\ h.ready = held[e].ready
    BY <1>0, <2>1, RenewalFailedFields
  <2> QED
    BY <2>1, <2>2, SmoothEntry
<1>4. ASSUME NEW life \in host.lives[KeyOf(e)], Renewed(e, life) PROVE Smooth
  <2>1. UNCHANGED <<table, granted>> /\ held[e].version > 0 /\ held[e].version \in Nat
    BY <1>0, <1>4, HeldFields, RenewedEffect, WorkedExists
  <2>2. CASE RenewStops(e)
    BY <2>1, <2>2, StopSmooth DEF RenewStops
  <2>3. ASSUME NEW h \in HeldRecord, RenewSends(e, life, h) PROVE Smooth
    <3>1. held' = [held EXCEPT ![e] = h] /\ h.version > 0 /\ h.ready = held[e].ready
      BY <2>1, <2>3 DEF RenewSends
    <3> QED
      BY <2>1, <3>1, SmoothEntry
  <2> QED
    BY <1>4, <2>2, <2>3, RenewedEffect
<1> QED
  BY <1>1, <1>2, <1>3, <1>4

LEMMA ProbeSmooth ==
    ASSUME Core, Mail, Probe
    PROVE  Smooth
<1> PICK e \in Entries : e = Head(queue).entry
  BY ProbeEffect, HeadOf
<1>1. /\ held[e] \in HeldRecord /\ held[e].version > 0 /\ UNCHANGED <<table, granted>>
      /\ held[e].ready = "pending"
  BY ProbeEffect, HeadOf DEF Mail, InFlight, Brings
<1>2. CASE held' = held
  BY <1>1, <1>2, SmoothQuiet
<1>3. CASE held' = [held EXCEPT ![e] = Refusal(held[e], "install")]
  <2>1. Refusal(held[e], "install").ready = "failed" /\ Refusal(held[e], "install").version > 0
    BY <1>1, RefusalFields
  <2> QED
    BY <1>1, <1>3, <2>1, SmoothEntry
<1> QED
  BY <1>2, <1>3, ProbeEffect

LEMMA PutSmooth ==
    ASSUME Core, Mail, Put
    PROVE  Smooth
<1> PICK e \in Entries : e = Head(queue).entry
  BY PutEffect, HeadOf
<1> DEFINE by == Head(queue).by
<1>1. /\ held[e] \in HeldRecord /\ held[e].version > 0 /\ table' = table
      /\ by = "install" => held[e].ready = "pending"
  BY PutEffect, HeadOf DEF Mail, InFlight, Brings
<1>2. CASE /\ granted' = [granted EXCEPT ![NameFor(e)] = [entry |-> e, version |-> Head(queue).version]]
           /\ held' = [held EXCEPT ![e] = Landing(held[e], by)]
  <2>1. held'[e] = Landing(held[e], by) /\ \A x \in Entries : x # e => held'[x] = held[x]
    BY <1>2, OneEntry DEF Core
  <2>2. NameFor(e) \in Names /\ [entry |-> e, version |-> Head(queue).version] # None
    <3>1. Head(queue).version \in 0 .. MaxVersion
      BY PutEffect, HeadOf
    <3>2. KeyOf(e) \in Keys
      BY DEF Entries, KeyOf
    <3> QED
      BY <3>1, <3>2, MountAssumption DEF NameFor
  <2>3. /\ granted'[NameFor(e)] # None
        /\ \A n \in Names : n # NameFor(e) => granted'[n] = granted[n]
    BY <1>2, <2>2 DEF Core, TypeOK
  <2>4. /\ held[e].ready = "ok" => held'[e].ready = "ok"
        /\ held'[e].version > 0
    BY <1>1, <2>1, LandingFields
  <2>5. \A k \in Keys : table[k] # None => table[k] \in Entries /\ KeyOf(table[k]) = k
    BY HeldByOne
  <2>6. \A k \in Keys : table[k] # None =>
          (held[table[k]].ready = "ok" => held'[table[k]].ready = "ok")
    BY <2>1, <2>4, <2>5
  <2>7. \A k \in Keys \ Lent : table[k] # None /\ held'[table[k]].ready = "ok" =>
          held[table[k]].ready = "ok" \/ granted'[NameOf[k]] # None
    BY <2>1, <2>3, <2>5 DEF NameFor
  <2>8. \A n \in Names : granted[n] # None => granted'[n] # None
    BY <2>3
  <2>9. \A x \in Entries : held[x].version > 0 => held'[x].version > 0
    BY <2>1, <2>4
  <2> QED
    BY <1>1, <2>6, <2>7, <2>8, <2>9 DEF Smooth
<1>3. CASE granted' = granted /\ held' = [held EXCEPT ![e] = Refusal(held[e], by)]
  <2>1. Refusal(held[e], by).version > 0 /\ (Refusal(held[e], by).ready = "ok" <=> held[e].ready = "ok")
    BY <1>1, RefusalFields
  <2> QED
    BY <1>1, <1>3, <2>1, SmoothEntry
<1> QED
  BY <1>2, <1>3, PutEffect

LEMMA DropSmooth ==
    ASSUME Core, Drop
    PROVE  Smooth
<1> PICK e \in Entries : e = Head(queue).entry
  BY DropEffect, HeadOf
<1>1. /\ held' = held /\ table' = table /\ table[KeyOf(e)] # e /\ held[e].version > 0
      /\ granted' = [granted EXCEPT ![NameFor(e)] = None] \/ granted' = granted
  BY DropEffect, MountAssumption DEF cache, Core, Books, Parting
<1>2. \A n \in Names : granted[n] # None /\ granted'[n] = None => n = NameFor(e)
  BY <1>1 DEF Core, TypeOK
<1> QED
  BY <1>1, <1>2 DEF Smooth

LEMMA StepSmooth == ASSUME Core, Mail, Next PROVE Smooth
<1>1. ASSUME NEW m \in Mounts, Phase(m) PROVE Smooth
  BY <1>1, SmoothQuiet DEF Phase, cache, engine
<1>2. ASSUME NEW m \in Mounts, Uninstall(m) PROVE Smooth
  BY <1>2, UninstallSends, SmoothQuiet DEF cache
<1>3. ASSUME NEW m \in Mounts, NEW k \in Keys, Files(m, k) PROVE Smooth
  <2> PICK e \in Entries, h \in HeldRecord :
        /\ held[e].version > 0 /\ held' = [held EXCEPT ![e] = h] /\ Same(e)
        /\ UNCHANGED <<table, granted>>
    BY <1>3, FilesSends
  <2>1. held'[e] = h
    BY OneEntry DEF Core
  <2> QED
    BY <2>1, SmoothEntry DEF Same
<1> QED
  BY <1>1, <1>2, <1>3, Steps, TakingSmooth, LettingSmooth, EntrySmooth, ProbeSmooth, PutSmooth, DropSmooth DEF Core


\* A mount is past a key after a step only if its install was done before it.
Went(m, i) ==
    /\ host' = host /\ i \in 1 .. got[m] /\ pc[m] \in {"waiting", "open"}
    /\ held[table[host.vends[m][i]]].ready = "ok"

LEMMA WentSame ==
    ASSUME Core, Ready, NEW m \in Mounts, NEW i \in 1 .. got'[m], Past(m, i)',
           host' = host, got'[m] = got[m], pc'[m] = pc[m]
    PROVE  Went(m, i)
<1>1. i \in 1 .. got[m] /\ Past(m, i)
  BY DEF Past
<1> QED
  BY <1>1 DEF Went, Ready, Past

LEMMA StepWent ==
    ASSUME Core, Ready, Next, NEW m \in Mounts, NEW i \in 1 .. got'[m], Past(m, i)'
    PROVE  Went(m, i)
<1>0. /\ got[m] \in Nat /\ Progress(m)
      /\ pc \in [Mounts -> {"idle", "asking", "waiting", "open", "awaiting",
                            "dropping", "dropped", "closed", "failed"}]
  BY DEF Core, TypeOK, Books
<1>1. ASSUME NEW n \in Mounts, Phase(n) PROVE Went(m, i)
  <2>1. host' = host /\ got' = got
    BY <1>1 DEF Phase
  <2>2. CASE pc'[m] = pc[m]
    BY <2>1, <2>2, WentSame
  <2>3. CASE pc'[m] # pc[m]
    <3>1. n = m /\ pc[m] = "waiting" /\ InstallDone(m) /\ got[m] = Len(host.vends[m])
      BY <1>0, <1>1, <2>3 DEF Phase, Past
    <3>2. i \in 1 .. got[m]
      BY <2>1
    <3>3. CASE i = got[m]
      BY <2>1, <3>1, <3>2, <3>3 DEF Went, InstallDone, Waited
    <3>4. CASE i # got[m]
      BY <1>0, <2>1, <3>1, <3>2, <3>4 DEF Went, Ready, Past
    <3> QED
      BY <3>3, <3>4
  <2> QED
    BY <2>2, <2>3
<1>2. ASSUME NEW n \in Mounts, Taking(n) PROVE Went(m, i)
  <2>1. host' = host /\ got' = [got EXCEPT ![n] = @ + 1] /\ pc' = [pc EXCEPT ![n] = "waiting"]
    BY <1>2, TakeHolders
  <2>2. CASE n = m
    <3>1. pc'[m] = "waiting" /\ got'[m] = got[m] + 1
      BY <2>1, <2>2 DEF Core, TypeOK
    <3>2. i \in 1 .. got[m]
      BY <1>0, <3>1 DEF Past
    <3>3. pc[m] = "waiting" /\ InstallDone(m)
      BY <1>0, <1>2, <2>2, <3>2 DEF Taking, Progress
    <3>4. CASE i = got[m]
      BY <2>1, <3>2, <3>3, <3>4 DEF Went, InstallDone, Waited
    <3>5. CASE i # got[m]
      BY <1>0, <2>1, <3>2, <3>3, <3>5 DEF Went, Ready, Past
    <3> QED
      BY <3>4, <3>5
  <2>3. CASE n # m
    <3>1. got'[m] = got[m] /\ pc'[m] = pc[m]
      BY <2>1, <2>3 DEF Core, TypeOK
    <3> QED
      BY <2>1, <3>1, WentSame
  <2> QED
    BY <2>2, <2>3
<1>3. ASSUME NEW n \in Mounts, Letting(n) PROVE Went(m, i)
  <2>1. /\ host' = host /\ got' = got
        /\ \E s \in {"closed", "failed", "awaiting"} : pc' = [pc EXCEPT ![n] = s]
    BY <1>3, LettingFacts DEF Lets
  <2>2. pc'[m] = pc[m]
    BY <1>0, <2>1 DEF Past
  <2> QED
    BY <2>1, <2>2, WentSame
<1>4. ASSUME NEW n \in Mounts, Uninstall(n) PROVE Went(m, i)
  <2>1. /\ host' = host /\ got' = got
        /\ \E s \in {"dropping", "dropped"} : pc' = [pc EXCEPT ![n] = s]
    BY <1>4, UninstallSends
  <2>2. pc'[m] = pc[m]
    BY <1>0, <2>1 DEF Past
  <2> QED
    BY <2>1, <2>2, WentSame
<1>5. ASSUME Drop PROVE Went(m, i)
  <2>1. host' = host /\ got' = got /\ pc' = [pc EXCEPT ![Head(queue).by] = "dropped"]
    BY <1>5, DropEffect
  <2>2. pc'[m] = pc[m]
    BY <1>0, <2>1 DEF Past
  <2> QED
    BY <2>1, <2>2, WentSame
<1>6. CASE UNCHANGED page
  BY <1>6, WentSame DEF page
<1>7. \/ \E n \in Mounts : Phase(n) \/ Taking(n) \/ Letting(n) \/ Uninstall(n)
      \/ Drop \/ UNCHANGED page
  BY Steps DEF Core, Files, Tick, Fire, NotRenewed, Renewed, Probe, Put
<1> QED
  BY <1>1, <1>2, <1>3, <1>4, <1>5, <1>6, <1>7

LEMMA ReadyKept == ASSUME Core, Mail, Ready, [Next]_vars PROVE Ready'
<1>1. CASE UNCHANGED vars
  BY <1>1 DEF Ready, Past, Older, vars, page, cache, engine
<1>2. CASE Next
  <2>0. Smooth /\ Core'
    BY <1>2, StepSmooth, CoreKept
  <2>1. ASSUME NEW m \in Mounts, NEW i \in 1 .. got'[m], Past(m, i)'
        PROVE  held'[table'[host'.vends[m][i]]].ready = "ok"
    <3>1. Went(m, i)
      BY <1>2, <2>1, StepWent
    <3> DEFINE k == host.vends[m][i]
    <3>2. /\ got[m] \in Nat /\ got'[m] \in Nat /\ host' = host /\ i \in 1 .. got[m] /\ rel[m] = 0
          /\ got[m] <= Len(host.vends[m]) /\ k \in Keys
      <4>1. /\ got[m] \in Nat /\ got'[m] \in Nat /\ Progress(m) /\ Len(host.vends[m]) \in Nat
            /\ \A j \in 1 .. Len(host.vends[m]) : host.vends[m][j] \in Keys
        BY <2>0, VendsOf DEF Core, TypeOK, Books
      <4>2. /\ host' = host /\ i \in 1 .. got[m] /\ rel[m] = 0 /\ got[m] <= Len(host.vends[m])
        BY <3>1, <4>1 DEF Went, Progress
      <4> QED
        BY <4>1, <4>2
    <3>3. rel'[m] = 0
      BY <2>0, <2>1 DEF Core, Books, Progress, Past
    <3>4. m \in Holders(k) /\ m \in Holders(k)'
      BY <3>2, <3>3 DEF Holders, HeldKeys
    <3>5. table[k] # None
      BY <3>2, <3>4 DEF Core, Books, Counted
    <3>6. table'[k] # None
      BY <2>0, <3>2, <3>4 DEF Core, Books, Counted
    <3> HIDE DEF k
    <3>7. table'[k] = table[k] /\ held'[table[k]].ready = "ok"
      BY <2>0, <3>1, <3>2, <3>5, <3>6 DEF Smooth, Went, k
    <3> QED
      BY <3>2, <3>7 DEF k
  <2>2. ASSUME NEW k \in Keys \ Lent, table'[k] # None, held'[table'[k]].ready = "ok"
        PROVE  granted'[NameOf[k]] # None \/ Older(k)'
    <3> SUFFICES ASSUME table'[k] = table[k], held[table[k]].ready = "ok", granted'[NameOf[k]] = None
                 PROVE  Older(k)'
      BY <2>0, <2>2 DEF Smooth
    <3>1. CASE Older(k)
      BY <2>0, <3>1 DEF Older, Smooth
    <3>2. CASE granted[NameOf[k]] # None
      <4>1. NameOf[k] \in Names
        BY MountAssumption
      <4>2. PICK e \in Entries : NameFor(e) = NameOf[k] /\ table[KeyOf(e)] # e /\ held[e].version > 0
        BY <2>0, <3>2, <4>1 DEF Smooth
      <4>3. KeyOf(e) = k
        BY <4>2, MountAssumption DEF NameFor, Entries, KeyOf
      <4> QED
        BY <2>0, <4>2, <4>3 DEF Older, Smooth
    <3> QED
      BY <2>2, <3>1, <3>2 DEF Ready
  <2> QED
    BY <2>1, <2>2 DEF Ready
<1> QED
  BY <1>1, <1>2

LEMMA ReadyStarts == ASSUME Init PROVE Ready
  BY DEF Init, Ready, Past


(***************************************************************************)
(* Renewals.                                                               *)
(***************************************************************************)

Live(e) ==
    held[e].holders > 0 /\ held[e].ready = "ok" =>
        held[e].life = "forever" \/ held[e].job # "none" \/ held[e].failed

\* A renewal that has not reached the engine will be tried again, or is told, ...
Trouble(e) == held[e].job \in {"retry", "ask"} \/ held[e].failed

\* ... or a statement after the i-th brings it.
Kept(e, i) ==
    \/ Trouble(e)
    \/ \E j \in DOMAIN queue : /\ j > i /\ Brings(queue[j])
                               /\ queue[j].by = "renew" /\ queue[j].entry = e

Behind(n) ==
    granted[n] # None =>
        (held[granted[n].entry].holders > 0 /\ granted[n].version < held[granted[n].entry].version
            => Kept(granted[n].entry, 0))

Stale(i) ==
    Brings(queue[i]) /\ queue[i].by = "files" =>
        (held[queue[i].entry].holders > 0 /\ queue[i].version < held[queue[i].entry].version
            => Kept(queue[i].entry, i))

Renewals ==
    /\ \A e \in Entries : Live(e)
    /\ \A n \in Names : Behind(n)
    /\ \A i \in DOMAIN queue : Stale(i)

\* An entry a step leaves held was held, with its credential and its trouble.
Calm(e) ==
    held'[e].holders > 0 =>
        /\ held[e].holders > 0 /\ held'[e].version = held[e].version
        /\ Trouble(e) => Trouble(e)'

\* A lent file is brought up to date with the credential of now.
Current(s) == s.by = "files" => s.version = held[s.entry].version

\* A step of the page: what it sends comes last.
LEMMA RenewalsSent ==
    ASSUME Core, Core', Mail, Renewals, Moves(0), DOMAIN queue' \in SUBSET (Nat \ {0}), granted' = granted,
           \A i \in DOMAIN queue' : Was(i, 0) \/ Current(queue[i])',
           \A e \in Entries :
             Calm(e) \/ ~ Known(e) \/ \A i \in DOMAIN queue \cup {0} : Kept(e, i)',
           \A e \in Entries : Live(e)'
    PROVE  Renewals'
<1>1. ASSUME NEW e \in Entries, Known(e), NEW i \in DOMAIN queue \cup {0}, NEW v,
             held[e].holders > 0 /\ v < held[e].version => Kept(e, i),
             held'[e].holders > 0, v < held'[e].version
      PROVE  Kept(e, i)'
  <2>1. CASE Calm(e)
    <3>1. Kept(e, i)
      BY <1>1, <2>1 DEF Calm
    <3>2. CASE Trouble(e)
      BY <1>1, <2>1, <3>2 DEF Calm, Kept
    <3>3. ASSUME NEW j \in DOMAIN queue, j > i, Brings(queue[j]), queue[j].by = "renew", queue[j].entry = e
          PROVE  Kept(e, i)'
      <4>1. j > 0 /\ j - 0 = j
        BY QueueType DEF Core
      <4>2. j \in DOMAIN queue' /\ queue'[j] = queue[j]
        BY <4>1 DEF Moves
      <4> QED
        BY <3>3, <4>2 DEF Kept
    <3> QED
      BY <3>1, <3>2, <3>3 DEF Kept
  <2> QED
    BY <1>1, <2>1
<1>2. ASSUME NEW n \in Names, granted'[n] # None PROVE Behind(n)'
  <2>1. granted[n].entry \in Entries /\ granted[n] # None
    BY <1>2 DEF Core, TypeOK
  <2> PICK e \in Entries : e = granted[n].entry
    BY <2>1
  <2>2. Known(e)
    BY <1>2, <2>1 DEF Known
  <2>3. held[e].holders > 0 /\ granted[n].version < held[e].version => Kept(e, 0)
    BY <2>1 DEF Renewals, Behind
  <2>4. held'[e].holders > 0 /\ granted[n].version < held'[e].version => Kept(e, 0)'
    BY <1>1, <2>2, <2>3
  <2> QED
    BY <2>4 DEF Behind, Kept, Trouble
<1>3. ASSUME NEW i \in DOMAIN queue', Brings(queue'[i]), queue'[i].by = "files" PROVE Stale(i)'
  <2>0. queue'[i].entry \in Entries
    <3>1. queue' \in Seq(Statement)
      BY DEF Core, TypeOK
    <3>2. queue'[i] \in Statement
      BY <3>1
    <3> QED
      BY <3>2 DEF Statement
  <2> PICK e \in Entries : e = queue'[i].entry
    BY <2>0
  <2>1. CASE Was(i, 0)
    <3>1. i \in DOMAIN queue /\ queue'[i] = queue[i] /\ Known(e)
      BY <1>3, <2>1 DEF Was, Known
    <3>2. held[e].holders > 0 /\ queue[i].version < held[e].version => Kept(e, i)
      BY <1>3, <3>1 DEF Renewals, Stale
    <3>3. held'[e].holders > 0 /\ queue[i].version < held'[e].version => Kept(e, i)'
      BY <1>1, <3>1, <3>2
    <3> QED
      BY <3>1, <3>3 DEF Stale, Kept, Trouble
  <2>2. CASE Current(queue[i])'
    <3>1. queue'[i].version = held'[e].version
      BY <1>3, <2>2 DEF Current
    <3>2. ~ (queue'[i].version < held'[e].version)
      <4>1. held'[e].version \in Nat
        BY MountAssumption DEF Core, TypeOK
      <4> QED
        BY <3>1, <4>1
    <3> QED
      BY <3>2 DEF Stale
  <2> QED
    BY <2>1, <2>2
<1>4. \A n \in Names : Behind(n)'
  BY <1>2 DEF Behind
<1>5. \A i \in DOMAIN queue' : Stale(i)'
  BY <1>3 DEF Stale
<1> QED
  BY <1>4, <1>5 DEF Renewals

\* The engine answers the head of its queue: a statement of a renewal leaves the name with
\* the entry's own credential, or the entry with its trouble.
LEMMA RenewalsAnswered ==
    ASSUME Core, Core', Mail, Renewals, queue # <<>>,
           Moves(1), DOMAIN queue' \in SUBSET (Nat \ {0}),
           \A i \in DOMAIN queue' : Was(i, 1) \/ queue'[i].by # "files",
           \A e \in Entries : Calm(e) /\ Live(e)',
           \A n \in Names :
             \/ granted'[n] = None
             \/ /\ granted'[n] = granted[n]
                /\ Brings(queue[1]) /\ queue[1].by = "renew" =>
                     \A e \in Entries : e = queue[1].entry /\ NameFor(e) = n => Trouble(e)'
             \/ /\ granted'[n].entry = queue[1].entry /\ Brings(queue[1])
                /\ granted'[n].version = queue[1].version
    PROVE  Renewals'
<1>1. 1 \in DOMAIN queue /\ queue[1].entry \in Entries /\ \A j \in DOMAIN queue : j \in Nat \ {0}
  BY HeadOf, QueueType DEF Core
<1>2. ASSUME NEW e \in Entries, NEW i \in Nat, Kept(e, i + 1), held'[e].holders > 0
      PROVE  Kept(e, i)'
  <2>1. CASE Trouble(e)
    BY <1>2, <2>1 DEF Calm, Kept
  <2>2. ASSUME NEW j \in DOMAIN queue, j > i + 1, Brings(queue[j]), queue[j].by = "renew", queue[j].entry = e
        PROVE  Kept(e, i)'
    <3>1. j - 1 \in DOMAIN queue' /\ queue'[j - 1] = queue[j] /\ j - 1 > i
      BY <1>1, <1>2, <2>2 DEF Moves
    <3> QED
      BY <2>2, <3>1 DEF Kept
  <2> QED
    BY <1>2, <2>1, <2>2 DEF Kept
<1>3. ASSUME NEW n \in Names, granted'[n] # None PROVE Behind(n)'
  <2>1. CASE /\ granted'[n] = granted[n]
             /\ Brings(queue[1]) /\ queue[1].by = "renew" =>
                  \A e \in Entries : e = queue[1].entry /\ NameFor(e) = n => Trouble(e)'
    <3>0. granted[n].entry \in Entries /\ granted[n] # None /\ NameFor(granted[n].entry) = n
      BY <1>3, <2>1 DEF Core, TypeOK, Mail, Named
    <3> PICK e \in Entries : e = granted[n].entry
      BY <3>0
    <3>1. ASSUME held'[e].holders > 0, granted[n].version < held'[e].version PROVE Kept(e, 0)'
      <4>1. Kept(e, 0)
        BY <3>0, <3>1 DEF Calm, Renewals, Behind
      <4>2. CASE Trouble(e)
        BY <3>1, <4>2 DEF Calm, Kept
      <4>3. ASSUME NEW j \in DOMAIN queue, j > 0, Brings(queue[j]), queue[j].by = "renew", queue[j].entry = e
            PROVE  Kept(e, 0)'
        <5>1. CASE j = 1
          <6>1. Trouble(e)'
            BY <2>1, <3>0, <4>3, <5>1
          <6> QED
            BY <6>1 DEF Kept
        <5>2. CASE j # 1
          <6>1. j > 0 + 1
            BY <1>1, <5>2
          <6>2. Kept(e, 0 + 1)
            BY <4>3, <6>1 DEF Kept
          <6> QED
            BY <1>2, <3>1, <6>2
        <5> QED
          BY <5>1, <5>2
      <4> QED
        BY <4>1, <4>2, <4>3 DEF Kept
    <3> QED
      BY <2>1, <3>1 DEF Behind, Kept, Trouble
  <2>2. CASE /\ granted'[n].entry = queue[1].entry /\ Brings(queue[1])
             /\ granted'[n].version = queue[1].version
    <3> PICK e \in Entries : e = queue[1].entry
      BY <1>1
    <3>1. ASSUME held'[e].holders > 0, queue[1].version < held'[e].version PROVE Kept(e, 0)'
      <4>1. held[e].holders > 0 /\ held'[e].version = held[e].version /\ held[e].version \in Nat
        BY <3>1, HeldType, HeldFields DEF Calm, Core
      <4>2. queue[1].by = "files"
        <5>1. Formed(queue[1]) /\ InFlight(queue[1])
          BY <1>1 DEF Mail
        <5>2. queue[1].by = "install" => held[e].version = 1 /\ queue[1].version > 0
          BY <2>2, <5>1 DEF Formed, InFlight
        <5>3. queue[1].version \in Nat
          BY <1>1, QueueType, MountAssumption DEF Core
        <5>4. queue[1].by # "install"
          BY <3>1, <4>1, <5>2, <5>3
        <5>5. queue[1].by # "renew"
          BY <2>2, <3>1, <4>1, <5>1 DEF InFlight
        <5> QED
          BY <2>2, <5>1, <5>4, <5>5 DEF Formed, Brings
      <4>3. Kept(e, 1) /\ 0 + 1 = 1
        BY <1>1, <2>2, <3>1, <4>1, <4>2 DEF Renewals, Stale
      <4> QED
        BY <1>2, <3>1, <4>3
    <3> QED
      BY <2>2, <3>1 DEF Behind, Kept, Trouble
  <2> QED
    BY <1>3, <2>1, <2>2
<1>4. ASSUME NEW i \in DOMAIN queue', Brings(queue'[i]), queue'[i].by = "files" PROVE Stale(i)'
  <2>1. /\ i + 1 \in DOMAIN queue /\ queue'[i] = queue[i + 1] /\ i \in Nat
        /\ queue'[i].entry \in Entries
    BY <1>4, QueueType DEF Core, Was
  <2> PICK e \in Entries : e = queue'[i].entry
    BY <2>1
  <2>2. ASSUME held'[e].holders > 0, queue'[i].version < held'[e].version PROVE Kept(e, i)'
    <3>1. Kept(e, i + 1)
      BY <1>4, <2>1, <2>2 DEF Calm, Renewals, Stale
    <3> QED
      BY <1>2, <2>1, <2>2, <3>1
  <2> QED
    BY <2>2 DEF Stale, Kept, Trouble
<1>5. (\A n \in Names : Behind(n)') /\ (\A i \in DOMAIN queue' : Stale(i)')
  BY <1>3, <1>4 DEF Behind, Stale
<1> QED
  BY <1>5 DEF Renewals


\* What an entry must be left as.
Told(h) == h.holders > 0 /\ h.ready = "ok" => h.life = "forever" \/ h.job # "none" \/ h.failed

Calmly(e, h) ==
    h.holders > 0 => /\ held[e].holders > 0 /\ h.version = held[e].version
                     /\ Trouble(e) => h.job \in {"retry", "ask"} \/ h.failed

LEMMA OneCalm ==
    ASSUME Core, Renewals, NEW e \in Entries, NEW h, held' = [held EXCEPT ![e] = h], Told(h)
    PROVE  /\ Calmly(e, h) => Calm(e)
           /\ \A x \in Entries : x # e => Calm(x)
           /\ \A x \in Entries : Live(x)'
<1>1. held'[e] = h /\ \A x \in Entries : x # e => held'[x] = held[x]
  BY OneEntry DEF Core
<1>2. Calmly(e, h) => Calm(e)
  BY <1>1 DEF Calm, Calmly, Trouble
<1>3. \A x \in Entries : x # e => Calm(x)
  BY <1>1 DEF Calm, Trouble
<1>4. Live(e)'
  BY <1>1 DEF Live, Told
<1>5. \A x \in Entries : x # e => Live(x)'
  BY <1>1 DEF Live, Renewals
<1> QED
  BY <1>2, <1>3, <1>4, <1>5

LEMMA RenewalsQuiet ==
    ASSUME Core, Core', Mail, Renewals, UNCHANGED <<queue, granted>>,
           \A e \in Entries : Calm(e) /\ Live(e)'
    PROVE  Renewals'
<1>1. Moves(0) /\ DOMAIN queue' \in SUBSET (Nat \ {0}) /\ \A i \in DOMAIN queue' : Was(i, 0)
  BY QueueSame DEF Core
<1> QED
  BY <1>1, RenewalsSent

LEMMA RenewalsEntry ==
    ASSUME Core, Core', Mail, Renewals, UNCHANGED <<queue, granted>>, NEW e \in Entries, NEW h,
           held' = [held EXCEPT ![e] = h], Told(h), Calmly(e, h) \/ ~ Known(e)
    PROVE  Renewals'
<1>1. Moves(0) /\ DOMAIN queue' \in SUBSET (Nat \ {0}) /\ \A i \in DOMAIN queue' : Was(i, 0)
  BY QueueSame DEF Core
<1>2. /\ \A x \in Entries : Calm(x) \/ ~ Known(x)
      /\ \A x \in Entries : Live(x)'
  BY OneCalm
<1> QED
  BY <1>1, <1>2, RenewalsSent

LEMMA PhaseRenewals ==
    ASSUME Core, Core', Mail, Renewals, NEW m \in Mounts, Phase(m)
    PROVE  Renewals'
<1>1. UNCHANGED <<queue, granted, held>>
  BY DEF Phase, cache, engine
<1>2. \A e \in Entries : Calm(e) /\ Live(e)'
  BY <1>1 DEF Calm, Live, Trouble, Renewals
<1> QED
  BY <1>1, <1>2, RenewalsQuiet

LEMMA TakingRenewals ==
    ASSUME Core, Core', Mail, Renewals, NEW m \in Mounts, Taking(m)
    PROVE  Renewals'
<1> PICK k : k = host.vends[m][got[m] + 1]
  OBVIOUS
<1>1. k \in Keys
  BY TakeHolders
<1>2. CASE Share(k)
  <2> PICK e \in Entries, h \in HeldRecord :
        /\ held' = [held EXCEPT ![e] = h] /\ UNCHANGED <<table, engine>> /\ Same(e)
        /\ held[e].holders > 0 /\ h.life = held[e].life /\ h.failed = held[e].failed
    BY <1>1, <1>2, ShareEffect
  <2>1. held'[e] = h
    BY OneEntry DEF Core
  <2>2. Told(h) /\ Calmly(e, h)
    BY <2>1 DEF Told, Calmly, Trouble, Same, Renewals, Live
  <2> QED
    BY <2>2, RenewalsEntry DEF engine
<1>3. ASSUME NEW life \in host.lives[k], Create(m, k, life) PROVE Renewals'
  <2> PICK e \in Entries, g \in HeldRecord :
        /\ KeyOf(e) = k /\ held[e].version = 0 /\ UNCHANGED <<granted>> /\ Makes(e, life, g)
    BY <1>3, CreateEffect
  <2>1. Told(g) /\ held' = [held EXCEPT ![e] = g]
    BY DEF Told, Makes
  <2>2. ~ Known(e)
    BY UnknownNew
  <2>3. CASE queue' = queue
    BY <2>1, <2>2, <2>3, RenewalsEntry
  <2>4. CASE \E s \in Statement : queue' = Append(queue, s) /\ s.by = "install"
    <3> PICK s \in Statement : queue' = Append(queue, s) /\ s.by = "install"
      BY <2>4
    <3>1. /\ Moves(0) /\ DOMAIN queue' \in SUBSET (Nat \ {0})
          /\ \A i \in DOMAIN queue' : Was(i, 0) \/ queue'[i] = s
      BY QueueSent DEF Core
    <3>2. \A i \in DOMAIN queue' : Was(i, 0) \/ Current(queue[i])'
      BY <3>1 DEF Current
    <3>3. /\ \A x \in Entries : Calm(x) \/ ~ Known(x)
          /\ \A x \in Entries : Live(x)'
      BY <2>1, <2>2, OneCalm
    <3> QED
      BY <3>1, <3>2, <3>3, RenewalsSent
  <2> QED
    BY <2>3, <2>4 DEF Makes
<1> QED
  BY <1>2, <1>3, TakeCases

LEMMA LettingRenewals ==
    ASSUME Core, Core', Mail, Renewals, NEW m \in Mounts, Letting(m)
    PROVE  Renewals'
<1>1. PICK z \in 0 .. got[m], G \in SUBSET Keys :
         Lets(m, G, z) /\ \A e \in Entries : LetEntry(m, G, e)
  BY LettingEffect
<1>2. UNCHANGED <<queue, granted>>
  BY <1>1 DEF Lets, engine
<1>3. \A e \in Entries : Calm(e) /\ Live(e)'
  <2> TAKE e \in Entries
  <2>1. LetEntry(m, G, e) /\ Live(e) /\ held[e].holders \in Nat
    BY <1>1, HeldType, HeldFields DEF Renewals, Core
  <2>2. CASE /\ held[e].holders > 0 /\ held'[e].holders = held[e].holders - 1
             /\ \/ held'[e].job = held[e].job
                \/ /\ held[e].holders = 1 /\ held[e].job \in {"armed", "retry"}
                   /\ held'[e].job = "none"
             /\ held'[e].ready = held[e].ready /\ held'[e].life = held[e].life
             /\ held'[e].version = held[e].version /\ held'[e].failed = held[e].failed
    BY <2>1, <2>2 DEF Calm, Live, Trouble
  <2>3. CASE held'[e] = Freed
    BY <2>3, FreedFields DEF Calm, Live
  <2>4. CASE held'[e] = held[e]
    BY <2>1, <2>4 DEF Calm, Live, Trouble
  <2> QED
    BY <2>1, <2>2, <2>3, <2>4 DEF LetEntry
<1> QED
  BY <1>2, <1>3, RenewalsQuiet

LEMMA UninstallRenewals ==
    ASSUME Core, Core', Mail, Renewals, NEW m \in Mounts, Uninstall(m)
    PROVE  Renewals'
<1>1. UNCHANGED <<granted, held>> /\ leaving[m] \in Entries
  BY UninstallSends DEF cache
<1>2. \A e \in Entries : Calm(e) /\ Live(e)'
  BY <1>1 DEF Calm, Live, Trouble, Renewals
<1>3. CASE queue' = queue
  BY <1>1, <1>2, <1>3, RenewalsQuiet
<1>4. CASE \E s \in Statement : queue' = Append(queue, s) /\ s.version = held[s.entry].version
  <2> PICK s \in Statement : queue' = Append(queue, s) /\ s.version = held[s.entry].version
    BY <1>4
  <2>1. /\ Moves(0) /\ DOMAIN queue' \in SUBSET (Nat \ {0})
        /\ \A i \in DOMAIN queue' : Was(i, 0) \/ queue'[i] = s
    BY QueueSent DEF Core
  <2>2. \A i \in DOMAIN queue' : Was(i, 0) \/ Current(queue[i])'
    BY <1>1, <2>1 DEF Current
  <2> QED
    BY <1>1, <1>2, <2>1, <2>2, RenewalsSent
<1> QED
  BY <1>3, <1>4, UninstallSends

LEMMA FilesRenewals ==
    ASSUME Core, Core', Mail, Renewals, NEW m \in Mounts, NEW k \in Keys, Files(m, k)
    PROVE  Renewals'
<1> PICK e \in Entries, s \in Statement, h \in HeldRecord :
      /\ held[e].holders > 0
      /\ held' = [held EXCEPT ![e] = h] /\ queue' = Append(queue, s) /\ Same(e)
      /\ h.holders = held[e].holders /\ h.life = held[e].life /\ h.failed = held[e].failed
      /\ s.entry = e /\ s.version = held[e].version /\ UNCHANGED <<granted>>
  BY FilesSends
<1>1. held'[e] = h
  BY OneEntry DEF Core
<1>2. Told(h) /\ Calmly(e, h)
  BY <1>1 DEF Told, Calmly, Trouble, Same, Renewals, Live
<1>3. \A x \in Entries : Calm(x) /\ Live(x)'
  BY <1>2, OneCalm
<1>4. /\ Moves(0) /\ DOMAIN queue' \in SUBSET (Nat \ {0})
      /\ \A i \in DOMAIN queue' : Was(i, 0) \/ queue'[i] = s
  BY QueueSent DEF Core
<1>5. \A i \in DOMAIN queue' : Was(i, 0) \/ Current(queue[i])'
  BY <1>1, <1>4 DEF Current, Same
<1> QED
  BY <1>3, <1>4, <1>5, RenewalsSent

LEMMA TickRenewals ==
    ASSUME Core, Core', Mail, Renewals, NEW e \in Entries, Tick(e)
    PROVE  Renewals'
<1> DEFINE l == IF held[e].life = "fresh" THEN "due" ELSE "expired"
           h == [held[e] EXCEPT !.life = l]
<1>1. held[e] \in HeldRecord
  BY HeldType DEF Core
<1>2. held' = [held EXCEPT ![e] = h] /\ UNCHANGED <<queue, granted>> /\ held[e].life # "forever"
  BY DEF Tick, Core, TypeOK, engine
<1> HIDE DEF l
<1>3. /\ h.holders = held[e].holders /\ h.ready = held[e].ready /\ h.job = held[e].job
      /\ h.failed = held[e].failed /\ h.version = held[e].version
  BY <1>1 DEF HeldRecord
<1> HIDE DEF h
<1>4. Told(h) /\ Calmly(e, h)
  BY <1>2, <1>3 DEF Told, Calmly, Trouble, Renewals, Live
<1> QED
  BY <1>2, <1>4, RenewalsEntry

LEMMA StopRenewals ==
    ASSUME Core, Core', Mail, Renewals, UNCHANGED <<queue, granted>>,
           NEW e \in Entries, held[e].holders = 0, held' = [held EXCEPT ![e] = Stopped(e)]
    PROVE  Renewals'
<1> PICK h : h = Stopped(e)
  OBVIOUS
<1>1. h.holders = 0
  BY HeldType, StoppedFields, FreedFields DEF Core
<1>2. Told(h) /\ Calmly(e, h)
  BY <1>1 DEF Told, Calmly
<1> QED
  BY <1>2, RenewalsEntry

LEMMA FireRenewals ==
    ASSUME Core, Core', Mail, Renewals, NEW e \in Entries, Fire(e)
    PROVE  Renewals'
<1>1. held[e] \in HeldRecord /\ UNCHANGED <<queue, granted>>
  BY HeldType DEF Core, Fire, engine
<1>2. CASE held[e].holders = 0
  <2>1. held' = [held EXCEPT ![e] = Stopped(e)]
    BY <1>2 DEF Fire, Core, TypeOK
  <2> QED
    BY <1>1, <1>2, <2>1, StopRenewals
<1>3. CASE held[e].holders # 0
  <2> DEFINE h == [held[e] EXCEPT !.job = "ask"]
  <2>1. held' = [held EXCEPT ![e] = h]
    BY <1>3 DEF Fire, Core, TypeOK
  <2>2. h.holders = held[e].holders /\ h.version = held[e].version /\ h.job = "ask"
    BY <1>1 DEF HeldRecord
  <2> HIDE DEF h
  <2>3. Told(h) /\ Calmly(e, h)
    BY <2>2 DEF Told, Calmly
  <2> QED
    BY <1>1, <2>1, <2>3, RenewalsEntry
<1> QED
  BY <1>2, <1>3

LEMMA NotRenewedRenewals ==
    ASSUME Core, Core', Mail, Renewals, NEW e \in Entries, NotRenewed(e)
    PROVE  Renewals'
<1> PICK h : h = RenewalFailed(held[e])
  OBVIOUS
<1>1. /\ held[e] \in HeldRecord /\ UNCHANGED <<queue, granted>>
      /\ held' = [held EXCEPT ![e] = h]
  BY HeldType DEF Core, NotRenewed, engine
<1>2. Told(h) /\ Calmly(e, h)
  BY <1>1, RenewalFailedFields DEF Told, Calmly, Trouble
<1> QED
  BY <1>1, <1>2, RenewalsEntry


LEMMA RenewedRenewals ==
    ASSUME Core, Core', Mail, Backing, Renewals,
           NEW e \in Entries, NEW life \in host.lives[KeyOf(e)], Renewed(e, life)
    PROVE  Renewals'
<1>1. granted' = granted
  BY RenewedEffect
<1>2. CASE RenewStops(e)
  BY <1>1, <1>2, StopRenewals DEF RenewStops
<1>3. ASSUME NEW h \in HeldRecord, RenewSends(e, life, h) PROVE Renewals'
  <2>1. /\ held' = [held EXCEPT ![e] = h] /\ held[e].holders > 0 /\ h.lent = held[e].lent
        /\ Told(h)
    BY <1>3 DEF RenewSends, Told
  <2>2. CASE KeyOf(e) \in Lent /\ ~ h.lent /\ queue' = queue
    <3>1. ~ Known(e)
      BY <2>1, <2>2 DEF Backing, Lending, Backed
    <3> QED
      BY <1>1, <2>1, <2>2, <3>1, RenewalsEntry
  <2>3. CASE \E s \in Statement : /\ queue' = Append(queue, s) /\ s.entry = e /\ s.by = "renew"
                                  /\ Brings(s)
    <3> PICK s \in Statement : /\ queue' = Append(queue, s) /\ s.entry = e /\ s.by = "renew"
                               /\ Brings(s)
      BY <2>3
    <3>1. /\ Moves(0) /\ DOMAIN queue' \in SUBSET (Nat \ {0})
          /\ \A i \in DOMAIN queue' : Was(i, 0) \/ queue'[i] = s
          /\ Len(queue) + 1 \in DOMAIN queue' /\ queue'[Len(queue) + 1] = s
          /\ \A i \in DOMAIN queue : i < Len(queue) + 1
      BY QueueSent DEF Core
    <3>2. \A i \in DOMAIN queue' : Was(i, 0) \/ Current(queue[i])'
      BY <3>1 DEF Current
    <3>3. \A i \in DOMAIN queue \cup {0} : Kept(e, i)'
      <4>1. \A i \in DOMAIN queue \cup {0} : Len(queue) + 1 > i
        BY <3>1, QueueType DEF Core
      <4> QED
        BY <3>1, <4>1 DEF Kept
    <3>4. /\ \A x \in Entries : x # e => Calm(x)
          /\ \A x \in Entries : Live(x)'
      BY <2>1, OneCalm
    <3> QED
      BY <1>1, <3>1, <3>2, <3>3, <3>4, RenewalsSent
  <2> QED
    BY <1>3, <2>2, <2>3 DEF RenewSends, Brings
<1> QED
  BY <1>2, <1>3, RenewedEffect

LEMMA ProbeRenewals ==
    ASSUME Core, Core', Mail, Renewals, Probe
    PROVE  Renewals'
<1> PICK e \in Entries : e = Head(queue).entry
  BY ProbeEffect, HeadOf
<1>1. /\ queue # <<>> /\ held[e] \in HeldRecord /\ granted' = granted
      /\ queue[1].by = "install" /\ held[e].job = "install"
  BY ProbeEffect, HeadOf DEF Mail, InFlight, Brings
<1>2. CASE /\ held' = held
           /\ \E c \in Statement : queue' = Append(Tail(queue), c) /\ c.by = "install"
  <2> PICK c \in Statement : queue' = Append(Tail(queue), c) /\ c.by = "install"
    BY <1>2
  <2>1. /\ Moves(1) /\ DOMAIN queue' \in SUBSET (Nat \ {0})
        /\ \A i \in DOMAIN queue' : Was(i, 1) \/ queue'[i] = c
    BY <1>1, QueueTurned
  <2>2. \A x \in Entries : Calm(x) /\ Live(x)'
    BY <1>2 DEF Calm, Live, Trouble, Renewals
  <2>3. \A i \in DOMAIN queue' : Was(i, 1) \/ queue'[i].by # "files"
    BY <2>1
  <2> QED
    BY <1>1, <2>1, <2>2, <2>3, RenewalsAnswered
<1>3. CASE queue' = Tail(queue) /\ held' = [held EXCEPT ![e] = Refusal(held[e], "install")]
  <2> PICK h : h = Refusal(held[e], "install")
    OBVIOUS
  <2>1. /\ Moves(1) /\ DOMAIN queue' \in SUBSET (Nat \ {0})
        /\ \A i \in DOMAIN queue' : Was(i, 1)
    BY <1>1, <1>3, QueueAnswered
  <2>2. Told(h) /\ Calmly(e, h)
    BY <1>1, RefusalFields DEF Told, Calmly, Trouble
  <2>3. \A x \in Entries : Calm(x) /\ Live(x)'
    BY <1>3, <2>2, OneCalm
  <2> QED
    BY <1>1, <2>1, <2>3, RenewalsAnswered
<1> QED
  BY <1>2, <1>3, ProbeEffect

LEMMA PutRenewals ==
    ASSUME Core, Core', Mail, Renewals, Put
    PROVE  Renewals'
<1> PICK e \in Entries : e = Head(queue).entry
  BY PutEffect, HeadOf
<1> PICK by : by = Head(queue).by
  OBVIOUS
<1>1. /\ queue # <<>> /\ held[e] \in HeldRecord /\ queue' = Tail(queue)
      /\ queue[1].by = by /\ queue[1].entry = e /\ Brings(queue[1])
      /\ Head(queue).version = queue[1].version
  BY PutEffect, HeadOf DEF Brings
<1>2. /\ by \in {"install", "renew", "files"}
      /\ by = "install" => held[e].job = "install"
      /\ by = "renew" => held[e].job = "renew"
  <2>1. Formed(queue[1]) /\ InFlight(queue[1]) /\ Head(queue).op \in {"create", "lend"}
        /\ queue[1] = Head(queue)
    BY PutEffect, HeadOf DEF Mail
  <2> QED
    BY <1>1, <2>1 DEF Formed, InFlight
<1>3. /\ Moves(1) /\ DOMAIN queue' \in SUBSET (Nat \ {0})
      /\ \A i \in DOMAIN queue' : Was(i, 1)
  BY <1>1, QueueAnswered
<1>4. Live(e)
  BY DEF Renewals
<1>5. CASE /\ granted' = [granted EXCEPT ![NameFor(e)] = [entry |-> e, version |-> queue[1].version]]
           /\ held' = [held EXCEPT ![e] = Landing(held[e], by)]
  <2> PICK h : h = Landing(held[e], by)
    OBVIOUS
  <2>3. Told(h) /\ Calmly(e, h)
    <3>1. CASE by \in {"install", "renew"}
      <4>1. /\ h.failed = held[e].failed /\ h.holders = held[e].holders /\ h.version = held[e].version
            /\ h.life = held[e].life /\ h.job = IF h.life = "forever" THEN "none" ELSE "armed"
        BY <1>1, <3>1, LandingFields
      <4> QED
        BY <1>2, <3>1, <4>1 DEF Told, Calmly, Trouble
    <3>2. CASE by = "files"
      <4>1. h = held[e]
        BY <1>1, <3>2, LandingFields
      <4> QED
        BY <1>4, <4>1 DEF Told, Calmly, Trouble, Live
    <3> QED
      BY <1>2, <3>1, <3>2
  <2>4. \A x \in Entries : Calm(x) /\ Live(x)'
    BY <1>5, <2>3, OneCalm
  <2>5. \A n \in Names :
          \/ granted'[n] = granted[n] /\ n # NameFor(e)
          \/ granted'[n].entry = e /\ granted'[n].version = queue[1].version
    BY <1>5 DEF Core, TypeOK
  <2> QED
    BY <1>1, <1>3, <2>4, <2>5, RenewalsAnswered
<1>6. CASE granted' = granted /\ held' = [held EXCEPT ![e] = Refusal(held[e], by)]
  <2> PICK h : h = Refusal(held[e], by)
    OBVIOUS
  <2>1. /\ h.holders = held[e].holders /\ h.version = held[e].version /\ h.life = held[e].life
        /\ held[e].failed => h.failed
        /\ by = "install" => h.ready = "failed"
        /\ by = "renew" => h.job = "retry" \/ h.failed
        /\ by = "files" => h = held[e]
    BY <1>1, RefusalFields
  <2>2. Told(h)
    BY <1>2, <1>4, <2>1 DEF Told, Live
  <2>3. Calmly(e, h)
    BY <1>2, <2>1 DEF Calmly, Trouble
  <2>4. \A x \in Entries : Calm(x) /\ Live(x)'
    BY <1>6, <2>2, <2>3, OneCalm
  <2>5. by = "renew" => Trouble(e)'
    <3>1. held'[e] = h
      BY <1>6, OneEntry DEF Core
    <3> QED
      BY <2>1, <3>1 DEF Trouble
  <2> QED
    BY <1>1, <1>3, <1>6, <2>4, <2>5, RenewalsAnswered
<1> QED
  BY <1>1, <1>5, <1>6, PutEffect

LEMMA DropRenewals ==
    ASSUME Core, Core', Mail, Renewals, Drop
    PROVE  Renewals'
<1>1. /\ queue # <<>> /\ queue' = Tail(queue) /\ held' = held /\ ~ Brings(queue[1])
      /\ granted' = [granted EXCEPT ![NameFor(Head(queue).entry)] = None] \/ granted' = granted
  BY DropEffect, HeadOf DEF cache, Takes, Brings
<1>2. \A n \in Names : granted'[n] = granted[n] \/ granted'[n] = None
  BY <1>1 DEF Core, TypeOK
<1>3. /\ Moves(1) /\ DOMAIN queue' \in SUBSET (Nat \ {0})
      /\ \A i \in DOMAIN queue' : Was(i, 1)
  BY <1>1, QueueAnswered
<1>4. \A x \in Entries : Calm(x) /\ Live(x)'
  BY <1>1 DEF Calm, Live, Trouble, Renewals
<1> QED
  BY <1>1, <1>2, <1>3, <1>4, RenewalsAnswered

LEMMA RenewalsKept == ASSUME Core, Mail, Backing, Renewals, [Next]_vars PROVE Renewals'
<1>0. Core'
  BY CoreKept
<1>1. CASE UNCHANGED vars
  <2>1. UNCHANGED <<queue, granted, held>>
    BY <1>1 DEF vars, cache, engine
  <2>2. \A e \in Entries : Calm(e) /\ Live(e)'
    BY <2>1 DEF Calm, Live, Trouble, Renewals
  <2> QED
    BY <1>0, <2>1, <2>2, RenewalsQuiet
<1>2. CASE Next
  BY <1>0, <1>2, Steps, PhaseRenewals, TakingRenewals, LettingRenewals, UninstallRenewals,
     FilesRenewals, TickRenewals, FireRenewals, NotRenewedRenewals, RenewedRenewals,
     ProbeRenewals, PutRenewals, DropRenewals DEF Core
<1> QED
  BY <1>1, <1>2

LEMMA RenewalsStarts == ASSUME Init PROVE Renewals
  BY DEF Init, NoHeld, Renewals, Live, Behind

(***************************************************************************)
(* The theorems.                                                           *)
(***************************************************************************)

Inv == Core /\ Mail /\ Backing /\ Ready /\ Renewals

LEMMA InvHolds == Spec => []Inv
<1>1. Init => Inv
  BY CoreStarts, MailStarts, ReadyStarts, RenewalsStarts DEF Inv
<1>2. Inv /\ [Next]_vars => Inv'
  BY CoreKept, MailKeeps, BackingKeeps, ReadyKept, RenewalsKept DEF Inv
<1> QED
  BY <1>1, <1>2, PTL DEF Spec

\* Every variable keeps its type; the entries' counts never leave the naturals.
THEOREM MountTypes == Spec => []TypeOK
<1>1. Inv => TypeOK
  BY DEF Inv, Core
<1> QED
  BY <1>1, InvHolds, PTL

\* The page's table and counts are exactly what the mounts hold, and what the engine holds
\* is somebody's, whatever the order of installs, failures, aborts, renewals and releases.
THEOREM MountHeldIsHeld == Spec => []HeldIsHeld
<1>1. ASSUME Inv PROVE HoldersExact
  BY <1>1 DEF Inv, Core, Books, Counted, Placed, HoldersExact
<1>2. ASSUME Inv PROVE Accounted
  <2> SUFFICES ASSUME NEW n \in Names, granted[n] # None, n \notin orphans
               PROVE  \/ held[granted[n].entry].holders > 0
                      \/ \E m \in Mounts : /\ pc[m] \in {"awaiting", "dropping"}
                                           /\ NameOf[KeyOf(leaving[m])] = n
    BY DEF Accounted
  <2>1. NameFor(granted[n].entry) = n
    BY <1>2 DEF Inv, Mail, Named
  <2>2. CASE Backed(granted[n].entry)
    BY <2>1, <2>2 DEF Backed, NameFor
  <2>3. CASE Ending(n, 0)
    <3>1. PICK j \in DOMAIN queue : Takes(queue[j]) /\ NameFor(queue[j].entry) = n
      BY <2>3 DEF Ending
    <3>2. /\ queue[j].by \in Mounts /\ pc[queue[j].by] = "dropping"
          /\ leaving[queue[j].by] = queue[j].entry
      BY <1>2, <3>1 DEF Inv, Core, Books, Dropping
    <3> QED
      BY <3>1, <3>2 DEF NameFor
  <2> QED
    BY <1>2, <2>2, <2>3 DEF Inv, Backing, Charged
<1>3. Inv => HeldIsHeld
  BY <1>1, <1>2 DEF HeldIsHeld
<1> QED
  BY <1>3, InvHolds, PTL

\* An open mount finds its secret in the engine, but for one an earlier entry of the same
\* prefix may have taken with it.
THEOREM MountSecretUntilRelease == Spec => []SecretUntilRelease
<1>1. ASSUME Inv PROVE SecretUntilRelease
  <2> SUFFICES ASSUME NEW m \in Mounts, pc[m] = "open", NEW k \in HeldKeys(m) \ Lent
               PROVE  \/ granted[NameOf[k]] # None
                      \/ table[k] # None /\ \E e \in Entries : KeyOf(e) = k /\ e # table[k] /\ held[e].version > 0
    BY DEF SecretUntilRelease
  <2>1. /\ got[m] \in Nat /\ rel[m] \in Nat /\ got[m] <= Len(host.vends[m]) /\ Len(host.vends[m]) \in Nat
        /\ \A i \in 1 .. Len(host.vends[m]) : host.vends[m][i] \in Keys
    BY <1>1, VendsOf DEF Inv, Core, TypeOK, Books, Progress
  <2>2. PICK i \in (rel[m] + 1) .. got[m] : k = host.vends[m][i]
    BY DEF HeldKeys
  <2>3. i \in 1 .. got[m] /\ k \in Keys
    BY <2>1, <2>2
  <2>4. held[table[k]].ready = "ok"
    BY <1>1, <2>2, <2>3 DEF Inv, Ready, Past
  <2>5. table[k] # None
    <3>1. m \in Holders(k)
      BY DEF Holders
    <3> QED
      BY <1>1, <2>3, <3>1 DEF Inv, Core, Books, Counted
  <2> QED
    BY <1>1, <2>3, <2>4, <2>5 DEF Inv, Ready, Older
<1>2. Inv => SecretUntilRelease
  BY <1>1
<1> QED
  BY <1>2, InvHolds, PTL

\* A credential that runs out is replaced in the entry and in the engine, or its failure
\* is kept where the next read finds it.
THEOREM MountRenewalReaches == Spec => []RenewalReaches
<1>1. ASSUME Inv PROVE RenewalLive
  BY <1>1 DEF Inv, Renewals, Live, RenewalLive
<1>2. ASSUME Inv PROVE EngineKeepsUp
  <2>1. \A e : Kept(e, 0) => Sent(e) \/ held[e].job \in {"retry", "ask"} \/ held[e].failed
    BY DEF Kept, Trouble, Sent
  <2> QED
    BY <1>2, <2>1 DEF Inv, Renewals, Behind, EngineKeepsUp
<1>3. Inv => RenewalReaches
  BY <1>1, <1>2 DEF RenewalReaches
<1> QED
  BY <1>3, InvHolds, PTL

==============================================================================
