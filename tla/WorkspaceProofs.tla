--------------------------- MODULE WorkspaceProofs ---------------------------
(***************************************************************************)
(* Theorems about Workspace, for any references, any texts and any number  *)
(* of runs.                                                                *)
(*                                                                         *)
(* That what a program lacks is told does not follow from the property     *)
(* alone: a buffer may be edited away from the text its host asked about   *)
(* and back to it, so the invariant speaks of the text asked about,        *)
(* whatever the buffer holds meanwhile.  It stands because a key is made   *)
(* of no connection, and because no step takes out of the registry what it *)
(* holds.                                                                  *)
(***************************************************************************)
EXTENDS Workspace, SequenceTheorems, WellFoundedInduction, TLAPS

\* What the registry lacks of the text a host asked about is being read, or could not be.
KeyOf(h, d) == RegistryKey(buffers[h].path, NoConnections, d)

AskedIsTold ==
    \A h \in DOMAIN buffers : asked[h] # None =>
        \A d \in DocumentsNamed(asked[h]) :
            registry[KeyOf(h, d)] = None =>
                KeyOf(h, d) \in unreadable \/ \E row \in told : row.key = KeyOf(h, d)

\* Only an executor runs, and what it reads is what it read when it began.
RunsOfExecutors == \A r \in Runs : flight[r] # "idle" => host = "executor"

IInv == WorkspaceTypeOK /\ AskedIsTold /\ RunsOfExecutors /\ RunReadsOneProgram

(***************************************************************************)
(* References, keys and what is missing.                                   *)
(***************************************************************************)

LEMMA ElementsOf ==
    ASSUME NEW S, NEW q \in Seq(S)
    PROVE  Len(q) \in Nat /\ DOMAIN q = 1 .. Len(q) /\ \A i \in DOMAIN q : q[i] \in S
  OBVIOUS

LEMMA DocumentsAreReferences ==
    ASSUME NEW t \in FileTexts PROVE DocumentsNamed(t) \subseteq References /\ SourcesOf(t) \subseteq References
<1>1. t \in Files
  BY WorkspaceAssumption
<1>2. /\ t.types \in Seq(References)
      /\ t.sources \in Seq([uri : References \cup {None}, schema : References \cup {None}])
  BY <1>1 DEF Files
<1>3. /\ \A i \in DOMAIN t.types : t.types[i] \in References
      /\ \A i \in DOMAIN t.sources : t.sources[i] \in [uri : References \cup {None}, schema : References \cup {None}]
  BY <1>2, ElementsOf
<1> QED
  BY <1>3 DEF DocumentsNamed, SourcesOf

LEMMA KeysOfTexts ==
    ASSUME NEW p \in Paths, NEW t \in FileTexts, NEW r \in DocumentsNamed(t),
           NEW known
    PROVE  RegistryKey(p, known, r) \in Keys
<1>1. r \in References
  BY DocumentsAreReferences
<1>2. NoConnections \in [Aliases -> Bases \cup {None}]
  BY DEF NoConnections
<1>3. RegistryKey(p, NoConnections, r) \in Keys
  BY <1>1, <1>2 DEF Keys
<1> QED
  BY <1>3 DEF RegistryKey

\* A key is made of no connection (documents.rs:96-97).
LEMMA KeyOfNoConnection ==
    ASSUME NEW p, NEW r, NEW k1, NEW k2 PROVE RegistryKey(p, k1, r) = RegistryKey(p, k2, r)
  BY DEF RegistryKey

\* What is missing of a text is what it names under a key the registry does not hold.
LEMMA WhatIsMissing ==
    ASSUME NEW f, NEW k
    PROVE  k \in MissingKeys(f) <=>
             \E d \in DocumentsNamed(f.text) : k = RegistryKey(f.path, connections, d) /\ ~Held(k)
<1>1. k \in MissingKeys(f) <=> \E row \in MissingDocuments(f) : k = row.key
  BY DEF MissingKeys
<1>2. ASSUME NEW row \in MissingDocuments(f), k = row.key
      PROVE  \E d \in DocumentsNamed(f.text) : k = RegistryKey(f.path, connections, d) /\ ~Held(k)
  BY <1>2 DEF MissingDocuments
<1>3. ASSUME NEW d \in DocumentsNamed(f.text), k = RegistryKey(f.path, connections, d), ~Held(k)
      PROVE  \E row \in MissingDocuments(f) : k = row.key
  <2> DEFINE row == [key |-> RegistryKey(f.path, connections, d),
                     location |-> Location(DirectoryOf(f.path), connections, d),
                     connection |-> ConnectionOf(connections, d)]
  <2>1. row \in MissingDocuments(f)
    BY <1>3 DEF MissingDocuments
  <2>2. row.key = k
    BY <1>3
  <2> QED
    BY <2>1, <2>2
<1> QED
  BY <1>1, <1>2, <1>3

LEMMA LeastOf ==
    ASSUME NEW S \in SUBSET Nat, S # {}
    PROVE  \E x \in S : \A y \in S : x <= y
<1>1. PICK x \in S : \A y \in S : <<y, x>> \notin OpToRel(<, Nat)
  BY WFMin, NatLessThanWellFounded, Zenon
<1>2. \A y \in S : ~ (y < x)
  BY <1>1, Zenon DEF OpToRel
<1> QED
  BY <1>2

(***************************************************************************)
(* The initial states.                                                     *)
(***************************************************************************)

LEMMA InitIInv == WorkspaceInit => IInv
<1> SUFFICES ASSUME WorkspaceInit PROVE IInv
  OBVIOUS
<1> USE DEF WorkspaceInit
<1>1. WorkspaceTypeOK
  <2>1. /\ connections \in [Aliases -> Bases \cup {None}]
        /\ descriptions \in [SourcesNamed -> Descriptions \cup {NotDescribed}]
        /\ registry \in [Keys -> {None} \cup ({"buffer"} \X DOMAIN buffers) \cup ({"text"} \X FileTexts)]
    BY DEF NoConnections
  <2>2. /\ buffers \in Seq([path : Paths, text : FileTexts]) /\ asked \in Seq(FileTexts \cup {None})
        /\ Len(asked) = Len(buffers)
    <3>1. CASE host = "editor"
      BY <3>1
    <3>2. CASE host # "editor"
      <4>1. PICK p \in Paths \ Claimed, t \in FileTexts : buffers = <<[path |-> p, text |-> t]>>
        BY <3>2
      <4>2. [path |-> p, text |-> t] \in [path : Paths, text : FileTexts]
        OBVIOUS
      <4>3. asked = <<None>> /\ None \in FileTexts \cup {None}
        BY <3>2
      <4>4. buffers \in Seq([path : Paths, text : FileTexts]) /\ Len(buffers) = 1
        BY <4>1, <4>2
      <4>5. asked \in Seq(FileTexts \cup {None}) /\ Len(asked) = 1
        BY <4>3
      <4> QED
        BY <4>4, <4>5
    <3> QED
      BY <3>1, <3>2
  <2> QED
    BY <2>1, <2>2 DEF WorkspaceTypeOK
<1>2. AskedIsTold
  <2>1. \A h \in DOMAIN buffers : asked[h] = None
    OBVIOUS
  <2> QED
    BY <2>1 DEF AskedIsTold
<1> QED
  BY <1>1, <1>2 DEF IInv, RunsOfExecutors, RunReadsOneProgram

LEMMA BuffersAre ==
    ASSUME WorkspaceTypeOK
    PROVE  /\ Len(buffers) \in Nat /\ DOMAIN buffers = 1 .. Len(buffers) /\ DOMAIN asked = DOMAIN buffers
           /\ \A h \in DOMAIN buffers :
                /\ buffers[h] \in [path : Paths, text : FileTexts]
                /\ buffers[h].path \in Paths /\ buffers[h].text \in FileTexts
                /\ asked[h] \in FileTexts \cup {None}
<1>1. /\ buffers \in Seq([path : Paths, text : FileTexts]) /\ asked \in Seq(FileTexts \cup {None})
      /\ Len(asked) = Len(buffers)
  BY DEF WorkspaceTypeOK
<1>2. /\ Len(buffers) \in Nat /\ DOMAIN buffers = 1 .. Len(buffers)
      /\ \A h \in DOMAIN buffers : buffers[h] \in [path : Paths, text : FileTexts]
  BY <1>1, ElementsOf
<1>3. DOMAIN asked = 1 .. Len(asked) /\ \A h \in DOMAIN asked : asked[h] \in FileTexts \cup {None}
  BY <1>1, ElementsOf
<1> QED
  BY <1>1, <1>2, <1>3

(***************************************************************************)
(* What the registry holds, it goes on holding; and what a host asked is   *)
(* still asked.                                                            *)
(***************************************************************************)

\* Everything but what is asked stays told when the registry only grows, and what leaves
\* the reads under way is held or given up.
LEMMA AskedStaysTold ==
    ASSUME IInv, WorkspaceTypeOK', NeverMissingAgain,
           \A h \in DOMAIN buffers' : asked'[h] # None =>
               /\ h \in DOMAIN buffers /\ asked'[h] = asked[h] /\ buffers'[h].path = buffers[h].path,
           \A row \in told : row \in told' \/ row.key \in unreadable' \/ registry'[row.key] # None,
           unreadable \subseteq unreadable'
    PROVE  AskedIsTold'
<1> SUFFICES ASSUME NEW h \in DOMAIN buffers', asked'[h] # None,
                    NEW d \in DocumentsNamed(asked'[h]),
                    registry'[KeyOf(h, d)'] = None
             PROVE  KeyOf(h, d)' \in unreadable' \/ \E row \in told' : row.key = KeyOf(h, d)'
  BY DEF AskedIsTold
<1>1. h \in DOMAIN buffers /\ asked'[h] = asked[h] /\ asked[h] # None
      /\ KeyOf(h, d)' = KeyOf(h, d)
  BY DEF KeyOf
<1>2. buffers[h].path \in Paths /\ asked[h] \in FileTexts
  BY <1>1, BuffersAre DEF IInv
<1>3. KeyOf(h, d) \in Keys
  BY <1>1, <1>2, KeysOfTexts DEF KeyOf
<1>4. registry[KeyOf(h, d)] = None
  BY <1>1, <1>3 DEF NeverMissingAgain, Held
<1>5. KeyOf(h, d) \in unreadable \/ \E row \in told : row.key = KeyOf(h, d)
  BY <1>1, <1>4 DEF IInv, AskedIsTold
<1> QED
  BY <1>1, <1>5

\* While a run is in flight nothing it reads is written.
LEMMA RunsStay ==
    ASSUME IInv, UNCHANGED <<buffers, registry, connections, descriptions>>, UNCHANGED runs
    PROVE  RunReadsOneProgram'
  BY DEF IInv, RunReadsOneProgram, runs, ReadBy, Inputs, TextAt, Held, TypingColumns

LEMMA NoneRunning ==
    ASSUME IInv, UNCHANGED runs, ~Busy \/ host = "editor"
    PROVE  RunReadsOneProgram'
<1>1. \A r \in Runs : flight[r] # "running"
  BY DEF Busy, IInv, RunsOfExecutors
<1> QED
  BY <1>1 DEF RunReadsOneProgram, runs

(***************************************************************************)
(* One step per action: its types, what stays held, and the invariant.     *)
(***************************************************************************)

Sound == IInv' /\ NeverMissingAgain

LEMMA OpenFileStep == ASSUME IInv, NEW p \in Paths, NEW t \in FileTexts, OpenFile(p, t) PROVE Sound
<1> USE DEF OpenFile
<1> DEFINE n == Len(buffers) + 1
<1>0. /\ WorkspaceTypeOK /\ Len(buffers) \in Nat /\ DOMAIN buffers = 1 .. Len(buffers) /\ DOMAIN asked = DOMAIN buffers
      /\ p \in Keys /\ [path |-> p, text |-> t] \in [path : Paths, text : FileTexts]
      /\ Len(asked) = Len(buffers)
  <2>1. WorkspaceTypeOK /\ Len(asked) = Len(buffers)
    BY DEF IInv, WorkspaceTypeOK
  <2>2. p \in Keys
    BY DEF Keys
  <2>3. [path |-> p, text |-> t] \in [path : Paths, text : FileTexts]
    OBVIOUS
  <2> QED
    BY <2>1, <2>2, <2>3, BuffersAre
<1>1. /\ DOMAIN buffers' = 1 .. n /\ Len(buffers') = n /\ DOMAIN asked' = 1 .. n /\ Len(asked') = n
      /\ buffers' \in Seq([path : Paths, text : FileTexts]) /\ asked' \in Seq(FileTexts \cup {None})
      /\ \A h \in DOMAIN buffers : buffers'[h] = buffers[h] /\ asked'[h] = asked[h]
      /\ asked'[n] = None
  BY <1>0 DEF WorkspaceTypeOK
<1>2. registry' \in [Keys -> {None} \cup ({"buffer"} \X DOMAIN buffers') \cup ({"text"} \X FileTexts)]
  <2>1. /\ registry \in [Keys -> {None} \cup ({"buffer"} \X DOMAIN buffers') \cup ({"text"} \X FileTexts)]
    BY <1>0, <1>1 DEF WorkspaceTypeOK
  <2>2. <<"buffer", n>> \in {"buffer"} \X DOMAIN buffers'
    BY <1>0, <1>1
  <2> QED
    BY <2>1, <2>2
<1>3. WorkspaceTypeOK'
  BY <1>0, <1>1, <1>2 DEF WorkspaceTypeOK, runs
<1>4. NeverMissingAgain
  <2>1. <<"buffer", n>> # None
    BY <1>0, WorkspaceAssumption
  <2> QED
    BY <2>1, <1>0 DEF NeverMissingAgain, Held, WorkspaceTypeOK
<1>5. AskedIsTold'
  <2>1. \A h \in DOMAIN buffers' : asked'[h] # None =>
           h \in DOMAIN buffers /\ asked'[h] = asked[h] /\ buffers'[h].path = buffers[h].path
    BY <1>0, <1>1
  <2> QED
    BY <2>1, <1>3, <1>4, AskedStaysTold
<1> QED
  BY <1>3, <1>4, <1>5, NoneRunning DEF Sound, IInv, RunsOfExecutors, runs

LEMMA UpdateFileStep == ASSUME IInv, NEW h \in DOMAIN buffers, NEW t \in FileTexts, UpdateFile(h, t) PROVE Sound
<1> USE DEF UpdateFile
<1>0. WorkspaceTypeOK /\ Len(buffers) \in Nat /\ DOMAIN buffers = 1 .. Len(buffers)
  BY BuffersAre DEF IInv
<1>1. /\ buffers' \in Seq([path : Paths, text : FileTexts]) /\ Len(buffers') = Len(buffers)
      /\ DOMAIN buffers' = DOMAIN buffers
      /\ \A i \in DOMAIN buffers : buffers'[i].path = buffers[i].path
  <2>1. [buffers[h] EXCEPT !.text = t] \in [path : Paths, text : FileTexts]
    BY <1>0, BuffersAre
  <2>2. /\ buffers' = [buffers EXCEPT ![h] = [buffers[h] EXCEPT !.text = t]]
        /\ \A i \in DOMAIN buffers : buffers[i] \in [path : Paths, text : FileTexts]
    BY <1>0, BuffersAre
  <2>3. \A i \in DOMAIN buffers : buffers'[i] \in [path : Paths, text : FileTexts] /\ buffers'[i].path = buffers[i].path
    BY <2>1, <2>2
  <2>4. buffers \in Seq([path : Paths, text : FileTexts]) /\ h \in 1 .. Len(buffers)
    BY <1>0 DEF WorkspaceTypeOK
  <2>5. buffers' \in Seq([path : Paths, text : FileTexts]) /\ Len(buffers') = Len(buffers)
    BY <2>1, <2>2, <2>4, ExceptSeq
  <2>6. DOMAIN buffers' = DOMAIN buffers
    BY <2>2
  <2> QED
    BY <2>3, <2>5, <2>6
<1>2. WorkspaceTypeOK'
  BY <1>0, <1>1 DEF WorkspaceTypeOK, outside, runs
<1>3. NeverMissingAgain
  BY DEF NeverMissingAgain, Held
<1>4. AskedIsTold'
  BY <1>1, <1>2, <1>3, AskedStaysTold DEF outside
<1> QED
  BY <1>2, <1>3, <1>4, NoneRunning DEF Sound, IInv, RunsOfExecutors, runs

LEMMA CloseFileStep == ASSUME IInv, NEW h \in DOMAIN buffers, CloseFile(h) PROVE Sound
<1> USE DEF CloseFile
<1>1. WorkspaceTypeOK'
  BY DEF IInv, WorkspaceTypeOK, outside, runs
<1>2. NeverMissingAgain
  BY DEF NeverMissingAgain, Held
<1>3. AskedIsTold'
  BY <1>1, <1>2, AskedStaysTold DEF outside
<1> QED
  BY <1>1, <1>2, <1>3, RunsStay DEF Sound, IInv, RunsOfExecutors, runs

LEMMA SetConnectionsStep ==
    ASSUME IInv, NEW known \in [Aliases -> Bases \cup {None}], SetConnections(known) PROVE Sound
<1> USE DEF SetConnections
<1>1. WorkspaceTypeOK'
  BY DEF IInv, WorkspaceTypeOK, outside, runs
<1>2. NeverMissingAgain
  BY DEF NeverMissingAgain, Held
<1>3. AskedIsTold'
  BY <1>1, <1>2, AskedStaysTold DEF outside
<1> QED
  BY <1>1, <1>2, <1>3, NoneRunning DEF Sound, IInv, RunsOfExecutors, runs

LEMMA DescribeStep ==
    ASSUME IInv, NEW r \in SourcesNamed, NEW d \in Descriptions, Describe(r, d) PROVE Sound
<1> USE DEF Describe
<1>1. WorkspaceTypeOK'
  BY DEF IInv, WorkspaceTypeOK, outside, runs
<1>2. NeverMissingAgain
  BY DEF NeverMissingAgain, Held
<1>3. AskedIsTold'
  BY <1>1, <1>2, AskedStaysTold DEF outside
<1> QED
  BY <1>1, <1>2, <1>3, NoneRunning DEF Sound, IInv, RunsOfExecutors, runs

LEMMA LeaveUnreadStep == ASSUME IInv, NEW row \in told, LeaveUnread(row) PROVE Sound
<1> USE DEF LeaveUnread
<1>1. WorkspaceTypeOK'
  BY DEF IInv, WorkspaceTypeOK, registers, runs
<1>2. NeverMissingAgain
  BY DEF NeverMissingAgain, Held, registers
<1>3. AskedIsTold'
  BY <1>1, <1>2, AskedStaysTold DEF registers
<1> QED
  BY <1>1, <1>2, <1>3, RunsStay DEF Sound, IInv, RunsOfExecutors, runs, registers

LEMMA RegisterDocumentStep ==
    ASSUME IInv, NEW row \in told, NEW t \in FileTexts, RegisterDocument(row, t) PROVE Sound
<1> USE DEF RegisterDocument
<1>0. row.key \in Keys /\ <<"text", t>> # None /\ <<"text", t>> \in {"text"} \X FileTexts
  BY WorkspaceAssumption DEF IInv, WorkspaceTypeOK
<1>1. WorkspaceTypeOK'
  BY <1>0 DEF IInv, WorkspaceTypeOK, runs
<1>2. NeverMissingAgain /\ registry'[row.key] # None
  BY <1>0 DEF IInv, WorkspaceTypeOK, NeverMissingAgain, Held
<1>3. AskedIsTold'
  BY <1>1, <1>2, AskedStaysTold
<1> QED
  BY <1>1, <1>2, <1>3, NoneRunning DEF Sound, IInv, RunsOfExecutors, runs

LEMMA RegisterMissingStep ==
    ASSUME IInv, NEW h \in DOMAIN buffers, NEW got \in SUBSET Keys, RegisterMissing(h, got) PROVE Sound
<1> USE DEF RegisterMissing
<1>0. PICK read \in [got -> FileTexts] :
         registry' = [k \in Keys |-> IF k \in got THEN <<"text", read[k]>> ELSE registry[k]]
  OBVIOUS
<1>1. \A k \in got : <<"text", read[k]>> # None /\ <<"text", read[k]>> \in {"text"} \X FileTexts
  BY WorkspaceAssumption
<1>2. WorkspaceTypeOK'
  BY <1>0, <1>1 DEF IInv, WorkspaceTypeOK, outside, runs
<1>3. NeverMissingAgain
  BY <1>0, <1>1 DEF NeverMissingAgain, Held
<1>4. AskedIsTold'
  BY <1>2, <1>3, AskedStaysTold DEF outside
<1> QED
  BY <1>2, <1>3, <1>4, NoneRunning DEF Sound, IInv, RunsOfExecutors, runs

LEMMA AskMissingStep == ASSUME IInv, NEW h \in DOMAIN buffers, AskMissing(h) PROVE Sound
<1> USE DEF AskMissing
<1> DEFINE f == buffers[h]
<1>0. /\ WorkspaceTypeOK /\ f.path \in Paths /\ f.text \in FileTexts /\ f.text # None
      /\ DOMAIN asked = DOMAIN buffers /\ asked \in Seq(FileTexts \cup {None}) /\ Len(asked) \in Nat
  <2>1. asked \in Seq(FileTexts \cup {None})
    BY DEF IInv, WorkspaceTypeOK
  <2> QED
    BY <2>1, BuffersAre, WorkspaceAssumption DEF IInv
<1>1. \A d \in DocumentsNamed(f.text) :
        ~Held(RegistryKey(f.path, connections, d)) =>
            \E row \in MissingDocuments(f) : row.key = RegistryKey(f.path, connections, d)
  <2> SUFFICES ASSUME NEW d \in DocumentsNamed(f.text), ~Held(RegistryKey(f.path, connections, d))
               PROVE  \E row \in MissingDocuments(f) : row.key = RegistryKey(f.path, connections, d)
    OBVIOUS
  <2>1. RegistryKey(f.path, connections, d) \in MissingKeys(f)
    BY WhatIsMissing
  <2> QED
    BY <2>1 DEF MissingKeys
<1>2. \A row \in MissingDocuments(f) : row.key \in Keys
  BY <1>0, KeysOfTexts DEF MissingDocuments
<1>3. asked' \in Seq(FileTexts \cup {None}) /\ Len(asked') = Len(asked)
  BY <1>0
<1>4. WorkspaceTypeOK'
  BY <1>0, <1>2, <1>3 DEF WorkspaceTypeOK, registers, runs
<1>5. AskedIsTold'
  <2> SUFFICES ASSUME NEW i \in DOMAIN buffers', asked'[i] # None, NEW d \in DocumentsNamed(asked'[i]),
                      registry'[KeyOf(i, d)'] = None
               PROVE  KeyOf(i, d)' \in unreadable' \/ \E row \in told' : row.key = KeyOf(i, d)'
    BY DEF AskedIsTold
  <2>1. KeyOf(i, d)' = KeyOf(i, d) /\ registry[KeyOf(i, d)] = None /\ i \in DOMAIN buffers
    BY DEF KeyOf, registers
  <2>2. CASE i = h
    <3>1. asked'[i] = f.text
      BY <2>2, <2>1, <1>0
    <3>2. KeyOf(i, d) = RegistryKey(f.path, connections, d)
      BY <2>2, KeyOfNoConnection DEF KeyOf
    <3>3. ~Held(RegistryKey(f.path, connections, d))
      BY <2>1, <3>2 DEF Held
    <3> QED
      BY <3>1, <3>2, <3>3, <2>1, <1>1
  <2>3. CASE i # h
    <3>1. asked'[i] = asked[i]
      BY <2>3, <2>1, <1>0
    <3> QED
      BY <3>1, <2>1 DEF IInv, AskedIsTold
  <2> QED
    BY <2>2, <2>3
<1> QED
  BY <1>4, <1>5, RunsStay DEF Sound, IInv, RunsOfExecutors, runs, registers, NeverMissingAgain, Held

\* A run, whatever it does, writes none of what the database holds.
LEMMA RunSteps ==
    ASSUME IInv, NEW r \in Runs, Run(r) \/ Borrow(r) \/ EndRun(r) PROVE Sound
<1>1. UNCHANGED <<host, registers, outside>>
  BY DEF Run, Borrow, EndRun
<1>2. /\ flight \in [Runs -> {"idle", "opening", "running", "done"}]
      /\ flight' \in [Runs -> {"idle", "opening", "running", "done"}]
      /\ \A q \in Runs : flight'[q] # "idle" => host = "executor"
  BY DEF IInv, WorkspaceTypeOK, RunsOfExecutors, Run, Borrow, EndRun
<1>3. AskedIsTold' /\ RunsOfExecutors' /\ NeverMissingAgain
  BY <1>1, <1>2 DEF IInv, AskedIsTold, KeyOf, RunsOfExecutors, NeverMissingAgain, Held, registers, outside
<1>4. ReadBy(buffers[1])' = ReadBy(buffers[1])
  BY <1>1 DEF ReadBy, Inputs, TextAt, Held, TypingColumns, registers
<1>5. seen = [q \in Runs |-> seen[q]]
  BY DEF IInv, WorkspaceTypeOK
<1>6. RunReadsOneProgram' /\ seen' = [q \in Runs |-> seen'[q]]
  <2>1. CASE Run(r)
    BY <2>1, <1>2, <1>4, <1>5 DEF Run, IInv, RunReadsOneProgram
  <2>2. CASE Borrow(r)
    BY <2>2, <1>2, <1>4, <1>5 DEF Borrow, IInv, RunReadsOneProgram
  <2>3. CASE EndRun(r)
    BY <2>3, <1>2, <1>4, <1>5 DEF EndRun, IInv, RunReadsOneProgram
  <2> QED
    BY <2>1, <2>2, <2>3
<1>7. WorkspaceTypeOK'
  BY <1>1, <1>2, <1>6 DEF IInv, WorkspaceTypeOK, registers, outside
<1> QED
  BY <1>3, <1>6, <1>7 DEF Sound, IInv

(***************************************************************************)
(* Every step, and the theorems.                                           *)
(***************************************************************************)

LEMMA NextSound == IInv /\ [WorkspaceNext]_workspaceVars => Sound
<1> SUFFICES ASSUME IInv, [WorkspaceNext]_workspaceVars PROVE Sound
  OBVIOUS
<1>1. CASE \E p \in Paths, t \in FileTexts : OpenFile(p, t)
  BY <1>1, OpenFileStep
<1>2. CASE \E h \in DOMAIN buffers : \E t \in FileTexts : UpdateFile(h, t)
  BY <1>2, UpdateFileStep
<1>3. CASE \E h \in DOMAIN buffers : CloseFile(h)
  BY <1>3, CloseFileStep
<1>4. CASE \E h \in DOMAIN buffers : AskMissing(h)
  BY <1>4, AskMissingStep
<1>5. CASE \E h \in DOMAIN buffers : \E got \in SUBSET Keys : RegisterMissing(h, got)
  BY <1>5, RegisterMissingStep
<1>6. CASE \E known \in [Aliases -> Bases \cup {None}] : SetConnections(known)
  BY <1>6, SetConnectionsStep
<1>7. CASE \E row \in told : LeaveUnread(row)
  BY <1>7, LeaveUnreadStep
<1>8. CASE \E row \in told : \E t \in FileTexts : RegisterDocument(row, t)
  BY <1>8, RegisterDocumentStep
<1>9. CASE \E r \in SourcesNamed : \/ \E c \in ColumnLists : RegisterInferredDescriptor(r, c)
                              \/ \E p \in Problems : RegisterUndescribed(r, p)
  <2>1. PICK r \in SourcesNamed, d \in Descriptions : Describe(r, d)
    BY <1>9 DEF RegisterInferredDescriptor, RegisterUndescribed, Descriptions
  <2> QED
    BY <2>1, DescribeStep
<1>10. CASE \E r \in Runs : Run(r) \/ Borrow(r) \/ EndRun(r)
  BY <1>10, RunSteps
<1>11. CASE UNCHANGED workspaceVars
  <2>1. UNCHANGED <<host, registers, outside, runs>>
    BY <1>11 DEF workspaceVars
  <2>2. RunReadsOneProgram'
    BY <2>1, RunsStay DEF registers
  <2> QED
    BY <2>1, <2>2 DEF Sound, IInv, WorkspaceTypeOK, AskedIsTold, KeyOf, RunsOfExecutors, NeverMissingAgain, Held,
                     registers, outside, runs
<1>12. CASE \E h \in DOMAIN buffers :
               \/ \E t \in FileTexts : UpdateFile(h, t)
               \/ CloseFile(h) \/ AskMissing(h)
               \/ \E got \in SUBSET Keys : RegisterMissing(h, got)
  BY <1>2, <1>3, <1>4, <1>5, <1>12, Zenon
<1>13. CASE \E row \in told : LeaveUnread(row) \/ \E t \in FileTexts : RegisterDocument(row, t)
  BY <1>7, <1>8, <1>13, Zenon
<1>14. CASE WorkspaceNext
  BY <1>1, <1>6, <1>9, <1>10, <1>12, <1>13, <1>14, Zenon DEF WorkspaceNext
<1> QED
  BY <1>11, <1>14

LEMMA IInvAlways == WorkspaceSpec => []IInv
<1>1. IInv /\ [WorkspaceNext]_workspaceVars => IInv'
  BY NextSound DEF Sound
<1> QED
  BY InitIInv, <1>1, PTL DEF WorkspaceSpec

\* Every state of the workspace is of its types: a buffer the registry names is one that was
\* opened, and whatever is read or given up is a key some program may ask for.
THEOREM WorkspaceTypes == WorkspaceSpec => []WorkspaceTypeOK
<1>1. IInv => WorkspaceTypeOK
  BY DEF IInv
<1> QED
  BY IInvAlways, <1>1, PTL

\* What a program lacks of the text its host last asked about is being read, or could not be,
\* whatever becomes of the connections in between (documents.rs:96-97).
THEOREM MissingDocumentsAreTold == WorkspaceSpec => []MissingIsTold
<1>1. IInv => MissingIsTold
  <2> SUFFICES ASSUME IInv, NEW h \in Open, asked[h] = buffers[h].text, NEW k \in MissingKeys(buffers[h])
               PROVE  k \in {row.key : row \in told} \cup unreadable
    BY DEF MissingIsTold
  <2>1. PICK d \in DocumentsNamed(buffers[h].text) :
            k = RegistryKey(buffers[h].path, connections, d) /\ ~Held(k)
    BY WhatIsMissing
  <2>2. h \in DOMAIN buffers /\ asked[h] # None
    BY BuffersAre, WorkspaceAssumption DEF IInv, Open
  <2>3. k = KeyOf(h, d) /\ registry[KeyOf(h, d)] = None
    BY <2>1, KeyOfNoConnection DEF KeyOf, Held
  <2> QED
    BY <2>1, <2>2, <2>3 DEF IInv, AskedIsTold
<1> QED
  BY IInvAlways, <1>1, PTL

\* A register issued while a run is in flight fails instead of changing the program under it
\* (bindings/executor/lib.rs:169-171): what the run reads late is what it read when it began.
THEOREM RunsReadOneProgram == WorkspaceSpec => []RunReadsOneProgram
<1>1. IInv => RunReadsOneProgram
  BY DEF IInv
<1> QED
  BY IInvAlways, <1>1, PTL

\* A source the host has answered about types the program or is warned about once, at the
\* first binding that reads it (infer.rs:94-102).
THEOREM SourcesAreAnsweredOnce == WorkspaceSpec => []AnsweredOnce
<1>1. IInv => AnsweredOnce
  <2> SUFFICES ASSUME IInv, NEW h \in Open, buffers[h].path \notin Claimed,
                      NEW i \in DOMAIN buffers[h].text.sources,
                      buffers[h].text.sources[i].uri # None
               PROVE  LET f == buffers[h]
                          r == f.text.sources[i].uri
                          about == {w \in RefusedSources(f) : f.text.sources[w.at].uri = r}
                      IN  /\ TypingColumns(r) # None => about = {}
                          /\ descriptions[r].is = "refused" =>
                                \E w \in about : /\ about = {w} /\ w.at <= i
                                                 /\ w.problem = descriptions[r].of
    BY Zenon DEF AnsweredOnce
  <2> DEFINE f == buffers[h]
             uri(j) == f.text.sources[j].uri
             r == uri(i)
             about == {w \in RefusedSources(f) : uri(w.at) = r}
             Same == {j \in DOMAIN f.text.sources : uri(j) = r}
  <2>1. PICK m \in Nat : DOMAIN f.text.sources = 1 .. m
    <3>1. f.text \in Files
      BY BuffersAre, WorkspaceAssumption DEF IInv, Open
    <3>2. f.text.sources \in Seq([uri : References \cup {None}, schema : References \cup {None}])
      BY <3>1 DEF Files
    <3> QED
      BY <3>2, ElementsOf
  <2>2. \A w \in RefusedSources(f) :
          /\ w.at \in DOMAIN f.text.sources /\ w.problem = descriptions[uri(w.at)].of
          /\ descriptions[uri(w.at)].is = "refused" /\ w = [at |-> w.at, problem |-> w.problem]
          /\ \A j \in 1 .. w.at - 1 : uri(j) # uri(w.at)
    BY DEF RefusedSources
  <2>3. ASSUME TypingColumns(r) # None PROVE about = {}
    BY <2>2, <2>3 DEF TypingColumns
  <2>4. ASSUME descriptions[r].is = "refused"
        PROVE  \E w \in about : about = {w} /\ w.at <= i /\ w.problem = descriptions[r].of
    <3>1. PICK n \in Same : \A j \in Same : n <= j
      <4>1. Same \in SUBSET Nat /\ i \in Same
        BY <2>1
      <4> QED
        BY <4>1, LeastOf
    <3> DEFINE w == [at |-> n, problem |-> descriptions[r].of]
    <3>2. w \in RefusedSources(f)
      <4>1. \A j \in 1 .. n - 1 : uri(j) # r
        BY <3>1, <2>1
      <4> QED
        BY <4>1, <3>1, <2>1, <2>4 DEF RefusedSources
    <3>3. ASSUME NEW v \in about PROVE v = w
      <4>1. /\ v.at \in Same /\ v.problem = descriptions[r].of /\ v = [at |-> v.at, problem |-> v.problem]
            /\ \A j \in 1 .. v.at - 1 : uri(j) # r
        BY <2>2
      <4>2. v.at = n
        BY <4>1, <3>1, <2>1
      <4> QED
        BY <4>1, <4>2
    <3>4. w.at = n /\ w.problem = descriptions[r].of
      OBVIOUS
    <3>5. w \in about
      BY <3>2, <3>1, <3>4
    <3>6. n <= i
      BY <3>1
    <3>7. about = {w}
      BY <3>3, <3>5
    <3> HIDE DEF w, about
    <3> QED
      BY <3>4, <3>5, <3>6, <3>7
  <2> QED
    BY <2>3, <2>4
<1> QED
  BY IInvAlways, <1>1, PTL

\* Both: what a program still needs of its host the host is told.
THEOREM ToldIsTrue == WorkspaceSpec => []ToldTrue
  BY MissingDocumentsAreTold, SourcesAreAnsweredOnce, PTL DEF ToldTrue

\* The steps that leave the registry and the buffers alone.
LEMMA TheRestStays ==
    ASSUME \/ \E h \in DOMAIN buffers : CloseFile(h) \/ AskMissing(h)
           \/ \E known \in [Aliases -> Bases \cup {None}] : SetConnections(known)
           \/ \E row \in told : LeaveUnread(row)
           \/ \E r \in SourcesNamed : (\E c \in ColumnLists : RegisterInferredDescriptor(r, c))
                                \/ \E p \in Problems : RegisterUndescribed(r, p)
           \/ \E r \in Runs : Run(r) \/ Borrow(r) \/ EndRun(r)
           \/ UNCHANGED workspaceVars
    PROVE  UNCHANGED <<buffers, registry>> /\ closed \subseteq closed'
  BY DEF CloseFile, AskMissing, SetConnections, LeaveUnread, RegisterInferredDescriptor, RegisterUndescribed,
         Describe, Run, Borrow, EndRun, registers, workspaceVars

LEMMA NextReplaces == IInv /\ [WorkspaceNext]_workspaceVars => OnlyAReadReplaces /\ HandlesStay
<1> SUFFICES ASSUME IInv, [WorkspaceNext]_workspaceVars PROVE OnlyAReadReplaces /\ HandlesStay
  OBVIOUS
<1>0. /\ Len(buffers) \in Nat /\ DOMAIN buffers = 1 .. Len(buffers) /\ registry \in [Keys -> {registry[k] : k \in Keys}]
      /\ buffers \in Seq([path : Paths, text : FileTexts])
      /\ \A h \in DOMAIN buffers : buffers[h] \in [path : Paths, text : FileTexts]
  BY BuffersAre DEF IInv, WorkspaceTypeOK
<1>1. ASSUME NEW p \in Paths, NEW t \in FileTexts, OpenFile(p, t) PROVE OnlyAReadReplaces /\ HandlesStay
  <2>1. Len(buffers') > Len(buffers) /\ DOMAIN buffers' = 1 .. Len(buffers) + 1
        /\ closed' = closed /\ \A h \in DOMAIN buffers : buffers'[h] = buffers[h]
    <3>1. buffers' = Append(buffers, [path |-> p, text |-> t]) /\ closed' = closed
      BY <1>1 DEF OpenFile
    <3>2. [path |-> p, text |-> t] \in [path : Paths, text : FileTexts]
      OBVIOUS
    <3> QED
      BY <3>1, <3>2, <1>0
  <2> QED
    BY <2>1, <1>0 DEF OnlyAReadReplaces, HandlesStay
<1>2. ASSUME NEW h \in DOMAIN buffers, NEW t \in FileTexts, UpdateFile(h, t) PROVE OnlyAReadReplaces /\ HandlesStay
  <2>1. registry' = registry /\ closed' = closed /\ h \notin closed /\ buffers' = [buffers EXCEPT ![h].text = t]
    BY <1>2 DEF UpdateFile, Open
  <2>2. DOMAIN buffers' = DOMAIN buffers /\ buffers'[h].path = buffers[h].path
        /\ \A i \in DOMAIN buffers : i # h => buffers'[i] = buffers[i]
    BY <2>1, <1>0
  <2> QED
    BY <2>1, <2>2 DEF OnlyAReadReplaces, HandlesStay
<1>3. ASSUME NEW h \in DOMAIN buffers, NEW got \in SUBSET Keys, RegisterMissing(h, got) PROVE OnlyAReadReplaces /\ HandlesStay
  <2>1. \A k \in Keys : k \notin got => registry'[k] = registry[k]
    BY <1>3 DEF RegisterMissing
  <2>2. \A k \in got : ~Held(k)
    BY <1>3, WhatIsMissing DEF RegisterMissing
  <2>3. UNCHANGED <<buffers, closed>>
    BY <1>3 DEF RegisterMissing
  <2> QED
    BY <2>1, <2>2, <2>3 DEF OnlyAReadReplaces, HandlesStay
<1>4. ASSUME NEW row \in told, NEW t \in FileTexts, RegisterDocument(row, t) PROVE OnlyAReadReplaces /\ HandlesStay
  <2>1. row \in told \ told' /\ UNCHANGED <<buffers, closed>>
        /\ \A k \in Keys : k # row.key => registry'[k] = registry[k]
    BY <1>4, <1>0 DEF RegisterDocument
  <2> QED
    BY <2>1 DEF OnlyAReadReplaces, HandlesStay
<1>5. ASSUME UNCHANGED <<buffers, registry>>, closed \subseteq closed' PROVE OnlyAReadReplaces /\ HandlesStay
  BY <1>5 DEF OnlyAReadReplaces, HandlesStay
<1>6. CASE \E h \in DOMAIN buffers :
              \/ \E t \in FileTexts : UpdateFile(h, t)
              \/ CloseFile(h) \/ AskMissing(h)
              \/ \E got \in SUBSET Keys : RegisterMissing(h, got)
  <2>1. PICK h \in DOMAIN buffers :
              \/ \E t \in FileTexts : UpdateFile(h, t)
              \/ CloseFile(h) \/ AskMissing(h)
              \/ \E got \in SUBSET Keys : RegisterMissing(h, got)
    BY <1>6
  <2> QED
    BY <2>1, <1>2, <1>3, <1>5, TheRestStays, Zenon
<1>7. CASE \E row \in told : LeaveUnread(row) \/ \E t \in FileTexts : RegisterDocument(row, t)
  BY <1>7, <1>4, <1>5, TheRestStays, Zenon
<1>8. CASE UNCHANGED workspaceVars
  BY <1>8, <1>5, TheRestStays
<1>9. CASE WorkspaceNext
  BY <1>1, <1>5, <1>6, <1>7, <1>9, TheRestStays, Zenon DEF WorkspaceNext
<1> QED
  BY <1>8, <1>9

\* What is held stays held, and is replaced by a buffer that is opened or by the answer of a
\* read the host was told to make; a handle is one file for ever, and a closed one never edits
\* another: whatever the editor, its reads and its runs do (files.rs, workspace.rs).
THEOREM RegistryIsKept == WorkspaceSpec => RegistryKept
<1>1. IInv /\ [WorkspaceNext]_workspaceVars
        => [NeverMissingAgain /\ OnlyAReadReplaces /\ HandlesStay]_workspaceVars
  BY NextSound, NextReplaces DEF Sound
<1> QED
  BY IInvAlways, <1>1, PTL DEF WorkspaceSpec, RegistryKept

=============================================================================
