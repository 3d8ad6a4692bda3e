---------------------------- MODULE EditorProofs ----------------------------
(* Proofs about the editor's two halves: what a program's answer says of    *)
(* the documents its text names (Program), and what profiling its sources   *)
(* answers (Describe, over the plan of Profiler).                           *)
EXTENDS Program, Describe, FiniteSetTheorems, TLAPS

(***************************************************************************)
(* A program's calls.                                                      *)
(***************************************************************************)

CallTypes ==
    /\ kind \in [Calls -> Kinds] /\ stage \in [Calls -> Stages]
    /\ attempted \in [Calls -> SUBSET Documents] /\ batch \in [Calls -> SUBSET Documents]
    /\ tried \in [Calls -> SUBSET Documents] /\ odd \in [Calls -> BOOLEAN]

SharedTypes ==
    /\ boot \in {"none", "pending", "kept"}
    /\ workspace \in {"none", "open", "freed"} /\ opened \in BOOLEAN
    /\ text \in Texts /\ edits \in 0 .. Edits
    /\ registered \subseteq Documents /\ unread \subseteq Documents /\ descriptors \subseteq Calls

\* What a call has read is registered, could not be read, or is being read.
Traced(c) ==
    /\ attempted[c] \subseteq registered \cup tried[c] \cup batch[c]
    /\ batch[c] \subseteq attempted[c] /\ tried[c] \subseteq attempted[c]
    /\ stage[c] \in {"idle", "booting", "connecting"} => attempted[c] = {}
    /\ stage[c] = "returned" => Missing \subseteq tried[c]

ProgramInv ==
    /\ SharedTypes /\ CallTypes
    /\ \A c \in Calls : Traced(c)
    /\ \A c \in Calls : stage[c] = "settled" => Missing \subseteq unread

\* The types hold at the start, when nothing has been asked for.
LEMMA ProgramStarts == Init => ProgramInv
  <1> SUFFICES ASSUME Init PROVE ProgramInv
    OBVIOUS
  <1>1. SharedTypes
    <2>1. edits \in 0 .. Edits
      BY ProgramAssumption DEF Init, ProgramAssumption
    <2> QED BY <2>1 DEF Init, SharedTypes
  <1>2. CallTypes
    BY DEF Init, CallTypes, Kinds, Stages
  <1>3. \A c \in Calls : Traced(c)
    BY DEF Init, Traced
  <1> QED BY <1>1, <1>2, <1>3 DEF Init, ProgramInv

\* A call goes on to another stage.
LEMMA GoesTo ==
    ASSUME CallTypes, NEW c \in Calls, NEW s \in Stages, To(c, s)
    PROVE  /\ stage' \in [Calls -> Stages] /\ stage'[c] = s
           /\ \A d \in Calls : d # c => stage'[d] = stage[d]
  BY DEF CallTypes, To

\* Nothing about a call's reads changes: it goes to a stage that is no answer's.
LEMMA TracedStays ==
    ASSUME NEW c \in Calls, Traced(c), registered \subseteq registered', UNCHANGED text,
           attempted'[c] = attempted[c], batch'[c] = batch[c], tried'[c] = tried[c],
           \/ stage'[c] = stage[c]
           \/ /\ stage'[c] \in {"idle", "booting", "connecting"} => attempted[c] = {}
              /\ stage'[c] # "returned"
    PROVE  Traced(c)'
  BY DEF Traced, Missing

\* After a turn the documents it found are being read, and the others are registered or
\* could not be read; a turn that finds none returns with all that is missing.
LEMMA TurnTraces ==
    ASSUME ProgramInv, NEW c \in Calls, NEW held \in SUBSET Documents, NEW vain \in SUBSET Documents,
           Turn(c, held, vain), registered' = held, UNCHANGED text,
           attempted[c] \subseteq held \cup vain, vain \subseteq attempted[c]
    PROVE  /\ kind' = kind => CallTypes'
           /\ Traced(c)'
           /\ \A d \in Calls : d # c =>
                /\ stage'[d] = stage[d] /\ attempted'[d] = attempted[d]
                /\ batch'[d] = batch[d] /\ tried'[d] = tried[d]
           /\ stage'[c] \in {"returned", "reading"}
  <1> DEFINE found == (Names[text] \ held) \ attempted[c]
  <1>1. found \in SUBSET Documents
    BY ProgramAssumption DEF ProgramAssumption, ProgramInv, SharedTypes
  <1>2. /\ odd' = [odd EXCEPT ![c] = ~@] /\ tried' = [tried EXCEPT ![c] = vain]
        /\ batch' = [batch EXCEPT ![c] = found]
        /\ attempted' = [attempted EXCEPT ![c] = @ \cup found]
        /\ stage' = [stage EXCEPT ![c] = IF found = {} THEN "returned" ELSE "reading"]
    BY DEF Turn, To
  <1>3. CallTypes
    BY DEF ProgramInv
  <1>4. kind' = kind => CallTypes'
    BY <1>1, <1>2, <1>3 DEF CallTypes, Stages
  <1>5. /\ tried'[c] = vain /\ batch'[c] = found /\ attempted'[c] = attempted[c] \cup found
        /\ stage'[c] = IF found = {} THEN "returned" ELSE "reading"
    BY <1>2, <1>3 DEF CallTypes
  <1>6. stage'[c] = "returned" => Missing' \subseteq tried'[c]
    BY <1>5 DEF Missing
  <1>7. Traced(c)'
    <2> HIDE DEF found
    <2>1. /\ attempted'[c] \subseteq registered' \cup tried'[c] \cup batch'[c]
          /\ batch'[c] \subseteq attempted'[c] /\ tried'[c] \subseteq attempted'[c]
      BY <1>5
    <2>2. stage'[c] \notin {"idle", "booting", "connecting"}
      BY <1>5
    <2> QED BY <1>6, <2>1, <2>2 DEF Traced
  <1>8. \A d \in Calls : d # c =>
          /\ stage'[d] = stage[d] /\ attempted'[d] = attempted[d]
          /\ batch'[d] = batch[d] /\ tried'[d] = tried[d]
    BY <1>2, <1>3 DEF CallTypes
  <1> QED BY <1>4, <1>5, <1>7, <1>8

\* Every step keeps what each call has read.
LEMMA ProgramStep == ProgramInv /\ [Next]_programVars => ProgramInv'
  <1> SUFFICES ASSUME ProgramInv, [Next]_programVars PROVE ProgramInv'
    OBVIOUS
  <1>t. SharedTypes /\ CallTypes
    BY DEF ProgramInv
  <1>f. ASSUME SharedTypes', CallTypes', UNCHANGED <<text, registered, unread, attempted, batch, tried>>,
               \A c \in Calls : \/ stage'[c] = stage[c]
                                \/ /\ stage'[c] \in {"idle", "booting", "connecting"} => attempted[c] = {}
                                   /\ stage'[c] \notin {"returned", "settled"}
        PROVE  ProgramInv'
    <2>1. \A c \in Calls : Traced(c)'
      BY <1>f, TracedStays DEF ProgramInv
    <2>2. \A c \in Calls : stage'[c] = "settled" => Missing' \subseteq unread'
      BY <1>f DEF ProgramInv, Missing
    <2> QED BY <1>f, <2>1, <2>2 DEF ProgramInv
  <1>1. ASSUME NEW c \in Calls, NEW k \in Kinds \ {"none"}, Begin(c, k) PROVE ProgramInv'
    <2>1. PICK s \in {"connecting", "booting"} : To(c, s)
      BY <1>1 DEF Begin
    <2>2. stage[c] = "idle" /\ s \in Stages
      BY <1>1 DEF Begin, Stages
    <2>3. /\ stage' \in [Calls -> Stages] /\ stage'[c] = s
          /\ \A d \in Calls : d # c => stage'[d] = stage[d]
      BY <1>t, <2>1, <2>2, GoesTo
    <2>4. attempted[c] = {}
      BY <2>2 DEF ProgramInv, Traced
    <2>5. CallTypes'
      BY <1>1, <1>t, <2>3 DEF Begin, CallTypes
    <2>6. SharedTypes'
      BY <1>1, <1>t DEF Begin, SharedTypes
    <2>7. UNCHANGED <<text, registered, unread, attempted, batch, tried>>
      BY <1>1 DEF Begin
    <2> QED BY <1>f, <2>3, <2>4, <2>5, <2>6, <2>7
  <1>2. ASSUME NEW ok \in BOOLEAN, Booted(ok) PROVE ProgramInv'
    <2>1. \A c \in Calls : \/ stage'[c] = stage[c]
                           \/ stage[c] = "booting" /\ stage'[c] \in {"connecting", "rejected"}
      BY <1>2 DEF Booted
    <2>2. \A c \in Calls : stage[c] = "booting" => attempted[c] = {}
      BY DEF ProgramInv, Traced
    <2>3. CallTypes'
      BY <1>2, <1>t DEF Booted, CallTypes, Stages
    <2>4. SharedTypes'
      BY <1>2, <1>t DEF Booted, SharedTypes
    <2>5. UNCHANGED <<text, registered, unread, attempted, batch, tried>>
      BY <1>2 DEF Booted
    <2> QED BY <1>f, <2>1, <2>2, <2>3, <2>4, <2>5
  <1>r. ASSUME NEW c \in Calls, Reject(c), UNCHANGED <<boot, opened, text, edits, registered, unread,
                                                        descriptors, kind, attempted, batch, tried, odd>>
        PROVE  ProgramInv'
    <2>1. To(c, "rejected") /\ "rejected" \in Stages
      BY <1>r DEF Reject, Stages
    <2>2. /\ stage' \in [Calls -> Stages] /\ stage'[c] = "rejected"
          /\ \A d \in Calls : d # c => stage'[d] = stage[d]
      BY <1>t, <2>1, GoesTo
    <2>3. CallTypes'
      BY <1>r, <1>t, <2>2 DEF CallTypes
    <2>4. SharedTypes'
      BY <1>r, <1>t DEF Reject, SharedTypes
    <2> QED BY <1>f, <1>r, <2>2, <2>3, <2>4
  <1>u. ASSUME NEW c \in Calls, NEW got \in SUBSET Documents, NEW vain \in SUBSET Documents,
               Turn(c, registered \cup got, vain), registered' = registered \cup got,
               attempted[c] \subseteq (registered \cup got) \cup vain, vain \subseteq attempted[c],
               UNCHANGED <<workspace, boot, opened, text, edits, unread, descriptors, kind>>
        PROVE  ProgramInv'
    <2>0. registered \cup got \in SUBSET Documents
      BY <1>t DEF SharedTypes
    <2>1. /\ CallTypes' /\ Traced(c)'
          /\ \A d \in Calls : d # c =>
               /\ stage'[d] = stage[d] /\ attempted'[d] = attempted[d]
               /\ batch'[d] = batch[d] /\ tried'[d] = tried[d]
          /\ stage'[c] \in {"returned", "reading"}
      BY <1>u, <2>0, TurnTraces
    <2>2. \A d \in Calls : Traced(d)'
      BY <1>u, <2>1, TracedStays DEF ProgramInv
    <2>3. SharedTypes'
      BY <1>u, <1>t, <2>0 DEF SharedTypes
    <2>4. \A d \in Calls : stage'[d] = "settled" => Missing' \subseteq unread'
      BY <1>u, <2>1 DEF ProgramInv, Missing
    <2> QED BY <2>1, <2>2, <2>3, <2>4 DEF ProgramInv
  <1>3. ASSUME NEW c \in Calls, Connected(c) PROVE ProgramInv'
    <2>1. CASE Reject(c) /\ UNCHANGED <<attempted, batch, tried, odd>>
      BY <1>3, <1>r, <2>1 DEF Connected
    <2>2. CASE To(c, "answered") /\ UNCHANGED <<workspace, attempted, batch, tried, odd>>
      <3>1. "answered" \in Stages
        BY DEF Stages
      <3>2. /\ stage' \in [Calls -> Stages] /\ stage'[c] = "answered"
            /\ \A d \in Calls : d # c => stage'[d] = stage[d]
        BY <1>t, <2>2, <3>1, GoesTo
      <3>3. CallTypes' /\ SharedTypes'
        BY <1>3, <1>t, <2>2, <3>2 DEF Connected, CallTypes, SharedTypes
      <3> QED BY <1>f, <1>3, <2>2, <3>2, <3>3 DEF Connected
    <2>3. CASE workspace = "open" /\ Turn(c, registered, {}) /\ UNCHANGED workspace
      <3>1. attempted[c] = {}
        BY <1>3 DEF Connected, ProgramInv, Traced
      <3>2. registered \cup {} = registered /\ registered' = registered
        BY <1>3 DEF Connected
      <3>3. Turn(c, registered \cup {}, {})
        BY <2>3, <3>2
      <3> QED BY <1>3, <1>u, <2>3, <3>1, <3>2, <3>3 DEF Connected
    <2> QED BY <1>3, <2>1, <2>2, <2>3 DEF Connected
  <1>4. ASSUME NEW c \in Calls, ReadBatch(c) PROVE ProgramInv'
    <2>1. CASE Reject(c) /\ UNCHANGED <<registered, attempted, batch, tried, odd>>
      BY <1>4, <1>r, <2>1 DEF ReadBatch
    <2>2. ASSUME NEW got \in SUBSET batch[c], registered' = registered \cup got,
                 Turn(c, registered', tried[c] \cup (batch[c] \ got)), UNCHANGED workspace
          PROVE  ProgramInv'
      <3>1. batch[c] \subseteq Documents /\ tried[c] \subseteq Documents
        BY <1>t DEF CallTypes
      <3>2. Turn(c, registered \cup got, tried[c] \cup (batch[c] \ got))
        BY <2>2
      <3>3. /\ attempted[c] \subseteq registered \cup tried[c] \cup batch[c]
            /\ batch[c] \subseteq attempted[c] /\ tried[c] \subseteq attempted[c]
        BY DEF ProgramInv, Traced
      <3>4. PICK vain \in SUBSET Documents : vain = tried[c] \cup (batch[c] \ got)
        BY <3>1
      <3>5. /\ attempted[c] \subseteq (registered \cup got) \cup vain
            /\ vain \subseteq attempted[c] /\ got \in SUBSET Documents
        BY <3>1, <3>3, <3>4
      <3>6. Turn(c, registered \cup got, vain)
        BY <3>2, <3>4
      <3>7. UNCHANGED <<workspace, boot, opened, text, edits, unread, descriptors, kind>>
        BY <1>4, <2>2 DEF ReadBatch
      <3> QED BY <1>u, <2>2, <3>5, <3>6, <3>7
    <2> QED BY <1>4, <2>1, <2>2 DEF ReadBatch
  <1>5. ASSUME NEW c \in Calls, Settle(c) PROVE ProgramInv'
    <2>1. To(c, "settled") /\ "settled" \in Stages
      BY <1>5 DEF Settle, Stages
    <2>2. /\ stage' \in [Calls -> Stages] /\ stage'[c] = "settled"
          /\ \A d \in Calls : d # c => stage'[d] = stage[d]
      BY <1>t, <2>1, GoesTo
    <2>3. /\ stage[c] = "returned" /\ unread' = tried[c]
          /\ UNCHANGED <<boot, workspace, opened, text, edits, registered, descriptors, kind,
                         attempted, batch, tried, odd>>
      BY <1>5 DEF Settle
    <2>4. CallTypes' /\ SharedTypes'
      BY <1>t, <2>2, <2>3 DEF CallTypes, SharedTypes
    <2>5. \A d \in Calls : Traced(d)'
      BY <2>2, <2>3, TracedStays DEF ProgramInv
    <2>6. Missing' \subseteq unread'
      BY <2>3 DEF ProgramInv, Traced, Missing
    <2> QED BY <2>4, <2>5, <2>6 DEF ProgramInv
  <1>6. ASSUME NEW c \in Calls, Answer(c) PROVE ProgramInv'
    <2>1. PICK s \in {"rejected", "profiling", "answered"} : To(c, s)
      BY <1>6 DEF Answer
    <2>2. s \in Stages
      BY DEF Stages
    <2>3. /\ stage' \in [Calls -> Stages] /\ stage'[c] = s
          /\ \A d \in Calls : d # c => stage'[d] = stage[d]
      BY <1>t, <2>1, <2>2, GoesTo
    <2>4. UNCHANGED <<boot, workspace, text, edits, registered, unread, descriptors, kind,
                      attempted, batch, tried, odd>>
      BY <1>6 DEF Answer
    <2>5. CallTypes'
      BY <1>t, <2>3, <2>4 DEF CallTypes
    <2>6. opened' \in BOOLEAN
      BY <1>6 DEF Answer
    <2>7. SharedTypes'
      BY <1>t, <2>4, <2>6 DEF SharedTypes
    <2> QED BY <1>f, <2>3, <2>4, <2>5, <2>7
  <1>7. ASSUME NEW c \in Calls, Describes(c) PROVE ProgramInv'
    <2>1. PICK s \in {"rejected", "answered"} : To(c, s)
      BY <1>7 DEF Describes
    <2>2. s \in Stages
      BY DEF Stages
    <2>3. /\ stage' \in [Calls -> Stages] /\ stage'[c] = s
          /\ \A d \in Calls : d # c => stage'[d] = stage[d]
      BY <1>t, <2>1, <2>2, GoesTo
    <2>4. /\ UNCHANGED <<boot, workspace, opened, text, edits, registered, unread, kind, attempted,
                         batch, tried, odd>>
          /\ descriptors' = descriptors \/ descriptors' = {c}
      BY <1>7 DEF Describes
    <2>5. CallTypes' /\ SharedTypes'
      BY <1>t, <2>3, <2>4 DEF CallTypes, SharedTypes
    <2> QED BY <1>f, <2>3, <2>4, <2>5
  <1>8. ASSUME NEW t \in Texts, Update(t) PROVE ProgramInv'
    <2>1. /\ text' = t /\ edits' = edits + 1 /\ edits < Edits /\ Quiet
          /\ UNCHANGED <<boot, workspace, opened, registered, unread, descriptors,
                         kind, stage, attempted, batch, tried, odd>>
      BY <1>8 DEF Update, call
    <2>2. SharedTypes'
      BY <1>t, <2>1, ProgramAssumption DEF SharedTypes, ProgramAssumption
    <2>3. CallTypes'
      BY <1>t, <2>1 DEF CallTypes
    <2>4. \A d \in Calls : stage'[d] \notin {"returned", "settled"}
      BY <2>1 DEF Quiet
    <2>5. \A d \in Calls : Traced(d)'
      BY <2>1, <2>4 DEF ProgramInv, Traced
    <2> QED BY <2>2, <2>3, <2>4, <2>5 DEF ProgramInv
  <1>9. CASE Close
    <2>1. /\ workspace' = "freed"
          /\ UNCHANGED <<boot, opened, text, edits, registered, unread, descriptors,
                         kind, stage, attempted, batch, tried, odd>>
      BY <1>9 DEF Close, call
    <2>2. CallTypes' /\ SharedTypes'
      BY <1>t, <2>1 DEF CallTypes, SharedTypes
    <2> QED BY <1>f, <2>1, <2>2
  <1>10. CASE UNCHANGED programVars
    <2>1. UNCHANGED <<boot, workspace, opened, text, edits, registered, unread, descriptors,
                      kind, stage, attempted, batch, tried, odd>>
      BY <1>10 DEF programVars, shared, call
    <2>2. CallTypes' /\ SharedTypes'
      BY <1>t, <2>1 DEF CallTypes, SharedTypes
    <2> QED BY <1>f, <2>1, <2>2
  <1> QED BY <1>1, <1>2, <1>3, <1>4, <1>5, <1>6, <1>7, <1>8, <1>9, <1>10 DEF Next

\* The calls of a program keep to their types, and read each document once.
THEOREM ProgramTypes == Spec => []ProgramTypeOK
  <1>1. ProgramInv => ProgramTypeOK
    BY DEF ProgramInv, SharedTypes, CallTypes, Traced, ProgramTypeOK
  <1> QED BY <1>1, ProgramStarts, ProgramStep, PTL DEF Spec

\* Whichever of the overlapping settles ends last, a call that answers finds every document
\* its text names and the workspace lacks among the unread: settle of program.ts, over the
\* loop of documents.ts, for any texts, documents, calls and edits.
THEOREM MissingDocumentsSaid == Spec => []MissingIsSaid
  <1>1. ProgramInv => MissingIsSaid
    BY DEF ProgramInv, MissingIsSaid
  <1> QED BY <1>1, ProgramStarts, ProgramStep, PTL DEF Spec


(***************************************************************************)
(* A profile of a program's sources.                                       *)
(***************************************************************************)

\* The asks of a phase.
AsksOf(now) ==
    CASE now = "describe"   -> [kind : {"describe"}, of : states]
      [] now = "stats"      -> [kind : {"counts"}, of : WithColumns]
      [] now = "top"        -> [kind : {"top"}, of : Columns]
      [] now = "inclusions" -> InclusionAsks
      [] now = "sample"     -> [kind : {"sample"}, of : WithColumns]
      [] now = "done"       -> {}

PlanTypes ==
    /\ data \in Datas /\ options \in Options
    /\ states \subseteq Sources /\ phase \in Phases
    /\ queue \subseteq pending /\ pending \subseteq AsksOf(phase)
    /\ described \subseteq states /\ failed \subseteq states /\ sampled \subseteq described
    /\ DOMAIN counts \subseteq described

\* What is known of a source is what its rows hold.
Truthful == \A s \in DOMAIN counts : counts[s] = Counted(s)

\* A source is described, or has failed, or its answer is awaited.
Described ==
    \A s \in states :
        \/ s \in described \/ s \in failed
        \/ phase = "describe" /\ [kind |-> "describe", of |-> s] \in pending

AskOf(from, to) == [kind |-> "inclusion", from |-> from, to |-> to]

\* An inclusion is found once it was asked for and answered, and by that alone.
Found ==
    /\ inclusions \subseteq Columns \X Columns
    /\ \A a \in pending \cap lost : a.kind # "inclusion"
    /\ phase \in {"describe", "stats", "top"} \/ options.depth = "types" =>
         inclusions = {} /\ \A a \in lost : a.kind # "inclusion"
    /\ phase \in {"inclusions", "sample", "done"} /\ options.depth = "whole" =>
         \A from, to \in Columns :
            <<from, to>> \in inclusions <=>
                /\ AskOf(from, to) \in InclusionAsks /\ AskOf(from, to) \notin pending \cup lost
                /\ Holds(from, to)

\* A plan for types alone asks nothing after the columns.
Shallow == options.depth = "types" => phase \in {"describe", "done"}

PlanInv == PlanTypes /\ Truthful /\ Described /\ Found /\ Shallow

IoTypes ==
    /\ progress \in {"reading", "booting", "profiling", "closing", "returned", "thrown"}
    /\ mounts \in [Connections -> {"none", "opening", "open", "failed", "closing", "closed", "unclosed"}]
    /\ reading \in [Sources -> {"absent", "mounting", "tagging", "readable", "undescribed"}]
    /\ undescribed \subseteq Natives /\ aborted \in BOOLEAN /\ failure \in BOOLEAN

\* What the plan has before it is made, and of which sources it is made.
Planned ==
    IF progress \in {"reading", "booting"} THEN Unplanned
    ELSE \/ /\ states = {s \in Natives : reading[s] = "readable"}
            /\ \A s \in Natives : reading[s] \in {"readable", "undescribed"}
         \/ failure /\ states = {}

\* A source is read, or has its problem, unless everything has failed.
Answering ==
    /\ failure => progress \in {"closing", "thrown"}
    /\ ~failure =>
         /\ progress # "reading" => \A s \in Natives : reading[s] \in {"readable", "undescribed"}
         /\ progress \in {"reading", "booting", "profiling"} =>
              undescribed = {s \in Natives : reading[s] = "undescribed"}
         /\ progress \in {"closing", "returned", "thrown"} =>
              undescribed \cup described = Natives /\ undescribed \cap described = {}

\* Nothing is kept after the end.
AllSettled == progress \in {"returned", "thrown"} => \A k \in Connections : MountSettled(k)

DescribeInv == PlanInv /\ IoTypes /\ Planned /\ Answering /\ AllSettled

\* While nothing is learnt of the columns and counts, the asks that follow from them stay.
LEMMA SameAsks ==
    ASSUME UNCHANGED <<data, options, states, described, counts>>
    PROVE  /\ Columns' = Columns /\ WithColumns' = WithColumns /\ InclusionAsks' = InclusionAsks
           /\ \A from, to : Holds(from, to)' <=> Holds(from, to)
           /\ \A s : Counted(s)' = Counted(s)
  <1>1. \A s : ColumnsOf(s)' = ColumnsOf(s)
    BY DEF ColumnsOf
  <1>2. Columns' = Columns /\ WithColumns' = WithColumns
    BY <1>1 DEF Columns, WithColumns
  <1>3. \A c : CandidateKey(c)' <=> CandidateKey(c)
    BY DEF CandidateKey, HasCounts, Rows, Nulls, Distinct, Primitive
  <1>4. \A b, c : Inclusions(b, c)' <=> Inclusions(b, c)
    BY DEF Inclusions, HasValues, HasCounts, Rows, Nulls, Primitive
  <1>5. InclusionAsks' = InclusionAsks
    BY <1>2, <1>3, <1>4 DEF InclusionAsks
  <1>6. \A s : RowsRead(s)' = RowsRead(s)
    BY DEF RowsRead
  <1>7. \A c, rows : Values(c, rows)' = Values(c, rows) /\ NullsIn(c, rows)' = NullsIn(c, rows)
    BY DEF Values, NullsIn
  <1>8. \A from, to : Holds(from, to)' <=> Holds(from, to)
    BY <1>6, <1>7 DEF Holds
  <1>9. \A s : Counted(s)' = Counted(s)
    BY <1>6, <1>7 DEF Counted
  <1> QED BY <1>2, <1>5, <1>8, <1>9

\* An inclusion's ask is of two columns, and says which.
LEMMA InclusionAsked ==
    /\ \A a \in InclusionAsks : \E from, to \in Columns : a = AskOf(from, to)
    /\ \A from, to, b, c : AskOf(from, to) = AskOf(b, c) => from = b /\ to = c
    /\ \A from, to : AskOf(from, to).kind = "inclusion"
    /\ \A from, to : AskOf(from, to) \in InclusionAsks <=>
         from \in Columns /\ to \in Columns /\ CandidateKey(to) /\ Inclusions(from, to)
  <1>1. \A a \in InclusionAsks : \E from, to \in Columns : a = AskOf(from, to)
    BY DEF InclusionAsks, AskOf
  <1>2. \A from, to, b, c : AskOf(from, to) = AskOf(b, c) => from = b /\ to = c
    <2> TAKE from, to, b, c
    <2>1. /\ AskOf(from, to).from = from /\ AskOf(from, to).to = to
          /\ AskOf(b, c).from = b /\ AskOf(b, c).to = c
      BY DEF AskOf
    <2> QED BY <2>1
  <1>3. \A from, to : AskOf(from, to).kind = "inclusion"
    BY DEF AskOf
  <1>4. ASSUME NEW from, NEW to, AskOf(from, to) \in InclusionAsks
        PROVE  from \in Columns /\ to \in Columns /\ CandidateKey(to) /\ Inclusions(from, to)
    <2>1. PICK p \in Columns \X Columns :
            CandidateKey(p[2]) /\ Inclusions(p[1], p[2]) /\ AskOf(from, to) = AskOf(p[1], p[2])
      BY <1>4 DEF InclusionAsks, AskOf
    <2>2. from = p[1] /\ to = p[2]
      BY <1>2, <2>1
    <2> QED BY <2>1, <2>2
  <1>5. ASSUME NEW from \in Columns, NEW to \in Columns, CandidateKey(to), Inclusions(from, to)
        PROVE  AskOf(from, to) \in InclusionAsks
    <2>1. <<from, to>> \in {p \in Columns \X Columns : CandidateKey(p[2]) /\ Inclusions(p[1], p[2])}
      BY <1>5
    <2> QED BY <2>1 DEF InclusionAsks, AskOf
  <1> QED BY <1>1, <1>2, <1>3, <1>4, <1>5

\* A source with columns is described.
LEMMA WithColumnsDescribed == WithColumns \subseteq described \cap states
  BY DEF WithColumns, ColumnsOf


\* The asks of each phase are of one kind.
LEMMA KindOfAsk ==
    ASSUME PlanTypes, NEW a \in pending
    PROVE  /\ phase # "done"
           /\ phase = "describe"   => a.kind = "describe" /\ a.of \in states /\ a = [kind |-> "describe", of |-> a.of]
           /\ phase = "stats"      => a.kind = "counts" /\ a.of \in WithColumns
           /\ phase = "top"        => a.kind = "top" /\ a.of \in Columns
           /\ phase = "inclusions" => \E from, to \in Columns : a = AskOf(from, to)
           /\ phase = "sample"     => a.kind = "sample" /\ a.of \in WithColumns
  <1>1. a \in AsksOf(phase) /\ phase \in Phases
    BY DEF PlanTypes
  <1>2. phase # "done" /\ (phase = "describe" => a \in [kind : {"describe"}, of : states])
    BY <1>1 DEF AsksOf
  <1>3. phase = "stats" => a \in [kind : {"counts"}, of : WithColumns]
    BY <1>1 DEF AsksOf
  <1>4. phase = "top" => a \in [kind : {"top"}, of : Columns]
    BY <1>1 DEF AsksOf
  <1>5. phase = "inclusions" => a \in InclusionAsks
    BY <1>1 DEF AsksOf
  <1>6. phase = "sample" => a \in [kind : {"sample"}, of : WithColumns]
    BY <1>1 DEF AsksOf
  <1> QED BY <1>2, <1>3, <1>4, <1>5, <1>6, InclusionAsked

\* The source an ask's failure is put on is one of the plan's.
LEMMA BlamedIsPlanned ==
    ASSUME PlanTypes, NEW a \in pending
    PROVE  Blamed(a) \in states
  <1>1. \A c \in Columns : c[1] \in states
    BY DEF Columns, ColumnsOf
  <1>2. phase \in {"describe", "stats", "top", "inclusions", "sample"}
    BY KindOfAsk DEF PlanTypes, Phases
  <1>3. CASE phase \in {"describe", "stats", "sample"}
    BY <1>3, KindOfAsk, WithColumnsDescribed DEF Blamed
  <1>4. CASE phase = "top"
    BY <1>1, <1>4, KindOfAsk DEF Blamed
  <1>5. CASE phase = "inclusions"
    <2>1. PICK from, to \in Columns : a = AskOf(from, to)
      BY <1>5, KindOfAsk
    <2>2. a.kind = "inclusion" /\ a.from = from
      BY <2>1 DEF AskOf
    <2> QED BY <1>1, <2>2 DEF Blamed
  <1> QED BY <1>2, <1>3, <1>4, <1>5

\* A plan nobody touches stays as it is.
LEMMA PlanRests == ASSUME PlanInv, UNCHANGED plan PROVE PlanInv'
  <1>1. UNCHANGED <<data, options, states, phase, queue, pending, described, counts, top, inclusions,
                    sampled, failed, lost>>
    BY DEF plan
  <1>2. /\ Columns' = Columns /\ WithColumns' = WithColumns /\ InclusionAsks' = InclusionAsks
        /\ \A from, to : Holds(from, to)' <=> Holds(from, to)
        /\ \A s : Counted(s)' = Counted(s)
    BY <1>1, SameAsks
  <1>3. AsksOf(phase)' = AsksOf(phase)
    BY <1>1, <1>2 DEF AsksOf
  <1>4. PlanTypes'
    BY <1>1, <1>3 DEF PlanInv, PlanTypes
  <1>5. Truthful'
    BY <1>1, <1>2 DEF PlanInv, Truthful
  <1>6. Described' /\ Shallow'
    BY <1>1 DEF PlanInv, Described, Shallow
  <1>7. Found'
    BY <1>1, <1>2 DEF PlanInv, Found
  <1> QED BY <1>4, <1>5, <1>6, <1>7 DEF PlanInv

\* An ask that is over, with what was learnt of no column and no count.
LEMMA AskOver ==
    ASSUME PlanInv, NEW a \in Out, pending' = pending \ {a},
           UNCHANGED <<data, options, states, phase, queue, described, counts, sampled>>,
           failed \subseteq failed' /\ failed' \subseteq states,
           phase = "describe" => a.of \in failed',
           Found'
    PROVE  PlanInv'
  <1>1. /\ Columns' = Columns /\ WithColumns' = WithColumns /\ InclusionAsks' = InclusionAsks
        /\ \A s : Counted(s)' = Counted(s)
    BY SameAsks
  <1>2. AsksOf(phase)' = AsksOf(phase)
    BY <1>1 DEF AsksOf
  <1>3. PlanTypes'
    BY <1>2 DEF PlanInv, PlanTypes, Out
  <1>4. Truthful' /\ Shallow'
    BY <1>1 DEF PlanInv, Truthful, Shallow
  <1>5. Described'
    <2> SUFFICES ASSUME NEW s \in states
                 PROVE  \/ s \in described \/ s \in failed'
                        \/ phase = "describe" /\ [kind |-> "describe", of |-> s] \in pending \ {a}
      BY DEF Described
    <2>1. CASE s \in described \/ s \in failed
      BY <2>1
    <2>2. CASE phase = "describe" /\ [kind |-> "describe", of |-> s] \in pending
      <3>1. CASE [kind |-> "describe", of |-> s] = a
        <4>1. a.of = s
          BY <3>1
        <4> QED BY <2>2, <4>1
      <3>2. CASE [kind |-> "describe", of |-> s] # a
        BY <2>2, <3>2
      <3> QED BY <3>1, <3>2
    <2> QED BY <2>1, <2>2 DEF PlanInv, Described
  <1> QED BY <1>3, <1>4, <1>5 DEF PlanInv

\* An ask that ends without an answer is lost, and with it its inclusion.
LEMMA LosesFound ==
    ASSUME PlanInv, NEW a \in Out, pending' = pending \ {a}, lost' = lost \cup {a},
           UNCHANGED <<data, options, states, phase, described, counts, inclusions>>
    PROVE  Found'
  <1>1. /\ Columns' = Columns /\ InclusionAsks' = InclusionAsks
        /\ \A from, to : Holds(from, to)' <=> Holds(from, to)
    BY SameAsks
  <1>2. pending' \cup lost' = pending \cup lost
    BY DEF Out
  <1>3. phase \in {"describe", "stats", "top"} \/ options.depth = "types" => a.kind # "inclusion"
    BY KindOfAsk DEF PlanInv, Out, Shallow
  <1>4. inclusions' \subseteq Columns' \X Columns'
    BY <1>1 DEF PlanInv, Found
  <1>5. phase' \in {"describe", "stats", "top"} \/ options'.depth = "types" =>
          inclusions' = {} /\ \A b \in lost' : b.kind # "inclusion"
    BY <1>3 DEF PlanInv, Found
  <1>6. phase' \in {"inclusions", "sample", "done"} /\ options'.depth = "whole" =>
          \A from, to \in Columns' :
             <<from, to>> \in inclusions' <=>
                 /\ AskOf(from, to) \in InclusionAsks' /\ AskOf(from, to) \notin pending' \cup lost'
                 /\ Holds(from, to)'
    BY <1>1, <1>2 DEF PlanInv, Found
  <1>7. \A b \in pending' \cap lost' : b.kind # "inclusion"
    BY DEF PlanInv, Found, Out
  <1> QED BY <1>4, <1>5, <1>6, <1>7 DEF Found, AskOf

\* fail: the source is blamed, and what was asked stays unknown.
LEMMA Fails == ASSUME PlanInv, NEW a \in pending, Fail(a) PROVE PlanInv'
  <1>1. /\ a \in Out /\ pending' = pending \ {a} /\ lost' = lost \cup {a} /\ failed' = failed \cup {Blamed(a)}
        /\ UNCHANGED <<data, options, states, phase, queue, described, counts, top, inclusions, sampled>>
    BY DEF Fail
  <1>2. Blamed(a) \in states
    BY BlamedIsPlanned DEF PlanInv
  <1>3. phase = "describe" => Blamed(a) = a.of
    BY KindOfAsk DEF PlanInv, Blamed
  <1>4. Found'
    BY <1>1, LosesFound
  <1>5. failed' \subseteq states
    BY <1>1, <1>2 DEF PlanInv, PlanTypes
  <1> QED BY <1>1, <1>3, <1>4, <1>5, AskOver

\* feed of no row: nobody is blamed, and what was asked stays unknown.
LEMMA FeedsNothing == ASSUME PlanInv, NEW a \in pending, FeedNothing(a) PROVE PlanInv'
  <1>1. /\ a \in Out /\ pending' = pending \ {a} /\ lost' = lost \cup {a} /\ a.kind \in {"counts", "inclusion"}
        /\ UNCHANGED <<data, options, states, phase, queue, described, counts, top, inclusions, sampled, failed>>
    BY DEF FeedNothing
  <1>2. phase # "describe"
    BY <1>1, KindOfAsk DEF PlanInv
  <1>3. Found'
    BY <1>1, LosesFound
  <1>4. failed \subseteq states
    BY DEF PlanInv, PlanTypes
  <1> QED BY <1>1, <1>2, <1>3, <1>4, AskOver


\* feed: what a row teaches is true, and is of the phase that asked.
LEMMA Feeds == ASSUME PlanInv, NEW a \in pending, Feed(a) PROVE PlanInv'
  <1>1. /\ a \in Out /\ pending' = pending \ {a} /\ Learn(a)
        /\ UNCHANGED <<data, options, states, phase, queue, failed, lost>>
    BY DEF Feed
  <1>t. PlanTypes /\ phase \in Phases /\ phase # "done"
    BY KindOfAsk DEF PlanInv, PlanTypes
  <1>f. failed \subseteq states
    BY <1>t DEF PlanTypes
  <1>2. CASE phase = "describe"
    <2>1. /\ described' = described \cup {a.of}
          /\ UNCHANGED <<counts, top, inclusions, sampled>>
      BY <1>1, <1>2, <1>t, KindOfAsk DEF Learn
    <2>2. a.of \in states /\ a = [kind |-> "describe", of |-> a.of]
      BY <1>2, <1>t, KindOfAsk
    <2>3. AsksOf(phase)' = AsksOf(phase)
      BY <1>1, <1>2 DEF AsksOf
    <2>4. PlanTypes'
      BY <1>1, <1>t, <2>1, <2>2, <2>3 DEF PlanTypes, Out
    <2>5. \A s : Counted(s)' = Counted(s)
      BY <1>1 DEF Counted, RowsRead, NullsIn, Values
    <2>6. Truthful'
      BY <2>1, <2>5 DEF PlanInv, Truthful
    <2>7. Described'
      <3> SUFFICES ASSUME NEW s \in states, s \notin described'
                   PROVE  s \in failed \/ [kind |-> "describe", of |-> s] \in pending \ {a}
        BY <1>1, <1>2 DEF Described
      <3>1. s # a.of /\ s \notin described
        BY <2>1
      <3>2. [kind |-> "describe", of |-> s] # a
        <4>1. [kind |-> "describe", of |-> s].of = s
          OBVIOUS
        <4> QED BY <3>1, <4>1
      <3> QED BY <3>1, <3>2 DEF PlanInv, Described
    <2>8. Found'
      BY <1>1, <1>2, <2>1 DEF PlanInv, Found
    <2> QED BY <1>1, <2>4, <2>6, <2>7, <2>8 DEF PlanInv, Shallow
  <1>3. CASE phase = "stats"
    <2>1. /\ counts' = [s \in DOMAIN counts \cup {a.of} |-> IF s = a.of THEN Counted(s) ELSE counts[s]]
          /\ UNCHANGED <<described, top, inclusions, sampled>>
      BY <1>1, <1>3, <1>t, KindOfAsk DEF Learn
    <2>2. a.of \in described
      BY <1>3, <1>t, KindOfAsk, WithColumnsDescribed
    <2>3. WithColumns' = WithColumns
      BY <1>1, <2>1 DEF WithColumns, ColumnsOf
    <2>4. AsksOf(phase)' = AsksOf(phase)
      BY <1>1, <1>3, <2>3 DEF AsksOf
    <2>5. PlanTypes'
      BY <1>1, <1>t, <2>1, <2>2, <2>4 DEF PlanTypes, Out
    <2>6. \A s : Counted(s)' = Counted(s)
      BY <1>1 DEF Counted, RowsRead, NullsIn, Values
    <2>7. Truthful'
      BY <2>1, <2>6 DEF PlanInv, Truthful
    <2>8. Described'
      BY <1>1, <1>3, <2>1 DEF PlanInv, Described
    <2>9. Found'
      BY <1>1, <1>3, <2>1 DEF PlanInv, Found
    <2> QED BY <1>1, <2>5, <2>7, <2>8, <2>9 DEF PlanInv, Shallow
  <1>4. CASE phase \in {"top", "sample"}
    <2>1. UNCHANGED <<described, counts, inclusions>>
      BY <1>1, <1>4, <1>t, KindOfAsk DEF Learn
    <2>2. sampled' = sampled \/ (sampled' = sampled \cup {a.of} /\ a.of \in described)
      BY <1>1, <1>4, <1>t, KindOfAsk, WithColumnsDescribed DEF Learn
    <2>3. /\ Columns' = Columns /\ WithColumns' = WithColumns /\ InclusionAsks' = InclusionAsks
          /\ \A from, to : Holds(from, to)' <=> Holds(from, to)
          /\ \A s : Counted(s)' = Counted(s)
      BY <1>1, <2>1, SameAsks
    <2>4. AsksOf(phase)' = AsksOf(phase)
      BY <1>1, <2>3 DEF AsksOf
    <2>5. PlanTypes'
      BY <1>1, <1>t, <2>1, <2>2, <2>4 DEF PlanTypes, Out
    <2>6. Truthful' /\ Described' /\ Shallow'
      BY <1>1, <1>4, <2>1, <2>3 DEF PlanInv, Truthful, Described, Shallow
    <2>7. \A from, to : AskOf(from, to) # a
      BY <1>4, <1>t, KindOfAsk, InclusionAsked
    <2>8. \A from, to : AskOf(from, to) \in pending' \cup lost' <=> AskOf(from, to) \in pending \cup lost
      BY <1>1, <2>7
    <2>9. Found'
      <3>1. UNCHANGED <<phase, options, inclusions, lost>>
        BY <1>1, <2>1
      <3>2. \A from, to : AskOf(from, to)' = AskOf(from, to)
        BY DEF AskOf
      <3>3. \A b \in pending' \cap lost' : b.kind # "inclusion"
        BY <1>1 DEF PlanInv, Found
      <3> QED BY <2>3, <2>8, <3>1, <3>2, <3>3 DEF PlanInv, Found
    <2> QED BY <2>5, <2>6, <2>9 DEF PlanInv
  <1>5. CASE phase = "inclusions"
    <2>1. PICK from, to \in Columns : a = AskOf(from, to)
      BY <1>5, <1>t, KindOfAsk
    <2>2. a.kind = "inclusion" /\ a.from = from /\ a.to = to
      BY <2>1 DEF AskOf
    <2>3. /\ UNCHANGED <<described, counts, sampled>>
          /\ inclusions' = IF Holds(from, to) THEN inclusions \cup {<<from, to>>} ELSE inclusions
      BY <1>1, <2>2 DEF Learn
    <2>4. /\ Columns' = Columns /\ InclusionAsks' = InclusionAsks
          /\ \A b, c : Holds(b, c)' <=> Holds(b, c)
      BY <1>1, <2>3, SameAsks
    <2>5. a \notin lost
      BY <2>2 DEF PlanInv, Found
    <2>6. a \in InclusionAsks
      BY <1>5, <1>t DEF PlanTypes, AsksOf
    <2>7. inclusions' \subseteq Columns' \X Columns'
      BY <2>1, <2>3, <2>4 DEF PlanInv, Found
    <2>8. options.depth # "types"
      BY <1>5 DEF PlanInv, Shallow
    <2>9. ASSUME options.depth = "whole", NEW b \in Columns, NEW c \in Columns
          PROVE  <<b, c>> \in inclusions' <=>
                   /\ AskOf(b, c) \in InclusionAsks /\ AskOf(b, c) \notin pending' \cup lost'
                   /\ Holds(b, c)
      <3>1. <<b, c>> \in inclusions <=>
              /\ AskOf(b, c) \in InclusionAsks /\ AskOf(b, c) \notin pending \cup lost
              /\ Holds(b, c)
        BY <1>5, <2>9 DEF PlanInv, Found
      <3>2. CASE b = from /\ c = to
        BY <1>1, <2>1, <2>3, <2>5, <2>6, <3>1, <3>2
      <3>3. CASE ~(b = from /\ c = to)
        <4>1. AskOf(b, c) # a
          BY <2>1, <3>3, InclusionAsked
        <4>2. <<b, c>> \in inclusions' <=> <<b, c>> \in inclusions
          BY <2>3, <3>3
        <4> QED BY <1>1, <3>1, <4>1, <4>2
      <3> QED BY <3>2, <3>3
    <2>10. Found'
      <3>1. \A b, c : AskOf(b, c)' = AskOf(b, c)
        BY DEF AskOf
      <3>2. \A b \in pending' \cap lost' : b.kind # "inclusion"
        BY <1>1 DEF PlanInv, Found
      <3> QED BY <1>1, <1>5, <2>4, <2>7, <2>8, <2>9, <3>1, <3>2 DEF Found
    <2>11. AsksOf(phase)' = AsksOf(phase)
      BY <1>1, <1>5, <2>4 DEF AsksOf
    <2>12. PlanTypes'
      BY <1>1, <1>t, <2>3, <2>11 DEF PlanTypes, Out
    <2>13. \A s : Counted(s)' = Counted(s)
      BY <1>1, <2>3, SameAsks
    <2>14. Truthful' /\ Described' /\ Shallow'
      BY <1>1, <1>5, <2>3, <2>13 DEF PlanInv, Truthful, Described, Shallow
    <2> QED BY <2>10, <2>12, <2>14 DEF PlanInv
  <1> QED BY <1>2, <1>3, <1>4, <1>5, <1>t DEF Phases


\* next_ask with the queue full: what is handed out is still awaited.
LEMMA HandsOut == ASSUME PlanInv, HandOut PROVE PlanInv'
  <1>1. /\ queue' = {}
        /\ UNCHANGED <<data, options, states, phase, pending, described, counts, top, inclusions,
                       sampled, failed, lost>>
    BY DEF HandOut
  <1>2. /\ Columns' = Columns /\ WithColumns' = WithColumns /\ InclusionAsks' = InclusionAsks
        /\ \A from, to : Holds(from, to)' <=> Holds(from, to)
        /\ \A s : Counted(s)' = Counted(s)
    BY <1>1, SameAsks
  <1>3. AsksOf(phase)' = AsksOf(phase)
    BY <1>1, <1>2 DEF AsksOf
  <1>4. PlanTypes'
    BY <1>1, <1>3 DEF PlanInv, PlanTypes
  <1>5. Truthful' /\ Described' /\ Shallow'
    BY <1>1, <1>2 DEF PlanInv, Truthful, Described, Shallow
  <1>6. \A from, to : AskOf(from, to)' = AskOf(from, to)
    BY DEF AskOf
  <1>7. Found'
    BY <1>1, <1>2, <1>6 DEF PlanInv, Found
  <1> QED BY <1>4, <1>5, <1>7 DEF PlanInv

\* The phase is over, and the next one's asks follow from what was learnt.
LEMMA Advances == ASSUME PlanInv, Advance PROVE PlanInv'
  <1>1. /\ queue = {} /\ pending = {} /\ phase # "done"
        /\ UNCHANGED <<data, options, states, described, counts, top, inclusions, sampled, failed, lost>>
    BY DEF Advance
  <1>2. /\ Columns' = Columns /\ WithColumns' = WithColumns /\ InclusionAsks' = InclusionAsks
        /\ \A from, to : Holds(from, to)' <=> Holds(from, to)
        /\ \A s : Counted(s)' = Counted(s)
    BY <1>1, SameAsks
  <1>3. \A from, to : AskOf(from, to)' = AskOf(from, to)
    BY DEF AskOf
  <1>4. options.depth \in {"types", "whole"}
    BY ProfilerAssumption DEF PlanInv, PlanTypes, ProfilerAssumption
  <1>5. phase' \in Phases /\ phase' # "describe" /\ queue' = pending' /\ pending' \subseteq AsksOf(phase)'
    <2>1. CASE Ask("done", {})
      BY <2>1 DEF Ask, Phases
    <2>2. CASE Ask("stats", [kind : {"counts"}, of : WithColumns])
      BY <1>2, <2>2 DEF Ask, Phases, AsksOf
    <2>3. CASE Ask("top", [kind : {"top"}, of : {c \in Columns : Repeats(c)}])
      <3>1. [kind : {"top"}, of : {c \in Columns : Repeats(c)}] \subseteq [kind : {"top"}, of : Columns]
        OBVIOUS
      <3> QED BY <1>2, <2>3, <3>1 DEF Ask, Phases, AsksOf
    <2>4. CASE Ask("inclusions", InclusionAsks)
      BY <1>2, <2>4 DEF Ask, Phases, AsksOf
    <2>5. CASE Ask("sample", [kind : {"sample"}, of : IF options.shown = 0 THEN {} ELSE WithColumns])
      <3>1. [kind : {"sample"}, of : IF options.shown = 0 THEN {} ELSE WithColumns]
              \subseteq [kind : {"sample"}, of : WithColumns]
        BY SMT
      <3> QED BY <1>2, <2>5, <3>1 DEF Ask, Phases, AsksOf
    <2> QED BY <2>1, <2>2, <2>3, <2>4, <2>5 DEF Advance
  <1>6. PlanTypes'
    BY <1>1, <1>5 DEF PlanInv, PlanTypes
  <1>7. Truthful'
    BY <1>1, <1>2 DEF PlanInv, Truthful
  <1>8. Described'
    BY <1>1 DEF PlanInv, Described
  <1>9. Shallow'
    BY <1>1 DEF PlanInv, Shallow, Advance, Ask
  <1>10. Found'
    <2>1. CASE phase = "top"
      <3>1. /\ phase' = "inclusions" /\ pending' = InclusionAsks
            /\ inclusions = {} /\ \A a \in lost : a.kind # "inclusion"
        BY <1>1, <2>1 DEF PlanInv, Found, Advance, Ask
      <3>2. options.depth # "types"
        BY <2>1 DEF PlanInv, Shallow
      <3> QED BY <1>1, <1>2, <1>3, <3>1, <3>2 DEF Found
    <2>2. CASE phase \in {"describe", "stats"} \/ options.depth = "types"
      <3>1. inclusions = {} /\ \A a \in lost : a.kind # "inclusion"
        BY <2>2 DEF PlanInv, Found
      <3>2. phase' \in {"stats", "top"} \/ options.depth = "types"
        BY <1>4, <2>2 DEF PlanInv, Shallow, Advance, Ask
      <3> QED BY <1>1, <1>4, <3>1, <3>2 DEF Found
    <2>3. CASE phase \in {"inclusions", "sample"} /\ options.depth = "whole"
      <3>1. phase' \in {"sample", "done"}
        BY <2>3 DEF Advance, Ask
      <3>2. \A a \in pending' : a.kind # "inclusion"
        <4>1. PICK S : pending' = [kind : {"sample"}, of : S] \/ pending' = {}
          BY <2>3 DEF Advance, Ask
        <4>2. \A a \in [kind : {"sample"}, of : S] : a.kind = "sample"
          OBVIOUS
        <4> QED BY <4>1, <4>2
      <3>3. \A from, to : AskOf(from, to) \notin pending'
        BY <3>2, InclusionAsked
      <3> QED BY <1>1, <1>2, <1>3, <2>3, <3>1, <3>2, <3>3 DEF PlanInv, Found
    <2> QED BY <1>1, <1>4, <2>1, <2>2, <2>3 DEF PlanInv, PlanTypes, Phases
  <1> QED BY <1>6, <1>7, <1>8, <1>9, <1>10 DEF PlanInv

\* A plan over no source yet, and one just made.
LEMMA PlanStarts ==
    /\ Unplanned /\ data \in Datas /\ options \in Options => PlanInv
    /\ \A sources \in SUBSET Sources :
         PlanInv /\ Unplanned /\ New(sources) => PlanInv' /\ states' = sources
  <1>1. ASSUME Unplanned, data \in Datas, options \in Options PROVE PlanInv
    <2>1. DOMAIN counts = {} /\ Columns = {}
      BY <1>1 DEF Unplanned, Columns
    <2>2. PlanTypes
      BY <1>1, <2>1 DEF Unplanned, PlanTypes, Phases
    <2> QED BY <1>1, <2>1, <2>2 DEF Unplanned, PlanInv, Truthful, Described, Found, Shallow
  <1>2. ASSUME NEW sources \in SUBSET Sources, PlanInv, Unplanned, New(sources)
        PROVE  PlanInv' /\ states' = sources
    <2>1. /\ states' = sources /\ queue' = pending' /\ pending' = [kind : {"describe"}, of : sources]
          /\ UNCHANGED <<data, options, phase, described, counts, top, inclusions, sampled, failed, lost>>
      BY <1>2 DEF New
    <2>2. /\ phase = "describe" /\ described = {} /\ failed = {} /\ sampled = {} /\ lost = {}
          /\ inclusions = {} /\ DOMAIN counts = {}
      BY <1>2 DEF Unplanned
    <2>3. PlanTypes'
      BY <1>2, <2>1, <2>2 DEF PlanInv, PlanTypes, AsksOf
    <2>4. Described'
      BY <2>1, <2>2 DEF Described
    <2> QED BY <2>1, <2>2, <2>3, <2>4 DEF PlanInv, Truthful, Found, Shallow
  <1> QED BY <1>1, <1>2


(***************************************************************************)
(* What is counted, and what the counts say.                               *)
(***************************************************************************)

\* The rows a query reads are some of the file's, and finitely many.
LEMMA RowsAreFinite ==
    ASSUME PlanTypes, NEW s \in Sources
    PROVE  IsFiniteSet(RowsRead(s)) /\ RowsRead(s) \subseteq DOMAIN data[s].rows
  <1>1. data[s].rows \in Seq(Range(data[s].rows)) /\ options.sample \in Nat
    BY ProfilerAssumption DEF PlanTypes, ProfilerAssumption
  <1>2. PICK n \in Nat : DOMAIN data[s].rows = 1 .. n /\ n = Len(data[s].rows)
    BY <1>1
  <1>3. RowsRead(s) \subseteq 1 .. n
    BY <1>1, <1>2 DEF RowsRead
  <1>4. IsFiniteSet(1 .. n)
    BY FS_Interval
  <1> QED BY <1>2, <1>3, <1>4, FS_Subset

\* As many different values as rows, and no row without one: no value is there twice.
LEMMA DistinctIsInjective ==
    ASSUME NEW R, IsFiniteSet(R), NEW cells, DOMAIN cells = R, cells = [r \in R |-> cells[r]],
           \A r \in R : cells[r] # Null
    PROVE  Cardinality({cells[r] : r \in R} \ {Null}) = Cardinality(R)
             <=> \A r, q \in R : cells[r] = cells[q] => r = q
  <1> DEFINE T == {cells[r] : r \in R}
  <1>1. T \ {Null} = T
    OBVIOUS
  <1>2. cells \in [R -> T]
    OBVIOUS
  <1>3. cells \in Surjection(R, T)
    BY <1>2 DEF Surjection
  <1>4. Cardinality(T) = Cardinality(R) <=> cells \in Injection(R, T)
    BY <1>3, FS_Surjection
  <1>5. cells \in Injection(R, T) <=> \A r, q \in R : cells[r] = cells[q] => r = q
    BY <1>2 DEF Injection, IsInjective
  <1> QED BY <1>1, <1>4, <1>5

\* candidate_keys finds the keys of the rows read, and no other.
LEMMA KeysAreKeys ==
    ASSUME PlanInv, NEW col \in Columns, HasCounts(col)
    PROVE  CandidateKey(col) <=> TrueKey(col)
  <1>1. PICK s \in states : s \in described /\ col \in {<<s, c>> : c \in DOMAIN data[s].types}
    BY DEF Columns, ColumnsOf
  <1>2. PICK c \in DOMAIN data[s].types : col = <<s, c>>
    BY <1>1
  <1>3. col[1] = s /\ col[2] = c /\ s \in Sources /\ s \in DOMAIN counts
    BY <1>2 DEF HasCounts, PlanInv, PlanTypes
  <1>4. counts[s] = Counted(s)
    BY <1>3 DEF PlanInv, Truthful
  <1> DEFINE R == RowsRead(s)
             cells == [r \in R |-> data[s].rows[r][c]]
  <1>5. IsFiniteSet(R)
    BY <1>3, RowsAreFinite DEF PlanInv
  <1>6. /\ Rows(col) = Cardinality(R)
        /\ Nulls(col) = Cardinality(NullsIn(<<s, c>>, R))
        /\ Distinct(col) = Cardinality(Values(<<s, c>>, R))
    BY <1>3, <1>4 DEF Rows, Nulls, Distinct, Counted
  <1>7. NullsIn(<<s, c>>, R) = {r \in R : cells[r] = Null}
    BY DEF NullsIn
  <1>8. Values(<<s, c>>, R) = {cells[r] : r \in R} \ {Null}
    BY DEF Values
  <1>9. Rows(col) > 0 <=> R # {}
    BY <1>5, <1>6, FS_EmptySet, FS_CardinalityType
  <1>10. Nulls(col) = 0 <=> \A r \in R : cells[r] # Null
    <2>1. IsFiniteSet(NullsIn(<<s, c>>, R))
      BY <1>5, <1>7, FS_Subset
    <2>2. Nulls(col) = 0 <=> NullsIn(<<s, c>>, R) = {}
      BY <1>6, <2>1, FS_EmptySet
    <2> QED BY <1>7, <2>2
  <1>11. (\A r \in R : cells[r] # Null) =>
           (Distinct(col) = Rows(col) <=> \A r, q \in R : cells[r] = cells[q] => r = q)
    <2> SUFFICES ASSUME \A r \in R : cells[r] # Null
                 PROVE  Cardinality({cells[r] : r \in R} \ {Null}) = Cardinality(R)
                          <=> \A r, q \in R : cells[r] = cells[q] => r = q
      BY <1>6, <1>8
    <2>1. DOMAIN cells = R /\ cells = [r \in R |-> cells[r]]
      OBVIOUS
    <2> HIDE DEF cells, R
    <2> QED BY <1>5, <2>1, DistinctIsInjective
  <1>12. TrueKey(col) <=>
           /\ R # {} /\ Primitive(col) \notin Unkeyable
           /\ \A r \in R : cells[r] # Null
           /\ \A r, q \in R : cells[r] = cells[q] => r = q
    BY <1>3 DEF TrueKey
  <1> HIDE DEF cells, R
  <1> QED BY <1>9, <1>10, <1>11, <1>12 DEF CandidateKey

\* A column whose values lie in another's has values.
LEMMA HeldHasValues ==
    ASSUME PlanInv, NEW from \in Columns, NEW to, HasCounts(from), Holds(from, to)
    PROVE  HasValues(from)
  <1>1. PICK s \in states : s \in described /\ from \in {<<s, c>> : c \in DOMAIN data[s].types}
    BY DEF Columns, ColumnsOf
  <1>2. PICK c \in DOMAIN data[s].types : from = <<s, c>>
    BY <1>1
  <1>3. from[1] = s /\ from[2] = c /\ s \in Sources /\ s \in DOMAIN counts
    BY <1>2 DEF HasCounts, PlanInv, PlanTypes
  <1>4. counts[s] = Counted(s)
    BY <1>3 DEF PlanInv, Truthful
  <1> DEFINE R == RowsRead(s)
             N == NullsIn(<<s, c>>, R)
  <1>5. IsFiniteSet(R)
    BY <1>3, RowsAreFinite DEF PlanInv
  <1>6. Rows(from) = Cardinality(R) /\ Nulls(from) = Cardinality(N)
    BY <1>3, <1>4 DEF Rows, Nulls, Counted
  <1>7. Values(<<s, c>>, R) # {}
    BY <1>2, <1>3 DEF Holds
  <1>8. PICK r \in R : data[s].rows[r][c] # Null
    BY <1>7 DEF Values
  <1>9. N \in SUBSET R /\ N # R
    BY <1>8 DEF NullsIn
  <1> HIDE DEF N, R
  <1>10. Cardinality(N) \in Nat /\ Cardinality(R) \in Nat /\ Cardinality(N) <= Cardinality(R)
         /\ Cardinality(N) # Cardinality(R)
    BY <1>5, <1>9, FS_Subset, FS_CardinalityType
  <1> QED BY <1>6, <1>10 DEF HasValues

\* What the plan has found when it is done is what holds of the rows.
LEMMA FoundIsExact == PlanInv => ProfileExact
  <1> SUFFICES ASSUME PlanInv, phase = "done", options.depth = "whole"
               PROVE  inclusions =
                        {p \in Columns \X Columns :
                            /\ p[1] # p[2] /\ Primitive(p[1]) = Primitive(p[2])
                            /\ TrueKey(p[2]) /\ Holds(p[1], p[2]) /\ Known(p[1], p[2])}
    BY DEF ProfileExact
  <1>1. pending = {}
    BY DEF PlanInv, PlanTypes, AsksOf
  <1>2. ASSUME NEW from \in Columns, NEW to \in Columns
        PROVE  <<from, to>> \in inclusions <=>
                 /\ from # to /\ Primitive(from) = Primitive(to)
                 /\ TrueKey(to) /\ Holds(from, to) /\ Known(from, to)
    <2>1. <<from, to>> \in inclusions <=>
            /\ CandidateKey(to) /\ Inclusions(from, to) /\ AskOf(from, to) \notin lost
            /\ Holds(from, to)
      BY <1>1, <1>2, InclusionAsked DEF PlanInv, Found
    <2>2. Known(from, to) <=> HasCounts(from) /\ HasCounts(to) /\ AskOf(from, to) \notin lost
      <3>1. DOMAIN counts \subseteq described
        BY DEF PlanInv, PlanTypes
      <3> QED BY <3>1 DEF Known, HasCounts, AskOf
    <2>3. CandidateKey(to) => HasCounts(to)
      BY DEF CandidateKey
    <2>4. HasCounts(to) => (CandidateKey(to) <=> TrueKey(to))
      BY KeysAreKeys
    <2>5. Inclusions(from, to) <=> Primitive(from) = Primitive(to) /\ from # to /\ HasValues(from)
      BY DEF Inclusions
    <2>6. HasValues(from) => HasCounts(from)
      BY DEF HasValues
    <2>7. HasCounts(from) /\ Holds(from, to) => HasValues(from)
      BY HeldHasValues
    <2> QED BY <2>1, <2>2, <2>3, <2>4, <2>5, <2>6, <2>7
  <1>3. inclusions \subseteq Columns \X Columns
    BY DEF PlanInv, Found
  <1>4. \A p \in Columns \X Columns : p = <<p[1], p[2]>> /\ p[1] \in Columns /\ p[2] \in Columns
    OBVIOUS
  <1>5. \A p \in Columns \X Columns :
          p \in inclusions <=>
            /\ p[1] # p[2] /\ Primitive(p[1]) = Primitive(p[2])
            /\ TrueKey(p[2]) /\ Holds(p[1], p[2]) /\ Known(p[1], p[2])
    <2> TAKE p \in Columns \X Columns
    <2>1. PICK from, to \in Columns : p = <<from, to>>
      BY <1>4
    <2>2. p[1] = from /\ p[2] = to
      BY <2>1
    <2> QED BY <1>2, <2>1, <2>2
  <1> QED BY <1>3, <1>5


(***************************************************************************)
(* Reading, profiling and closing.                                         *)
(***************************************************************************)

\* At the start no source has been asked for, and the plan is over none.
LEMMA DescribeStarts == DescribeInit => DescribeInv
  <1> SUFFICES ASSUME DescribeInit PROVE DescribeInv
    OBVIOUS
  <1>1. PICK d \in Datas, o \in Options, natives \in SUBSET Sources : DescribeInitWith(d, o, natives)
    BY DEF DescribeInit
  <1>2. PlanInv
    BY <1>1, PlanStarts DEF DescribeInitWith
  <1>3. \A s \in Sources : reading[s] = IF s \notin natives THEN "absent"
                                        ELSE IF Via[s] = Local THEN "undescribed"
                                        ELSE IF Via[s] = Public THEN "tagging" ELSE "mounting"
    <2>1. Local # Public
      BY DescribeAssumption DEF DescribeAssumption
    <2> QED BY <1>1, <2>1 DEF DescribeInitWith
  <1>4. Natives = natives
    BY <1>3 DEF Natives
  <1>5. undescribed = {s \in Natives : reading[s] = "undescribed"}
    BY <1>1, <1>3, <1>4 DEF DescribeInitWith
  <1>6. progress = IF natives = {} THEN "returned" ELSE "reading"
    BY <1>1 DEF DescribeInitWith
  <1>7. aborted = FALSE /\ failure = FALSE
    BY <1>1 DEF DescribeInitWith
  <1>8. /\ mounts = [k \in Connections |-> IF \E s \in natives : Via[s] = k THEN "opening" ELSE "none"]
        /\ Unplanned
    BY <1>1 DEF DescribeInitWith
  <1>9. reading \in [Sources -> {"absent", "mounting", "tagging", "readable", "undescribed"}]
    BY <1>1 DEF DescribeInitWith
  <1>10. IoTypes
    BY <1>5, <1>6, <1>7, <1>8, <1>9 DEF IoTypes
  <1>11. Planned
    BY <1>4, <1>6, <1>8 DEF Planned, Unplanned
  <1>12. Answering
    BY <1>4, <1>5, <1>6, <1>7, <1>8 DEF Answering, Unplanned
  <1>13. AllSettled
    BY <1>6, <1>8 DEF AllSettled, MountSettled
  <1> QED BY <1>2, <1>10, <1>11, <1>12, <1>13 DEF DescribeInv

\* A plan that nobody touches leaves its parts as they were.
PlanParts == <<data, options, states, phase, queue, pending, described, counts, top, inclusions,
               sampled, failed, lost>>

\* A source is read or not: no other source, and nothing of the plan, changes with it.
LEMMA ReadOn ==
    ASSUME DescribeInv, NEW s \in Sources, reading[s] \in {"mounting", "tagging"},
           UNCHANGED <<plan, mounts, aborted>>,
           \/ /\ \E r \in {"tagging", "readable"} : reading' = [reading EXCEPT ![s] = r]
              /\ UNCHANGED <<progress, undescribed, failure>>
           \/ Unreadable(s)
    PROVE  DescribeInv'
  <1>1. IoTypes /\ PlanInv
    BY DEF DescribeInv
  <1>2. PICK r \in {"tagging", "readable", "undescribed"} : reading' = [reading EXCEPT ![s] = r]
    BY DEF Unreadable
  <1>3. /\ reading' \in [Sources -> {"absent", "mounting", "tagging", "readable", "undescribed"}]
        /\ reading'[s] = r /\ \A q \in Sources : q # s => reading'[q] = reading[q]
    BY <1>1, <1>2 DEF IoTypes
  <1>4. Natives' = Natives /\ s \in Natives
    BY <1>3 DEF Natives
  <1>5. PlanInv'
    BY <1>1, PlanRests
  <1>6. UNCHANGED PlanParts
    BY DEF plan, PlanParts
  <1>7. failure \/ progress = "reading"
    BY <1>4 DEF DescribeInv, Answering
  <1>7a. CASE progress = "reading"
    <2>1. Unplanned /\ ~failure
      BY <1>7a DEF DescribeInv, Planned, Answering
    <2>2. Unplanned' /\ states' = {}
      BY <1>6, <2>1 DEF PlanParts, Unplanned
    <2>3. undescribed = {q \in Natives : reading[q] = "undescribed"}
      BY <1>7a, <2>1 DEF DescribeInv, Answering
    <2>4. CASE reading'[s] = "undescribed" /\ Unreadable(s) /\ aborted
      <3>1. progress' = "closing" /\ failure' /\ undescribed' = undescribed
        BY <1>7a, <2>4 DEF Unreadable
      <3>2. IoTypes'
        BY <1>1, <1>3, <1>4, <3>1 DEF IoTypes
      <3>3. Planned' /\ Answering' /\ AllSettled'
        BY <2>2, <3>1 DEF Planned, Answering, AllSettled
      <3> QED BY <1>5, <3>2, <3>3 DEF DescribeInv
    <2>5. CASE progress' = "reading" /\ failure' = failure /\
               undescribed' = IF reading'[s] = "undescribed" THEN undescribed \cup {s} ELSE undescribed
      <3>1. undescribed' = {q \in Natives' : reading'[q] = "undescribed"}
        <4>1. \A q \in Natives' : reading'[q] = "undescribed" <=> q \in undescribed'
          <5> TAKE q \in Natives'
          <5>1. q \in Natives /\ q \in Sources
            BY <1>4 DEF Natives
          <5>2. s \notin undescribed
            BY <2>3
          <5>3. CASE q = s
            BY <2>5, <5>2, <5>3
          <5>4. CASE q # s
            BY <1>3, <2>3, <2>5, <5>1, <5>4
          <5> QED BY <5>3, <5>4
        <4>2. undescribed' \subseteq Natives'
          BY <1>4, <2>3, <2>5
        <4> QED BY <4>1, <4>2
      <3>2. IoTypes'
        <4>1. undescribed' \subseteq Natives'
          BY <3>1
        <4> QED BY <1>1, <1>3, <2>5, <4>1 DEF IoTypes
      <3>3. Planned' /\ Answering' /\ AllSettled'
        BY <2>1, <2>2, <2>5, <3>1 DEF Planned, Answering, AllSettled
      <3> QED BY <1>5, <3>2, <3>3 DEF DescribeInv
    <2>6. reading'[s] = "undescribed" <=> r = "undescribed"
      BY <1>3
    <2> QED BY <1>7a, <1>3, <2>1, <2>4, <2>5 DEF Unreadable
  <1>7b. CASE progress # "reading"
    <2>1. failure /\ progress \in {"closing", "thrown"} /\ states = {}
      BY <1>4, <1>7, <1>7b DEF DescribeInv, Answering, Planned
    <2>2. /\ failure' /\ progress' = progress
          /\ undescribed' \in {undescribed, undescribed \cup {s}}
      BY <1>7b, <2>1 DEF Unreadable
    <2>3. IoTypes'
      BY <1>1, <1>3, <1>4, <2>1, <2>2 DEF IoTypes
    <2>4. Planned' /\ Answering'
      BY <1>6, <2>1, <2>2 DEF PlanParts, Planned, Answering
    <2>5. AllSettled'
      BY <2>2 DEF DescribeInv, AllSettled, MountSettled
    <2> QED BY <1>5, <2>3, <2>4, <2>5 DEF DescribeInv
  <1> QED BY <1>7a, <1>7b

\* The plan's own steps touch neither its sources nor how they are read.
LEMMA PlanStepsOn ==
    ASSUME PlanInv,
           \/ Advance \/ HandOut
           \/ \E a \in pending : Feed(a) \/ FeedNothing(a) \/ Fail(a)
    PROVE  PlanInv' /\ states' = states
  <1>1. CASE Advance
    BY <1>1, Advances DEF Advance
  <1>2. CASE HandOut
    BY <1>2, HandsOut DEF HandOut
  <1>3. ASSUME NEW a \in pending, Feed(a) PROVE PlanInv' /\ states' = states
    BY <1>3, Feeds DEF Feed
  <1>4. ASSUME NEW a \in pending, FeedNothing(a) PROVE PlanInv' /\ states' = states
    BY <1>4, FeedsNothing DEF FeedNothing
  <1>5. ASSUME NEW a \in pending, Fail(a) PROVE PlanInv' /\ states' = states
    BY <1>5, Fails DEF Fail
  <1> QED BY <1>1, <1>2, <1>3, <1>4, <1>5

\* Every step of reading, profiling and closing keeps what it knows.
LEMMA DescribeStep == DescribeInv /\ [DescribeNext]_describeVars => DescribeInv'
  <1> SUFFICES ASSUME DescribeInv, [DescribeNext]_describeVars PROVE DescribeInv'
    OBVIOUS
  <1>t. PlanInv /\ IoTypes
    BY DEF DescribeInv
  <1>p. UNCHANGED plan => PlanInv' /\ UNCHANGED PlanParts
    BY <1>t, PlanRests DEF plan, PlanParts
  <1>m. ASSUME NEW new \in [Connections -> {"none", "opening", "open", "failed", "closing", "closed", "unclosed"}],
               mounts' = new, progress \notin {"returned", "thrown"} \/
                 \A k \in Connections : mounts[k] \in {"none", "failed", "closed", "unclosed"} => new[k] = mounts[k],
               UNCHANGED <<plan, progress, reading, undescribed, aborted, failure>>
        PROVE  DescribeInv'
    <2>1. Natives' = Natives
      BY <1>m DEF Natives
    <2>2. IoTypes'
      BY <1>m, <1>t, <2>1 DEF IoTypes
    <2>3. Planned' /\ Answering'
      BY <1>m, <1>p, <2>1 DEF DescribeInv, PlanParts, Planned, Unplanned, Answering
    <2>4. AllSettled'
      BY <1>m DEF DescribeInv, AllSettled, MountSettled
    <2> QED BY <1>m, <1>p, <2>2, <2>3, <2>4 DEF DescribeInv
  <1>1. CASE Abort
    <2>1. /\ aborted' = TRUE
          /\ UNCHANGED <<plan, progress, mounts, reading, undescribed, failure>>
      BY <1>1 DEF Abort
    <2>2. Natives' = Natives
      BY <2>1 DEF Natives
    <2>3. IoTypes'
      BY <1>t, <2>1, <2>2 DEF IoTypes
    <2>4. Planned' /\ Answering' /\ AllSettled'
      BY <1>p, <2>1, <2>2 DEF DescribeInv, PlanParts, Planned, Unplanned, Answering, AllSettled, MountSettled
    <2> QED BY <1>p, <2>1, <2>3, <2>4 DEF DescribeInv
  <1>2. ASSUME NEW k \in Connections, Mounted(k) PROVE DescribeInv'
    <2>1. PICK how \in {"open", "failed"} : mounts' = [mounts EXCEPT ![k] = how]
      BY <1>2 DEF Mounted
    <2>2. mounts[k] = "opening" /\ UNCHANGED <<plan, progress, reading, undescribed, aborted, failure>>
      BY <1>2 DEF Mounted
    <2>3. [mounts EXCEPT ![k] = how] \in [Connections -> {"none", "opening", "open", "failed", "closing", "closed", "unclosed"}]
      BY <1>t DEF IoTypes
    <2>4. \A q \in Connections : mounts[q] \in {"none", "failed", "closed", "unclosed"} =>
            [mounts EXCEPT ![k] = how][q] = mounts[q]
      BY <1>t, <2>2 DEF IoTypes
    <2> QED BY <1>m, <2>1, <2>2, <2>3, <2>4
  <1>3. ASSUME NEW k \in Connections, CloseMount(k) PROVE DescribeInv'
    <2>1. PICK how \in {"closing", "closed", "unclosed"} : mounts' = [mounts EXCEPT ![k] = how]
      BY <1>3 DEF CloseMount
    <2>2. progress = "closing" /\ UNCHANGED <<plan, progress, reading, undescribed, aborted, failure>>
      BY <1>3 DEF CloseMount
    <2>3. [mounts EXCEPT ![k] = how] \in [Connections -> {"none", "opening", "open", "failed", "closing", "closed", "unclosed"}]
      BY <1>t DEF IoTypes
    <2> QED BY <1>m, <2>1, <2>2, <2>3
  <1>4. ASSUME NEW s \in Sources, Resume(s) PROVE DescribeInv'
    <2>1. reading[s] \in {"mounting", "tagging"} /\ UNCHANGED <<plan, mounts, aborted>>
      BY <1>4 DEF Resume
    <2>2. \/ /\ \E r \in {"tagging", "readable"} : reading' = [reading EXCEPT ![s] = r]
             /\ UNCHANGED <<progress, undescribed, failure>>
          \/ Unreadable(s)
      BY <1>4 DEF Resume
    <2> QED BY <2>1, <2>2, ReadOn
  <1>5. ASSUME NEW s \in Sources, Tagged(s) PROVE DescribeInv'
    <2>1. reading[s] \in {"mounting", "tagging"} /\ UNCHANGED <<plan, mounts, aborted>>
      BY <1>5 DEF Tagged
    <2>2. \/ /\ \E r \in {"tagging", "readable"} : reading' = [reading EXCEPT ![s] = r]
             /\ UNCHANGED <<progress, undescribed, failure>>
          \/ Unreadable(s)
      BY <1>5 DEF Tagged
    <2> QED BY <2>1, <2>2, ReadOn
  <1>6. CASE Read
    <2>1. /\ progress = "reading" /\ progress' = "booting"
          /\ \A s \in Natives : reading[s] \in {"readable", "undescribed"}
          /\ UNCHANGED <<plan, mounts, reading, undescribed, aborted, failure>>
      BY <1>6 DEF Read
    <2>2. Natives' = Natives
      BY <2>1 DEF Natives
    <2>3. IoTypes'
      BY <1>t, <2>1, <2>2 DEF IoTypes
    <2>4. Unplanned /\ ~failure /\ undescribed = {s \in Natives : reading[s] = "undescribed"}
      BY <2>1 DEF DescribeInv, Planned, Answering
    <2>5. Planned'
      BY <1>p, <2>1, <2>4 DEF PlanParts, Planned, Unplanned
    <2>6. Answering' /\ AllSettled'
      BY <2>1, <2>2, <2>4 DEF Answering, AllSettled
    <2> QED BY <1>p, <2>1, <2>3, <2>5, <2>6 DEF DescribeInv
  <1>h. ASSUME progress \in {"booting", "profiling"}, Throw, UNCHANGED plan PROVE DescribeInv'
    <2>1. progress' = "closing" /\ failure' = TRUE /\ UNCHANGED <<mounts, reading, undescribed, aborted>>
      BY <1>h DEF Throw
    <2>2. Natives' = Natives
      BY <2>1 DEF Natives
    <2>3. IoTypes'
      BY <1>t, <2>1, <2>2 DEF IoTypes
    <2>4. Planned'
      <3>1. CASE progress = "booting"
        BY <1>h, <1>p, <2>1, <3>1 DEF DescribeInv, PlanParts, Planned, Unplanned
      <3>2. CASE progress = "profiling"
        <4>1. ~failure
          BY <3>2 DEF DescribeInv, Answering
        <4> QED BY <1>h, <1>p, <2>1, <2>2, <3>2, <4>1 DEF DescribeInv, PlanParts, Planned
      <3> QED BY <1>h, <3>1, <3>2
    <2>5. Answering' /\ AllSettled'
      BY <2>1 DEF Answering, AllSettled
    <2> QED BY <1>h, <1>p, <2>3, <2>4, <2>5 DEF DescribeInv
  <1>7. CASE Boot
    <2>1. CASE Throw /\ UNCHANGED plan
      BY <1>7, <1>h, <2>1 DEF Boot
    <2>2. CASE /\ progress' = "profiling" /\ New({s \in Natives : reading[s] = "readable"})
               /\ UNCHANGED <<mounts, reading, undescribed, aborted, failure>>
      <3>1. progress = "booting" /\ Unplanned /\ ~failure
        BY <1>7 DEF Boot, DescribeInv, Planned, Answering
      <3>2. {s \in Natives : reading[s] = "readable"} \in SUBSET Sources
        BY DEF Natives
      <3>3. PlanInv' /\ states' = {s \in Natives : reading[s] = "readable"}
        BY <1>t, <2>2, <3>1, <3>2, PlanStarts
      <3>4. Natives' = Natives
        BY <2>2 DEF Natives
      <3>5. IoTypes'
        BY <1>t, <2>2, <3>4 DEF IoTypes
      <3>6. \A s \in Natives : reading[s] \in {"readable", "undescribed"}
        BY <3>1 DEF DescribeInv, Answering
      <3>7. Planned' /\ Answering' /\ AllSettled'
        BY <2>2, <3>1, <3>3, <3>4, <3>6 DEF DescribeInv, Planned, Answering, AllSettled
      <3> QED BY <3>3, <3>5, <3>7 DEF DescribeInv
    <2> QED BY <1>7, <2>1, <2>2 DEF Boot
  <1>8. CASE Profiling
    <2>1. CASE Throw /\ UNCHANGED plan
      BY <1>8, <1>h, <2>1 DEF Profiling
    <2>2. CASE /\ Advance \/ HandOut \/ \E a \in pending : Feed(a) \/ FeedNothing(a) \/ Fail(a)
               /\ UNCHANGED io
      <3>1. PlanInv' /\ states' = states
        BY <1>t, <2>2, PlanStepsOn
      <3>2. UNCHANGED <<progress, mounts, reading, undescribed, aborted, failure>> /\ progress = "profiling"
        BY <1>8, <2>2 DEF Profiling, io
      <3>3. Natives' = Natives
        BY <3>2 DEF Natives
      <3>4. IoTypes'
        BY <1>t, <3>2, <3>3 DEF IoTypes
      <3>5. Planned' /\ Answering' /\ AllSettled'
        BY <3>1, <3>2, <3>3 DEF DescribeInv, Planned, Answering, AllSettled
      <3> QED BY <3>1, <3>4, <3>5 DEF DescribeInv
    <2> QED BY <1>8, <2>1, <2>2 DEF Profiling
  <1>9. CASE Profiled
    <2>1. /\ progress = "profiling" /\ phase = "done" /\ progress' = "closing"
          /\ undescribed' = undescribed \cup (failed \ described)
          /\ UNCHANGED <<plan, mounts, reading, aborted, failure>>
      BY <1>9 DEF Profiled
    <2>2. Natives' = Natives
      BY <2>1 DEF Natives
    <2>3. /\ ~failure /\ states = {s \in Natives : reading[s] = "readable"}
          /\ \A s \in Natives : reading[s] \in {"readable", "undescribed"}
          /\ undescribed = {s \in Natives : reading[s] = "undescribed"}
      BY <2>1 DEF DescribeInv, Planned, Answering
    <2>4. described \subseteq states /\ failed \subseteq states /\ states \subseteq described \cup failed
      BY <1>t, <2>1 DEF PlanInv, PlanTypes, Described
    <2>5. undescribed' \cup described = Natives /\ undescribed' \cap described = {}
      BY <2>1, <2>3, <2>4
    <2>6. UNCHANGED PlanParts
      BY <1>p, <2>1
    <2>7. IoTypes'
      <3>1. undescribed' \subseteq Natives'
        BY <2>2, <2>5
      <3> QED BY <1>t, <2>1, <3>1 DEF IoTypes
    <2>8. Planned' /\ Answering' /\ AllSettled'
      BY <2>1, <2>2, <2>3, <2>5, <2>6 DEF PlanParts, Planned, Answering, AllSettled
    <2> QED BY <1>p, <2>1, <2>7, <2>8 DEF DescribeInv
  <1>10. CASE End
    <2>1. /\ progress = "closing" /\ \A k \in Connections : MountSettled(k)
          /\ progress' \in {"returned", "thrown"} /\ (failure => progress' = "thrown")
          /\ UNCHANGED <<plan, mounts, reading, undescribed, aborted, failure>>
      BY <1>10 DEF End
    <2>2. Natives' = Natives
      BY <2>1 DEF Natives
    <2>3. IoTypes'
      BY <1>t, <2>1, <2>2 DEF IoTypes
    <2>4. UNCHANGED PlanParts
      BY <1>p, <2>1
    <2>5. Planned' /\ Answering'
      BY <2>1, <2>2, <2>4 DEF DescribeInv, PlanParts, Planned, Answering
    <2>6. AllSettled'
      BY <2>1 DEF AllSettled, MountSettled
    <2> QED BY <1>p, <2>1, <2>3, <2>5, <2>6 DEF DescribeInv
  <1>11. CASE UNCHANGED describeVars
    <2>1. UNCHANGED <<plan, progress, mounts, reading, undescribed, aborted, failure>>
      BY <1>11 DEF describeVars, io
    <2>2. mounts \in [Connections -> {"none", "opening", "open", "failed", "closing", "closed", "unclosed"}]
      BY <1>t DEF IoTypes
    <2> QED BY <1>m, <2>1, <2>2
  <1> QED BY <1>1, <1>2, <1>3, <1>4, <1>5, <1>6, <1>7, <1>8, <1>9, <1>10, <1>11 DEF DescribeNext

\* What the plan, the readings and the mounts say of each other, for any sources,
\* connections, data and options.
LEMMA DescribeInvariance == DescribeSpec => []DescribeInv
  <1> QED BY DescribeStarts, DescribeStep, PTL DEF DescribeSpec

\* Every variable of a profile keeps its type, and the plan speaks of its own sources alone.
THEOREM DescribeTypes == DescribeSpec => []DescribeTypeOK
  <1>1. DescribeInv => DescribeTypeOK
    BY DEF DescribeInv, PlanInv, PlanTypes, IoTypes, DescribeTypeOK
  <1> QED BY <1>1, DescribeInvariance, PTL

\* profileInputs answers each native source once, described or with its problem, and ends
\* with every mount it opened closed again: describe.ts and profile.ts, over any answers of
\* the host and the engine in any order.
THEOREM ProfilesReturn == DescribeSpec => []DescribeReturns
  <1>1. DescribeInv => DescribeReturns
    BY DEF DescribeInv, Answering, AllSettled, MountSettled, DescribeReturns, EachAnswered, MountsGivenBack
  <1> QED BY <1>1, DescribeInvariance, PTL

\* A whole profile names the inclusions that hold of a key of the rows read, and no other:
\* fossil_profile's counts decide it, whatever the data, the sample and the order of answers.
THEOREM ProfilesAreExact == DescribeSpec => []ProfileExact
  <1>1. DescribeInv => ProfileExact
    BY FoundIsExact DEF DescribeInv
  <1> QED BY <1>1, DescribeInvariance, PTL

==============================================================================
