--------------------------- MODULE RunProtocolProofs ---------------------------
(***************************************************************************)
(* Safety of a run in a worker, for any number of host calls: what the     *)
(* caller is told is true, a settled run is clean, nothing is posted to a  *)
(* terminated worker, and the protocol implements RunOutcome.              *)
(***************************************************************************)
EXTENDS RunProtocol, TLAPS

(***************************************************************************)
(* The inductive invariant.                                                *)
(***************************************************************************)

\* drive settles when its worker is terminated, and not before it is called;
\* every call in flight has a controller that settle aborts.
PageInv ==
    /\ settled => driven
    /\ worker = "terminated" <=> settled
    /\ settled => outcome # Running /\ calls = {}
    /\ outcome \notin {Running, "unsent"} => settled
    /\ \A i \in Ids : handler[i] = "asking" => i \in calls
    /\ ~driven => outcome = Running /\ toWorker = <<>> /\ \A i \in Ids : handler[i] = "idle"

\* The request is the first message of a worker that has none, and a request
\* that does not clone never starts a run.
RequestInv ==
    /\ \A n \in 1 .. Len(toWorker) :
         toWorker[n].type = "run" => n = 1 /\ runner = "idle" /\ sendable
    /\ ~driven => runner = "idle"
    /\ ~sendable => runner = "idle"
    /\ outcome = "unsent" => ~sendable

\* An ask on its way is the run's, is its only one of that id, and no handler has it yet.
AskInv ==
    /\ runner = "idle" => next = 0
    /\ \A i \in Ids : handler[i] # "idle" => i < next
    /\ \A n \in 1 .. Len(toPage) : toPage[n].type = "ask" =>
         hosted /\ toPage[n].id < next /\ handler[toPage[n].id] = "idle"
    /\ \A n, k \in 1 .. Len(toPage) :
         toPage[n].type = "ask" /\ toPage[k].type = "ask" /\ toPage[n].id = toPage[k].id => n = k

\* The runner's answer on its way to the page is the runner's.
AnswerInv ==
    \A n \in 1 .. Len(toPage) : toPage[n].type \in {"done", "failed"} => runner = toPage[n].type

Inv == ProtocolTypeOK /\ PageInv /\ RequestInv /\ AskInv /\ AnswerInv /\ OutcomeTrue

(***************************************************************************)
(* Ports are sequences.                                                    *)
(***************************************************************************)

\* Posting to a channel adds its last message and moves none.
LEMMA AppendFacts ==
    ASSUME NEW S, NEW q \in Seq(S), NEW e \in S
    PROVE  /\ Append(q, e) \in Seq(S)
           /\ Len(Append(q, e)) = Len(q) + 1
           /\ \A n \in 1 .. Len(q) : Append(q, e)[n] = q[n]
           /\ Append(q, e)[Len(q) + 1] = e
  BY SMT

\* Receiving from a channel removes its first message and keeps the rest in order.
LEMMA TailFacts ==
    ASSUME NEW S, NEW q \in Seq(S), q # <<>>
    PROVE  /\ Tail(q) \in Seq(S)
           /\ Len(q) \in Nat /\ Len(q) >= 1
           /\ Len(Tail(q)) = Len(q) - 1
           /\ \A n \in 1 .. Len(Tail(q)) : n + 1 \in 1 .. Len(q) /\ Tail(q)[n] = q[n + 1]
           /\ Head(q) = q[1]
           /\ Head(q) \in S
  BY SMT

(***************************************************************************)
(* Types.                                                                  *)
(***************************************************************************)

\* settle keeps the types of the page, whatever it settles with.
LEMMA SettleTypes ==
    ASSUME ProtocolTypeOK, NEW o \in Endings, Settle(o)
    PROVE  /\ settled' \in BOOLEAN
           /\ calls' \subseteq Ids
           /\ handler' \in [Ids -> {"idle", "asking", "answered", "refused", "over"}]
           /\ worker' \in {"loading", "serving", "dead", "terminated"}
           /\ outcome' \in Endings \cup {Running}
  BY DEF ProtocolTypeOK, Settle, EndedAs

\* The types hold at the start.
LEMMA TypesInit == ProtocolInit => ProtocolTypeOK
  <1> SUFFICES ASSUME ProtocolInit PROVE ProtocolTypeOK
    OBVIOUS
  <1>1. next \in 0 .. MaxAsks
    BY ProtocolAssumption DEF ProtocolInit, ProtocolAssumption
  <1>2. hosted \in BOOLEAN /\ sendable \in BOOLEAN
    BY ProtocolAssumption, Zenon DEF ProtocolInit, ProtocolAssumption
  <1>3. toWorker \in Seq(ToWorker) /\ toPage \in Seq(ToPage)
    BY DEF ProtocolInit
  <1> QED BY <1>1, <1>2, <1>3 DEF ProtocolInit, ProtocolTypeOK

\* Every step of the page, the worker and the caller keeps the types.
LEMMA TypesStep == ProtocolTypeOK /\ [ProtocolNext]_protocolVars => ProtocolTypeOK'
  <1> SUFFICES ASSUME ProtocolTypeOK, [ProtocolNext]_protocolVars PROVE ProtocolTypeOK'
    OBVIOUS
  <1>1. CASE Drive
    <2>1. CASE aborted
      BY <1>1, <2>1, SettleTypes DEF Drive, ProtocolTypeOK, given, work, Endings
    <2>2. CASE ~aborted /\ sendable
      <3>1. [type |-> "run"] \in ToWorker
        BY DEF ToWorker
      <3>2. toWorker' \in Seq(ToWorker)
        BY <1>1, <2>2, <3>1, AppendFacts DEF Drive, ProtocolTypeOK
      <3> QED BY <1>1, <2>2, <3>2 DEF Drive, ProtocolTypeOK, given, work
    <2>3. CASE ~aborted /\ ~sendable
      BY <1>1, <2>3 DEF Drive, ProtocolTypeOK, given, work, Endings
    <2> QED BY <2>1, <2>2, <2>3 DEF ProtocolTypeOK
  <1>2. CASE Abort
    BY <1>2, SettleTypes DEF Abort, ProtocolTypeOK, given, work, Endings
  <1>3. CASE WorkerError
    <2>1. Verdict \in Endings
      BY DEF Verdict, Endings
    <2>2. CASE Listening
      BY <1>3, <2>1, <2>2, SettleTypes DEF WorkerError, ProtocolTypeOK, given, work
    <2>3. CASE ~Listening
      BY <1>3, <2>3 DEF WorkerError, ProtocolTypeOK, given, work
    <2> QED BY <2>2, <2>3
  <1>4. CASE PageReceives
    <2> DEFINE message == Head(toPage)
    <2>1. toPage' \in Seq(ToPage) /\ message \in ToPage
      BY <1>4, TailFacts DEF PageReceives, ProtocolTypeOK
    <2>2. started' \in BOOLEAN
      BY <1>4 DEF PageReceives, ProtocolTypeOK, Listening
    <2>3. /\ settled' \in BOOLEAN
          /\ calls' \subseteq Ids
          /\ handler' \in [Ids -> {"idle", "asking", "answered", "refused", "over"}]
          /\ worker' \in {"loading", "serving", "dead", "terminated"}
          /\ outcome' \in Endings \cup {Running}
      <3>1. CASE Listening /\ message.type \in {"done", "failed"} /\ TakeResult(message.type)
        BY <3>1, SettleTypes DEF TakeResult, Endings
      <3>2. CASE Listening /\ message.type = "ask" /\ Open(message.id)
        <4>1. message.id \in Ids
          BY <2>1, <3>2 DEF ToPage
        <4> QED BY <3>2, <4>1 DEF Open, ProtocolTypeOK
      <3>3. CASE UNCHANGED <<settled, calls, handler, worker, outcome>>
        BY <3>3 DEF ProtocolTypeOK
      <3> QED BY <1>4, <3>1, <3>2, <3>3 DEF PageReceives
    <2> QED BY <1>4, <2>1, <2>2, <2>3 DEF PageReceives, ProtocolTypeOK, given, work
  <1>5. ASSUME NEW i \in Ids, HostAnswers(i) PROVE ProtocolTypeOK'
    BY <1>5 DEF HostAnswers, ProtocolTypeOK, given, work
  <1>6. ASSUME NEW i \in Ids, HostSilent(i) PROVE ProtocolTypeOK'
    BY <1>6 DEF HostSilent, ProtocolTypeOK, given, work
  <1>7. ASSUME NEW i \in Ids, PageReplies(i) PROVE ProtocolTypeOK'
    <2>1. Reply(i) \subseteq ToWorker
      BY DEF Reply, ToWorker
    <2>2. CASE MayPost
      <3>1. PICK r \in Reply(i) : toWorker' = Append(toWorker, r)
        BY <1>7, <2>2 DEF PageReplies
      <3>2. toWorker' \in Seq(ToWorker)
        BY <2>1, <3>1, AppendFacts DEF ProtocolTypeOK
      <3> QED BY <1>7, <3>2 DEF PageReplies, ProtocolTypeOK, given, work
    <2>3. CASE ~MayPost
      BY <1>7, <2>3 DEF PageReplies, ProtocolTypeOK, given, work
    <2> QED BY <2>2, <2>3
  <1>8. ASSUME NEW i \in Ids, WorkerSilent(i) PROVE ProtocolTypeOK'
    BY <1>8 DEF WorkerSilent, ProtocolTypeOK, given, page
  <1>9. CASE WorkerStarts
    <2>1. [type |-> "ready"] \in ToPage
      BY DEF ToPage
    <2>2. toPage' \in Seq(ToPage)
      BY <1>9, <2>1, AppendFacts DEF WorkerStarts, ProtocolTypeOK
    <2> QED BY <1>9, <2>2 DEF WorkerStarts, ProtocolTypeOK, given, page, work
  <1>10. CASE WorkerUnreachable
    BY <1>10 DEF WorkerUnreachable, ProtocolTypeOK, given, page, work
  <1>11. CASE WorkerTraps
    BY <1>11 DEF WorkerTraps, ProtocolTypeOK, given, page, work
  <1>12. CASE WorkerReceives
    <2>1. toWorker' \in Seq(ToWorker) /\ Head(toWorker) \in ToWorker
      BY <1>12, TailFacts DEF WorkerReceives, ProtocolTypeOK
    <2> QED BY <1>12, <2>1 DEF WorkerReceives, ProtocolTypeOK, given, page
  <1>13. CASE WorkerAsks
    <2>1. [type |-> "ask", id |-> next] \in ToPage
      BY <1>13 DEF WorkerAsks, ToPage
    <2>2. toPage' \in Seq(ToPage)
      BY <1>13, <2>1, AppendFacts DEF WorkerAsks, ProtocolTypeOK
    <2>3. next' \in 0 .. MaxAsks
      BY <1>13, ProtocolAssumption DEF WorkerAsks, ProtocolAssumption, Ids
    <2> QED BY <1>13, <2>2, <2>3 DEF WorkerAsks, ProtocolTypeOK, given, page
  <1>14. CASE RunnerEnds
    <2>1. \A how \in {"done", "failed"} : [type |-> how] \in ToPage
      BY DEF ToPage
    <2>2. toPage' \in Seq(ToPage)
      BY <1>14, <2>1, AppendFacts DEF RunnerEnds, ProtocolTypeOK
    <2> QED BY <1>14, <2>2 DEF RunnerEnds, ProtocolTypeOK, given, page
  <1>15. CASE UNCHANGED protocolVars
    BY <1>15 DEF protocolVars, ProtocolTypeOK, given, page, work
  <1> QED BY <1>1, <1>2, <1>3, <1>4, <1>5, <1>6, <1>7, <1>8, <1>9, <1>10, <1>11, <1>12,
             <1>13, <1>14, <1>15 DEF ProtocolNext

\* The variables stay of their types: no message, id or phase the code does not know.
THEOREM TypesHold == ProtocolSpec => []ProtocolTypeOK
  <1> QED BY TypesInit, TypesStep, PTL DEF ProtocolSpec

(***************************************************************************)
(* The page.                                                               *)
(***************************************************************************)

\* settle leaves the page as PageInv says.
LEMMA SettlePage ==
    ASSUME ProtocolTypeOK, PageInv, NEW o \in Endings, Settle(o)
    PROVE  /\ settled' /\ worker' = "terminated" /\ calls' = {}
           /\ outcome' \in Endings
           /\ outcome = Running => outcome' = o
           /\ outcome # Running => outcome' = outcome
           /\ \A i \in Ids : handler'[i] # "asking"
           /\ \A i \in Ids : handler[i] = "idle" <=> handler'[i] = "idle"
  BY DEF Settle, EndedAs, PageInv, ProtocolTypeOK, Endings, Running

\* Every step keeps what settled, the calls and the handlers say of each other.
LEMMA PageStep == ProtocolTypeOK /\ PageInv /\ [ProtocolNext]_protocolVars => PageInv'
  <1> SUFFICES ASSUME ProtocolTypeOK, PageInv, [ProtocolNext]_protocolVars PROVE PageInv'
    OBVIOUS
  <1>e. Running \notin Endings
    BY DEF Running, Endings
  <1>s. ASSUME NEW o \in Endings, Settle(o), driven' PROVE PageInv'
    BY <1>s, <1>e, SettlePage DEF PageInv
  <1>1. CASE Drive
    <2>1. CASE aborted
      BY <1>1, <2>1, <1>s DEF Drive, Endings
    <2>2. CASE ~aborted
      BY <1>1, <2>2 DEF Drive, PageInv, Running
    <2> QED BY <2>1, <2>2
  <1>2. CASE Abort
    <2>1. CASE Listening
      BY <1>2, <2>1, <1>s DEF Abort, Endings, Listening
    <2>2. CASE ~Listening
      BY <1>2, <2>2 DEF Abort, PageInv
    <2> QED BY <2>1, <2>2
  <1>3. CASE WorkerError
    <2>1. CASE Listening
      <3>1. Verdict \in Endings
        BY DEF Verdict, Endings
      <3> QED BY <1>3, <2>1, <3>1, <1>s DEF WorkerError, Listening
    <2>2. CASE ~Listening
      BY <1>3, <2>2 DEF WorkerError, PageInv
    <2> QED BY <2>1, <2>2
  <1>4. CASE PageReceives
    <2> DEFINE message == Head(toPage)
    <2>1. CASE Listening /\ TakeResult(message.type)
      <3>1. driven'
        BY <1>4, <2>1 DEF PageReceives, Listening
      <3> QED BY <2>1, <3>1, <1>s DEF TakeResult, Endings
    <2>2. CASE Listening /\ message.type = "ask" /\ Open(message.id)
      <3>1. \A i \in Ids : handler'[i] = "asking" => i \in calls'
        BY <2>2 DEF Open, PageInv, ProtocolTypeOK
      <3> QED BY <1>4, <2>2, <3>1 DEF PageReceives, Open, PageInv, Listening
    <2>3. CASE UNCHANGED <<settled, calls, handler, worker, outcome>>
      BY <1>4, <2>3 DEF PageReceives, PageInv
    <2> QED BY <1>4, <2>1, <2>2, <2>3 DEF PageReceives
  <1>5. ASSUME NEW i \in Ids, HostAnswers(i) \/ HostSilent(i) PROVE PageInv'
    BY <1>5 DEF HostAnswers, HostSilent, PageInv, ProtocolTypeOK
  <1>6. ASSUME NEW i \in Ids, PageReplies(i) PROVE PageInv'
    <2>1. driven
      BY <1>6 DEF PageReplies, PageInv
    <2> QED BY <1>6, <2>1 DEF PageReplies, PageInv, ProtocolTypeOK
  <1>7. ASSUME NEW i \in Ids, WorkerSilent(i) PROVE PageInv'
    BY <1>7 DEF WorkerSilent, PageInv, page
  <1>8. CASE WorkerStarts \/ WorkerUnreachable \/ WorkerTraps \/ WorkerAsks \/ RunnerEnds
    BY <1>8 DEF WorkerStarts, WorkerUnreachable, WorkerTraps, WorkerAsks, RunnerEnds, PageInv, page
  <1>9. CASE WorkerReceives
    BY <1>9 DEF WorkerReceives, PageInv, page
  <1>10. CASE UNCHANGED protocolVars
    BY <1>10 DEF protocolVars, page, PageInv
  <1> QED BY <1>1, <1>2, <1>3, <1>4, <1>5, <1>6, <1>7, <1>8, <1>9, <1>10 DEF ProtocolNext

(***************************************************************************)
(* The request.                                                            *)
(***************************************************************************)

\* The request is posted once, and the worker runs nothing before it.
LEMMA RequestStep == ProtocolTypeOK /\ PageInv /\ RequestInv /\ [ProtocolNext]_protocolVars => RequestInv'
  <1> SUFFICES ASSUME ProtocolTypeOK, PageInv, RequestInv, [ProtocolNext]_protocolVars PROVE RequestInv'
    OBVIOUS
  <1>s. ASSUME NEW o \in Endings \ {"unsent"}, Settle(o), driven', UNCHANGED <<given, work, toWorker>>
        PROVE  RequestInv'
    <2>1. outcome' = "unsent" => outcome = "unsent"
      BY <1>s, SettlePage
    <2> QED BY <1>s, <2>1 DEF RequestInv, given, work
  <1>1. CASE Drive
    <2>1. CASE aborted
      BY <1>1, <2>1, <1>s DEF Drive, Endings
    <2>2. CASE ~aborted /\ sendable
      <3>1. Len(toWorker') = 1 /\ runner = "idle"
        BY <1>1, <2>2 DEF Drive, PageInv, RequestInv
      <3> QED BY <1>1, <2>2, <3>1 DEF Drive, RequestInv, given, work
    <2>3. CASE ~aborted /\ ~sendable
      BY <1>1, <2>3 DEF Drive, RequestInv, PageInv, given, work
    <2> QED BY <2>1, <2>2, <2>3
  <1>2. CASE Abort
    <2>1. CASE Listening
      BY <1>2, <2>1, <1>s DEF Abort, Endings, Listening
    <2>2. CASE ~Listening
      BY <1>2, <2>2 DEF Abort, RequestInv, given, work
    <2> QED BY <2>1, <2>2
  <1>3. CASE WorkerError
    <2>1. CASE Listening
      <3>1. Verdict \in Endings \ {"unsent"}
        BY DEF Verdict, Endings
      <3> QED BY <1>3, <2>1, <3>1, <1>s DEF WorkerError, Listening
    <2>2. CASE ~Listening
      BY <1>3, <2>2 DEF WorkerError, RequestInv, given, work
    <2> QED BY <2>1, <2>2
  <1>4. CASE PageReceives
    <2> DEFINE message == Head(toPage)
    <2>1. CASE Listening /\ TakeResult(message.type)
      BY <1>4, <2>1, <1>s DEF TakeResult, Endings, PageReceives, Listening
    <2>2. CASE UNCHANGED outcome
      BY <1>4, <2>2 DEF PageReceives, RequestInv, given, work
    <2> QED BY <1>4, <2>1, <2>2 DEF PageReceives, Open
  <1>5. ASSUME NEW i \in Ids, HostAnswers(i) \/ HostSilent(i) PROVE RequestInv'
    BY <1>5 DEF HostAnswers, HostSilent, RequestInv, given, work
  <1>6. ASSUME NEW i \in Ids, PageReplies(i) PROVE RequestInv'
    <2>1. CASE MayPost
      <3>1. PICK r \in Reply(i) : toWorker' = Append(toWorker, r)
        BY <1>6, <2>1 DEF PageReplies
      <3>2. r \in ToWorker /\ r.type # "run"
        BY <3>1 DEF Reply, ToWorker
      <3>3. /\ Len(toWorker') = Len(toWorker) + 1
            /\ \A n \in 1 .. Len(toWorker) : toWorker'[n] = toWorker[n]
            /\ toWorker'[Len(toWorker) + 1] = r
        BY <3>1, <3>2, AppendFacts DEF ProtocolTypeOK
      <3>4. Len(toWorker) \in Nat
        BY DEF ProtocolTypeOK
      <3>5. ASSUME NEW n \in 1 .. Len(toWorker'), toWorker'[n].type = "run"
            PROVE  n \in 1 .. Len(toWorker) /\ toWorker[n].type = "run"
        BY <3>2, <3>3, <3>4, <3>5
      <3> QED BY <1>6, <3>5 DEF PageReplies, RequestInv, given, work
    <2>2. CASE ~MayPost
      BY <1>6, <2>2 DEF PageReplies, RequestInv, given, work
    <2> QED BY <2>1, <2>2
  <1>7. ASSUME NEW i \in Ids, WorkerSilent(i) PROVE RequestInv'
    BY <1>7 DEF WorkerSilent, RequestInv, page, given
  <1>8. CASE WorkerStarts \/ WorkerUnreachable \/ WorkerTraps \/ WorkerAsks
    BY <1>8 DEF WorkerStarts, WorkerUnreachable, WorkerTraps, WorkerAsks, RequestInv, page, given, work
  <1>9. CASE RunnerEnds
    BY <1>9 DEF RunnerEnds, RequestInv, page, given
  <1>10. CASE WorkerReceives
    <2>1. /\ Len(toWorker) \in Nat /\ Len(toWorker') = Len(toWorker) - 1 /\ Head(toWorker) = toWorker[1]
          /\ 1 \in 1 .. Len(toWorker)
          /\ \A n \in 1 .. Len(toWorker') : n + 1 \in 1 .. Len(toWorker) /\ toWorker'[n] = toWorker[n + 1]
      BY <1>10, TailFacts DEF WorkerReceives, ProtocolTypeOK
    <2>2. \A n \in 1 .. Len(toWorker') : toWorker'[n].type # "run"
      BY <2>1 DEF RequestInv
    <2>3. Head(toWorker).type = "run" => sendable
      BY <2>1 DEF RequestInv
    <2>4. runner' = runner \/ sendable
      BY <1>10, <2>3 DEF WorkerReceives
    <2>5. driven
      BY <1>10 DEF WorkerReceives, PageInv
    <2> QED BY <1>10, <2>2, <2>4, <2>5 DEF WorkerReceives, RequestInv, page, given
  <1>11. CASE UNCHANGED protocolVars
    BY <1>11 DEF protocolVars, page, given, work, RequestInv
  <1> QED BY <1>1, <1>2, <1>3, <1>4, <1>5, <1>6, <1>7, <1>8, <1>9, <1>10, <1>11 DEF ProtocolNext

(***************************************************************************)
(* What the caller is told.                                                *)
(***************************************************************************)

\* A result on its way to the page is the result of a runner that ended so.
LEMMA AnswerStep == ProtocolTypeOK /\ RequestInv /\ AnswerInv /\ [ProtocolNext]_protocolVars => AnswerInv'
  <1> SUFFICES ASSUME ProtocolTypeOK, RequestInv, AnswerInv, [ProtocolNext]_protocolVars PROVE AnswerInv'
    OBVIOUS
  <1>u. ASSUME UNCHANGED <<runner, toPage>> PROVE AnswerInv'
    BY <1>u DEF AnswerInv
  <1>a. ASSUME NEW m \in ToPage, toPage' = Append(toPage, m),
               m.type \in {"done", "failed"} => runner' = m.type,
               runner' = runner \/ runner = "running"
        PROVE  AnswerInv'
    <2>1. /\ Len(toPage') = Len(toPage) + 1 /\ Len(toPage) \in Nat
          /\ \A n \in 1 .. Len(toPage) : toPage'[n] = toPage[n]
          /\ toPage'[Len(toPage) + 1] = m
      BY <1>a, AppendFacts DEF ProtocolTypeOK
    <2> SUFFICES ASSUME NEW n \in 1 .. Len(toPage'), toPage'[n].type \in {"done", "failed"}
                 PROVE  runner' = toPage'[n].type
      BY DEF AnswerInv
    <2>2. CASE n = Len(toPage) + 1
      BY <1>a, <2>1, <2>2
    <2>3. CASE n \in 1 .. Len(toPage)
      BY <1>a, <2>1, <2>3 DEF AnswerInv
    <2> QED BY <2>1, <2>2, <2>3
  <1>1. CASE Drive \/ Abort \/ WorkerError
    BY <1>1, <1>u DEF Drive, Abort, WorkerError, work
  <1>2. CASE PageReceives
    <2>1. \A n \in 1 .. Len(toPage') : n + 1 \in 1 .. Len(toPage) /\ toPage'[n] = toPage[n + 1]
      BY <1>2, TailFacts DEF PageReceives, ProtocolTypeOK
    <2> QED BY <1>2, <2>1 DEF PageReceives, work, AnswerInv
  <1>3. ASSUME NEW i \in Ids, HostAnswers(i) \/ HostSilent(i) \/ PageReplies(i) \/ WorkerSilent(i)
        PROVE  AnswerInv'
    BY <1>3, <1>u DEF HostAnswers, HostSilent, PageReplies, WorkerSilent, work
  <1>4. CASE WorkerStarts
    <2>1. [type |-> "ready"] \in ToPage
      BY DEF ToPage
    <2> QED BY <1>4, <2>1, <1>a DEF WorkerStarts, work
  <1>5. CASE WorkerUnreachable \/ WorkerTraps
    BY <1>5, <1>u DEF WorkerUnreachable, WorkerTraps, work
  <1>6. CASE WorkerAsks
    <2>1. [type |-> "ask", id |-> next] \in ToPage
      BY <1>6 DEF WorkerAsks, ToPage
    <2> QED BY <1>6, <2>1, <1>a DEF WorkerAsks
  <1>7. CASE RunnerEnds
    <2>1. PICK how \in {"done", "failed"} : runner' = how /\ toPage' = Append(toPage, [type |-> how])
      BY <1>7 DEF RunnerEnds
    <2>2. [type |-> how] \in ToPage
      BY DEF ToPage
    <2> QED BY <1>7, <2>1, <2>2, <1>a DEF RunnerEnds
  <1>8. CASE WorkerReceives
    <2>1. Head(toWorker) = toWorker[1] /\ 1 \in 1 .. Len(toWorker)
      BY <1>8, TailFacts DEF WorkerReceives, ProtocolTypeOK
    <2>2. CASE Head(toWorker).type = "run"
      <3>1. runner = "idle"
        BY <2>1, <2>2 DEF RequestInv
      <3> QED BY <1>8, <3>1 DEF WorkerReceives, AnswerInv
    <2>3. CASE UNCHANGED runner
      BY <1>8, <2>3, <1>u DEF WorkerReceives
    <2> QED BY <1>8, <2>2, <2>3 DEF WorkerReceives
  <1>9. CASE UNCHANGED protocolVars
    BY <1>9, <1>u DEF protocolVars, work
  <1> QED BY <1>1, <1>2, <1>3, <1>4, <1>5, <1>6, <1>7, <1>8, <1>9 DEF ProtocolNext

\* Every step keeps the caller's outcome true.
LEMMA OutcomeStep ==
    ASSUME Inv, [ProtocolNext]_protocolVars, PageInv', RequestInv'
    PROVE  OutcomeTrue'
  <1>1. outcome' = "unsent" => ~sendable' /\ runner' = "idle"
    BY DEF RequestInv
  <1>2. \A r \in {"done", "failed"} : runner = r => runner' = r
    <2>1. CASE WorkerReceives
      <3>1. Head(toWorker) = toWorker[1] /\ 1 \in 1 .. Len(toWorker)
        BY <2>1, TailFacts DEF WorkerReceives, Inv, ProtocolTypeOK
      <3>2. Head(toWorker).type = "run" => runner = "idle"
        BY <3>1 DEF Inv, RequestInv
      <3> QED BY <2>1, <3>2 DEF WorkerReceives
    <2>2. CASE RunnerEnds
      BY <2>2 DEF RunnerEnds
    <2>3. CASE ~WorkerReceives /\ ~RunnerEnds
      BY <2>3 DEF ProtocolNext, protocolVars, work, Drive, Abort, WorkerError, PageReceives, HostAnswers, HostSilent,
                  PageReplies, WorkerSilent, WorkerStarts, WorkerUnreachable, WorkerTraps, WorkerAsks
    <2> QED BY <2>1, <2>2, <2>3
  <1>3. (started => started') /\ (settled /\ ~started => ~started') /\ (aborted => aborted')
    <2>1. CASE PageReceives
      BY <2>1 DEF PageReceives, Listening
    <2>2. CASE Abort
      BY <2>2 DEF Abort
    <2>3. CASE ~PageReceives /\ ~Abort
      <3>1. UNCHANGED <<started, aborted>>
        BY <2>3 DEF ProtocolNext, protocolVars, page, Drive, WorkerError, HostAnswers, HostSilent, PageReplies,
                    WorkerSilent, WorkerStarts, WorkerUnreachable, WorkerTraps, WorkerReceives,
                    WorkerAsks, RunnerEnds
      <3> QED BY <3>1
    <2> QED BY <2>1, <2>2, <2>3
  <1>4. CASE outcome' = outcome
    BY <1>1, <1>2, <1>3, <1>4 DEF Inv, PageInv, OutcomeTrue, Running
  <1>5. CASE outcome' # outcome
    <2>s. ASSUME NEW o \in Endings, Settle(o) PROVE outcome' = o
      BY <1>5, <2>s, SettlePage DEF Inv
    <2>1. CASE Drive
      BY <1>1, <1>5, <2>1, <2>s DEF Drive, Endings, OutcomeTrue
    <2>2. CASE Abort
      BY <1>1, <1>5, <2>2, <2>s DEF Abort, Endings, OutcomeTrue
    <2>3. CASE WorkerError
      <3>1. Verdict \in Endings
        BY DEF Verdict, Endings
      <3> QED BY <1>5, <2>3, <3>1, <2>s DEF WorkerError, Verdict, OutcomeTrue
    <2>4. CASE PageReceives
      <3> DEFINE message == Head(toPage)
      <3>1. message.type \in {"done", "failed"} /\ TakeResult(message.type)
        BY <1>5, <2>4 DEF PageReceives, Open
      <3>2. message = toPage[1] /\ 1 \in 1 .. Len(toPage)
        BY <2>4, TailFacts DEF PageReceives, Inv, ProtocolTypeOK
      <3>3. runner = message.type
        BY <3>1, <3>2 DEF Inv, AnswerInv
      <3>4. outcome' = IF message.type = "done" THEN "answer" ELSE "failure"
        BY <3>1, <2>s DEF TakeResult, Endings
      <3> QED BY <1>2, <3>1, <3>3, <3>4 DEF OutcomeTrue
    <2>5. CASE ~Drive /\ ~Abort /\ ~WorkerError /\ ~PageReceives
      BY <1>5, <2>5 DEF ProtocolNext, protocolVars, page, HostAnswers, HostSilent, PageReplies, WorkerSilent, WorkerStarts,
                        WorkerUnreachable, WorkerTraps, WorkerReceives, WorkerAsks, RunnerEnds
    <2> QED BY <2>1, <2>2, <2>3, <2>4, <2>5
  <1> QED BY <1>4, <1>5

(***************************************************************************)
(* Asks.                                                                   *)
(***************************************************************************)

\* An ask on its way to the page is of a call made, and is the only one of its number.
LEMMA AskStep == ProtocolTypeOK /\ PageInv /\ RequestInv /\ AskInv /\ [ProtocolNext]_protocolVars => AskInv'
  <1> SUFFICES ASSUME ProtocolTypeOK, PageInv, RequestInv, AskInv, [ProtocolNext]_protocolVars PROVE AskInv'
    OBVIOUS
  <1>t. next \in Nat /\ Len(toPage) \in Nat
    BY ProtocolAssumption DEF ProtocolTypeOK, ProtocolAssumption
  \* Handlers that were idle stay so, and the others were for asks already made.
  <1>u. ASSUME UNCHANGED <<hosted, toPage, next>>, runner' = "idle" => runner = "idle",
               \A i \in Ids : handler'[i] = "idle" <=> handler[i] = "idle"
        PROVE  AskInv'
    <2>1. \A n \in 1 .. Len(toPage) : toPage[n].type = "ask" => toPage[n].id \in Ids
      BY DEF ProtocolTypeOK, ToPage
    <2> QED BY <1>u, <2>1 DEF AskInv
  <1>s. ASSUME NEW o \in Endings, Settle(o) PROVE \A i \in Ids : handler'[i] = "idle" <=> handler[i] = "idle"
    BY <1>s, SettlePage
  \* A message that is not an ask.
  <1>a. ASSUME NEW m \in ToPage, toPage' = Append(toPage, m), m.type # "ask",
               UNCHANGED <<hosted, next, handler>>, runner' = "idle" => runner = "idle"
        PROVE  AskInv'
    <2>1. /\ Len(toPage') = Len(toPage) + 1
          /\ \A n \in 1 .. Len(toPage) : toPage'[n] = toPage[n]
          /\ toPage'[Len(toPage) + 1] = m
      BY <1>a, AppendFacts DEF ProtocolTypeOK
    <2>2. \A n \in 1 .. Len(toPage') : toPage'[n].type = "ask" =>
            n \in 1 .. Len(toPage) /\ toPage'[n] = toPage[n]
      BY <1>a, <1>t, <2>1
    <2> QED BY <1>a, <2>2 DEF AskInv
  <1>1. CASE Drive
    <2>1. CASE aborted
      BY <1>1, <2>1, <1>s, <1>u DEF Drive, Endings, given, work
    <2>2. CASE ~aborted
      BY <1>1, <2>2, <1>u DEF Drive, given, work
    <2> QED BY <2>1, <2>2
  <1>2. CASE Abort
    <2>1. CASE Listening
      BY <1>2, <2>1, <1>s, <1>u DEF Abort, Endings, given, work
    <2>2. CASE ~Listening
      BY <1>2, <2>2, <1>u DEF Abort, given, work
    <2> QED BY <2>1, <2>2
  <1>3. CASE WorkerError
    <2>1. CASE Listening
      <3>1. Verdict \in Endings
        BY DEF Verdict, Endings
      <3> QED BY <1>3, <2>1, <3>1, <1>s, <1>u DEF WorkerError, given, work
    <2>2. CASE ~Listening
      BY <1>3, <2>2, <1>u DEF WorkerError, given, work
    <2> QED BY <2>1, <2>2
  <1>4. CASE PageReceives
    <2> DEFINE message == Head(toPage)
    <2>1. /\ message = toPage[1] /\ 1 \in 1 .. Len(toPage) /\ message \in ToPage
          /\ \A n \in 1 .. Len(toPage') : n + 1 \in 1 .. Len(toPage) /\ toPage'[n] = toPage[n + 1]
          /\ Len(toPage') \in Nat
      BY <1>4, <1>t, TailFacts DEF PageReceives, ProtocolTypeOK
    <2>2. UNCHANGED <<hosted, runner, next>>
      BY <1>4 DEF PageReceives, given, work
    <2>3. ASSUME \A i \in Ids : handler'[i] = "idle" <=> handler[i] = "idle" PROVE AskInv'
      <3>1. \A n \in 1 .. Len(toPage') : toPage'[n].type = "ask" => toPage'[n].id \in Ids
        BY <2>1 DEF ProtocolTypeOK, ToPage
      <3>2. \A n \in 1 .. Len(toPage') : toPage'[n].type = "ask" =>
              hosted' /\ toPage'[n].id < next' /\ handler'[toPage'[n].id] = "idle"
        BY <2>1, <2>2, <2>3, <3>1 DEF AskInv
      <3>3. \A n, k \in 1 .. Len(toPage') :
              toPage'[n].type = "ask" /\ toPage'[k].type = "ask" /\ toPage'[n].id = toPage'[k].id => n = k
        BY <2>1 DEF AskInv
      <3>4. \A i \in Ids : handler'[i] # "idle" => i < next'
        BY <2>2, <2>3 DEF AskInv
      <3> QED BY <2>2, <3>2, <3>3, <3>4 DEF AskInv
    <2>4. CASE Listening /\ TakeResult(message.type)
      BY <2>3, <2>4, <1>s DEF TakeResult, Endings
    <2>5. CASE UNCHANGED handler
      BY <2>3, <2>5
    <2>6. CASE message.type = "ask" /\ Open(message.id)
      <3>1. message.id \in Ids /\ message.id < next
        BY <2>1, <2>6 DEF ToPage, AskInv
      <3>2. \A i \in Ids : i # message.id => handler'[i] = handler[i]
        BY <2>6 DEF Open, ProtocolTypeOK
      <3>3. \A n \in 1 .. Len(toPage') : toPage'[n].type = "ask" =>
              toPage'[n].id \in Ids /\ toPage'[n].id # message.id
        <4> SUFFICES ASSUME NEW n \in 1 .. Len(toPage'), toPage'[n].type = "ask"
                     PROVE  toPage'[n].id \in Ids /\ toPage'[n].id # message.id
          OBVIOUS
        <4>1. n + 1 \in 1 .. Len(toPage) /\ toPage'[n] = toPage[n + 1] /\ n + 1 # 1
          BY <2>1
        <4>2. toPage[n + 1].id \in Ids
          BY <4>1 DEF ProtocolTypeOK, ToPage
        <4>3. toPage[n + 1].id # toPage[1].id
          BY <4>1, <2>1, <2>6 DEF AskInv
        <4> QED BY <4>1, <4>2, <4>3, <2>1
      <3>4. \A i \in Ids : handler'[i] # "idle" => i < next
        BY <3>1, <3>2 DEF AskInv
      <3>5. \A n \in 1 .. Len(toPage') : toPage'[n].type = "ask" =>
              hosted /\ toPage'[n].id < next /\ handler'[toPage'[n].id] = "idle"
        BY <2>1, <3>2, <3>3 DEF AskInv
      <3>6. \A n, k \in 1 .. Len(toPage') :
              toPage'[n].type = "ask" /\ toPage'[k].type = "ask" /\ toPage'[n].id = toPage'[k].id => n = k
        BY <2>1 DEF AskInv
      <3> QED BY <2>2, <3>4, <3>5, <3>6 DEF AskInv
    <2> QED BY <1>4, <2>4, <2>5, <2>6 DEF PageReceives
  <1>5. ASSUME NEW i \in Ids, HostAnswers(i) \/ HostSilent(i) PROVE AskInv'
    <2>1. \A j \in Ids : handler'[j] = "idle" <=> handler[j] = "idle"
      BY <1>5 DEF HostAnswers, HostSilent, ProtocolTypeOK
    <2> QED BY <1>5, <2>1, <1>u DEF HostAnswers, HostSilent, given, work
  <1>6. ASSUME NEW i \in Ids, PageReplies(i) PROVE AskInv'
    <2>1. \A j \in Ids : handler'[j] = "idle" <=> handler[j] = "idle"
      BY <1>6 DEF PageReplies, ProtocolTypeOK
    <2> QED BY <1>6, <2>1, <1>u DEF PageReplies, given, work
  <1>7. ASSUME NEW i \in Ids, WorkerSilent(i) PROVE AskInv'
    BY <1>7, <1>u DEF WorkerSilent, given, page
  <1>8. CASE WorkerStarts
    <2>1. [type |-> "ready"] \in ToPage
      BY DEF ToPage
    <2> QED BY <1>8, <2>1, <1>a DEF WorkerStarts, given, work, page
  <1>9. CASE WorkerUnreachable \/ WorkerTraps
    BY <1>9, <1>u DEF WorkerUnreachable, WorkerTraps, given, page, work
  <1>10. CASE WorkerReceives
    BY <1>10, <1>u DEF WorkerReceives, given, page
  <1>11. CASE WorkerAsks
    <2> DEFINE m == [type |-> "ask", id |-> next]
    <2>1. m \in ToPage /\ next \in Ids
      BY <1>11 DEF WorkerAsks, ToPage
    <2>2. /\ Len(toPage') = Len(toPage) + 1
          /\ \A n \in 1 .. Len(toPage) : toPage'[n] = toPage[n]
          /\ toPage'[Len(toPage) + 1] = m
      BY <1>11, <2>1, AppendFacts DEF WorkerAsks, ProtocolTypeOK
    <2>3. /\ next' = next + 1 /\ hosted /\ runner = "running"
          /\ UNCHANGED <<hosted, runner, handler>>
      BY <1>11 DEF WorkerAsks, given, page
    <2>4. handler[next] = "idle"
      BY <1>t, <2>1 DEF AskInv
    <2>5. \A n \in 1 .. Len(toPage) : toPage[n].type = "ask" => toPage[n].id \in Nat /\ toPage[n].id < next
      BY ProtocolAssumption DEF AskInv, ProtocolTypeOK, ToPage, Ids, ProtocolAssumption
    <2>6. \A n \in 1 .. Len(toPage') : n \in 1 .. Len(toPage) \/ n = Len(toPage) + 1
      BY <1>t, <2>2
    <2>7. \A i \in Ids : handler'[i] # "idle" => i < next'
      BY <1>t, <2>3 DEF AskInv, Ids
    <2>8. \A n \in 1 .. Len(toPage') : toPage'[n].type = "ask" =>
            hosted' /\ toPage'[n].id < next' /\ handler'[toPage'[n].id] = "idle"
      <3> SUFFICES ASSUME NEW n \in 1 .. Len(toPage'), toPage'[n].type = "ask"
                   PROVE  hosted' /\ toPage'[n].id < next' /\ handler'[toPage'[n].id] = "idle"
        OBVIOUS
      <3>1. CASE n \in 1 .. Len(toPage)
        BY <1>t, <2>2, <2>3, <2>5, <3>1 DEF AskInv
      <3>2. CASE n = Len(toPage) + 1
        BY <1>t, <2>2, <2>3, <2>4, <3>2
      <3> QED BY <2>6, <3>1, <3>2
    <2>9. \A n, k \in 1 .. Len(toPage') :
            toPage'[n].type = "ask" /\ toPage'[k].type = "ask" /\ toPage'[n].id = toPage'[k].id => n = k
      <3> SUFFICES ASSUME NEW n \in 1 .. Len(toPage'), NEW k \in 1 .. Len(toPage'),
                          toPage'[n].type = "ask", toPage'[k].type = "ask", toPage'[n].id = toPage'[k].id
                   PROVE  n = k
        OBVIOUS
      <3>1. CASE n \in 1 .. Len(toPage) /\ k \in 1 .. Len(toPage)
        BY <2>2, <3>1 DEF AskInv
      <3>2. CASE n = Len(toPage) + 1 /\ k \in 1 .. Len(toPage)
        BY <1>t, <2>2, <2>5, <3>2
      <3>3. CASE n \in 1 .. Len(toPage) /\ k = Len(toPage) + 1
        BY <1>t, <2>2, <2>5, <3>3
      <3> QED BY <2>6, <3>1, <3>2, <3>3
    <2> QED BY <2>3, <2>7, <2>8, <2>9 DEF AskInv
  <1>12. CASE RunnerEnds
    <2>1. PICK how \in {"done", "failed"} : runner' = how /\ toPage' = Append(toPage, [type |-> how])
      BY <1>12 DEF RunnerEnds
    <2>2. [type |-> how] \in ToPage
      BY DEF ToPage
    <2> QED BY <1>12, <2>1, <2>2, <1>a DEF RunnerEnds, given, page
  <1>13. CASE UNCHANGED protocolVars
    BY <1>13, <1>u DEF protocolVars, given, page, work
  <1> QED BY <1>1, <1>2, <1>3, <1>4, <1>5, <1>6, <1>7, <1>8, <1>9, <1>10, <1>11, <1>12, <1>13 DEF ProtocolNext

(***************************************************************************)
(* Where an ask is.                                                        *)
(***************************************************************************)

Held(i) == handler[i] \in {"asking", "answered", "refused"}
Coming(i) == \E n \in 1 .. Len(toPage) : toPage[n].type = "ask" /\ toPage[n].id = i
Going(i)  == \E n \in 1 .. Len(toWorker) : toWorker[n].type # "run" /\ toWorker[n].id = i

\* While the run is on, the worker waits for what is on its way, held or answered, and
\* for nothing else; an answer on its way is of a handler that is over, and its only one.
PlaceInv ==
    ~settled =>
      /\ \A n \in 1 .. Len(toPage) : toPage[n].type = "ask" => toPage[n].id \in waiting
      /\ \A n \in 1 .. Len(toWorker) : toWorker[n].type # "run" =>
           toWorker[n].id \in waiting /\ handler[toWorker[n].id] = "over"
      /\ \A n, k \in 1 .. Len(toWorker) :
           toWorker[n].type # "run" /\ toWorker[k].type # "run" /\ toWorker[n].id = toWorker[k].id => n = k
      /\ \A i \in Ids : Held(i) => i \in waiting
      /\ \A i \in waiting : i < next /\ (Coming(i) \/ Held(i) \/ Going(i))

\* A message that is no ask changes nothing for those on their way to the page.
LEMMA PostsNoAsk ==
    ASSUME ProtocolTypeOK, NEW m \in ToPage, m.type # "ask", toPage' = Append(toPage, m),
           PlaceInv, UNCHANGED <<settled, handler, next, waiting, toWorker>>
    PROVE  PlaceInv'
  <1>1. /\ Len(toPage) \in Nat /\ Len(toPage') = Len(toPage) + 1
        /\ \A n \in 1 .. Len(toPage) : toPage'[n] = toPage[n]
        /\ toPage'[Len(toPage) + 1] = m
    BY AppendFacts DEF ProtocolTypeOK
  <1>2. \A n \in 1 .. Len(toPage') : toPage'[n].type = "ask" =>
          n \in 1 .. Len(toPage) /\ toPage'[n] = toPage[n]
    BY <1>1
  <1>3. \A i : Coming(i) => Coming(i)'
    BY <1>1 DEF Coming
  <1>4. \A i : (Held(i)' <=> Held(i)) /\ (Going(i)' <=> Going(i))
    BY DEF Held, Going
  <1> QED BY <1>2, <1>3, <1>4 DEF PlaceInv

\* A host call in flight stays with its handler until it is over, whatever the host says.
LEMMA HandlersOn ==
    ASSUME ProtocolTypeOK, PlaceInv, NEW c \in Ids, Held(c), NEW a \in {"answered", "refused"},
           handler' = [handler EXCEPT ![c] = a], UNCHANGED <<settled, next, waiting, toWorker, toPage>>
    PROVE  PlaceInv'
  <1>1. \A i \in Ids : (Held(i)' <=> Held(i)) /\ (handler[i] = "over" => handler'[i] = "over")
    BY DEF Held, ProtocolTypeOK
  <1>2. \A i : (Coming(i)' <=> Coming(i)) /\ (Going(i)' <=> Going(i))
    BY DEF Coming, Going
  <1>3. \A n \in 1 .. Len(toWorker) : toWorker[n].type # "run" => toWorker[n].id \in Ids
    BY DEF ProtocolTypeOK, ToWorker
  <1>4. waiting \subseteq Ids
    BY DEF ProtocolTypeOK
  <1> QED BY <1>1, <1>2, <1>3, <1>4 DEF PlaceInv

\* Every step keeps each ask that is waited for in a place.
LEMMA PlaceStep == Inv /\ PlaceInv /\ [ProtocolNext]_protocolVars => PlaceInv'
  <1> SUFFICES ASSUME Inv, PlaceInv, [ProtocolNext]_protocolVars PROVE PlaceInv'
    OBVIOUS
  <1>t. ProtocolTypeOK /\ waiting \subseteq Ids /\ Len(toPage) \in Nat /\ Len(toWorker) \in Nat
    BY DEF Inv, ProtocolTypeOK
  <1>i. /\ \A n \in 1 .. Len(toPage) : toPage[n].type = "ask" => toPage[n].id \in Ids
        /\ \A n \in 1 .. Len(toWorker) : toWorker[n].type # "run" => toWorker[n].id \in Ids
    BY DEF Inv, ProtocolTypeOK, ToPage, ToWorker
  <1>s. ASSUME settled' PROVE PlaceInv'
    BY <1>s DEF PlaceInv
  <1>u. ASSUME UNCHANGED <<settled, handler, next, waiting, toWorker, toPage>> PROVE PlaceInv'
    BY <1>u DEF PlaceInv, Held, Coming, Going
  <1>1. CASE Drive
    <2>1. CASE aborted
      BY <1>1, <2>1, <1>s DEF Drive, Settle
    <2>2. CASE ~aborted /\ sendable
      <3>1. toWorker = <<>> /\ toWorker' = Append(toWorker, [type |-> "run"])
        BY <1>1, <2>2 DEF Drive, Inv, PageInv
      <3>2. Len(toWorker') = 1 /\ toWorker'[1].type = "run"
        BY <3>1
      <3>3. \A n \in 1 .. Len(toWorker') : toWorker'[n].type = "run"
        BY <3>2
      <3>4. \A i : ~Going(i)
        BY <3>1 DEF Going
      <3>5. UNCHANGED <<settled, handler, next, waiting, toPage>>
        BY <1>1, <2>2 DEF Drive, work
      <3>6. \A i : (Held(i)' <=> Held(i)) /\ (Coming(i)' <=> Coming(i))
        BY <3>5 DEF Held, Coming
      <3> QED BY <3>3, <3>4, <3>5, <3>6 DEF PlaceInv
    <2>3. CASE ~aborted /\ ~sendable
      BY <1>1, <2>3, <1>u DEF Drive, work
    <2> QED BY <2>1, <2>2, <2>3
  <1>2. CASE Abort
    BY <1>2, <1>s, <1>u DEF Abort, Settle, work
  <1>3. CASE WorkerError
    BY <1>3, <1>s, <1>u DEF WorkerError, Settle, work
  <1>4. CASE PageReceives
    <2> DEFINE message == Head(toPage)
    <2>1. /\ message = toPage[1] /\ 1 \in 1 .. Len(toPage) /\ Len(toPage') \in Nat
          /\ \A n \in 1 .. Len(toPage') : n + 1 \in 1 .. Len(toPage) /\ toPage'[n] = toPage[n + 1]
          /\ Len(toPage') = Len(toPage) - 1
      BY <1>4, <1>t, TailFacts DEF PageReceives, ProtocolTypeOK
    <2>2. UNCHANGED <<next, waiting, toWorker>>
      BY <1>4 DEF PageReceives, work
    <2>3. \A n \in 1 .. Len(toPage) : n # 1 => n - 1 \in 1 .. Len(toPage') /\ toPage'[n - 1] = toPage[n]
      BY <1>t, <2>1
    <2>4. \A i : Coming(i) /\ ~(message.type = "ask" /\ message.id = i) => Coming(i)'
      BY <2>1, <2>3 DEF Coming
    <2>5. \A i : Going(i)' <=> Going(i)
      BY <2>2 DEF Going
    <2>6. CASE Listening /\ TakeResult(message.type)
      BY <2>6, <1>s DEF TakeResult, Settle
    <2>7. CASE Listening /\ message.type = "ask" /\ Open(message.id)
      <3>1. PICK c \in Ids : c = message.id
        BY <1>i, <2>1, <2>7
      <3>2. ~settled /\ settled' = settled /\ c \in waiting /\ handler[c] = "idle"
        BY <2>1, <2>7, <3>1 DEF Listening, Open, PlaceInv, Inv, AskInv
      <3>3. PICK a \in {"asking", "refused"} : handler' = [handler EXCEPT ![c] = a]
        BY <2>7, <3>1 DEF Open
      <3>4. \A i \in Ids : (Held(i)' <=> Held(i) \/ i = c) /\ (handler[i] = "over" => handler'[i] = "over")
        BY <1>t, <3>2, <3>3 DEF Held, ProtocolTypeOK
      <3>5. \A n \in 1 .. Len(toPage') : toPage'[n].type = "ask" => toPage'[n].id \in waiting'
        BY <2>1, <2>2, <3>2 DEF PlaceInv
      <3>6. \A n \in 1 .. Len(toWorker') : toWorker'[n].type # "run" =>
              toWorker'[n].id \in waiting' /\ handler'[toWorker'[n].id] = "over"
        BY <1>i, <2>2, <3>2, <3>4 DEF PlaceInv
      <3>7. \A i \in Ids : Held(i)' => i \in waiting'
        BY <2>2, <3>2, <3>4 DEF PlaceInv
      <3>8. \A i \in waiting' : i < next' /\ (Coming(i)' \/ Held(i)' \/ Going(i)')
        BY <1>t, <2>2, <2>4, <2>5, <3>1, <3>2, <3>4 DEF PlaceInv
      <3> QED BY <2>2, <3>2, <3>5, <3>6, <3>7, <3>8 DEF PlaceInv
    <2>8. CASE (~Listening \/ message.type = "ready") /\ UNCHANGED <<settled, handler>>
      <3>1. CASE settled'
        BY <3>1, <1>s
      <3>2. CASE ~settled'
        <4>1. message.type = "ready"
          BY <1>4, <2>8, <3>2 DEF PageReceives, Listening
        <4>2. \A i : Held(i)' <=> Held(i)
          BY <2>8 DEF Held
        <4>3. \A n \in 1 .. Len(toPage') : toPage'[n].type = "ask" => toPage'[n].id \in waiting'
          BY <2>1, <2>2, <2>8, <3>2 DEF PlaceInv
        <4> QED BY <2>2, <2>4, <2>5, <2>8, <3>2, <4>1, <4>2, <4>3 DEF PlaceInv
      <3> QED BY <3>1, <3>2
    <2> QED BY <1>4, <2>6, <2>7, <2>8 DEF PageReceives
  <1>5. ASSUME NEW c \in Ids, HostAnswers(c) \/ HostSilent(c) PROVE PlaceInv'
    <2>1. PICK a \in {"answered", "refused"} : handler' = [handler EXCEPT ![c] = a]
      BY <1>5 DEF HostAnswers, HostSilent
    <2>2. Held(c)
      BY <1>5 DEF HostAnswers, HostSilent, Held
    <2>3. UNCHANGED <<settled, next, waiting, toWorker, toPage>>
      BY <1>5 DEF HostAnswers, HostSilent, work
    <2> QED BY <1>t, <2>1, <2>2, <2>3, HandlersOn
  <1>6. ASSUME NEW c \in Ids, PageReplies(c) PROVE PlaceInv'
    <2>1. CASE settled
      BY <1>6, <2>1, <1>s DEF PageReplies
    <2>2. CASE ~settled
      <3>1. PICK r \in Reply(c) : toWorker' = Append(toWorker, r)
        BY <1>6, <2>2 DEF PageReplies, MayPost
      <3>2. r \in ToWorker /\ r.type # "run" /\ r.id = c
        BY <3>1 DEF Reply, ToWorker
      <3>3. /\ Len(toWorker') = Len(toWorker) + 1
            /\ \A n \in 1 .. Len(toWorker) : toWorker'[n] = toWorker[n]
            /\ toWorker'[Len(toWorker) + 1] = r
        BY <3>1, <3>2, AppendFacts DEF Inv, ProtocolTypeOK
      <3>4. \A n \in 1 .. Len(toWorker') : n \in 1 .. Len(toWorker) \/ n = Len(toWorker) + 1
        BY <1>t, <3>3
      <3>5. /\ UNCHANGED <<settled, next, waiting, toPage>>
            /\ handler' = [handler EXCEPT ![c] = "over"] /\ handler[c] \in {"answered", "refused"}
        BY <1>6 DEF PageReplies, work
      <3>6. /\ handler'[c] = "over" /\ c \in waiting
            /\ \A i \in Ids : i # c => handler'[i] = handler[i]
        BY <1>t, <2>2, <3>5 DEF ProtocolTypeOK, PlaceInv, Held
      <3>7. \A n \in 1 .. Len(toWorker) : toWorker[n].type # "run" => toWorker[n].id # c
        BY <2>2, <3>5 DEF PlaceInv
      <3>8. \A n \in 1 .. Len(toWorker') : toWorker'[n].type # "run" =>
              toWorker'[n].id \in waiting' /\ handler'[toWorker'[n].id] = "over"
        <4> SUFFICES ASSUME NEW n \in 1 .. Len(toWorker'), toWorker'[n].type # "run"
                     PROVE  toWorker'[n].id \in waiting' /\ handler'[toWorker'[n].id] = "over"
          OBVIOUS
        <4>1. CASE n \in 1 .. Len(toWorker)
          BY <1>i, <2>2, <3>3, <3>5, <3>6, <3>7, <4>1 DEF PlaceInv
        <4>2. CASE n = Len(toWorker) + 1
          BY <3>2, <3>3, <3>5, <3>6, <4>2
        <4> QED BY <3>4, <4>1, <4>2
      <3>9. \A n, k \in 1 .. Len(toWorker') :
              toWorker'[n].type # "run" /\ toWorker'[k].type # "run" /\ toWorker'[n].id = toWorker'[k].id => n = k
        BY <2>2, <3>2, <3>3, <3>4, <3>7 DEF PlaceInv
      <3>10. Going(c)'
        <4>1. Len(toWorker) + 1 \in 1 .. Len(toWorker')
          BY <1>t, <3>3
        <4> QED BY <3>2, <3>3, <4>1 DEF Going
      <3>11. \A i : (Going(i) => Going(i)') /\ (Coming(i)' <=> Coming(i))
        BY <1>t, <3>3, <3>5 DEF Going, Coming
      <3>12. \A i \in Ids : i # c => (Held(i)' <=> Held(i))
        BY <3>6 DEF Held
      <3>13. ~Held(c)'
        BY <3>6 DEF Held
      <3>14. \A n \in 1 .. Len(toPage') : toPage'[n].type = "ask" => toPage'[n].id \in waiting'
        BY <2>2, <3>5 DEF PlaceInv
      <3>15. \A i \in Ids : Held(i)' => i \in waiting'
        BY <2>2, <3>5, <3>12, <3>13 DEF PlaceInv
      <3>16. \A i \in waiting' : i < next' /\ (Coming(i)' \/ Held(i)' \/ Going(i)')
        BY <1>t, <2>2, <3>5, <3>10, <3>11, <3>12 DEF PlaceInv
      <3> QED BY <3>8, <3>9, <3>14, <3>15, <3>16 DEF PlaceInv
    <2> QED BY <2>1, <2>2
  <1>7. ASSUME NEW c \in Ids, WorkerSilent(c) PROVE PlaceInv'
    BY <1>7, <1>u DEF WorkerSilent, page
  <1>8. CASE WorkerStarts
    <2>1. PICK m \in ToPage : m = [type |-> "ready"]
      BY DEF ToPage
    <2> QED BY <1>8, <1>t, <2>1, PostsNoAsk DEF WorkerStarts, page, work
  <1>9. CASE WorkerUnreachable \/ WorkerTraps
    BY <1>9, <1>u DEF WorkerUnreachable, WorkerTraps, page, work
  <1>10. CASE WorkerReceives
    <2> DEFINE message == Head(toWorker)
    <2>1. /\ message = toWorker[1] /\ 1 \in 1 .. Len(toWorker) /\ Len(toWorker') \in Nat
          /\ \A n \in 1 .. Len(toWorker') : n + 1 \in 1 .. Len(toWorker) /\ toWorker'[n] = toWorker[n + 1]
          /\ Len(toWorker') = Len(toWorker) - 1
      BY <1>10, <1>t, TailFacts DEF WorkerReceives, ProtocolTypeOK
    <2>2. \A n \in 1 .. Len(toWorker) : n # 1 => n - 1 \in 1 .. Len(toWorker') /\ toWorker'[n - 1] = toWorker[n]
      BY <1>t, <2>1
    <2>3. UNCHANGED <<settled, next, handler, toPage>>
      BY <1>10 DEF WorkerReceives, page
    <2>4. \A i : (Held(i)' <=> Held(i)) /\ (Coming(i)' <=> Coming(i))
      BY <2>3 DEF Held, Coming
    <2>5. \A i : Going(i) /\ ~(message.type # "run" /\ message.id = i) => Going(i)'
      BY <2>1, <2>2 DEF Going
    <2>6. CASE message.type = "run" /\ UNCHANGED waiting
      <3>1. \A n \in 1 .. Len(toWorker') : toWorker'[n] = toWorker[n + 1] /\ n + 1 \in 1 .. Len(toWorker)
        BY <2>1
      <3>2. ~settled => \A n, k \in 1 .. Len(toWorker') :
              toWorker'[n].type # "run" /\ toWorker'[k].type # "run" /\ toWorker'[n].id = toWorker'[k].id => n = k
        BY <3>1 DEF PlaceInv
      <3> QED BY <2>3, <2>4, <2>5, <2>6, <3>1, <3>2 DEF PlaceInv
    <2>7. CASE message.type \in {"answer", "refuse"} /\ waiting' = waiting \ {message.id}
      <3> SUFFICES ASSUME ~settled PROVE PlaceInv'
        BY <1>s, <2>3
      <3>1. PICK c \in Ids : c = message.id
        BY <1>i, <2>1, <2>7
      <3>2. c \in waiting /\ handler[c] = "over"
        BY <2>1, <2>7, <3>1 DEF PlaceInv
      <3>3. \A n \in 1 .. Len(toWorker') : toWorker'[n].type # "run" => toWorker'[n].id # c
        <4> SUFFICES ASSUME NEW n \in 1 .. Len(toWorker'), toWorker'[n].type # "run"
                     PROVE  toWorker'[n].id # c
          OBVIOUS
        <4>1. n + 1 \in 1 .. Len(toWorker) /\ n + 1 # 1 /\ toWorker'[n] = toWorker[n + 1]
          BY <2>1
        <4> QED BY <2>1, <2>7, <3>1, <4>1 DEF PlaceInv
      <3>4. ~Held(c) /\ ~Coming(c)
        BY <3>2 DEF Held, Coming, Inv, AskInv
      <3>5. \A n \in 1 .. Len(toPage') : toPage'[n].type = "ask" => toPage'[n].id \in waiting'
        BY <2>3, <2>7, <3>1, <3>4 DEF PlaceInv, Coming
      <3>6. \A n \in 1 .. Len(toWorker') : toWorker'[n].type # "run" =>
              toWorker'[n].id \in waiting' /\ handler'[toWorker'[n].id] = "over"
        BY <2>1, <2>3, <2>7, <3>1, <3>3 DEF PlaceInv
      <3>7. \A n, k \in 1 .. Len(toWorker') :
              toWorker'[n].type # "run" /\ toWorker'[k].type # "run" /\ toWorker'[n].id = toWorker'[k].id => n = k
        BY <2>1 DEF PlaceInv
      <3>8. \A i \in Ids : Held(i)' => i \in waiting'
        BY <2>4, <2>7, <3>1, <3>4 DEF PlaceInv
      <3>9. \A i \in waiting' : i < next' /\ (Coming(i)' \/ Held(i)' \/ Going(i)')
        BY <2>3, <2>4, <2>5, <2>7, <3>1 DEF PlaceInv
      <3> QED BY <3>5, <3>6, <3>7, <3>8, <3>9 DEF PlaceInv
    <2> QED BY <1>10, <2>6, <2>7 DEF WorkerReceives
  <1>11. CASE WorkerAsks
    <2>1. PICK m \in ToPage : m = [type |-> "ask", id |-> next]
      BY <1>11 DEF WorkerAsks, ToPage
    <2>2. /\ Len(toPage') = Len(toPage) + 1
          /\ \A n \in 1 .. Len(toPage) : toPage'[n] = toPage[n]
          /\ toPage'[Len(toPage) + 1] = m
      BY <1>11, <2>1, AppendFacts DEF WorkerAsks, Inv, ProtocolTypeOK
    <2>3. /\ next \in Ids /\ next' = next + 1 /\ waiting' = waiting \cup {next}
          /\ UNCHANGED <<settled, handler, toWorker>>
      BY <1>11 DEF WorkerAsks, page
    <2>4. next \in Nat /\ \A i \in Ids : i \in Nat
      BY <2>3 DEF Ids
    <2>5. \A n \in 1 .. Len(toPage') : n \in 1 .. Len(toPage) \/ n = Len(toPage) + 1
      BY <1>t, <2>2
    <2>6. \A i : (Held(i)' <=> Held(i)) /\ (Going(i)' <=> Going(i))
      BY <2>3 DEF Held, Going
    <2>7. \A i : Coming(i) => Coming(i)'
      BY <1>t, <2>2 DEF Coming
    <2>8. PICK k \in Ids : k = next
      BY <2>3
    <2>11. Coming(k)'
      <3>1. Len(toPage) + 1 \in 1 .. Len(toPage')
        BY <1>t, <2>2
      <3>2. toPage'[Len(toPage) + 1].type = "ask" /\ toPage'[Len(toPage) + 1].id = k
        BY <2>1, <2>2, <2>8
      <3> QED BY <3>1, <3>2 DEF Coming
    <2>9. \A n \in 1 .. Len(toPage') : toPage'[n].type = "ask" /\ ~settled => toPage'[n].id \in waiting'
      BY <2>1, <2>2, <2>3, <2>5 DEF PlaceInv
    <2>10. ~settled => \A i \in waiting' : i < next' /\ (Coming(i)' \/ Held(i)' \/ Going(i)')
      BY <1>t, <2>3, <2>4, <2>6, <2>7, <2>8, <2>11 DEF PlaceInv
    <2> QED BY <2>3, <2>6, <2>9, <2>10 DEF PlaceInv
  <1>12. CASE RunnerEnds
    <2>1. PICK how \in {"done", "failed"} : toPage' = Append(toPage, [type |-> how])
      BY <1>12 DEF RunnerEnds
    <2>2. PICK m \in ToPage : m = [type |-> how]
      BY DEF ToPage
    <2>3. m.type # "ask"
      BY <2>2
    <2> QED BY <1>12, <1>t, <2>1, <2>2, <2>3, PostsNoAsk DEF RunnerEnds, page
  <1>13. CASE UNCHANGED protocolVars
    BY <1>13, <1>u DEF protocolVars, page, work
  <1> QED BY <1>1, <1>2, <1>3, <1>4, <1>5, <1>6, <1>7, <1>8, <1>9, <1>10, <1>11, <1>12, <1>13 DEF ProtocolNext

\* Where PlaceInv holds, the places of an ask are one or none.
LEMMA PlacesOfAsk == ProtocolTypeOK /\ AskInv /\ PlaceInv => AskSomewhere
  <1> SUFFICES ASSUME ProtocolTypeOK, AskInv, PlaceInv, ~settled, NEW i \in Ids
               PROVE  LET places == (Asked(i) \X {"ask"}) \cup (Replied(i) \X {"reply"})
                                    \cup {h \in {<<i, "handler">>} : handler[i] \in {"asking", "answered", "refused"}}
                      IN  IF i \in waiting THEN \E p \in places : places = {p} ELSE places = {}
    BY DEF AskSomewhere
  <1> DEFINE by == {h \in {<<i, "handler">>} : handler[i] \in {"asking", "answered", "refused"}}
             places == (Asked(i) \X {"ask"}) \cup (Replied(i) \X {"reply"}) \cup by
  <1>1. DOMAIN toPage = 1 .. Len(toPage) /\ DOMAIN toWorker = 1 .. Len(toWorker)
    BY DEF ProtocolTypeOK
  <1>2. \A n \in 1 .. Len(toPage) : toPage[n] = [type |-> "ask", id |-> i] <=> toPage[n].type = "ask" /\ toPage[n].id = i
    <2> SUFFICES ASSUME NEW n \in 1 .. Len(toPage), toPage[n].type = "ask", toPage[n].id = i
                 PROVE  toPage[n] = [type |-> "ask", id |-> i]
      OBVIOUS
    <2>1. toPage[n] \in [type : {"ask"}, id : Ids]
      BY DEF ProtocolTypeOK, ToPage
    <2> QED BY <2>1
  <1>3. Asked(i) = {n \in 1 .. Len(toPage) : toPage[n].type = "ask" /\ toPage[n].id = i}
    BY <1>1, <1>2 DEF Asked
  <1>4. Replied(i) = {n \in 1 .. Len(toWorker) : toWorker[n].type # "run" /\ toWorker[n].id = i}
    BY <1>1 DEF Replied
  <1>5. by = IF Held(i) THEN {<<i, "handler">>} ELSE {}
    BY DEF Held
  <1>6. /\ Coming(i) => \E n : Asked(i) = {n}
        /\ ~Coming(i) => Asked(i) = {}
    BY <1>3 DEF Coming, AskInv
  <1>7. /\ Going(i) => \E n : Replied(i) = {n}
        /\ ~Going(i) => Replied(i) = {}
    <2>1. ASSUME Going(i) PROVE \E n : Replied(i) = {n}
      <3>1. PICK n \in 1 .. Len(toWorker) : toWorker[n].type # "run" /\ toWorker[n].id = i
        BY <2>1 DEF Going
      <3>2. \A k \in Replied(i) : k = n
        BY <1>4, <3>1 DEF PlaceInv
      <3>3. Replied(i) = {n}
        BY <1>4, <3>1, <3>2
      <3> QED BY <3>3
    <2>2. ~Going(i) => Replied(i) = {}
      BY <1>4 DEF Going
    <2> QED BY <2>1, <2>2
  <1>8. /\ Coming(i) => i \in waiting /\ ~Held(i) /\ ~Going(i)
        /\ Going(i) => i \in waiting /\ ~Held(i)
        /\ Held(i) => i \in waiting
    BY DEF Coming, Going, Held, AskInv, PlaceInv
  <1>9. i \in waiting => Coming(i) \/ Held(i) \/ Going(i)
    BY DEF PlaceInv
  <1> HIDE DEF by
  <1>10. CASE Coming(i)
    <2>1. PICK n : Asked(i) = {n}
      BY <1>6, <1>10
    <2>2. places = {<<n, "ask">>}
      BY <1>5, <1>7, <1>8, <1>10, <2>1
    <2> QED BY <1>8, <1>10, <2>2 DEF by
  <1>11. CASE Going(i)
    <2>1. PICK n : Replied(i) = {n}
      BY <1>7, <1>11
    <2>2. places = {<<n, "reply">>}
      BY <1>5, <1>6, <1>8, <1>11, <2>1
    <2> QED BY <1>8, <1>11, <2>2 DEF by
  <1>12. CASE Held(i)
    <2>1. places = {<<i, "handler">>}
      BY <1>5, <1>6, <1>7, <1>8, <1>12
    <2> QED BY <1>8, <1>12, <2>1 DEF by
  <1>13. CASE ~Coming(i) /\ ~Going(i) /\ ~Held(i)
    <2>1. places = {}
      BY <1>5, <1>6, <1>7, <1>13
    <2> QED BY <1>9, <1>13, <2>1 DEF by
  <1> QED BY <1>10, <1>11, <1>12, <1>13

(***************************************************************************)
(* The theorems.                                                           *)
(***************************************************************************)

\* The invariant holds at the start.
LEMMA InvInit == ProtocolInit => Inv
  <1> SUFFICES ASSUME ProtocolInit PROVE Inv
    OBVIOUS
  <1>1. Len(toPage) = 0 /\ Len(toWorker) = 0
    BY DEF ProtocolInit
  <1>2. PageInv
    BY DEF ProtocolInit, PageInv
  <1>3. RequestInv /\ AskInv /\ AnswerInv
    BY <1>1 DEF ProtocolInit, RequestInv, AskInv, AnswerInv, Running
  <1>4. OutcomeTrue
    BY DEF ProtocolInit, OutcomeTrue, Running
  <1> QED BY <1>2, <1>3, <1>4, TypesInit DEF Inv

\* Every step keeps the invariant.
LEMMA InvStep == Inv /\ [ProtocolNext]_protocolVars => Inv'
  <1> SUFFICES ASSUME Inv, [ProtocolNext]_protocolVars PROVE Inv'
    OBVIOUS
  <1>1. ProtocolTypeOK' /\ PageInv' /\ RequestInv' /\ AskInv' /\ AnswerInv'
    BY TypesStep, PageStep, RequestStep, AskStep, AnswerStep DEF Inv
  <1>2. OutcomeTrue'
    BY <1>1, OutcomeStep
  <1> QED BY <1>1, <1>2 DEF Inv

\* The inductive invariant: what the page, the worker, the request and each ask know
\* of each other across the two ports, whatever number of asks the runner makes.
THEOREM Invariance == ProtocolSpec => []Inv
  <1> QED BY InvInit, InvStep, PTL DEF ProtocolSpec

\* What the caller is told of a run is what happened to it: the promise of
\* protocol.ts's drive against the worker's runner, for any number of host calls.
THEOREM OutcomeIsTrue == ProtocolSpec => []OutcomeTrue
  <1>1. Inv => OutcomeTrue
    BY DEF Inv
  <1> QED BY <1>1, Invariance, PTL

\* However a run settles, its worker is terminated and no host call is left to
\* answer: settle aborts every call it knows, and it knows every call in flight.
THEOREM SettlesClean == ProtocolSpec => []SettledClean
  <1>1. Inv => SettledClean
    BY DEF Inv, PageInv, SettledClean
  <1> QED BY <1>1, Invariance, PTL

\* A caller is told the truth, and what it is told of is over.
THEOREM SettlesTrue == ProtocolSpec => []SettledTrue
  BY OutcomeIsTrue, SettlesClean, PTL DEF SettledTrue

\* Nothing is posted to a terminated worker, not by an answer that was on its way.
THEOREM NeverPostsLate == ProtocolSpec => NothingPostedLate
  <1>1. Inv /\ [ProtocolNext]_protocolVars => [worker = "terminated" => toWorker' = toWorker]_protocolVars
    <2> SUFFICES ASSUME Inv, ProtocolNext, worker = "terminated" PROVE toWorker' = toWorker
      BY DEF protocolVars
    <2>1. settled /\ driven
      BY DEF Inv, PageInv
    <2> QED BY <2>1 DEF ProtocolNext, Drive, Abort, WorkerError, PageReceives, HostAnswers, HostSilent,
               PageReplies, MayPost, WorkerSilent, WorkerStarts, WorkerUnreachable, WorkerTraps,
               WorkerReceives, WorkerAsks, RunnerEnds
  <1> QED BY <1>1, Invariance, PTL DEF ProtocolSpec, NothingPostedLate

\* While a run is on, a host call its worker waits for is in one place, on its way, held or
\* answered: serve and drive lose none and answer none twice, however many the runner makes.
THEOREM AsksAreSomewhere == ProtocolSpec => []AskSomewhere
  <1>1. ProtocolInit => PlaceInv
    <2> SUFFICES ASSUME ProtocolInit PROVE PlaceInv
      OBVIOUS
    <2>1. Len(toPage) = 0 /\ Len(toWorker) = 0
      BY DEF ProtocolInit
    <2> QED BY <2>1 DEF ProtocolInit, PlaceInv, Held
  <1>2. (Inv /\ PlaceInv) /\ [ProtocolNext]_protocolVars => (Inv /\ PlaceInv)'
    BY InvStep, PlaceStep
  <1>3. Inv /\ PlaceInv => AskSomewhere
    BY PlacesOfAsk DEF Inv
  <1> QED BY <1>1, <1>2, <1>3, InvInit, PTL DEF ProtocolSpec

(***************************************************************************)
(* The protocol implements RunOutcome.                                     *)
(***************************************************************************)

InFlight == {i \in Ids : handler[i] = "asking"}
Spent    == {i \in Ids : handler[i] # "idle"}

\* settle is an end of RunOutcome: no call stays in flight.
LEMMA SettleEnds ==
    ASSUME Inv, NEW o \in Endings, Settle(o), ~settled
    PROVE  Promise!Next \/ UNCHANGED Promise!vars
  <1>1. InFlight' = {} /\ Spent' = Spent
    BY SettlePage DEF Inv, InFlight, Spent
  <1>2. CASE outcome = Running
    <2>1. outcome' = o
      BY <1>2, SettlePage DEF Inv
    <2>2. Promise!End(o)
      BY <1>1, <1>2, <2>1 DEF Promise!End, InFlight, Spent
    <2> QED BY <2>2 DEF Promise!Next
  <1>3. CASE outcome # Running
    <2>1. outcome = "unsent" /\ outcome' = outcome
      BY <1>3, SettlePage DEF Inv, PageInv
    <2>2. next = 0
      BY <2>1 DEF Inv, RequestInv, AskInv
    <2>3. InFlight = {}
      BY <2>2 DEF Inv, AskInv, InFlight, Ids
    <2> QED BY <1>1, <2>1, <2>3 DEF Promise!vars, InFlight, Spent
  <1> QED BY <1>2, <1>3

\* Every step is a call, a return, an end or a stutter of RunOutcome.
LEMMA PromiseStep ==
    ASSUME Inv, [ProtocolNext]_protocolVars
    PROVE  Promise!Next \/ UNCHANGED Promise!vars
  <1>u. ASSUME UNCHANGED <<outcome, handler>> PROVE UNCHANGED Promise!vars
    BY <1>u DEF Promise!vars
  <1>1. CASE Drive
    <2>1. CASE aborted
      BY <1>1, <2>1, SettleEnds DEF Drive, Endings, Inv, PageInv
    <2>2. CASE ~aborted /\ ~sendable
      <3>1. outcome = Running /\ outcome' = "unsent" /\ UNCHANGED handler /\ InFlight = {}
        BY <1>1, <2>2 DEF Drive, Inv, PageInv, InFlight
      <3>2. Promise!End("unsent")
        BY <3>1 DEF Promise!End, InFlight
      <3> QED BY <3>2 DEF Promise!Next, Endings
    <2>3. CASE ~aborted /\ sendable
      BY <1>1, <2>3, <1>u DEF Drive
    <2> QED BY <2>1, <2>2, <2>3
  <1>2. CASE Abort
    BY <1>2, <1>u, SettleEnds DEF Abort, Listening, Endings
  <1>3. CASE WorkerError
    <2>1. Verdict \in Endings
      BY DEF Verdict, Endings
    <2> QED BY <1>3, <2>1, <1>u, SettleEnds DEF WorkerError, Listening
  <1>4. CASE PageReceives
    <2> DEFINE message == Head(toPage)
    <2>1. CASE Listening /\ TakeResult(message.type)
      BY <2>1, SettleEnds DEF TakeResult, Listening, Endings
    <2>2. CASE UNCHANGED <<outcome, handler>>
      BY <2>2, <1>u
    <2>3. CASE Listening /\ message.type = "ask" /\ Open(message.id)
      <3>1. message = toPage[1] /\ 1 \in 1 .. Len(toPage) /\ message \in ToPage
        BY <1>4, TailFacts DEF PageReceives, Inv, ProtocolTypeOK
      <3>2. message.id \in Ids /\ handler[message.id] = "idle" /\ hosted /\ message.id < next
        BY <2>3, <3>1 DEF ToPage, Inv, AskInv
      <3>3. outcome = Running
        <4>1. next # 0
          BY <3>2 DEF Ids
        <4> QED BY <2>3, <4>1 DEF Listening, Inv, PageInv, AskInv, RequestInv
      <3>4. PICK c \in Ids : c = message.id
        BY <3>2
      <3>5. handler' = [handler EXCEPT ![c] = "asking"] /\ outcome' = outcome /\ handler[c] = "idle"
        BY <2>3, <3>2, <3>4 DEF Open
      <3>6. InFlight' = InFlight \cup {c} /\ Spent' = Spent \cup {c} /\ c \notin Spent
        BY <3>5 DEF InFlight, Spent, Inv, ProtocolTypeOK
      <3>7. Promise!Call(c)
        BY <3>3, <3>5, <3>6 DEF Promise!Call, InFlight, Spent
      <3> QED BY <3>7 DEF Promise!Next
    <2> QED BY <1>4, <2>1, <2>2, <2>3 DEF PageReceives
  <1>5. ASSUME NEW i \in Ids, HostAnswers(i) \/ HostSilent(i) PROVE Promise!Next
    <2>1. PICK a \in {"answered", "refused"} : handler' = [handler EXCEPT ![i] = a]
      BY <1>5 DEF HostAnswers, HostSilent
    <2>2. handler[i] = "asking" /\ outcome' = outcome
      BY <1>5 DEF HostAnswers, HostSilent
    <2>3. i \in InFlight /\ InFlight' = InFlight \ {i} /\ Spent' = Spent
      BY <2>1, <2>2 DEF InFlight, Spent, Inv, ProtocolTypeOK
    <2>4. Promise!Return(i)
      BY <2>2, <2>3 DEF Promise!Return, InFlight, Spent
    <2> QED BY <2>4 DEF Promise!Next
  <1>6. ASSUME NEW i \in Ids, PageReplies(i) PROVE UNCHANGED Promise!vars
    <2>1. handler' = [handler EXCEPT ![i] = "over"] /\ handler[i] \in {"answered", "refused"}
          /\ outcome' = outcome
      BY <1>6 DEF PageReplies
    <2>2. InFlight' = InFlight /\ Spent' = Spent
      BY <2>1 DEF InFlight, Spent, Inv, ProtocolTypeOK
    <2> QED BY <2>1, <2>2 DEF Promise!vars, InFlight, Spent
  <1>7. ASSUME NEW i \in Ids, WorkerSilent(i) PROVE UNCHANGED Promise!vars
    BY <1>7, <1>u DEF WorkerSilent, page
  <1>8. CASE WorkerStarts \/ WorkerUnreachable \/ WorkerTraps \/ WorkerReceives \/ WorkerAsks \/ RunnerEnds
    BY <1>8, <1>u DEF WorkerStarts, WorkerUnreachable, WorkerTraps, WorkerReceives, WorkerAsks,
                      RunnerEnds, page
  <1>9. CASE UNCHANGED protocolVars
    BY <1>9, <1>u DEF protocolVars, page
  <1> QED BY <1>1, <1>2, <1>3, <1>4, <1>5, <1>6, <1>7, <1>8, <1>9 DEF ProtocolNext

\* A run in a worker keeps what a run promises: it ends at most once, makes no
\* host call after it, makes none twice, and leaves none in flight.
THEOREM ImplementsRunOutcome == ProtocolSpec => KeepsPromise
  <1>1. ProtocolInit => Promise!Init
    BY DEF ProtocolInit, Promise!Init
  <1>2. Inv /\ [ProtocolNext]_protocolVars => [Promise!Next]_(Promise!vars)
    BY PromiseStep
  <1> QED BY <1>1, <1>2, Invariance, PTL DEF ProtocolSpec, Promise!Spec, KeepsPromise
=============================================================================
