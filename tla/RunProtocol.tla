----------------------------- MODULE RunProtocol -----------------------------
(***************************************************************************)
(* A run in a worker: packages/executor/protocol.ts, with run.ts and       *)
(* worker.ts around it.                                                    *)
(*                                                                         *)
(* The page (`drive`) keeps the host and the signal; the worker (`serve`)  *)
(* keeps the executor and asks the page for every host call.  Each half is *)
(* one thread, and a step is one task of it.  The two talk over a port,    *)
(* ordered each way; a worker's `error` event comes beside the port.       *)
(***************************************************************************)
EXTENDS Naturals, Sequences

CONSTANTS
    MaxAsks,    \* bound: how many host calls one run makes
    Hosted,     \* subset of BOOLEAN: whether the run may have a host
    Sendable    \* subset of BOOLEAN: whether the request may be one that clones

ASSUME ProtocolAssumption ==
    /\ MaxAsks \in Nat
    /\ Hosted \subseteq BOOLEAN
    /\ Sendable \subseteq BOOLEAN

Ids == 0 .. MaxAsks - 1

Running == "running"
Endings == {"answer", "failure", "reason", "bug", "unreachable", "unsent"}

ToWorker == [type : {"run"}] \cup [type : {"answer", "refuse"}, id : Ids]
ToPage   == [type : {"ready", "done", "failed"}] \cup [type : {"ask"}, id : Ids]

VARIABLES
    hosted,     \* whether drive was given a host
    sendable,   \* whether the request survives a structured clone
    aborted,    \* whether the caller's signal is aborted
    driven,     \* whether drive was called
    outcome,    \* what the run's promise is: drive's resolve or reject
    settled,    \* settled
    started,    \* started
    calls,      \* calls: the asks whose AbortController is live
    handler,    \* ask -> where the page's handler of it stands
    worker,     \* the worker: its script loading, serving, dead of itself, terminated
    error,      \* an `error` event of the worker, not yet delivered
    runner,     \* the runner's promise
    next,       \* next: asks made
    waiting,    \* waiting: asks with no answer yet
    wait,       \* ask -> the worker's own wait for it, with a deadline of its own
    toWorker,   \* messages on their way to the worker
    toPage      \* messages on their way to the page

given == <<hosted, sendable>>
page  == <<driven, outcome, settled, started, calls, handler>>
work  == <<runner, next, waiting, wait>>
protocolVars == <<given, aborted, page, worker, error, work, toWorker, toPage>>

ProtocolInit ==
    /\ hosted \in Hosted /\ sendable \in Sendable
    /\ aborted \in BOOLEAN
    /\ driven = FALSE /\ outcome = Running /\ settled = FALSE /\ started = FALSE
    /\ calls = {} /\ handler = [i \in Ids |-> "idle"]
    /\ worker = "loading" /\ error = FALSE
    /\ runner = "idle" /\ next = 0 /\ waiting = {} /\ wait = [i \in Ids |-> "none"]
    /\ toWorker = <<>> /\ toPage = <<>>

(***************************************************************************)
(* The page.                                                               *)
(***************************************************************************)

\* port.onmessage, the abort listener and the crash listener are all off once settled.
Listening == driven /\ ~settled

\* A promise settles once: a later resolve or reject is ignored.
EndedAs(o) == IF outcome = Running THEN o ELSE outcome

\* Mutant: the calls in flight are forgotten without being aborted.
SettleLeavingCalls(o) ==
    /\ settled' = TRUE
    /\ worker' = "terminated"
    /\ outcome' = EndedAs(o)
    /\ UNCHANGED <<calls, handler>>

\* settle: a host call in flight is aborted, and its handler goes on with the abort's reason.
Settle(o) ==
    /\ settled' = TRUE
    /\ calls' = {}
    /\ handler' = [i \in Ids |-> IF i \in calls /\ handler[i] = "asking" THEN "refused" ELSE handler[i]]
    /\ worker' = "terminated"
    /\ outcome' = EndedAs(o)

\* drive: an aborted signal ends the run before its request is posted, and a
\* request that does not clone rejects it with everything left listening.
Drive ==
    /\ ~driven
    /\ driven' = TRUE
    /\ IF aborted
         THEN Settle("reason") /\ UNCHANGED toWorker
         ELSE /\ toWorker' = IF sendable THEN Append(toWorker, [type |-> "run"]) ELSE toWorker
              /\ outcome' = IF sendable THEN outcome ELSE "unsent"
              /\ UNCHANGED <<settled, calls, handler, worker>>
    /\ UNCHANGED <<given, aborted, started, error, work, toPage>>

\* The caller aborts the signal, at any time.
Abort ==
    /\ ~aborted
    /\ aborted' = TRUE
    /\ IF Listening THEN Settle("reason") ELSE UNCHANGED <<settled, calls, handler, worker, outcome>>
    /\ UNCHANGED <<given, driven, started, error, work, toWorker, toPage>>

\* Mutant: the two verdicts on a dead worker are swapped.
VerdictSwapped == IF started THEN "unreachable" ELSE "bug"

Verdict == IF started THEN "bug" ELSE "unreachable"

\* The crash listener: a worker dead before its `ready` was seen never came up.
WorkerError ==
    /\ error
    /\ driven
    /\ error' = FALSE
    /\ IF Listening THEN Settle(Verdict) ELSE UNCHANGED <<settled, calls, handler, worker, outcome>>
    /\ UNCHANGED <<given, aborted, driven, started, work, toWorker, toPage>>

\* Mutant: a run's failure is not taken as its end.
TakeOnlyAnswers(message) ==
    IF message = "done" THEN Settle("answer") ELSE UNCHANGED <<settled, calls, handler, worker, outcome>>

\* `done` and `failed`.
TakeResult(message) == Settle(IF message = "done" THEN "answer" ELSE "failure")

\* An ask opens a call; with no host it is refused as a bug of the run's.
Open(i) ==
    /\ calls' = calls \cup {i}
    /\ handler' = [handler EXCEPT ![i] = IF hosted THEN "asking" ELSE "refused"]
    /\ UNCHANGED <<settled, outcome, worker>>

\* port.onmessage of the page.  A message after the run settled reaches nobody.
PageReceives ==
    /\ driven
    /\ toPage # <<>>
    /\ toPage' = Tail(toPage)
    /\ LET message == Head(toPage) IN
         /\ started' = (started \/ (Listening /\ message.type = "ready"))
         /\ \/ Listening /\ message.type \in {"done", "failed"} /\ TakeResult(message.type)
            \/ Listening /\ message.type = "ask" /\ Open(message.id)
            \/ /\ (~Listening \/ message.type = "ready")
               /\ UNCHANGED <<settled, calls, handler, worker, outcome>>
    /\ UNCHANGED <<given, aborted, driven, error, work, toWorker>>

\* The host's promise settles: fulfilled, or rejected.
HostAnswers(i) ==
    /\ handler[i] = "asking"
    /\ \E answer \in {"answered", "refused"} : handler' = [handler EXCEPT ![i] = answer]
    /\ UNCHANGED <<given, aborted, driven, outcome, settled, started, calls, worker, error, work,
                   toWorker, toPage>>

\* within's timer: the host had HOST_MS.
HostSilent(i) ==
    /\ handler[i] = "asking"
    /\ handler' = [handler EXCEPT ![i] = "refused"]
    /\ UNCHANGED <<given, aborted, driven, outcome, settled, started, calls, worker, error, work,
                   toWorker, toPage>>

\* Mutant: the answer to one call in flight goes out as the answer to another.
ReplyToAnyCall(i) == {[type |-> "answer", id |-> j] : j \in calls}

\* What the handler posts.  An answer that does not clone throws where it is
\* posted, and goes back as a refusal.
Reply(i) ==
    [type : IF handler[i] = "answered" THEN {"answer", "refuse"} ELSE {"refuse"}, id : {i}]

\* Mutant: the handler posts whether or not the run has settled.
MayPostAlways == TRUE

\* `if (!settled)`, read after the handler's await.
MayPost == ~settled

\* The rest of the ask's handler.
PageReplies(i) ==
    /\ handler[i] \in {"answered", "refused"}
    /\ handler' = [handler EXCEPT ![i] = "over"]
    /\ calls' = calls \ {i}
    /\ IF MayPost THEN \E r \in Reply(i) : toWorker' = Append(toWorker, r) ELSE UNCHANGED toWorker
    /\ UNCHANGED <<given, aborted, driven, outcome, settled, started, worker, error, work, toPage>>

(***************************************************************************)
(* The worker.                                                             *)
(***************************************************************************)

\* The script loads: serve hooks the port and says `ready`.
WorkerStarts ==
    /\ worker = "loading"
    /\ worker' = "serving"
    /\ toPage' = Append(toPage, [type |-> "ready"])
    /\ UNCHANGED <<given, aborted, page, error, work, toWorker>>

\* The script does not load.
WorkerUnreachable ==
    /\ worker = "loading"
    /\ worker' = "dead"
    /\ error' = TRUE
    /\ UNCHANGED <<given, aborted, page, work, toWorker, toPage>>

\* An uncaught error: one that ends the worker, or one it outlives.
WorkerTraps ==
    /\ worker = "serving"
    /\ ~error
    /\ error' = TRUE
    /\ worker' \in {"serving", "dead"}
    /\ UNCHANGED <<given, aborted, page, work, toWorker, toPage>>

\* port.onmessage of the worker.  The runner behind a wait that is over does not see its answer.
WorkerReceives ==
    /\ worker = "serving"
    /\ toWorker # <<>>
    /\ toWorker' = Tail(toWorker)
    /\ LET message == Head(toWorker) IN
         \/ /\ message.type = "run"
            /\ runner' = "running"
            /\ UNCHANGED <<waiting, wait>>
         \/ /\ message.type \in {"answer", "refuse"}
            /\ waiting' = waiting \ {message.id}
            /\ wait' = IF message.id \in waiting /\ wait[message.id] = "pending"
                         THEN [wait EXCEPT ![message.id] = "over"] ELSE wait
            /\ UNCHANGED runner
    /\ UNCHANGED <<given, aborted, page, worker, error, next, toPage>>

\* The runner asks for the connections or for a scope's credentials.
WorkerAsks ==
    /\ worker = "serving"
    /\ runner = "running"
    /\ hosted
    /\ next \in Ids
    /\ next' = next + 1
    /\ waiting' = waiting \cup {next}
    /\ wait' = [wait EXCEPT ![next] = "pending"]
    /\ toPage' = Append(toPage, [type |-> "ask", id |-> next])
    /\ UNCHANGED <<given, aborted, page, worker, error, runner, toWorker>>

\* The worker's own HOST_MS for an ask passes: it stops waiting, and tells the page nothing.
WorkerSilent(i) ==
    /\ worker = "serving"
    /\ wait[i] = "pending"
    /\ wait' = [wait EXCEPT ![i] = "expired"]
    /\ UNCHANGED <<given, aborted, page, worker, error, runner, next, waiting, toWorker, toPage>>

\* The runner's promise settles, and its answer is posted.  A run may end with
\* an ask still out: one of several that a failure dropped.
RunnerEnds ==
    /\ worker = "serving"
    /\ runner = "running"
    /\ \E how \in {"done", "failed"} :
         /\ runner' = how
         /\ toPage' = Append(toPage, [type |-> how])
    /\ UNCHANGED <<given, aborted, page, worker, error, next, waiting, wait, toWorker>>

ProtocolNext ==
    \/ Drive \/ Abort \/ WorkerError \/ PageReceives
    \/ \E i \in Ids : HostAnswers(i) \/ HostSilent(i) \/ PageReplies(i) \/ WorkerSilent(i)
    \/ WorkerStarts \/ WorkerUnreachable \/ WorkerTraps
    \/ WorkerReceives \/ WorkerAsks \/ RunnerEnds

ProtocolSpec == ProtocolInit /\ [][ProtocolNext]_protocolVars

\* The page's event loop and its timers go on.  Nothing makes the host answer,
\* the caller abort, or the network deliver the worker's script.
ProtocolFairness ==
    /\ WF_protocolVars(Drive) /\ WF_protocolVars(WorkerError) /\ WF_protocolVars(PageReceives)
    /\ \A i \in Ids : WF_protocolVars(HostSilent(i)) /\ WF_protocolVars(PageReplies(i))

ProtocolFairSpec == ProtocolSpec /\ ProtocolFairness

\* The worker's event loop and timers go on too, which a computation that does
\* not yield keeps from them, and a runner that waits for nothing ends.
WorkerFair ==
    /\ WF_protocolVars(WorkerReceives)
    /\ WF_protocolVars(RunnerEnds /\ \A i \in Ids : wait[i] # "pending")
    /\ \A i \in Ids : WF_protocolVars(WorkerSilent(i))

(***************************************************************************)
(* Properties.                                                             *)
(***************************************************************************)

ProtocolTypeOK ==
    /\ hosted \in BOOLEAN /\ sendable \in BOOLEAN /\ aborted \in BOOLEAN
    /\ driven \in BOOLEAN /\ settled \in BOOLEAN /\ started \in BOOLEAN
    /\ outcome \in Endings \cup {Running}
    /\ calls \subseteq Ids
    /\ handler \in [Ids -> {"idle", "asking", "answered", "refused", "over"}]
    /\ worker \in {"loading", "serving", "dead", "terminated"}
    /\ error \in BOOLEAN
    /\ runner \in {"idle", "running", "done", "failed"}
    /\ next \in 0 .. MaxAsks
    /\ waiting \subseteq Ids
    /\ wait \in [Ids -> {"none", "pending", "over", "expired"}]
    /\ toWorker \in Seq(ToWorker)
    /\ toPage \in Seq(ToPage)

Asked(i)   == {n \in DOMAIN toPage : toPage[n] = [type |-> "ask", id |-> i]}
Replied(i) == {n \in DOMAIN toWorker : toWorker[n].type # "run" /\ toWorker[n].id = i}

\* While the run is on, a host call the worker waits for is in exactly one
\* place: on its way to the page, with the page's handler, or on its way back;
\* one it does not wait for is in none.  No ask is lost and none is answered twice.
AskSomewhere ==
    ~settled =>
      \A i \in Ids :
        LET places == (Asked(i) \X {"ask"}) \cup (Replied(i) \X {"reply"})
                      \cup {h \in {<<i, "handler">>} : handler[i] \in {"asking", "answered", "refused"}}
        IN  IF i \in waiting THEN \E p \in places : places = {p} ELSE places = {}

\* What the caller is told is what happened: an answer only of a run that
\* finished, a bug only of a worker that came up, a missing worker only of one
\* that never ran anything, the signal's reason only of an aborted signal.
OutcomeTrue ==
    /\ outcome = "answer" => runner = "done"
    /\ outcome = "failure" => runner = "failed"
    /\ outcome = "bug" => started
    /\ outcome = "reason" => aborted
    /\ outcome = "unsent" => ~sendable /\ runner = "idle"
    /\ outcome = "unreachable" => ~started

\* Once the run has settled the worker is terminated and no host call is left
\* to answer, and a settled run has told its caller.
SettledClean ==
    settled =>
      /\ outcome # Running
      /\ worker = "terminated"
      /\ \A i \in Ids : handler[i] # "asking"

\* A caller is told the truth, and what it is told of is over.
SettledTrue == OutcomeTrue /\ SettledClean

\* Nothing is posted to a worker that was terminated: a host's answer that
\* comes with the abort, or after it, goes nowhere.
NothingPostedLate == [][worker = "terminated" => toWorker' = toWorker]_protocolVars

\* A run is what its caller was promised: see RunOutcome.
Promise == INSTANCE RunOutcome WITH
    Calls    <- Ids,
    ending   <- outcome,
    inFlight <- {i \in Ids : handler[i] = "asking"},
    spent    <- {i \in Ids : handler[i] # "idle"}
KeepsPromise == Promise!Spec

\* An ask that reaches the page is over, or the run is, whatever the host does
\* and however long the worker computes: drive's own deadline.
AskEnds == \A i \in Ids : (driven /\ Asked(i) # {}) ~> (handler[i] = "over" \/ settled)

\* A run whose worker came up tells its caller how it ended, whatever the host does.
RunEnds == WorkerFair => ((driven /\ started) ~> (outcome # Running))

\* Both: a host call and the run itself end.
AllEnds == AskEnds /\ RunEnds
=============================================================================
