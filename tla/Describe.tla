----------------------------- MODULE Describe -----------------------------
(***************************************************************************)
(* profileInputs (describe.ts) and runProfiler (profile.ts): the native    *)
(* inputs of a program, each read through its connection's mount, profiled *)
(* on the host's engine by the plan of Profiler, and every mount closed    *)
(* again, whether the profile was answered, failed or was aborted.         *)
(***************************************************************************)
EXTENDS Profiler

CONSTANTS
    Connections,
    Public,     \* no connection, an http(s) location
    Local       \* no connection, any other location

\* Sources stand for native data inputs, with bindings of their own.
CONSTANT Via    \* source -> its connection, Public or Local

ASSUME DescribeAssumption ==
    Via \in [Sources -> Connections \cup {Public, Local}] /\ Public \notin Connections
    /\ Local \notin Connections /\ Public # Local

VARIABLES
    progress,          \* profileInputs: reading, booting, profiling, closing, then its end
    mounts,         \* connection -> its mount
    reading,        \* source -> where making it readable stands
    undescribed,
    aborted,
    failure         \* whether something was thrown

io == <<progress, mounts, reading, undescribed, aborted, failure>>
describeVars == <<plan, io>>

Natives == {s \in Sources : reading[s] # "absent"}

\* Each source begins at once, and the first of a connection mounts it.
DescribeInitWith(d, o, natives) ==
    /\ data = d /\ options = o
    /\ Unplanned
    /\ progress = IF natives = {} THEN "returned" ELSE "reading"
    /\ mounts = [k \in Connections |->
                   IF \E s \in natives : Via[s] = k THEN "opening" ELSE "none"]
    /\ reading = [s \in Sources |->
                    IF s \notin natives THEN "absent"
                    ELSE CASE Via[s] = Local  -> "undescribed"
                           [] Via[s] = Public -> "tagging"
                           [] OTHER           -> "mounting"]
    /\ undescribed = {s \in natives : Via[s] = Local}
    /\ aborted = FALSE /\ failure = FALSE

DescribeInit == \E d \in Datas, o \in Options, natives \in SUBSET Sources : DescribeInitWith(d, o, natives)

Abort ==
    /\ ~aborted /\ aborted' = TRUE
    /\ progress \in {"reading", "booting", "profiling"}
    /\ UNCHANGED <<plan, progress, mounts, reading, undescribed, failure>>

\* mount answers, or fails: its host refused or was silent, or the signal aborted it.
Mounted(k) ==
    /\ mounts[k] = "opening"
    /\ \E how \in {"open", "failed"} : mounts' = [mounts EXCEPT ![k] = how]
    /\ UNCHANGED <<plan, progress, reading, undescribed, aborted, failure>>

\* A source's own problem, unless the run was aborted: then it is everyone's.  After the
\* first of those Promise.all is done with, and the others go on unread.
Unreadable(s) ==
    /\ reading' = [reading EXCEPT ![s] = "undescribed"]
    /\ IF aborted
       THEN /\ progress' = IF progress = "reading" THEN "closing" ELSE progress
            /\ failure' = TRUE
            /\ UNCHANGED undescribed
       ELSE undescribed' = undescribed \cup {s} /\ UNCHANGED <<progress, failure>>

\* mountOf(connection) settled: its files are named next, and then its entity tag.
Resume(s) ==
    /\ reading[s] = "mounting"
    /\ \/ /\ mounts[Via[s]] \in {"open", "closing", "closed", "unclosed"}
          /\ reading' = [reading EXCEPT ![s] = "tagging"]
          /\ UNCHANGED <<progress, undescribed, failure>>
       \/ mounts[Via[s]] = "failed" /\ Unreadable(s)
    /\ UNCHANGED <<plan, mounts, aborted>>

\* files and etag answer, or fail.
Tagged(s) ==
    /\ reading[s] = "tagging"
    /\ \/ /\ reading' = [reading EXCEPT ![s] = "readable"]
          /\ UNCHANGED <<progress, undescribed, failure>>
       \/ Unreadable(s)
    /\ UNCHANGED <<plan, mounts, aborted>>

\* Promise.all: every source is readable or has its problem.
Read ==
    /\ progress = "reading"
    /\ \A s \in Natives : reading[s] \in {"readable", "undescribed"}
    /\ progress' = "booting"
    /\ UNCHANGED <<plan, mounts, reading, undescribed, aborted, failure>>

Throw ==
    /\ progress' = "closing" /\ failure' = TRUE
    /\ UNCHANGED <<mounts, reading, undescribed, aborted>>

\* until(initFossilWasm()), which whoever opened the program has booted; and the plan
\* over the readable sources.
Boot ==
    /\ progress = "booting"
    /\ \/ /\ progress' = "profiling"
          /\ New({s \in Natives : reading[s] = "readable"})
          /\ UNCHANGED <<mounts, reading, undescribed, aborted, failure>>
       \/ aborted /\ Throw /\ UNCHANGED plan

\* The plan's own steps, and an answer of the engine; the failure of a query is the
\* source's, unless the run was aborted, which ends it and frees the plan.
Profiling ==
    /\ progress = "profiling"
    /\ \/ (Advance \/ HandOut) /\ UNCHANGED io
       \/ \E a \in pending : (Feed(a) \/ FeedNothing(a)) /\ UNCHANGED io
       \/ \E a \in pending : Fail(a) /\ ~aborted /\ UNCHANGED io
       \/ Out # {} /\ aborted /\ Throw /\ UNCHANGED plan

\* plan.finish(): a source that failed and was not described has a problem of its own.
Profiled ==
    /\ progress = "profiling" /\ phase = "done"
    /\ progress' = "closing"
    /\ undescribed' = undescribed \cup (failed \ described)
    /\ UNCHANGED <<plan, mounts, reading, aborted, failure>>

\* close() of each mount, once it has opened; it gives the credential back or throws.
CloseMount(k) ==
    /\ progress = "closing"
    /\ \/ mounts[k] = "open" /\ mounts' = [mounts EXCEPT ![k] = "closing"]
       \/ /\ mounts[k] = "closing"
          /\ \E how \in {"closed", "unclosed"} : mounts' = [mounts EXCEPT ![k] = how]
    /\ UNCHANGED <<plan, progress, reading, undescribed, aborted, failure>>

\* Mutant: a mount that failed is waited for.
MountSettledOpen(k) == mounts[k] \in {"none", "closed", "unclosed"}

MountSettled(k) == mounts[k] \in {"none", "failed", "closed", "unclosed"}

\* Mutant: the end does not wait for a mount that is still opening.
EndEarly ==
    /\ progress = "closing"
    /\ \A k \in Connections : MountSettled(k) \/ mounts[k] = "opening"
    /\ progress' = IF failure \/ \E k \in Connections : mounts[k] = "unclosed"
                THEN "thrown" ELSE "returned"
    /\ UNCHANGED <<plan, mounts, reading, undescribed, aborted, failure>>

\* allSettled: the failure, or else the first of the cleanup's, is thrown.
End ==
    /\ progress = "closing"
    /\ \A k \in Connections : MountSettled(k)
    /\ progress' = IF failure \/ \E k \in Connections : mounts[k] = "unclosed"
                THEN "thrown" ELSE "returned"
    /\ UNCHANGED <<plan, mounts, reading, undescribed, aborted, failure>>

DescribeNext ==
    \/ Abort \/ Read \/ Boot \/ Profiling \/ Profiled \/ End
    \/ \E k \in Connections : Mounted(k) \/ CloseMount(k)
    \/ \E s \in Sources : Resume(s) \/ Tagged(s)

\* The steps of the code, and the answers mount, etag, the boot and the engine owe.
Owed ==
    \/ Read \/ Boot \/ Profiling \/ Profiled \/ End
    \/ \E k \in Connections : Mounted(k) \/ CloseMount(k)
    \/ \E s \in Sources : Resume(s) \/ Tagged(s)

DescribeSpec == DescribeInit /\ [][DescribeNext]_describeVars /\ WF_describeVars(Owed)

------------------------------------------------------------------------------
(* Properties                                                              *)

DescribeTypeOK ==
    /\ phase \in Phases /\ queue \subseteq pending
    /\ states \subseteq Sources /\ described \subseteq states
    /\ DOMAIN counts \subseteq described /\ sampled \subseteq described
    /\ failed \subseteq states
    /\ progress \in {"reading", "booting", "profiling", "closing", "returned", "thrown"}
    /\ \A k \in Connections :
          mounts[k] \in {"none", "opening", "open", "failed", "closing", "closed", "unclosed"}
    /\ \A s \in Sources :
          reading[s] \in {"absent", "mounting", "tagging", "readable", "undescribed"}

\* An answer holds every native source exactly once: described, or with its problem
\* (describe.ts:117-120, "skipped, never thrown, and answered in `undescribed`").
EachAnswered ==
    progress = "returned" =>
        /\ undescribed \cup described = Natives
        /\ undescribed \cap described = {}

\* However it ends, every mount that opened was closed, and its source is done with it
\* (describe.ts:115, "the credential it vends is given back when this returns").
MountsGivenBack ==
    progress \in {"returned", "thrown"} =>
        \A k \in Connections : mounts[k] \notin {"opening", "open", "closing"}

\* Whichever way it ends, nothing it was asked is lost and nothing it took is kept.
DescribeReturns == EachAnswered /\ MountsGivenBack

DescribeEnds == <>(progress \in {"returned", "thrown"})

=============================================================================
