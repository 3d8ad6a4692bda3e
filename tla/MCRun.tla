-------------------------------- MODULE MCRun --------------------------------
(* What a run waits for, side by side: the messages between the page and    *)
(* the worker it runs in (RunProtocol), the renewal of a credential its     *)
(* requests share (Renewal) and, on the page, two mounts of one prefix      *)
(* (Mount).  A behaviour is of one part; the others are over from the       *)
(* start, or not begun.                                                     *)
EXTENDS RunProtocol, Renewal

CONSTANTS Mounts, Keys, Lent, Names, NameOf, Hosts, MaxVersion, None, m1, m2, s1

VARIABLES
    part,
    host, pc, got, rel, leaving, opened, signalled, table, held, queue, granted, httpfs, orphans

Page == INSTANCE Mount WITH aborted <- signalled

mountVars ==
    <<host, pc, got, rel, leaving, opened, signalled, table, held, queue, granted, httpfs, orphans>>

runVars == <<part, protocolVars, renewalVars, mountVars>>

\* A host that vends both mounts one prefix for ever, and one that vends the second nothing.
MCLiveHosts ==
    {[vends |-> [m \in Mounts |-> <<s1>>], lives |-> [k \in Keys |-> {"forever"}]],
     [vends |-> [m \in Mounts |-> IF m = m1 THEN <<s1>> ELSE <<>>], lives |-> [k \in Keys |-> {"fresh"}]]}
MCNameOf == [k \in Keys |-> "secret"]

RenewalOver ==
    /\ life = "forever" /\ lock = Free /\ timers = <<>>
    /\ stage = [r \in Requests |-> "done"]
    /\ end = [r \in Requests |-> "answered"]
    /\ call = [r \in Requests |-> "none"]

MountsOver ==
    /\ host = CHOOSE h \in Hosts : TRUE
    /\ pc = [m \in Mounts |-> "failed"]
    /\ got = [m \in Mounts |-> 0] /\ rel = [m \in Mounts |-> 0]
    /\ leaving = [m \in Mounts |-> None]
    /\ opened = {} /\ signalled = {} /\ orphans = {}
    /\ table = [k \in Keys |-> None]
    /\ held = [e \in Page!Entries |-> Page!NoHeld]
    /\ queue = <<>> /\ httpfs = TRUE
    /\ granted = [n \in Names |-> None]

\* drive was not called.
NotDriven == ProtocolInit /\ hosted = TRUE /\ sendable = TRUE /\ aborted = FALSE

MCInit ==
    \/ part = "protocol" /\ ProtocolInit /\ RenewalOver /\ MountsOver
    \/ part = "renewal" /\ RenewalInit /\ NotDriven /\ MountsOver
    \/ part = "mount" /\ Page!Init /\ NotDriven /\ RenewalOver

MCNext ==
    \/ part = "protocol" /\ ProtocolNext /\ UNCHANGED <<part, renewalVars, mountVars>>
    \/ part = "renewal" /\ RenewalNext /\ UNCHANGED <<part, protocolVars, mountVars>>
    \/ part = "mount" /\ Page!Next /\ UNCHANGED <<part, protocolVars, renewalVars>>

\* ProtocolFairness, where the run is driven at all: what is over has no step to take.
DrivenFairness ==
    LET own(A) == part = "protocol" /\ A
    IN  /\ WF_protocolVars(own(Drive)) /\ WF_protocolVars(own(WorkerError)) /\ WF_protocolVars(own(PageReceives))
        /\ \A i \in Ids : WF_protocolVars(own(HostSilent(i))) /\ WF_protocolVars(own(PageReplies(i)))

MCSpec ==
    /\ MCInit /\ [][MCNext]_runVars
    /\ DrivenFairness /\ RenewalFairness /\ Page!Fairness

-----------------------------------------------------------------------------
(* The properties of Mount, stated where it is.                             *)

\* Every mount is answered or fails and every close ends; a credential about to expire is
\* renewed, or its failure kept, or nobody holds it any more.
MountSettles == Page!MountSettles

\* Neither half leaves anybody waiting for a credential.
CredentialsSettle == WaitsEnd /\ MountSettles
=============================================================================
