------------------------------ MODULE RunOutcome ------------------------------
(***************************************************************************)
(* What a run in a worker promises its caller, without its messages: it    *)
(* ends at most once, and however it ends it leaves no host call in        *)
(* flight and starts none.                                                 *)
(***************************************************************************)
CONSTANTS
    Calls,      \* the host calls a run may make
    Endings,    \* the ways a run's promise can settle
    Running     \* not settled

VARIABLES
    ending,     \* how the promise settled
    inFlight,   \* host calls made, and neither answered nor cancelled
    spent       \* host calls that were ever made

vars == <<ending, inFlight, spent>>

Init == ending = Running /\ inFlight = {} /\ spent = {}

\* A running run asks its host something, once.
Call(c) ==
    /\ ending = Running
    /\ c \notin spent
    /\ inFlight' = inFlight \cup {c}
    /\ spent' = spent \cup {c}
    /\ UNCHANGED ending

\* The host answered, refused, or was silent for too long.
Return(c) ==
    /\ c \in inFlight
    /\ inFlight' = inFlight \ {c}
    /\ UNCHANGED <<ending, spent>>

\* The promise settles, and the calls still in flight are cancelled with it.
End(e) ==
    /\ ending = Running
    /\ ending' = e
    /\ inFlight' = {}
    /\ UNCHANGED spent

Next ==
    \/ \E c \in Calls : Call(c) \/ Return(c)
    \/ \E e \in Endings : End(e)

Spec == Init /\ [][Next]_vars
=============================================================================
