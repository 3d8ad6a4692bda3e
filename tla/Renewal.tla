------------------------------- MODULE Renewal -------------------------------
(***************************************************************************)
(* One vended store on wasm32, and the requests that share its credential: *)
(* `Vended::get_credential` and `bounded` of fossil-storage/store.rs, over *)
(* `JsHost` of js.rs.                                                      *)
(*                                                                         *)
(* A request is raced against its deadline from its start.  It first takes *)
(* the credential's lock; if the credential is about to expire it asks the *)
(* host for another with the lock held, under the host's own deadline.     *)
(* Everything runs on one thread, so a step is the code between two awaits.*)
(*                                                                         *)
(* REQUEST and HOST_MS are both 30 s.  Timers of one length fire in the    *)
(* order they were set, so `timers` is a queue and no clock is kept; the   *)
(* credential ages on its own.                                             *)
(***************************************************************************)
EXTENDS Naturals, Sequences

CONSTANTS
    Requests,   \* what is asked of the store, each once
    Unbounded,  \* those no deadline is set for: listings, deletions, aborted uploads
    Free        \* the lock, when nobody holds it

ASSUME RenewalAssumption ==
    /\ Unbounded \subseteq Requests
    /\ Free \notin Requests

Lives  == {"fresh", "due", "expired", "forever"}
Stages == {"idle", "locking", "renewing", "sending", "done"}
Ends   == {"none", "answered", "no renewal", "no answer", "dropped"}
Timers == [of : {"request", "host"}, r : Requests]

VARIABLES
    life,       \* the current credential: fresh, due for renewal, expired, or for ever
    lock,       \* current: the request that holds the lock across an await
    stage,      \* request -> where it stands
    end,        \* request -> how it ended
    call,       \* request -> the host call it made: none, open, or over
    timers      \* the timers set and not fired, in order

renewalVars == <<life, lock, stage, end, call, timers>>

RenewalTypeOK ==
    /\ life \in Lives
    /\ lock \in Requests \cup {Free}
    /\ stage \in [Requests -> Stages]
    /\ end \in [Requests -> Ends]
    /\ call \in [Requests -> {"none", "open", "over"}]
    /\ timers \in Seq(Timers)
    /\ \A r \in Requests : lock = r <=> stage[r] = "renewing"
    /\ \A r \in Requests : stage[r] = "done" <=> end[r] # "none"
    /\ \A r \in Requests : stage[r] = "renewing" => call[r] = "open"

RenewalInit ==
    /\ life \in Lives \ {"expired"}
    /\ lock = Free
    /\ stage = [r \in Requests |-> "idle"]
    /\ end = [r \in Requests |-> "none"]
    /\ call = [r \in Requests |-> "none"]
    /\ timers = <<>>

-----------------------------------------------------------------------------
(* Pieces of a step.                                                       *)

Stands(r, s) == stage' = [stage EXCEPT ![r] = s]

\* A request ends: the future is gone, and a lock it held with it.
Finish(r, how) ==
    /\ Stands(r, "done")
    /\ end' = [end EXCEPT ![r] = how]
    /\ lock' = IF lock = r THEN Free ELSE lock

\* The credential is handed out, and the request sent with it.
HandOut(r) == Stands(r, "sending") /\ lock' = Free /\ UNCHANGED end

\* `elapse`, called before what it is raced against is first polled.
SetTimer(kind, r) == timers' = Append(timers, [of |-> kind, r |-> r])

Waiting(r) == stage[r] \in {"locking", "renewing", "sending"}

\* The credential is within RENEW_BEFORE_MS of its expiry, or past it.
Due == life \in {"due", "expired"}

-----------------------------------------------------------------------------
(* The requests.                                                           *)

\* A request starts: `bounded` sets its deadline and polls it.
BeginRequest(r) ==
    /\ stage[r] = "idle"
    /\ Stands(r, "locking")
    /\ IF r \in Unbounded THEN UNCHANGED timers ELSE SetTimer("request", r)
    /\ UNCHANGED <<life, lock, end, call>>

\* Mutant: the host is asked with no deadline.
AskForever(r) ==
    /\ Stands(r, "renewing")
    /\ lock' = r
    /\ call' = [call EXCEPT ![r] = "open"]
    /\ UNCHANGED <<end, timers>>

\* It has the lock and asks the host, which is given HOST_MS.
Ask(r) ==
    /\ Stands(r, "renewing")
    /\ lock' = r
    /\ call' = [call EXCEPT ![r] = "open"]
    /\ SetTimer("host", r)
    /\ UNCHANGED end

\* `get_credential`, once the lock is free: whoever polls first has it.
Acquire(r) ==
    /\ stage[r] = "locking"
    /\ lock = Free
    /\ \/ Due /\ Ask(r)
       \/ ~Due /\ HandOut(r) /\ UNCHANGED <<call, timers>>
    /\ UNCHANGED life

\* The host vends again, and the credential is replaced.
Renewed(r) ==
    /\ stage[r] = "renewing"
    /\ life' \in Lives \ {"expired"}
    /\ call' = [call EXCEPT ![r] = "over"]
    /\ HandOut(r)
    /\ UNCHANGED timers

\* Mutant: a renewal that failed is never fatal.
UnrenewedIgnored(r) == HandOut(r) /\ UNCHANGED life

\* A renewal failed: fatal only if the credential has expired meanwhile.
Unrenewed(r) ==
    /\ \/ life = "expired" /\ Finish(r, "no renewal")
       \/ life # "expired" /\ HandOut(r)
    /\ UNCHANGED life

\* The host refuses, or vends nothing for the prefix, or nothing fossil reads.
NotRenewed(r) ==
    /\ stage[r] = "renewing"
    /\ Unrenewed(r)
    /\ call' = [call EXCEPT ![r] = "over"]
    /\ UNCHANGED timers

\* An answer nobody waits for any more.
LateAnswer(r) ==
    /\ call[r] = "open" /\ stage[r] # "renewing"
    /\ call' = [call EXCEPT ![r] = "over"]
    /\ UNCHANGED <<life, lock, stage, end, timers>>

\* The store answers, with what was asked for or an error of its own.
StoreAnswers(r) ==
    /\ stage[r] = "sending"
    /\ Finish(r, "answered")
    /\ UNCHANGED <<life, call, timers>>

\* The caller drops the request: its run was stopped, or a sibling failed.
Drop(r) ==
    /\ Waiting(r)
    /\ Finish(r, "dropped")
    /\ UNCHANGED <<life, call, timers>>

-----------------------------------------------------------------------------
(* The timers, and time.                                                   *)

\* Mutant: the deadline is one on the store's answer, not on the credential.
RequestDeadlineOnSent(r) ==
    /\ \/ stage[r] = "sending" /\ Finish(r, "no answer")
       \/ stage[r] # "sending" /\ UNCHANGED <<lock, stage, end>>
    /\ UNCHANGED <<life, call>>

\* A request's deadline; it has nobody to tell if the request is over.
RequestDeadline(r) ==
    /\ \/ Waiting(r) /\ Finish(r, "no answer")
       \/ ~Waiting(r) /\ UNCHANGED <<lock, stage, end>>
    /\ UNCHANGED <<life, call>>

\* The host's deadline: it is told to stop, and the asker, if there still is
\* one, that it was silent.
HostDeadline(r) ==
    /\ \/ stage[r] = "renewing" /\ Unrenewed(r)
       \/ stage[r] # "renewing" /\ UNCHANGED <<life, lock, stage, end>>
    /\ call' = [call EXCEPT ![r] = "over"]

\* The timer set first fires first.
Fires ==
    /\ timers # <<>>
    /\ timers' = Tail(timers)
    /\ LET t == Head(timers) IN
        \/ t.of = "request" /\ RequestDeadline(t.r)
        \/ t.of = "host" /\ HostDeadline(t.r)

\* The credential ages.
Age ==
    /\ \/ life = "fresh" /\ life' = "due"
       \/ life = "due" /\ life' = "expired"
    /\ UNCHANGED <<lock, stage, end, call, timers>>

RenewalNext ==
    \/ \E r \in Requests :
        \/ BeginRequest(r) \/ Acquire(r) \/ Renewed(r) \/ NotRenewed(r)
        \/ LateAnswer(r) \/ StoreAnswers(r) \/ Drop(r)
    \/ Fires
    \/ Age

RenewalSpec == RenewalInit /\ [][RenewalNext]_renewalVars

\* The event loop: timers fire, and a request woken by the lock is polled.
RenewalFairness == WF_renewalVars(Fires) /\ \A r \in Requests : WF_renewalVars(Acquire(r))

RenewalFairSpec == RenewalSpec /\ RenewalFairness

-----------------------------------------------------------------------------
(* Properties.                                                             *)

\* No request is sent with a credential known to have expired: after a
\* renewal that failed the old one is used only if it still works
\* (store.rs 741-750).
HandedOutWorks ==
    [][\A r \in Requests :
        stage[r] # "sending" /\ stage'[r] = "sending" => life' # "expired"]_renewalVars

\* A host that stays silent past its deadline is never what a bounded request
\* hears: the request's own deadline, set earlier and as long, has ended it
\* (store.rs 393-400 around js.rs 143-153).  So what get_credential does with a
\* silent host, keeping the credential it has, is reached from an unbounded
\* request alone.
SilenceUnheard ==
    timers # <<>> =>
        LET t == Head(timers) IN
        t.of = "host" /\ stage[t.r] = "renewing" => t.r \in Unbounded

\* Every request with a deadline ends, also one that only waits for the lock,
\* whatever the host and the store do (store.rs 386-406).
BoundedEnds ==
    \A r \in Requests \ Unbounded : stage[r] = "locking" ~> stage[r] = "done"

\* The lock is never held for ever, and every request that waits for it gets a
\* credential or ends, also one with no deadline: the host has one
\* (store.rs 728-753, js.rs 143).
CredentialComes ==
    \A r \in Requests : stage[r] = "locking" ~> stage[r] \in {"sending", "done"}

\* Both: nobody waits on a credential for ever.
WaitsEnd == BoundedEnds /\ CredentialComes

\* Violated.  A renewal that does not come costs a request only if the
\* credential has expired (store.rs 741-742, "A renewal that fails while the
\* credential still works is tried again on the next request").
FailsOnlyExpired ==
    [][\A r \in Requests :
        stage[r] = "renewing" /\ end'[r] \in {"no renewal", "no answer"}
            => life = "expired"]_renewalVars

=============================================================================
