---------------------------- MODULE RenewalProofs ----------------------------
(***************************************************************************)
(* Theorems about Renewal, for any number of requests.                     *)
(*                                                                         *)
(* That a silent host goes unheard depends on the order the two timers of  *)
(* a request were set in.  The invariant says where they stand in the      *)
(* queue: none of the host's before the lock is taken, and the request's   *)
(* own ahead of the host's from then on.                                   *)
(***************************************************************************)
EXTENDS Renewal, TLAPS

Own(r)   == [of |-> "request", r |-> r]
Hosts(r) == [of |-> "host", r |-> r]

\* Before it has the lock a request has asked no host.
Unasked(r) ==
    stage[r] \in {"idle", "locking"} => \A j \in 1 .. Len(timers) : timers[j] # Hosts(r)

\* Until it is sent, a bounded request's deadline is ahead, and the host's after it.
OwnFirst(r) ==
    stage[r] \in {"locking", "renewing"} /\ r \notin Unbounded =>
        \E i \in 1 .. Len(timers) :
            /\ timers[i] = Own(r)
            /\ \A j \in 1 .. Len(timers) : timers[j] = Hosts(r) => i < j

IInv == RenewalTypeOK /\ \A r \in Requests : Unasked(r) /\ OwnFirst(r)

\* A timer set goes to the end of the queue.
LEMMA AppendedTimer ==
    ASSUME NEW s \in Seq(Timers), NEW t \in Timers
    PROVE  /\ Append(s, t) \in Seq(Timers)
           /\ Len(Append(s, t)) = Len(s) + 1
           /\ \A i \in 1 .. Len(s) : Append(s, t)[i] = s[i]
           /\ Append(s, t)[Len(s) + 1] = t
  OBVIOUS

\* A timer fired leaves the queue, and the others move up.
LEMMA FiredTimer ==
    ASSUME NEW s \in Seq(Timers), s # <<>>
    PROVE  /\ Head(s) \in Timers /\ Head(s) = s[1]
           /\ Tail(s) \in Seq(Timers)
           /\ Len(Tail(s)) = Len(s) - 1 /\ Len(s) \in Nat \ {0}
           /\ \A i \in 1 .. Len(Tail(s)) : Tail(s)[i] = s[i + 1]
  OBVIOUS

\* What the invariant says of a request survives a step that leaves its stage
\* and the queue alone.
LEMMA QueueKept ==
    ASSUME NEW q \in Requests, Unasked(q), OwnFirst(q), UNCHANGED timers,
           stage'[q] = stage[q] \/ stage'[q] \in {"sending", "done"}
    PROVE  Unasked(q)' /\ OwnFirst(q)'
  BY DEF Unasked, OwnFirst, Own, Hosts

\* The types across the steps that end a request or hand it the credential.
LEMMA FinishTypes ==
    ASSUME RenewalTypeOK, NEW r \in Requests, NEW how \in Ends \ {"none"},
           stage[r] # "done", Finish(r, how), life' \in Lives,
           call' \in [Requests -> {"none", "open", "over"}],
           \A q \in Requests \ {r} : call'[q] = call[q], timers' \in Seq(Timers)
    PROVE  RenewalTypeOK'
  BY RenewalAssumption DEF RenewalTypeOK, Finish, Stands, Stages, Ends

LEMMA HandOutTypes ==
    ASSUME RenewalTypeOK, NEW r \in Requests, HandOut(r),
           stage[r] \in {"locking", "renewing"}, lock \in {r, Free}, life' \in Lives,
           call' \in [Requests -> {"none", "open", "over"}],
           \A q \in Requests \ {r} : call'[q] = call[q], timers' \in Seq(Timers)
    PROVE  RenewalTypeOK'
  BY RenewalAssumption DEF RenewalTypeOK, HandOut, Stands, Stages, Ends

LEMMA InitIInv == RenewalInit => IInv
<1> SUFFICES ASSUME RenewalInit PROVE IInv
  OBVIOUS
<1>1. RenewalTypeOK
  BY RenewalAssumption DEF RenewalInit, RenewalTypeOK, Lives, Stages, Ends, Timers
<1>2. \A r \in Requests : Unasked(r) /\ OwnFirst(r)
  <2>1. timers = <<>> /\ Len(timers) = 0 /\ \A r \in Requests : stage[r] = "idle"
    BY DEF RenewalInit
  <2>2. 1 .. Len(timers) = {}
    BY <2>1
  <2> QED
    BY <2>1, <2>2 DEF Unasked, OwnFirst
<1> QED
  BY <1>1, <1>2 DEF IInv

\* A request that starts sets its deadline before it has anything else.
LEMMA BeginIInv ==
    ASSUME IInv, NEW r \in Requests, BeginRequest(r)
    PROVE  IInv'
<1> USE DEF IInv
<1>a. Own(r) \in Timers
  BY DEF Own, Timers
<1>1. RenewalTypeOK'
  BY <1>a, AppendedTimer DEF RenewalTypeOK, BeginRequest, Stands, SetTimer, Stages, Own
<1>2. ASSUME NEW q \in Requests PROVE Unasked(q)' /\ OwnFirst(q)'
  <2>1. CASE r \in Unbounded
    BY <2>1 DEF BeginRequest, Stands, Unasked, OwnFirst, RenewalTypeOK, Own, Hosts
  <2>2. CASE r \notin Unbounded
    <3>1. timers' = Append(timers, Own(r)) /\ timers \in Seq(Timers)
      BY <2>2 DEF BeginRequest, SetTimer, Own, RenewalTypeOK
    <3>2. /\ Len(timers') = Len(timers) + 1 /\ Len(timers) \in Nat
          /\ \A i \in 1 .. Len(timers) : timers'[i] = timers[i]
          /\ timers'[Len(timers) + 1] = Own(r)
      BY <3>1, <1>a, AppendedTimer
    <3>3. Own(r) # Hosts(q)
      BY DEF Own, Hosts
    <3>4. Unasked(q)'
      BY <3>2, <3>3 DEF Unasked, BeginRequest, Stands, RenewalTypeOK, Hosts
    <3>5. CASE q # r
      <4>1. stage'[q] = stage[q]
        BY <3>5 DEF BeginRequest, Stands, RenewalTypeOK
      <4> QED
        BY <3>2, <3>3, <3>4, <4>1 DEF OwnFirst, Own, Hosts
    <3>6. CASE q = r
      <4>1. \A j \in 1 .. Len(timers') : timers'[j] # Hosts(r)
        BY <3>2, <3>3, <3>6 DEF Unasked, BeginRequest, Hosts
      <4>2. Len(timers) + 1 \in 1 .. Len(timers') /\ timers'[Len(timers) + 1] = Own(r)'
        BY <3>2 DEF Own
      <4> QED
        BY <3>4, <3>6, <4>1, <4>2 DEF OwnFirst, Hosts
    <3> QED
      BY <3>4, <3>5, <3>6
  <2> QED
    BY <2>1, <2>2
<1> QED
  BY <1>1, <1>2

\* The host's deadline is set behind the request's own.
LEMMA AcquireIInv ==
    ASSUME IInv, NEW r \in Requests, Acquire(r)
    PROVE  IInv'
<1> USE DEF IInv
<1>1. CASE ~Due /\ HandOut(r) /\ UNCHANGED <<call, timers>>
  <2>1. RenewalTypeOK'
    BY <1>1, HandOutTypes DEF Acquire, RenewalTypeOK
  <2>2. \A q \in Requests : Unasked(q)' /\ OwnFirst(q)'
    BY <1>1, QueueKept DEF HandOut, Stands, RenewalTypeOK
  <2> QED
    BY <2>1, <2>2
<1>2. CASE Due /\ Ask(r)
  <2>a. Hosts(r) \in Timers
    BY DEF Hosts, Timers
  <2>b. stage[r] = "locking" /\ lock = Free /\ UNCHANGED <<life, end>>
    BY <1>2 DEF Acquire, Ask
  <2>c. timers' = Append(timers, Hosts(r)) /\ timers \in Seq(Timers)
    BY <1>2 DEF Ask, SetTimer, Hosts, RenewalTypeOK
  <2>d. /\ timers' \in Seq(Timers)
        /\ Len(timers') = Len(timers) + 1 /\ Len(timers) \in Nat
        /\ \A i \in 1 .. Len(timers) : timers'[i] = timers[i]
        /\ timers'[Len(timers) + 1] = Hosts(r)
    BY <2>a, <2>c, AppendedTimer
  <2>1. RenewalTypeOK'
    BY <1>2, <2>b, <2>d, RenewalAssumption DEF Ask, Stands, RenewalTypeOK, Stages
  <2>2. ASSUME NEW q \in Requests PROVE Unasked(q)' /\ OwnFirst(q)'
    <3>1. CASE q # r
      <4>1. Hosts(r) # Hosts(q) /\ Hosts(r) # Own(q)
        BY <3>1 DEF Own, Hosts
      <4>2. stage'[q] = stage[q]
        BY <1>2, <3>1 DEF Ask, Stands, RenewalTypeOK
      <4>3. Unasked(q)'
        BY <2>d, <4>1, <4>2 DEF Unasked, Hosts
      <4>4. OwnFirst(q)'
        BY <2>d, <4>1, <4>2 DEF OwnFirst, Own, Hosts
      <4> QED
        BY <4>3, <4>4
    <3>2. CASE q = r
      <4>1. stage'[r] = "renewing"
        BY <1>2 DEF Ask, Stands, RenewalTypeOK
      <4>2. \A j \in 1 .. Len(timers) : timers[j] # Hosts(r)
        BY <2>b DEF Unasked
      <4>3. ASSUME r \notin Unbounded PROVE OwnFirst(r)'
        <5>1. PICK i \in 1 .. Len(timers) : timers[i] = Own(r)
          BY <2>b, <4>3 DEF OwnFirst
        <5>2. \A j \in 1 .. Len(timers') : timers'[j] = Hosts(r) => i < j
          BY <2>d, <4>2
        <5> QED
          BY <2>d, <5>1, <5>2 DEF OwnFirst, Own, Hosts
      <4> QED
        BY <3>2, <4>1, <4>3 DEF Unasked, OwnFirst
    <3> QED
      BY <3>1, <3>2
  <2> QED
    BY <2>1, <2>2
<1> QED
  BY <1>1, <1>2 DEF Acquire

\* A renewal that failed ends the request, or hands it the old credential.
LEMMA UnrenewedIInv ==
    ASSUME IInv, NEW r \in Requests, stage[r] = "renewing",
           Unrenewed(r), call' = [call EXCEPT ![r] = "over"], timers' \in Seq(Timers)
    PROVE  /\ RenewalTypeOK'
           /\ \A q \in Requests : stage'[q] = stage[q] \/ stage'[q] \in {"sending", "done"}
<1>1. life' \in Lives /\ lock = r /\ UNCHANGED life
  BY DEF IInv, RenewalTypeOK, Unrenewed
<1>2. /\ call' \in [Requests -> {"none", "open", "over"}]
      /\ \A q \in Requests \ {r} : call'[q] = call[q]
  BY DEF IInv, RenewalTypeOK
<1>3. CASE Finish(r, "no renewal")
  <2>1. RenewalTypeOK'
    BY <1>1, <1>2, <1>3, FinishTypes DEF IInv, Ends
  <2> QED
    BY <1>3, <2>1 DEF IInv, Finish, Stands, RenewalTypeOK
<1>4. CASE HandOut(r)
  <2>1. RenewalTypeOK'
    BY <1>1, <1>2, <1>4, HandOutTypes DEF IInv
  <2> QED
    BY <1>4, <2>1 DEF IInv, HandOut, Stands, RenewalTypeOK
<1> QED
  BY <1>3, <1>4 DEF Unrenewed

\* The other steps of a request leave the queue alone.
LEMMA RequestIInv ==
    ASSUME IInv, NEW r \in Requests,
           \/ Renewed(r) \/ NotRenewed(r) \/ LateAnswer(r) \/ StoreAnswers(r) \/ Drop(r)
    PROVE  IInv'
<1> USE DEF IInv
<1>q. ASSUME UNCHANGED timers, RenewalTypeOK',
             \A q \in Requests : stage'[q] = stage[q] \/ stage'[q] \in {"sending", "done"}
      PROVE  IInv'
  BY <1>q, QueueKept
<1>c. timers \in Seq(Timers) /\ life \in Lives
  BY DEF RenewalTypeOK
<1>1. CASE Renewed(r)
  <2>1. RenewalTypeOK'
    BY <1>1, <1>c, HandOutTypes DEF Renewed, RenewalTypeOK
  <2> QED
    BY <1>1, <1>q, <2>1 DEF Renewed, HandOut, Stands, RenewalTypeOK
<1>2. CASE NotRenewed(r)
  BY <1>2, <1>q, <1>c, UnrenewedIInv DEF NotRenewed
<1>3. CASE LateAnswer(r)
  <2>1. RenewalTypeOK'
    BY <1>3 DEF LateAnswer, RenewalTypeOK
  <2> QED
    BY <1>3, <1>q, <2>1 DEF LateAnswer
<1>4. CASE StoreAnswers(r)
  <2>1. RenewalTypeOK'
    BY <1>4, <1>c, FinishTypes DEF StoreAnswers, RenewalTypeOK, Ends
  <2> QED
    BY <1>4, <1>q, <2>1 DEF StoreAnswers, Finish, Stands, RenewalTypeOK
<1>5. CASE Drop(r)
  <2>1. RenewalTypeOK'
    BY <1>5, <1>c, FinishTypes DEF Drop, Waiting, RenewalTypeOK, Ends
  <2> QED
    BY <1>5, <1>q, <2>1 DEF Drop, Finish, Stands, RenewalTypeOK
<1> QED
  BY <1>1, <1>2, <1>3, <1>4, <1>5

\* A request whose own deadline fires is over; of the others nothing is lost.
LEMMA FiresIInv == ASSUME IInv, Fires PROVE IInv'
<1> USE DEF IInv
<1> DEFINE t == Head(timers)
<1>1. /\ timers \in Seq(Timers) /\ timers # <<>>
      /\ timers' = Tail(timers)
      /\ life \in Lives
  BY DEF Fires, RenewalTypeOK
<1>2. /\ t \in Timers /\ t = timers[1]
      /\ timers' \in Seq(Timers)
      /\ Len(timers') = Len(timers) - 1 /\ Len(timers) \in Nat \ {0}
      /\ \A i \in 1 .. Len(timers') : timers'[i] = timers[i + 1]
  BY <1>1, FiredTimer
<1>3. t.r \in Requests /\ t.of \in {"request", "host"} /\ t = [of |-> t.of, r |-> t.r]
  BY <1>2 DEF Timers
<1>4. /\ RenewalTypeOK'
      /\ \A q \in Requests : stage'[q] = stage[q] \/ stage'[q] \in {"sending", "done"}
      /\ t.of = "request" => stage'[t.r] \notin {"locking", "renewing"}
  <2>1. CASE t.of = "request" /\ RequestDeadline(t.r)
    <3>1. CASE Waiting(t.r) /\ Finish(t.r, "no answer")
      <4>1. RenewalTypeOK'
        BY <1>1, <1>2, <1>3, <2>1, <3>1, FinishTypes
           DEF RequestDeadline, Waiting, RenewalTypeOK, Ends
      <4>2. stage' = [stage EXCEPT ![t.r] = "done"] /\ stage \in [Requests -> Stages]
        BY <3>1 DEF Finish, Stands, RenewalTypeOK
      <4>3. stage'[t.r] = "done" /\ \A q \in Requests : q # t.r => stage'[q] = stage[q]
        BY <1>3, <4>2
      <4> HIDE DEF t
      <4> QED
        BY <4>1, <4>3
    <3>2. CASE ~Waiting(t.r) /\ UNCHANGED <<lock, stage, end>>
      BY <1>2, <1>3, <2>1, <3>2 DEF RequestDeadline, Waiting, RenewalTypeOK
    <3> QED
      BY <2>1, <3>1, <3>2 DEF RequestDeadline
  <2>2. CASE t.of = "host" /\ HostDeadline(t.r)
    <3>1. CASE stage[t.r] = "renewing" /\ Unrenewed(t.r)
      BY <1>2, <1>3, <2>2, <3>1, UnrenewedIInv DEF HostDeadline
    <3>2. CASE stage[t.r] # "renewing" /\ UNCHANGED <<life, lock, stage, end>>
      <4>1. RenewalTypeOK'
        BY <1>2, <1>3, <2>2, <3>2 DEF HostDeadline, RenewalTypeOK
      <4> QED
        BY <2>2, <3>2, <4>1
    <3> QED
      BY <2>2, <3>1, <3>2 DEF HostDeadline
  <2> QED
    BY <2>1, <2>2 DEF Fires
<1>5. ASSUME NEW q \in Requests PROVE Unasked(q)' /\ OwnFirst(q)'
  <2>1. Unasked(q)'
    BY <1>2, <1>4 DEF Unasked, Hosts
  <2>2. ASSUME stage'[q] \in {"locking", "renewing"}, q \notin Unbounded PROVE OwnFirst(q)'
    <3>1. stage[q] \in {"locking", "renewing"}
      BY <1>4, <2>2
    <3>2. PICK i \in 1 .. Len(timers) :
              /\ timers[i] = Own(q)
              /\ \A j \in 1 .. Len(timers) : timers[j] = Hosts(q) => i < j
      BY <2>2, <3>1 DEF OwnFirst
    <3>3. i # 1
      <4>1. SUFFICES ASSUME i = 1 PROVE FALSE
        OBVIOUS
      <4>2. t.of = "request" /\ t.r = q
        BY <1>2, <3>2, <4>1 DEF Own
      <4> QED
        BY <1>4, <2>2, <4>2
    <3>4. /\ i - 1 \in 1 .. Len(timers') /\ timers'[i - 1] = Own(q)'
          /\ \A j \in 1 .. Len(timers') : timers'[j] = Hosts(q)' => i - 1 < j
      BY <1>2, <3>2, <3>3 DEF Own, Hosts
    <3> QED
      BY <3>4 DEF OwnFirst
  <2> QED
    BY <2>1, <2>2 DEF OwnFirst
<1> QED
  BY <1>4, <1>5

\* IInv is inductive, for any requests and whichever of them have a deadline.
THEOREM RenewalInvariance == RenewalSpec => []IInv
<1>1. IInv /\ [RenewalNext]_renewalVars => IInv'
  <2> SUFFICES ASSUME IInv, [RenewalNext]_renewalVars PROVE IInv'
    OBVIOUS
  <2>1. CASE Fires
    BY <2>1, FiresIInv
  <2>2. CASE Age
    <3>1. RenewalTypeOK'
      BY <2>2 DEF Age, IInv, RenewalTypeOK, Lives
    <3> QED
      BY <2>2, <3>1, QueueKept DEF Age, IInv
  <2>3. CASE \E r \in Requests :
               \/ BeginRequest(r) \/ Acquire(r) \/ Renewed(r) \/ NotRenewed(r)
               \/ LateAnswer(r) \/ StoreAnswers(r) \/ Drop(r)
    BY <2>3, BeginIInv, AcquireIInv, RequestIInv
  <2>4. CASE UNCHANGED renewalVars
    <3>1. RenewalTypeOK'
      BY <2>4 DEF renewalVars, IInv, RenewalTypeOK
    <3> QED
      BY <2>4, <3>1, QueueKept DEF renewalVars, IInv
  <2> QED
    BY <2>1, <2>2, <2>3, <2>4 DEF RenewalNext
<1> QED
  BY InitIInv, <1>1, PTL DEF RenewalSpec

\* The types hold, and the lock is held by the one request that asks the host.
THEOREM RenewalTypesHold == RenewalSpec => []RenewalTypeOK
  BY RenewalInvariance, PTL DEF IInv

\* A host silent past its deadline is heard by no request that has one.
THEOREM SilenceIsUnheard == RenewalSpec => []SilenceUnheard
<1>1. IInv => SilenceUnheard
  <2> SUFFICES ASSUME IInv, timers # <<>>, Head(timers).of = "host",
                      stage[Head(timers).r] = "renewing", Head(timers).r \notin Unbounded
               PROVE  FALSE
    BY DEF SilenceUnheard
  <2> DEFINE r == Head(timers).r
  <2>1. /\ Head(timers) \in Timers /\ Head(timers) = timers[1]
        /\ Len(timers) \in Nat \ {0}
    BY FiredTimer DEF IInv, RenewalTypeOK
  <2>2. r \in Requests /\ timers[1] = Hosts(r)
    BY <2>1 DEF Timers, Hosts
  <2>3. PICK i \in 1 .. Len(timers) :
            \A j \in 1 .. Len(timers) : timers[j] = Hosts(r) => i < j
    BY <2>2 DEF IInv, OwnFirst
  <2> QED
    BY <2>1, <2>2, <2>3
<1> QED
  BY <1>1, RenewalInvariance, PTL

\* No request is sent with a credential known to have expired.
THEOREM HandsOutWorking == RenewalSpec => HandedOutWorks
<1>1. IInv /\ [RenewalNext]_renewalVars =>
        [\A r \in Requests :
            stage[r] # "sending" /\ stage'[r] = "sending" => life' # "expired"]_renewalVars
  <2> SUFFICES ASSUME IInv, RenewalNext, NEW q \in Requests,
                      stage[q] # "sending", stage'[q] = "sending"
               PROVE  life' # "expired"
    OBVIOUS
  <2>1. CASE \E r \in Requests : Renewed(r)
    BY <2>1 DEF Renewed
  <2>2. CASE \E r \in Requests : Acquire(r)
    BY <2>2 DEF Acquire, Due, Ask, Stands, IInv, RenewalTypeOK
  <2>3. CASE \E r \in Requests : Unrenewed(r)
    BY <2>3 DEF Unrenewed, Finish, Stands, IInv, RenewalTypeOK
  <2>4. CASE \E r \in Requests : BeginRequest(r) \/ LateAnswer(r) \/ StoreAnswers(r) \/ Drop(r)
    BY <2>4 DEF BeginRequest, LateAnswer, StoreAnswers, Drop, Finish, Stands, IInv, RenewalTypeOK
  <2>5. CASE Fires
    <3>1. Head(timers).r \in Requests
      BY <2>5, FiredTimer DEF Fires, IInv, RenewalTypeOK, Timers
    <3>2. CASE RequestDeadline(Head(timers).r)
      BY <3>1, <3>2 DEF RequestDeadline, Finish, Stands, IInv, RenewalTypeOK
    <3>3. CASE HostDeadline(Head(timers).r)
      BY <3>1, <3>3, <2>3 DEF HostDeadline
    <3> QED
      BY <2>5, <3>2, <3>3 DEF Fires
  <2>6. CASE Age
    BY <2>6 DEF Age
  <2> QED
    BY <2>1, <2>2, <2>3, <2>4, <2>5, <2>6 DEF RenewalNext, NotRenewed
<1> QED
  BY <1>1, RenewalInvariance, PTL DEF RenewalSpec, HandedOutWorks

=============================================================================
