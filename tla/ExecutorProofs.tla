---------------------------- MODULE ExecutorProofs ----------------------------
(***************************************************************************)
(* Theorems about what a run is executed with and what it answers: the     *)
(* storage it may reach (Storage), the memory it may take (Budget) and the *)
(* tables its two sinks write (Tables).                                    *)
(*                                                                         *)
(* Storage, for any host and any client.  A location is only asked about   *)
(* when nothing covers it yet.  If a prefix vended over it also lies over  *)
(* a location that was covered, what covered that one lies beneath the new *)
(* prefix (AlreadyLonger), so it is the longer of the two and goes on      *)
(* being the one covering answers: a prefix that takes a location over is  *)
(* not over what was asked about (ServedNow).                              *)
(*                                                                         *)
(* Tables, for any program.  The subjects of a type are numbered by their  *)
(* place in an order, which is one to one onto 0 .. n - 1 (PlacesAreIndices), *)
(* and the ids of a type end before those of the next begin (RangesApart): *)
(* an id is of one vertex (OwnerIs).  What the tables hold, what the       *)
(* N-Triples say and what a reader gets back are each shown equal to what  *)
(* the rows say (Said), and each refusal to a cause the rows have.         *)
(***************************************************************************)
EXTENDS Storage, Budget, Tables, FiniteSetTheorems, NaturalsInduction, WellFoundedInduction, TLAPS

\* Before the run has asked for anything, only its files are routed.
Unstarted ==
    stage = "start" => DOMAIN routes = client.files /\ granted = [s \in {} |-> <<>>] /\ dest = {}

\* A run over files has nobody to ask.
NoHost == client.files # {} => \A s \in Scopes : host[s] = {}

\* Where a run writes is routed before it reads anything.
DestRouted == stage \in {"routing", "using"} => dest \subseteq DOMAIN routes

IInv == TypeOK /\ Unstarted /\ NoHost /\ DestRouted /\ WritesReachDest

LEMMA PathShape ==
    /\ \A p \in Paths : p \in Seq(Segments) /\ Len(p) > 0
    /\ \A p \in Paths \ {Memory} : p[1] \in Authorities
    /\ Memory[1] \notin Authorities
    /\ Prefixes \subseteq Paths /\ Locations \subseteq Paths /\ Roots \subseteq Paths /\ Memory \in Paths
<1>1. \A a \in Authorities : a \in Segments /\ <<a>> \in Seq(Segments) /\ Len(<<a>>) = 1 /\ <<a>>[1] = a
  BY StorageAssumption
<1>2. Memory \in Seq(Segments) /\ Len(Memory) = 1 /\ Memory[1] = "memory"
  BY StorageAssumption DEF Memory
<1>3. ASSUME NEW p \in Roots PROVE p \in Seq(Segments) /\ Len(p) > 0 /\ p[1] \in Authorities
  <2>1. PICK a \in Authorities : p = <<a>>
    BY DEF Roots
  <2> QED
    BY <1>1, <2>1
<1> QED
  BY <1>1, <1>2, <1>3, StorageAssumption DEF Paths

\* Two prefixes over one location, the second over a location the first is not over:
\* the first is the longer.
LEMMA AlreadyLonger ==
    ASSUME NEW q \in Seq(Segments), NEW p \in Seq(Segments), NEW l, NEW t,
           Covers(q, l), Covers(p, l), Covers(p, t), ~Covers(q, t), Len(t) \in Nat
    PROVE  Len(p) < Len(q)
<1> SUFFICES ASSUME Len(q) <= Len(p) PROVE FALSE
  OBVIOUS
<1>1. Len(q) <= Len(t)
  BY DEF Covers
<1>2. ASSUME NEW i \in 1 .. Len(q) PROVE q[i] = t[i]
  BY DEF Covers
<1> QED
  BY <1>1, <1>2 DEF Covers

\* A set of naturals has a least one.
LEMMA LeastPlace ==
    ASSUME NEW S \in SUBSET Nat, S # {}
    PROVE  \E x \in S : \A y \in S : x <= y
<1>1. PICK x \in S : \A y \in S : <<y, x>> \notin OpToRel(<, Nat)
  BY WFMin, NatLessThanWellFounded, Zenon
<1>2. \A y \in S : ~ (y < x)
  BY <1>1, Zenon DEF OpToRel
<1> QED
  BY <1>2

\* Of the prefixes over a location one is the longest.
LEMMA LongestExists ==
    ASSUME NEW D, D \subseteq Paths, NEW l \in Paths, NEW m \in D, Covers(m, l)
    PROVE  \E p \in D : Covering(D, l) = {p}
<1> DEFINE left == {Len(l) - Len(p) : p \in {q \in D : Covers(q, l)}}
<1>1. \A p \in D : p \in Seq(Segments) /\ Len(p) \in Nat
  BY PathShape
<1>2. Len(l) \in Nat
  BY PathShape
<1>3. \A p \in D : Covers(p, l) => Len(l) - Len(p) \in Nat
  BY <1>1, <1>2 DEF Covers
<1>4. left \subseteq Nat /\ left # {}
  BY <1>3
<1>5. PICK n \in left : \A k \in left : n <= k
  <2> HIDE DEF left
  <2> QED
    BY <1>4, LeastPlace
<1>6. n \in Nat
  BY <1>4, <1>5
<1>7. PICK p \in D : Covers(p, l) /\ n = Len(l) - Len(p)
  OBVIOUS
<1>8. \A q \in D : Covers(q, l) => Len(q) <= Len(p)
  <2>1. ASSUME NEW q \in D, Covers(q, l) PROVE Len(q) <= Len(p)
    <3>1. Len(l) - Len(q) \in left
      BY <2>1
    <3> HIDE DEF left
    <3> QED
      BY <1>1, <1>2, <1>5, <1>6, <1>7, <3>1
  <2> QED
    BY <2>1
<1>9. p \in Covering(D, l)
  BY <1>7, <1>8 DEF Covering
<1>10. ASSUME NEW q \in Covering(D, l) PROVE q = p
  <2>1. q \in D /\ Covers(q, l) /\ Len(q) = Len(p)
    BY <1>1, <1>7, <1>8 DEF Covering
  <2>2. \A i \in 1 .. Len(p) : q[i] = p[i]
    BY <1>7, <2>1 DEF Covers
  <2> QED
    BY <1>1, <2>1, <2>2
<1> QED
  BY <1>9, <1>10

\* The routes and who serves them are what they were.
SameRoutes ==
    DOMAIN routes' = DOMAIN routes /\ \A q \in DOMAIN routes : routes'[q] = routes[q]

\* What routing a target may do: nothing, or, where nothing covers its location, route
\* prefixes its connection's host vended, or prefixes over it.
Extends(t) ==
    \/ SameRoutes
    \/ /\ ~Covered(t.location)
       /\ \E R \in SUBSET Paths, s \in Servers :
            /\ DOMAIN routes' = DOMAIN routes \cup R
            /\ \A q \in DOMAIN routes' : routes'[q] = IF q \in R THEN s ELSE routes[q]
            /\ \/ \A p \in R : Covers(p, t.location)
               \/ /\ s = t.connection /\ s \in Connections
                  /\ \E cs \in host[s] : R = Readable(cs)

\* After such a step what serves a location that was served is what served it, or was
\* vended about the target just now, is not over it, and is no shorter.
TakenOver(t, q, p) ==
    /\ ~Covered(t.location) /\ ~Covers(p, t.location) /\ Len(q) <= Len(p)
    /\ routes'[p] = t.connection /\ t.connection \in Connections
    /\ \E cs \in host[t.connection] : p \in Readable(cs)

LEMMA ServedNow ==
    ASSUME TypeOK, DOMAIN routes' \subseteq Paths, NEW t \in Targets, Extends(t), NEW l \in Paths,
           NEW q \in Covering(DOMAIN routes, l)
    PROVE  \E p \in DOMAIN routes' :
              /\ Covering(DOMAIN routes, l) = {q} /\ Covering(DOMAIN routes', l) = {p}
              /\ (p = q /\ routes'[p] = routes[q]) \/ TakenOver(t, q, p)
<1>1. DOMAIN routes \subseteq Paths /\ DOMAIN routes \subseteq DOMAIN routes'
  BY DEF TypeOK, Extends, SameRoutes
<1>2. q \in DOMAIN routes /\ Covers(q, l)
  BY DEF Covering
<1>3. Covering(DOMAIN routes, l) = {q}
  BY <1>1, <1>2, LongestExists
<1>4. PICK p \in DOMAIN routes' : Covering(DOMAIN routes', l) = {p}
  BY <1>1, <1>2, LongestExists
<1>5. Covers(p, l) /\ \A o \in DOMAIN routes : Covers(o, l) => Len(o) <= Len(p)
  BY <1>1, <1>4 DEF Covering
<1>6. p \in Seq(Segments) /\ q \in Seq(Segments)
  BY <1>1, <1>2, PathShape
<1>7. ASSUME p \in DOMAIN routes PROVE p = q
  BY <1>3, <1>5, <1>7 DEF Covering
<1>8. CASE SameRoutes
  BY <1>3, <1>4, <1>7, <1>8 DEF SameRoutes
<1>9. CASE ~SameRoutes
  <2>1. PICK R \in SUBSET Paths, s \in Servers :
            /\ DOMAIN routes' = DOMAIN routes \cup R
            /\ \A o \in DOMAIN routes' : routes'[o] = IF o \in R THEN s ELSE routes[o]
            /\ \/ \A o \in R : Covers(o, t.location)
               \/ /\ s = t.connection /\ s \in Connections
                  /\ \E cs \in host[s] : R = Readable(cs)
    BY <1>9 DEF Extends
  <2>2. CASE p \notin R
    BY <1>3, <1>4, <1>7, <2>1, <2>2
  <2>3. CASE p \in R
    <3>1. ~Covered(t.location) /\ Len(t.location) \in Nat
      BY <1>9, PathShape DEF Extends, Targets
    <3>2. Len(q) <= Len(p)
      BY <1>2, <1>5
    <3>3. ~Covers(p, t.location)
      <4>1. SUFFICES ASSUME Covers(p, t.location) PROVE FALSE
        OBVIOUS
      <4>2. ~Covers(q, t.location)
        BY <1>2, <3>1 DEF Covered
      <4>3. Len(p) < Len(q)
        BY <1>2, <1>5, <1>6, <3>1, <4>1, <4>2, AlreadyLonger
      <4> QED
        BY <1>6, <3>2, <4>3
    <3>4. TakenOver(t, q, p)
      BY <2>1, <2>3, <3>1, <3>2, <3>3 DEF TakenOver
    <3> QED
      BY <1>3, <1>4, <3>4
  <2> QED
    BY <2>2, <2>3
<1> QED
  BY <1>8, <1>9

\* The prefixes a grant can read are among what the host may vend.
LEMMA ReadablePrefixes ==
    ASSUME NEW cs \in Seq(Credentials)
    PROVE  Readable(cs) \subseteq Prefixes
<1>1. \A i \in DOMAIN cs : cs[i] \in Credentials
  OBVIOUS
<1> QED
  BY <1>1 DEF Readable, Credentials

LEMMA HostAnswers ==
    ASSUME TypeOK, NEW s \in Scopes, NEW cs \in host[s]
    PROVE  cs \in Seq(Credentials)
  BY StorageAssumption DEF TypeOK

\* A grant routes prefixes of the host's, and keeps the types.
LEMMA GrantTypes ==
    ASSUME TypeOK, NEW s \in Scopes, NEW ok \in BOOLEAN, Grant(s, ok)
    PROVE  /\ DOMAIN routes' \subseteq Paths
           /\ \A p \in DOMAIN routes' : routes'[p] \in Servers
           /\ DOMAIN granted' \subseteq Scopes
<1>1. CASE UNCHANGED <<routes, granted>>
  BY <1>1 DEF TypeOK
<1>2. CASE ~UNCHANGED <<routes, granted>>
  <2>1. PICK cs \in host[s] :
            /\ routes' = AddAll(routes, Readable(cs), s)
            /\ \/ granted' = granted
               \/ granted' = Add(granted, s, [i \in DOMAIN cs |-> cs[i].prefix])
    BY <1>2 DEF Grant
  <2>2. Readable(cs) \subseteq Paths
    BY HostAnswers, ReadablePrefixes, PathShape
  <2> QED
    BY <2>1, <2>2 DEF AddAll, Add, TypeOK, Servers
<1> QED
  BY <1>1, <1>2

LEMMA RouteTypes ==
    ASSUME TypeOK, NEW t \in Targets, NEW ok \in BOOLEAN, Route(t, ok)
    PROVE  /\ DOMAIN routes' \subseteq Paths
           /\ \A p \in DOMAIN routes' : routes'[p] \in Servers
           /\ DOMAIN granted' \subseteq Scopes
<1>1. CASE UNCHANGED <<routes, granted>>
  BY <1>1 DEF TypeOK
<1>2. CASE t.connection # None /\ Grant(t.connection, ok)
  <2>1. t.connection \in Scopes
    BY <1>2 DEF Targets, Scopes
  <2> QED
    BY <1>2, <2>1, GrantTypes
<1>3. CASE Public(t.location, ok)
  <2>1. <<t.location[1]>> \in Paths
    BY StorageAssumption DEF Targets, Roots, Paths
  <2> QED
    BY <1>3, <2>1 DEF Public, Add, TypeOK, Servers
<1> QED
  BY <1>1, <1>2, <1>3 DEF Route

LEMMA RouteExtends ==
    ASSUME TypeOK, NEW t \in Targets, NEW ok \in BOOLEAN, Route(t, ok)
    PROVE  Extends(t)
<1>1. CASE SameRoutes
  BY <1>1 DEF Extends
<1>2. CASE ~SameRoutes /\ t.connection # None
  <2>1. ~Covered(t.location) /\ Grant(t.connection, ok)
    BY <1>2 DEF Route, SameRoutes
  <2>2. PICK cs \in host[t.connection] : routes' = AddAll(routes, Readable(cs), t.connection)
    BY <1>2, <2>1 DEF Grant, SameRoutes
  <2>3. t.connection \in Connections /\ t.connection \in Scopes /\ t.connection \in Servers
    BY <1>2 DEF Targets, Scopes, Servers
  <2>4. Readable(cs) \in SUBSET Paths
    BY <2>2, <2>3, HostAnswers, ReadablePrefixes, PathShape
  <2>5. /\ DOMAIN routes' = DOMAIN routes \cup Readable(cs)
        /\ \A q \in DOMAIN routes' : routes'[q] = IF q \in Readable(cs) THEN t.connection ELSE routes[q]
    BY <2>2 DEF AddAll
  <2> QED
    BY <2>1, <2>2, <2>3, <2>4, <2>5 DEF Extends
<1>3. CASE ~SameRoutes /\ t.connection = None
  <2>1. ~Covered(t.location) /\ Public(t.location, ok)
    BY <1>3 DEF Route, SameRoutes
  <2>2. t.location \in Locations
    BY DEF Targets
  <2>3. <<t.location[1]>> \in Paths /\ t.location \in Seq(Segments) /\ Len(t.location) > 0
    BY <2>2, StorageAssumption DEF Roots, Paths
  <2>4. Covers(<<t.location[1]>>, t.location)
    BY <2>3 DEF Covers
  <2>5. routes' = Add(routes, <<t.location[1]>>, "public")
    BY <1>3, <2>1 DEF Public, SameRoutes
  <2>6. /\ DOMAIN routes' = DOMAIN routes \cup {<<t.location[1]>>}
        /\ \A q \in DOMAIN routes' : routes'[q] = IF q \in {<<t.location[1]>>} THEN "public" ELSE routes[q]
    BY <2>5 DEF Add
  <2>7. "public" \in Servers
    BY DEF Servers
  <2> QED
    BY <2>1, <2>3, <2>4, <2>6, <2>7 DEF Extends
<1> QED
  BY <1>1, <1>2, <1>3

\* Nothing is routed over a location a run in memory writes, and a run that asks for a
\* prefix had nothing routed.
LEMMA BeginDest ==
    ASSUME IInv, Begin
    PROVE  /\ TypeOK' /\ DestRouted'
           /\ WritesReachDest'
           /\ \A l \in Paths : Serves(l) # {} => (Serves(l))' = Serves(l)
<1>1. /\ stage = "start" /\ UNCHANGED <<host, client, answers>>
      /\ DOMAIN routes = client.files /\ granted = [s \in {} |-> <<>>] /\ dest = {}
  BY DEF Begin, IInv, Unstarted
<1>2. TypeOK /\ NoHost
  BY DEF IInv
<1>3. client.files \subseteq Roots
  BY <1>2, StorageAssumption DEF TypeOK
<1>4. CASE client.job
  <2>1. PICK ok \in BOOLEAN :
            /\ Grant("job", ok)
            /\ IF ok /\ Len(granted'["job"]) = 1
               THEN dest' = {granted'["job"][1]} /\ stage' = "routing"
               ELSE dest' = {} /\ stage' = "refused"
    BY <1>4 DEF Begin
  <2>2. /\ DOMAIN routes' \subseteq Paths
        /\ \A p \in DOMAIN routes' : routes'[p] \in Servers
        /\ DOMAIN granted' \subseteq Scopes
    BY <1>2, <2>1, GrantTypes DEF Scopes
  <2>3. "job" \notin DOMAIN granted
    BY <1>1
  <2>4. CASE UNCHANGED <<routes, granted>>
    <3>1. ~ok
      BY <2>1, <2>3, <2>4 DEF Grant, Add
    <3>2. dest' = {} /\ stage' = "refused"
      BY <2>1, <3>1
    <3> QED
      BY <1>1, <1>2, <2>2, <2>4, <3>2 DEF TypeOK, DestRouted, WritesReachDest, Serves, Stages
  <2>5. CASE ~UNCHANGED <<routes, granted>>
    <3>1. PICK cs \in host["job"] :
            /\ cs # <<>>
            /\ routes' = AddAll(routes, Readable(cs), "job")
            /\ ok <=> \A i \in DOMAIN cs : cs[i].reads
            /\ granted' = IF ok
                           THEN Add(granted, "job", [i \in DOMAIN cs |-> cs[i].prefix])
                           ELSE granted
      BY <2>1, <2>3, <2>5 DEF Grant
    <3>2. client.files = {}
      BY <1>2, <3>1 DEF NoHost, Scopes
    <3>3. cs \in Seq(Credentials)
      BY <1>2, <3>1, HostAnswers DEF Scopes
    <3>4. \A l \in Paths : Serves(l) = {}
      BY <1>1, <3>2 DEF Serves, Covering
    <3>5. CASE ~(ok /\ Len(granted'["job"]) = 1)
      <4>1. dest' = {} /\ stage' = "refused"
        BY <2>1, <3>5
      <4> QED
        BY <1>1, <1>2, <2>2, <3>4, <4>1 DEF TypeOK, DestRouted, WritesReachDest, Stages
    <3>6. CASE ok /\ Len(granted'["job"]) = 1
      <4>1. granted'["job"] = [i \in DOMAIN cs |-> cs[i].prefix]
        BY <3>1, <3>6 DEF Add
      <4>2. Len(cs) = 1 /\ granted'["job"][1] = cs[1].prefix
        BY <3>3, <3>6, <4>1
      <4>3. Readable(cs) = {cs[1].prefix}
        BY <3>1, <3>3, <3>6, <4>2 DEF Readable
      <4>4. cs[1].prefix \in Paths
        BY <3>3, <4>3, ReadablePrefixes, PathShape
      <4>5. dest' = {cs[1].prefix} /\ stage' = "routing"
        BY <2>1, <3>6, <4>2
      <4>6. DOMAIN routes' = {cs[1].prefix} /\ routes'[cs[1].prefix] = "job"
        BY <1>1, <3>1, <3>2, <4>3 DEF AddAll
      <4>7. \A l \in Paths : Covers(cs[1].prefix, l) => (Serves(l))' = {"job"}
        <5>1. Len(cs[1].prefix) \in Nat
          BY <4>4, PathShape
        <5> QED
          BY <4>6, <5>1 DEF Serves, Covering
      <4>8. WritesReachDest'
        BY <1>1, <1>4, <4>5, <4>7 DEF WritesReachDest
      <4>9. TypeOK'
        BY <1>1, <1>2, <2>2, <4>4, <4>5 DEF TypeOK, Stages
      <4>10. DestRouted'
        BY <4>5, <4>6 DEF DestRouted
      <4> QED
        BY <3>4, <4>8, <4>9, <4>10
    <3> QED
      BY <3>5, <3>6
  <2> QED
    BY <2>4, <2>5
<1>5. CASE ~client.job
  <2>1. /\ routes' = Add(routes, Memory, "held")
        /\ dest' = {Memory} /\ stage' = "routing" /\ UNCHANGED granted
    BY <1>5 DEF Begin
  <2>2. DOMAIN routes' = DOMAIN routes \cup {Memory} /\ routes'[Memory] = "held"
    BY <2>1 DEF Add
  <2>3. \A q \in DOMAIN routes : routes'[q] = routes[q]
    <3>1. Memory \notin DOMAIN routes
      BY <1>1, <1>3, StorageAssumption DEF Roots, Memory
    <3> QED
      BY <2>1, <3>1 DEF Add
  <2>4. TypeOK'
    BY <1>1, <1>2, <2>1, <2>2, <2>3, PathShape DEF TypeOK, Servers, Stages
  <2>5. Len(Memory) = 1
    BY DEF Memory
  <2>6. ASSUME NEW l \in Paths, Covers(Memory, l)
        PROVE  \A q \in DOMAIN routes : ~Covers(q, l)
    <3>1. l[1] = Memory[1]
      BY <2>5, <2>6 DEF Covers
    <3>2. \A q \in DOMAIN routes : Len(q) = 1 /\ q[1] \in Authorities
      BY <1>1, <1>3 DEF Roots
    <3> QED
      BY <3>1, <3>2, PathShape DEF Covers
  <2>7. WritesReachDest'
    <3>1. ASSUME NEW l \in Paths, Covers(Memory, l) PROVE (Serves(l))' = {"held"}
      <4>1. Covering(DOMAIN routes', l) = {Memory}
        BY <2>2, <2>5, <2>6, <3>1 DEF Covering
      <4> QED
        BY <2>2, <4>1 DEF Serves
    <3> QED
      BY <1>1, <1>5, <2>1, <3>1 DEF WritesReachDest
  <2>8. ASSUME NEW l \in Paths, Serves(l) # {} PROVE (Serves(l))' = Serves(l)
    <3>1. ~Covers(Memory, l)
      BY <2>6, <2>8 DEF Serves, Covering
    <3>2. Covering(DOMAIN routes', l) = Covering(DOMAIN routes, l)
      BY <2>2, <3>1 DEF Covering
    <3> QED
      BY <2>3, <3>2 DEF Serves, Covering
  <2>9. DestRouted'
    BY <2>1, <2>2 DEF DestRouted
  <2> QED
    BY <2>4, <2>7, <2>8, <2>9
<1> QED
  BY <1>4, <1>5

LEMMA RouteNextStays ==
    ASSUME IInv, RouteNext
    PROVE  TypeOK' /\ DestRouted' /\ WritesReachDest' /\ RoutesStay
<1> DEFINE i == Len(answers) + 1
           t == client.targets[i]
<1>1. /\ stage = "routing" /\ i <= Len(client.targets)
      /\ UNCHANGED <<host, client, dest>>
  BY DEF RouteNext
<1>2. PICK ok \in BOOLEAN :
        /\ Route(t, ok)
        /\ answers' = Append(answers, ok)
        /\ stage' = IF ok \/ client.kind = "batch" THEN "routing" ELSE "refused"
  BY DEF RouteNext
<1>3. TypeOK /\ DestRouted /\ WritesReachDest
  BY DEF IInv
<1>4. client.targets \in Seq(Targets) /\ answers \in Seq(BOOLEAN)
  BY <1>3, StorageAssumption DEF TypeOK
<1>5. i \in DOMAIN client.targets /\ t \in Targets /\ t = Asked
  BY <1>1, <1>4 DEF Asked
<1>6. /\ Len(answers') = i /\ i \in 1 .. Len(answers') /\ 1 .. Len(answers) \subseteq 1 .. Len(answers')
      /\ client'.targets[i] = t
  BY <1>1, <1>2, <1>4
<1> HIDE DEF i, t
<1>7. /\ DOMAIN routes' \subseteq Paths
      /\ \A p \in DOMAIN routes' : routes'[p] \in Servers
      /\ DOMAIN granted' \subseteq Scopes
  BY <1>2, <1>3, <1>5, RouteTypes
<1>8. TypeOK'
  <2>1. answers' \in Seq(BOOLEAN) /\ Len(answers') = i
    BY <1>2, <1>4, <1>6
  <2>2. stage' \in {"routing", "refused"} /\ (client.kind = "run" => dest # {})
    BY <1>1, <1>2, <1>3 DEF TypeOK
  <2> QED
    BY <1>1, <1>3, <1>7, <2>1, <2>2 DEF TypeOK, Stages
<1>9. Extends(t)
  BY <1>2, <1>3, <1>5, RouteExtends
<1>10. dest \subseteq DOMAIN routes /\ DOMAIN routes \subseteq DOMAIN routes'
  BY <1>1, <1>3, <1>9 DEF DestRouted, Extends, SameRoutes
<1>11. DestRouted'
  BY <1>1, <1>10 DEF DestRouted
<1>12. RoutesStay
  <2> SUFFICES ASSUME NEW l \in Paths, Serves(l) # {}
               PROVE  \/ (Serves(l))' = Serves(l)
                      \/ /\ ~Covered(Asked.location)
                         /\ (Serves(l))' = {Asked.connection}
                         /\ \A p \in Covering(DOMAIN routes', l) :
                              /\ ~Covers(p, Asked.location)
                              /\ \E cs \in host[Asked.connection] : p \in Readable(cs)
    BY <1>1 DEF RoutesStay
  <2>1. PICK q \in Covering(DOMAIN routes, l) : TRUE
    BY DEF Serves
  <2>2. PICK p \in DOMAIN routes' :
            /\ Covering(DOMAIN routes, l) = {q} /\ Covering(DOMAIN routes', l) = {p}
            /\ (p = q /\ routes'[p] = routes[q]) \/ TakenOver(t, q, p)
    BY <1>3, <1>5, <1>7, <1>9, <2>1, ServedNow
  <2>3. (Serves(l))' = {routes'[p]} /\ Serves(l) = {routes[q]}
    BY <2>2 DEF Serves
  <2> QED
    BY <1>5, <2>2, <2>3 DEF TakenOver
<1>13. WritesReachDest'
  <2> DEFINE mine == IF client.job THEN "job" ELSE "held"
  <2> SUFFICES ASSUME NEW d \in dest, NEW l \in Paths, Covers(d, l)
               PROVE  \/ (Serves(l))' = {mine}
                      \/ \E p \in Covering(DOMAIN routes', l) : VendedBeside(d, p)'
    BY <1>1 DEF WritesReachDest
  <2>1. \/ Serves(l) = {mine}
        \/ \E q \in Covering(DOMAIN routes, l) : VendedBeside(d, q)
    BY <1>1, <1>3 DEF WritesReachDest
  <2>2. PICK q \in Covering(DOMAIN routes, l) : TRUE
    BY <2>1 DEF Serves
  <2>3. PICK p \in DOMAIN routes' :
            /\ Covering(DOMAIN routes, l) = {q} /\ Covering(DOMAIN routes', l) = {p}
            /\ (p = q /\ routes'[p] = routes[q]) \/ TakenOver(t, q, p)
    BY <1>3, <1>5, <1>7, <1>9, <2>2, ServedNow
  <2>4. (Serves(l))' = {routes'[p]} /\ Serves(l) = {routes[q]}
    BY <2>3 DEF Serves
  <2>5. CASE p = q /\ routes'[p] = routes[q] /\ Serves(l) = {mine}
    BY <2>4, <2>5
  <2>6. CASE p = q /\ routes'[p] = routes[q] /\ VendedBeside(d, q)
    <3>1. PICK k \in 1 .. Len(answers) :
              client.targets[k].connection = routes[q] /\ ~Covers(d, client.targets[k].location)
      BY <2>6 DEF VendedBeside
    <3>2. VendedBeside(d, p)'
      BY <1>1, <1>6, <2>6, <3>1 DEF VendedBeside
    <3> QED
      BY <2>3, <3>2
  <2>7. CASE TakenOver(t, q, p)
    <3>1. d \in DOMAIN routes /\ ~Covers(d, t.location)
      BY <1>10, <2>7 DEF TakenOver, Covered
    <3>2. Covers(p, l) /\ Len(d) <= Len(q) /\ Len(q) <= Len(p)
      BY <2>3, <2>7, <3>1 DEF Covering, TakenOver
    <3>3. Covers(d, p)
      <4>1. Len(d) \in Nat /\ Len(q) \in Nat /\ Len(p) \in Nat
        BY <1>3, <1>7, <1>10, <3>1, PathShape DEF TypeOK, Covering
      <4>2. Len(d) <= Len(p)
        BY <3>2, <4>1
      <4> QED
        BY <3>2, <4>1, <4>2 DEF Covers
    <3>4. VendedBeside(d, p)'
      BY <1>1, <1>6, <2>7, <3>1, <3>3 DEF VendedBeside, TakenOver
    <3> QED
      BY <2>3, <3>4
  <2>8. Serves(l) = {mine} \/ VendedBeside(d, q)
    BY <2>1, <2>3
  <2> QED
    BY <2>3, <2>5, <2>6, <2>7, <2>8
<1> QED
  BY <1>8, <1>11, <1>12, <1>13

LEMMA InitIInv == Init => IInv
<1> SUFFICES ASSUME Init PROVE IInv
  OBVIOUS
<1>1. client.files \subseteq Roots /\ client.kind \in {"batch", "run"}
      /\ client.targets \in Seq(Targets)
  BY StorageAssumption DEF Init
<1>2. DOMAIN routes = client.files /\ \A p \in DOMAIN routes : routes[p] = "held"
  BY DEF Init
<1>3. answers \in Seq(BOOLEAN) /\ Len(answers) = 0
  BY DEF Init
<1>4. Len(client.targets) \in Nat
  BY <1>1
<1>5. TypeOK
  BY <1>1, <1>2, <1>3, <1>4, PathShape DEF Init, TypeOK, Stages, Servers
<1>6. WritesReachDest
  BY DEF Init, WritesReachDest
<1>7. Unstarted /\ NoHost /\ DestRouted
  BY <1>2 DEF Init, Unstarted, NoHost, DestRouted
<1> QED
  BY <1>5, <1>6, <1>7 DEF IInv

LEMMA NextIInv == IInv /\ [Next]_vars => IInv' /\ RoutesStay
<1> SUFFICES ASSUME IInv, [Next]_vars PROVE IInv' /\ RoutesStay
  OBVIOUS
<1>1. NoHost'
  BY DEF IInv, NoHost, Next, Begin, RouteNext, Use, vars
<1>2. CASE Begin
  <2>1. Unstarted'
    BY <1>2 DEF Begin, Unstarted
  <2> QED
    BY <1>1, <1>2, <2>1, BeginDest DEF IInv, RoutesStay
<1>3. CASE RouteNext
  <2>1. Unstarted'
    BY <1>3 DEF RouteNext, Unstarted
  <2> QED
    BY <1>1, <1>3, <2>1, RouteNextStays DEF IInv
<1>4. CASE Use
  <2>1. Unstarted'
    BY <1>4 DEF Use, Unstarted
  <2>2. TypeOK' /\ DestRouted' /\ RoutesStay
    BY <1>4 DEF Use, IInv, TypeOK, Stages, DestRouted, RoutesStay, Serves
  <2>3. WritesReachDest'
    BY <1>4 DEF Use, IInv, WritesReachDest, Serves, VendedBeside
  <2> QED
    BY <1>1, <2>1, <2>2, <2>3 DEF IInv
<1>5. CASE UNCHANGED vars
  <2>1. TypeOK' /\ Unstarted' /\ DestRouted' /\ RoutesStay
    BY <1>5 DEF vars, IInv, TypeOK, Unstarted, DestRouted, RoutesStay, Serves
  <2>2. WritesReachDest'
    BY <1>5 DEF vars, IInv, WritesReachDest, Serves, VendedBeside
  <2> QED
    BY <1>1, <2>1, <2>2 DEF IInv
<1> QED
  BY <1>2, <1>3, <1>4, <1>5 DEF Next

\* Routes lead from known prefixes to known servers, and a run that reads or writes
\* knows where it writes.
THEOREM StorageTypes == Spec => []TypeOK
<1>1. IInv => TypeOK
  BY DEF IInv
<1> QED
  BY <1>1, InitIInv, NextIInv, PTL DEF Spec

\* Whatever the hosts vend, a put of the run goes to what was vended for writing, unless
\* beneath a prefix vended beside a source that lies elsewhere (store.rs:287-289).
THEOREM WritesReachTheirPrefix == Spec => []WritesReachDest
<1>1. IInv => WritesReachDest
  BY DEF IInv
<1> QED
  BY <1>1, InitIInv, NextIInv, PTL DEF Spec

\* Whatever the hosts vend, a location once served is served by the same to the end, or
\* taken over by a prefix vended beside what was asked (store.rs:239-241).
THEOREM ServersStay == Spec => RoutesNeverMove
<1>1. IInv /\ [Next]_vars => [RoutesStay]_vars
  BY NextIInv
<1> QED
  BY <1>1, InitIInv, NextIInv, PTL DEF Spec, RoutesNeverMove

------------------------------------------------------------------------------
(* What the pool of a run counts, for any number of reservations, any      *)
(* budget and any word.  That the sum covers each of its parts is carried  *)
(* by the sums of the first reservations, which only grow from one to the  *)
(* next.                                                                   *)

\* What a reservation has changes as a whole: its own count, and the sums it is part of.
LEMMA ReservesKeeps ==
    ASSUME BudgetCounted, NEW k \in Consumers, NEW n \in Nat, Reserves(k, n)
    PROVE  /\ held' \in [Consumers -> Nat] /\ upto' \in [0 .. N -> Nat] /\ past' \in BOOLEAN
           /\ total \in Nat /\ total' \in Nat /\ held[k] \in Nat /\ held[k] <= total
           /\ total' = total + n - held[k]
           /\ ~past' => ~past /\ total' <= Word
           /\ Summed'
  <1> USE BudgetAssumption
  <1>1. /\ k \in Int /\ 0 < k /\ k <= N /\ k \in 0 .. N /\ k - 1 \in 0 .. N /\ N \in 0 .. N /\ 0 \in 0 .. N
        /\ held \in [Consumers -> Nat] /\ upto \in [0 .. N -> Nat] /\ past \in BOOLEAN
    BY DEF Consumers, BudgetCounted, BudgetTypeOK
  <1>2. held[k] \in Nat /\ \A i \in 0 .. N : upto[i] \in Nat BY <1>1
  <1>3. /\ upto[k] = upto[k - 1] + held[k] /\ upto[0] = 0
        /\ \A i, j \in 0 .. N : i <= j => upto[i] <= upto[j]
    BY DEF BudgetCounted, Summed
  <1>4. \A i \in 0 .. N : upto'[i] = IF i < k THEN upto[i] ELSE upto[i] + n - held[k]
    BY DEF Reserves
  <1>5. \A i \in 0 .. N : ~(i < k) => held[k] + upto[k - 1] <= upto[i]
    <2> TAKE i \in 0 .. N
    <2> HAVE ~(i < k)
    <2>1. i \in Int /\ k <= i BY <1>1
    <2>2. upto[k] <= upto[i] BY <2>1, <1>1, <1>3
    <2> QED BY <2>2, <1>3, <1>2, <1>1
  <1>6. \A i \in 0 .. N : upto'[i] \in Nat
    <2> TAKE i \in 0 .. N
    <2>1. upto[i] \in Nat /\ upto[k - 1] \in Nat BY <1>1, <1>2
    <2>2. CASE i < k BY <2>2, <2>1, <1>4
    <2>3. CASE ~(i < k)
      <3>1. held[k] + upto[k - 1] <= upto[i] BY <2>3, <1>5
      <3>2. upto'[i] = upto[i] + n - held[k] BY <2>3, <1>4
      <3> QED BY <3>1, <3>2, <2>1, <1>2
    <2> QED BY <2>2, <2>3
  <1>7. upto' \in [0 .. N -> Nat] BY <1>6 DEF Reserves
  <1>8. /\ total \in Nat /\ total' \in Nat /\ held[k] <= total
        /\ total' = total + n - held[k]
    <2>1. ~(N < k) BY <1>1
    <2>2. upto'[N] = upto[N] + n - held[k] /\ upto'[N] \in Nat BY <2>1, <1>1, <1>4, <1>6
    <2>3. held[k] + upto[k - 1] <= upto[N] /\ upto[N] \in Nat /\ upto[k - 1] \in Nat BY <2>1, <1>1, <1>2, <1>5
    <2> QED BY <2>2, <2>3, <1>2 DEF total
  <1>9. past' = (past \/ total' > Word) BY DEF Reserves
  <1>10. past' \in BOOLEAN /\ (~past' => ~past /\ total' <= Word)
    <2>1. past' \in BOOLEAN /\ (~past' => ~past /\ ~(total' > Word)) BY <1>9, Zenon
    <2>2. ~(total' > Word) => total' <= Word BY <1>8
    <2> QED BY <2>1, <2>2, Zenon
  <1>11. held' \in [Consumers -> Nat] /\ held' = [held EXCEPT ![k] = n] BY <1>1 DEF Reserves
  <1>12. ASSUME NEW j \in Consumers PROVE upto'[j] = upto'[j - 1] + held'[j]
    <2>1. /\ j \in Int /\ j \in 0 .. N /\ j - 1 \in 0 .. N /\ upto[j] = upto[j - 1] + held[j]
          /\ held[j] \in Nat
      BY <1>1 DEF Consumers, BudgetCounted, Summed
    <2>2. upto[j] \in Nat /\ upto[j - 1] \in Nat BY <2>1, <1>2
    <2>4. /\ upto'[j] = IF j < k THEN upto[j] ELSE upto[j] + n - held[k]
          /\ upto'[j - 1] = IF j - 1 < k THEN upto[j - 1] ELSE upto[j - 1] + n - held[k]
      BY <2>1, <1>4
    <2>5. CASE j = k
      <3>1. held'[j] = n BY <2>5, <1>11, <1>1
      <3>2. upto'[j] = upto[j] + n - held[j] /\ upto'[j - 1] = upto[j - 1] BY <2>5, <2>4, <2>1
      <3> QED BY <3>1, <3>2, <2>1, <2>2
    <2>6. CASE j # k
      <3>1. held'[j] = held[j] BY <2>6, <1>11, <1>1
      <3>2. (j < k /\ j - 1 < k) \/ (~(j < k) /\ ~(j - 1 < k)) BY <2>6, <2>1, <1>1
      <3> QED BY <3>1, <3>2, <2>1, <2>2, <2>4, <1>2
    <2> QED BY <2>5, <2>6
  <1>13. ASSUME NEW i \in 0 .. N, NEW j \in 0 .. N, i <= j PROVE upto'[i] <= upto'[j]
    <2>1. upto[i] \in Nat /\ upto[j] \in Nat /\ upto[k - 1] \in Nat /\ upto[i] <= upto[j]
      BY <1>1, <1>2, <1>3, <1>13
    <2>2. CASE i < k /\ ~(j < k)
      <3>1. upto[i] <= upto[k - 1] BY <2>2, <1>1, <1>3
      <3>2. held[k] + upto[k - 1] <= upto[j] BY <2>2, <1>5
      <3>3. upto'[i] = upto[i] /\ upto'[j] = upto[j] + n - held[k] BY <2>2, <1>4
      <3> QED BY <3>1, <3>2, <3>3, <2>1, <1>2
    <2>3. CASE i < k /\ j < k BY <2>3, <2>1, <1>4
    <2>4. CASE ~(i < k)
      <3>1. ~(j < k) BY <2>4, <1>1, <1>13
      <3>2. upto'[i] = upto[i] + n - held[k] /\ upto'[j] = upto[j] + n - held[k] BY <2>4, <3>1, <1>4
      <3> QED BY <3>2, <2>1, <1>2
    <2> QED BY <2>2, <2>3, <2>4
  <1>14. upto'[0] = 0 BY <1>1, <1>3, <1>4
  <1>15. Summed' BY <1>12, <1>13, <1>14 DEF Summed, Consumers
  <1> QED BY <1>2, <1>7, <1>8, <1>10, <1>11, <1>15

\* What is counted stays beneath what is held, and refusals stay due, whatever is asked next.
LEMMA BudgetStep ==
    ASSUME BudgetCounted, [BudgetNext]_pool
    PROVE  BudgetCounted'
  <1> USE BudgetAssumption
  <1>t. /\ used \in 0 .. Word /\ used <= total /\ (~past => used = total)
    BY DEF BudgetCounted, BudgetTypeOK, Counted
  <1>1. ASSUME NEW k \in Consumers, Keep(k) PROVE BudgetCounted'
    <2>1. refusing[k] \in Denial /\ Due(refusing[k])
      BY <1>1 DEF Keep, Waiting, BudgetCounted, BudgetTypeOK, Refusals
    <2>2. refused' \in Denial /\ refused' # NoRefusal /\ Due(refused')
      <3>1. CASE refused = NoRefusal
        BY <3>1, <2>1, <1>1 DEF Keep, Waiting
      <3>2. CASE refused # NoRefusal
        BY <3>2, <1>1 DEF Keep, BudgetCounted, BudgetTypeOK, Refusals
      <3> QED BY <3>1, <3>2
    <2>3. BudgetTypeOK'
      BY <2>2, <1>1 DEF Keep, BudgetCounted, BudgetTypeOK
    <2>4. Counted' /\ Summed' BY <1>1 DEF Keep, BudgetCounted, Counted, Summed, total
    <2>5. ASSUME NEW j \in Consumers, refusing'[j] # NoRefusal PROVE Due(refusing'[j])
      <3>1. refusing'[j] = refusing[j]
        BY <2>5, <1>1 DEF Keep, BudgetCounted, BudgetTypeOK
      <3> QED BY <3>1, <2>5 DEF BudgetCounted, Refusals
    <2>6. Refusals' BY <2>2, <2>5 DEF Refusals, Due, Consumers
    <2> QED BY <2>3, <2>4, <2>6 DEF BudgetCounted
  <1>2. ASSUME NEW k \in Consumers, NEW n \in Requests, TryGrow(k, n) PROVE BudgetCounted'
    <2>n. n \in Nat /\ held[k] \in Nat BY DEF BudgetCounted, BudgetTypeOK
    <2>1. CASE Fits(n) /\ used' = used + n /\ Reserves(k, held[k] + n) /\ UNCHANGED <<refused, refusing, exhausted>>
      <3>1. /\ held' \in [Consumers -> Nat] /\ upto' \in [0 .. N -> Nat] /\ past' \in BOOLEAN
            /\ total \in Nat /\ total' \in Nat
            /\ total' = total + (held[k] + n) - held[k] /\ (~past' => ~past /\ total' <= Word) /\ Summed'
        BY <2>1, <2>n, ReservesKeeps
      <3>2. used' \in 0 .. Word BY <2>1, <2>n, <1>t DEF Fits
      <3>3. BudgetTypeOK' BY <2>1, <3>1, <3>2 DEF BudgetCounted, BudgetTypeOK
      <3>4. Counted'
        <4>1. used' <= total' BY <2>1, <2>n, <3>1, <1>t
        <4>2. used = total => used' = total' BY <2>1, <2>n, <3>1
        <4>3. ~past' => used' = total' BY <4>2, <3>1, <1>t, Zenon
        <4> QED BY <4>1, <4>3, Zenon DEF Counted
      <3>5. Refusals' BY <2>1 DEF BudgetCounted, Refusals
      <3> QED BY <3>1, <3>3, <3>4, <3>5 DEF BudgetCounted
    <2>2. CASE /\ ~Fits(n)
               /\ refusing' = [refusing EXCEPT ![k] = [consumer |-> k, requested |-> n, reserved |-> used]]
               /\ UNCHANGED <<used, refused, held, exhausted, upto, past>>
      <3> DEFINE r == [consumer |-> k, requested |-> n, reserved |-> used]
      <3>1. r \in Denial BY <2>n, <1>t DEF Denial
      <3>2. Due(r) BY <2>2, <2>n, <1>t DEF Fits, Due
      <3>3. BudgetTypeOK' BY <2>2, <3>1 DEF BudgetCounted, BudgetTypeOK
      <3>4. Counted' /\ Summed' BY <2>2 DEF BudgetCounted, Counted, Summed, total
      <3>5. ASSUME NEW j \in Consumers, refusing'[j] # NoRefusal PROVE Due(refusing'[j])
        <4>1. CASE j = k BY <4>1, <3>2, <2>2 DEF BudgetCounted, BudgetTypeOK
        <4>2. CASE j # k BY <4>2, <3>5, <2>2 DEF BudgetCounted, BudgetTypeOK, Refusals
        <4> QED BY <4>1, <4>2
      <3>6. Refusals' BY <2>2, <3>5 DEF BudgetCounted, Refusals, Due, Consumers
      <3> QED BY <3>3, <3>4, <3>6 DEF BudgetCounted
    <2> QED BY <1>2, <2>1, <2>2 DEF TryGrow
  <1>3. ASSUME NEW k \in Consumers, NEW n \in Requests, Grow(k, n) PROVE BudgetCounted'
    <2>n. n \in Nat /\ held[k] \in Nat BY DEF BudgetCounted, BudgetTypeOK
    <2>1. /\ held' \in [Consumers -> Nat] /\ upto' \in [0 .. N -> Nat] /\ past' \in BOOLEAN
          /\ total \in Nat /\ total' \in Nat
          /\ total' = total + (held[k] + n) - held[k] /\ (~past' => ~past /\ total' <= Word) /\ Summed'
      BY <1>3, <2>n, ReservesKeeps DEF Grow
    <2>2. /\ used' \in 0 .. Word /\ used' <= used + n
          /\ (used + n <= Word => used' = used + n)
      BY <1>3, <2>n, <1>t DEF Grow
    <2>3. BudgetTypeOK' BY <1>3, <2>1, <2>2 DEF Grow, BudgetCounted, BudgetTypeOK
    <2>4. Counted'
      <3>1. used' <= total' BY <2>1, <2>2, <2>n, <1>t
      <3>2. used = total /\ total' <= Word => used' = total' BY <2>1, <2>2, <2>n
      <3>3. ~past' => used' = total' BY <3>2, <2>1, <1>t, Zenon
      <3> QED BY <3>1, <3>3, Zenon DEF Counted
    <2>5. Refusals' BY <1>3 DEF Grow, BudgetCounted, Refusals
    <2> QED BY <2>1, <2>3, <2>4, <2>5 DEF BudgetCounted
  <1>4. ASSUME NEW k \in Consumers, NEW n \in Requests, Shrink(k, n) PROVE BudgetCounted'
    <2>n. n \in Nat /\ held[k] \in Nat /\ n <= held[k] /\ held[k] - n \in Nat
      BY <1>4 DEF Shrink, BudgetCounted, BudgetTypeOK
    <2>1. /\ held' \in [Consumers -> Nat] /\ upto' \in [0 .. N -> Nat] /\ past' \in BOOLEAN
          /\ total \in Nat /\ total' \in Nat /\ held[k] <= total
          /\ total' = total + (held[k] - n) - held[k] /\ (~past' => ~past /\ total' <= Word) /\ Summed'
      BY <1>4, <2>n, ReservesKeeps DEF Shrink
    <2>2. /\ used' \in 0 .. Word
          /\ (n > used => used' = 0) /\ (~(n > used) => used' = used - n)
      BY <1>4, <2>n, <1>t DEF Shrink
    <2>3. BudgetTypeOK' BY <1>4, <2>1, <2>2 DEF Shrink, BudgetCounted, BudgetTypeOK
    <2>4. Counted'
      <3>0. used \in Nat /\ used <= total BY <1>t
      <3>1. used' <= total'
        <4>1. CASE n > used BY <4>1, <2>1, <2>2
        <4>2. CASE ~(n > used) BY <4>2, <3>0, <2>1, <2>2, <2>n
        <4> QED BY <4>1, <4>2
      <3>2. used = total => used' = total' BY <2>1, <2>2, <2>n
      <3>3. ~past' => used' = total' BY <3>2, <2>1, <1>t, Zenon
      <3> QED BY <3>1, <3>3, Zenon DEF Counted
    <2>5. Refusals' BY <1>4 DEF Shrink, BudgetCounted, Refusals
    <2> QED BY <2>1, <2>3, <2>4, <2>5 DEF BudgetCounted
  <1>5. CASE UNCHANGED pool
    BY <1>5 DEF pool, BudgetCounted, BudgetTypeOK, Summed, Counted, Refusals, total
  <1> QED BY <1>1, <1>2, <1>3, <1>4, <1>5 DEF BudgetNext

LEMMA BudgetStarts ==
    ASSUME BudgetInit
    PROVE  BudgetCounted
  <1> USE BudgetAssumption
  <1>1. BudgetTypeOK
    <2>1. past \in BOOLEAN BY DEF BudgetInit
    <2>2. exhausted \subseteq Consumers /\ refused \in Denial \cup {NoRefusal} BY DEF BudgetInit
    <2>3. used \in 0 .. Word BY DEF BudgetInit
    <2>4. upto \in [0 .. N -> Nat] BY DEF BudgetInit
    <2>5. held \in [Consumers -> Nat] BY DEF BudgetInit
    <2>6. refusing \in [Consumers -> Denial \cup {NoRefusal}] BY DEF BudgetInit
    <2> QED BY <2>1, <2>2, <2>3, <2>4, <2>5, <2>6 DEF BudgetTypeOK
  <1>2. Summed BY DEF BudgetInit, Summed, Consumers
  <1>3. Counted /\ Refusals BY DEF BudgetInit, Counted, Refusals, total
  <1> QED BY <1>1, <1>2, <1>3 DEF BudgetCounted

\* Whatever the requests of whichever operators, the pool counts what is held and a refusal it
\* keeps was due.
THEOREM BudgetCounts == BudgetSpec => []BudgetCounted
  <1>1. BudgetInit => BudgetCounted BY BudgetStarts
  <1>2. BudgetCounted /\ [BudgetNext]_pool => BudgetCounted' BY BudgetStep
  <1> QED BY <1>1, <1>2, PTL DEF BudgetSpec

\* Every step of the pool keeps the promise made about it.
LEMMA BudgetKeptStep ==
    ASSUME BudgetCounted, [BudgetNext]_pool
    PROVE  BudgetKept
  <1> USE BudgetAssumption
  <1>1. ASSUME NEW k \in Consumers, NEW n \in Requests, TryGrow(k, n)
        PROVE  /\ total' # total /\ ~past => total' <= Limit
               /\ total' = total => total + n > Limit
    <2>n. n \in Nat /\ n > 0 /\ held[k] \in Nat /\ used \in 0 .. Word /\ used <= total /\ (~past => used = total)
      BY DEF BudgetCounted, BudgetTypeOK, Counted
    <2>1. CASE Fits(n) /\ used' = used + n /\ Reserves(k, held[k] + n)
      <3>1. total \in Nat /\ total' \in Nat /\ total' = total + (held[k] + n) - held[k]
        BY <2>1, <2>n, ReservesKeeps
      <3> QED BY <3>1, <2>1, <2>n DEF Fits
    <2>2. CASE ~Fits(n) /\ UNCHANGED <<used, refused, held, exhausted, upto, past>>
      <3>1. total' = total BY <2>2 DEF total
      <3>2. total \in Nat BY DEF total, BudgetCounted, BudgetTypeOK
      <3> QED BY <3>1, <3>2, <2>2, <2>n DEF Fits
    <2> QED BY <1>1, <2>1, <2>2 DEF TryGrow
  <1>2. refused # NoRefusal => refused' = refused
    BY DEF BudgetNext, Keep, TryGrow, Grow, Shrink, pool
  <1> QED BY <1>1, <1>2 DEF BudgetKept

\* No request takes more than the budget has, and none is refused that it had room for.
THEOREM BudgetIsKept == BudgetSpec => BudgetKeeps
  <1>1. BudgetCounted /\ [BudgetNext]_pool => BudgetKept BY BudgetKeptStep
  <1>2. BudgetCounted /\ [BudgetNext]_pool => [BudgetKept]_pool BY <1>1
  <1> QED BY BudgetCounts, <1>2, PTL DEF BudgetSpec, BudgetKeeps


(***************************************************************************)
(* Tables: finite sets, the least of them and places in an order.          *)
(***************************************************************************)

\* What a function on a finite set gives is finite.
LEMMA RangeFinite ==
    ASSUME NEW f, IsFiniteSet(DOMAIN f), f = [x \in DOMAIN f |-> f[x]]
    PROVE  IsFiniteSet(Range(f))
<1>1. f \in Surjection(DOMAIN f, Range(f))
  BY DEF Surjection, Range
<1> QED
  BY <1>1, FS_Surjection

\* A sequence has finitely many elements, each in what it is a sequence of.
LEMMA SequenceFinite ==
    ASSUME NEW S, NEW s \in Seq(S)
    PROVE  /\ DOMAIN s = 1 .. Len(s) /\ Len(s) \in Nat /\ \A i \in DOMAIN s : s[i] \in S
           /\ IsFiniteSet(DOMAIN s) /\ IsFiniteSet(Range(s)) /\ Range(s) \subseteq S
<1>1. DOMAIN s = 1 .. Len(s) /\ Len(s) \in Nat /\ s = [i \in DOMAIN s |-> s[i]] /\ \A i \in DOMAIN s : s[i] \in S
  OBVIOUS
<1>2. IsFiniteSet(1 .. Len(s))
  BY <1>1, FS_Interval, 1 \in Int, Len(s) \in Int
<1> QED
  BY <1>1, <1>2, RangeFinite DEF Range

\* A finite set of places in an order, and how many come before one of them.
Places(S) == S \in SUBSET ({Null} \cup Int) /\ IsFiniteSet(S)
Place(S, s) == Cardinality({r \in S : Before(r, s)})

\* The order of subjects is total and strict, with Null before every other.
LEMMA BeforeOrders ==
    ASSUME NEW a \in {Null} \cup Int, NEW b \in {Null} \cup Int, NEW x \in {Null} \cup Int
    PROVE  /\ ~Before(a, a)
           /\ Before(a, b) /\ Before(b, x) => Before(a, x)
           /\ a # b => Before(a, b) \/ Before(b, a)
<1>1. Null \notin Int
  BY TablesAssumption
<1> QED
  BY <1>1 DEF Before

\* What comes before another has the smaller place.
LEMMA PlaceGrows ==
    ASSUME NEW S, Places(S), NEW a \in S, NEW b \in S, Before(a, b)
    PROVE  Place(S, a) < Place(S, b)
<1> DEFINE A == {r \in S : Before(r, a)}
           B == {r \in S : Before(r, b)}
<1>1. a \in B /\ a \notin A /\ A \subseteq B
  BY BeforeOrders DEF Places
<1>2. IsFiniteSet(A) /\ IsFiniteSet(B) /\ Cardinality(A) \in Nat /\ Cardinality(B) \in Nat
  BY FS_Subset, FS_CardinalityType DEF Places
<1>3. Cardinality(A) <= Cardinality(B) /\ Cardinality(A) # Cardinality(B)
  BY <1>1, <1>2, FS_Subset
<1> QED
  BY <1>2, <1>3 DEF Place

\* A place is an index of the set, from 0.
LEMMA PlaceWithin ==
    ASSUME NEW S, Places(S), NEW s \in S
    PROVE  Place(S, s) \in 0 .. Cardinality(S) - 1 /\ Cardinality(S) \in Nat
<1> DEFINE A == {r \in S : Before(r, s)}
<1>1. A \subseteq S /\ s \notin A
  BY BeforeOrders DEF Places
<1>2. IsFiniteSet(A) /\ Cardinality(A) \in Nat /\ Cardinality(S) \in Nat
  BY FS_Subset, FS_CardinalityType DEF Places
<1>3. Cardinality(A) <= Cardinality(S) /\ Cardinality(A) # Cardinality(S)
  BY <1>1, <1>2, FS_Subset DEF Places
<1> QED
  BY <1>2, <1>3 DEF Place

\* Each has a place of its own, and no place is empty.
LEMMA PlacesAreIndices ==
    ASSUME NEW S, Places(S)
    PROVE  /\ \A a, b \in S : Place(S, a) = Place(S, b) => a = b
           /\ \A k \in 0 .. Cardinality(S) - 1 : \E s \in S : Place(S, s) = k
<1> DEFINE f == [s \in S |-> Place(S, s)]
           T == 0 .. Cardinality(S) - 1
<1>1. \A a, b \in S : Place(S, a) = Place(S, b) => a = b
  <2> SUFFICES ASSUME NEW a \in S, NEW b \in S, a # b, Place(S, a) = Place(S, b) PROVE FALSE
    OBVIOUS
  <2>1. Before(a, b) \/ Before(b, a)
    BY BeforeOrders DEF Places
  <2>2. Place(S, a) \in Nat /\ Place(S, b) \in Nat
    BY PlaceWithin
  <2> QED
    BY <2>1, <2>2, PlaceGrows
<1>2. f \in Injection(S, T)
  BY <1>1, PlaceWithin DEF Injection, IsInjective
<1>3. Cardinality(S) \in Nat
  BY FS_CardinalityType DEF Places
<1>4. IsFiniteSet(T) /\ Cardinality(T) = Cardinality(S)
  BY <1>3, FS_Interval
<1> HIDE DEF f
<1>5. f \in Surjection(S, T)
  BY <1>2, <1>4, FS_Injection
<1>6. \A k \in T : \E s \in S : f[s] = k
  BY <1>5 DEF Surjection
<1> QED
  BY <1>1, <1>6 DEF f

\* The least and the greatest of a finite set of numbers.
LEMMA LeastAndGreatest ==
    ASSUME NEW V \in SUBSET Int, IsFiniteSet(V), V # {}
    PROVE  /\ Min(V) \in V /\ \A v \in V : Min(V) <= v
           /\ Max(V) \in V /\ \A v \in V : v <= Max(V)
<1> DEFINE n == Cardinality(V)
<1>1. Places(V) /\ Null \notin V /\ n \in Nat
  BY FS_CardinalityType, TablesAssumption DEF Places
<1>2. PICK w \in V : TRUE
  OBVIOUS
<1>3. n > 0
  BY <1>1, <1>2, PlaceWithin
<1>a. 0 \in 0 .. Cardinality(V) - 1 /\ n - 1 \in 0 .. Cardinality(V) - 1
  BY <1>1, <1>3
<1>4. PICK a \in V : Place(V, a) = 0
  BY <1>1, <1>a, PlacesAreIndices, Zenon
<1>5. PICK z \in V : Place(V, z) = n - 1
  BY <1>1, <1>a, PlacesAreIndices, Zenon
<1>6. \A v \in V : a <= v /\ v <= z
  <2> SUFFICES ASSUME NEW v \in V PROVE a <= v /\ v <= z
    OBVIOUS
  <2>1. Place(V, v) \in 0 .. n - 1
    BY <1>1, PlaceWithin
  <2>2. ~Before(v, a) /\ ~Before(z, v)
    BY <1>1, <1>4, <1>5, <2>1, PlaceGrows
  <2> QED
    BY <1>1, <2>2 DEF Before
<1> QED
  BY <1>6 DEF Min, Max

(***************************************************************************)
(* Tables: what a program is.                                              *)
(***************************************************************************)

MappingIs(m) == m.type \in Types /\ m.writes \in SUBSET Columns /\ m.rows \in Seq(RowOver(m.writes))

\* A mapping of a program has a type, the columns it writes and its rows.
LEMMA MappingsAre ==
    ASSUME NEW prog, IsProgram(prog)
    PROVE  /\ DOMAIN prog = 1 .. Len(prog) /\ Len(prog) \in Nat
           /\ IsFiniteSet(DOMAIN prog) /\ IsFiniteSet(Range(prog))
           /\ \A m \in Range(prog) : MappingIs(m)
           /\ \A k \in DOMAIN prog : MappingIs(prog[k]) /\ prog[k] \in Range(prog)
<1> DEFINE M == [type : Types, writes : SUBSET Columns, rows : UNION {Seq(RowOver(w)) : w \in SUBSET Columns}]
<1>1. prog \in Seq(M) /\ \A k \in DOMAIN prog : prog[k].rows \in Seq(RowOver(prog[k].writes))
  BY DEF IsProgram
<1>a. \A m \in M : m.type \in Types /\ m.writes \in SUBSET Columns
  OBVIOUS
<1> HIDE DEF M
<1>2. (\A k \in DOMAIN prog : prog[k] \in M) /\ DOMAIN prog = 1 .. Len(prog) /\ Len(prog) \in Nat
  BY <1>1, SequenceFinite
<1>3. \A k \in DOMAIN prog : MappingIs(prog[k])
  BY <1>1, <1>2, <1>a DEF MappingIs
<1>4. DOMAIN prog = 1 .. Len(prog) /\ Len(prog) \in Nat
  BY <1>2
<1>5. IsFiniteSet(DOMAIN prog) /\ IsFiniteSet(Range(prog))
  BY <1>1, SequenceFinite
<1> QED
  BY <1>3, <1>4, <1>5 DEF Range

Subject == Iris \cup Relative \cup {Null}

\* A subject is Null or a place in the order of the texts.
LEMMA SubjectsAre == Subject \subseteq {Null} \cup Int
  BY TablesAssumption DEF Subject

\* What a row holds: a subject, and under each column it writes a finite set.
LEMMA RowsAre ==
    ASSUME NEW m, MappingIs(m)
    PROVE  /\ DOMAIN m.rows = 1 .. Len(m.rows)
           /\ IsFiniteSet(DOMAIN m.rows) /\ IsFiniteSet(Range(m.rows))
           /\ \A r \in Range(m.rows) :
                 /\ r.subject \in Subject
                 /\ \A c \in m.writes : r.cells[c] \in Seq({Null} \cup Int)
           /\ \A i \in DOMAIN m.rows : m.rows[i] \in Range(m.rows)
<1>1. m.rows \in Seq(RowOver(m.writes))
  BY DEF MappingIs
<1>2. IsFiniteSet(DOMAIN m.rows) /\ IsFiniteSet(Range(m.rows)) /\ Range(m.rows) \subseteq RowOver(m.writes)
  BY <1>1, SequenceFinite
<1>3. \A r \in RowOver(m.writes) :
         r.subject \in Subject /\ \A c \in m.writes : r.cells[c] \in Seq({Null} \cup Int)
  BY DEF RowOver, Subject
<1>4. DOMAIN m.rows = 1 .. Len(m.rows)
  BY <1>1
<1> QED
  BY <1>2, <1>3, <1>4 DEF Range

\* What a row offers a column is finite, and of the things a cell may hold.
LEMMA CellsAre ==
    ASSUME NEW m, MappingIs(m), NEW r \in Range(m.rows), NEW c \in m.writes
    PROVE  /\ IsFiniteSet(DOMAIN r.cells[c]) /\ IsFiniteSet(Range(r.cells[c]))
           /\ Range(r.cells[c]) \ {Null} \subseteq Int
  BY RowsAre, SequenceFinite

\* The subjects of the rows of some mappings.
LEMMA SubjectedAre ==
    ASSUME NEW prog, IsProgram(prog), NEW t
    PROVE  /\ Places(Subjected(Group(prog, t)))
           /\ Subjected(Group(prog, t)) \subseteq Subject
           /\ \A s : s \in Subjected(Group(prog, t)) <=> Minted(prog, t, s)
<1> DEFINE G == Group(prog, t)
           rows == [m \in G |-> Range(m.rows)]
           R == UNION {Range(m.rows) : m \in G}
           subject == [r \in R |-> r.subject]
<1>1. IsFiniteSet(G) /\ \A m \in G : m \in Range(prog) /\ MappingIs(m)
  BY MappingsAre, FS_Subset DEF Group
<1>2. Range(rows) = {Range(m.rows) : m \in G} /\ DOMAIN rows = G /\ \A m \in G : rows[m] = Range(m.rows)
  BY DEF Range
<1>3. IsFiniteSet(Range(rows))
  BY <1>1, <1>2, RangeFinite
<1>4. \A X \in Range(rows) : IsFiniteSet(X)
  BY <1>1, <1>2, RowsAre
<1>5. IsFiniteSet(R)
  BY <1>2, <1>3, <1>4, FS_UNION
<1>6. Range(subject) = Subjected(G) /\ DOMAIN subject = R
  BY DEF Range, Subjected
<1>7. IsFiniteSet(Subjected(G))
  BY <1>5, <1>6, RangeFinite
<1>8. Subjected(G) \subseteq Subject
  BY <1>1, RowsAre DEF Subjected
<1>9. \A s : s \in Subjected(G) <=> Minted(prog, t, s)
  BY DEF Subjected, Group, Minted
<1> QED
  BY <1>7, <1>8, <1>9, SubjectsAre DEF Places

\* A row of a mapping of the type gives the subject this value of the column.
Gives(prog, t, s, c, v) ==
    \E m \in Range(prog) :
        /\ m.type = t /\ c \in m.writes
        /\ \E r \in Range(m.rows) : r.subject = s /\ v \in Range(r.cells[c]) /\ v # Null

\* What a group of mappings offers a column, row by row.
LEMMA OfferedAre ==
    ASSUME NEW prog, IsProgram(prog), NEW t, NEW s, NEW c
    PROVE  /\ Offered(Group(prog, t), s, c) \subseteq Int
           /\ IsFiniteSet(Offered(Group(prog, t), s, c))
           /\ \A v : v \in Offered(Group(prog, t), s, c) <=> Gives(prog, t, s, c, v)
<1> DEFINE G == {m \in Group(prog, t) : c \in m.writes}
           Rows(m) == {q \in Range(m.rows) : q.subject = s}
           given(m) == [r \in Rows(m) |-> Range(r.cells[c]) \ {Null}]
           W(m) == UNION {Range(r.cells[c]) \ {Null} : r \in Rows(m)}
           all == [m \in G |-> W(m)]
<1>1. IsFiniteSet(G) /\ \A m \in G : m \in Range(prog) /\ MappingIs(m) /\ c \in m.writes
  BY MappingsAre, FS_Subset DEF Group
<1>2. ASSUME NEW m \in G PROVE IsFiniteSet(W(m))
  <2>1. IsFiniteSet(Rows(m))
    BY <1>1, RowsAre, FS_Subset
  <2>2. IsFiniteSet(Range(given(m)))
    BY <2>1, RangeFinite
  <2>3. Range(given(m)) = {Range(r.cells[c]) \ {Null} : r \in Rows(m)}
    BY DEF Range
  <2>4. \A r \in Rows(m) : IsFiniteSet(Range(r.cells[c]) \ {Null})
    BY <1>1, CellsAre, FS_Subset
  <2>5. \A X \in Range(given(m)) : IsFiniteSet(X)
    BY <2>3, <2>4
  <2> QED
    BY <2>2, <2>3, <2>5, FS_UNION
<1>5. Offered(Group(prog, t), s, c) = UNION {W(m) : m \in G}
  BY DEF Offered
<1> HIDE DEF W
<1>3. IsFiniteSet(Range(all))
  BY <1>1, RangeFinite
<1>4. Range(all) = {W(m) : m \in G}
  BY DEF Range
<1>6. IsFiniteSet(UNION Range(all))
  BY <1>2, <1>3, <1>4, FS_UNION
<1>7. \A v : v \in Offered(Group(prog, t), s, c) <=> Gives(prog, t, s, c, v)
  BY DEF Offered, Gives, Group
<1>8. ASSUME NEW v, Gives(prog, t, s, c, v) PROVE v \in Int
  BY <1>8, MappingsAre, CellsAre DEF Gives
<1> QED
  BY <1>4, <1>5, <1>6, <1>7, <1>8

(***************************************************************************)
(* Tables: types in the order they open, and the ids of their vertices.    *)
(***************************************************************************)

FirstOf(prog, t, k) == prog[k].type = t /\ \A j \in 1 .. k - 1 : prog[j].type # t

\* A type some mapping writes is opened by the first that does.
LEMMA FirstPlace ==
    ASSUME NEW prog, IsProgram(prog), NEW t \in Labels(prog)
    PROVE  \E k \in DOMAIN prog : FirstOf(prog, t, k)
<1> DEFINE K == {k \in DOMAIN prog : prog[k].type = t}
<1>1. DOMAIN prog = 1 .. Len(prog) /\ Len(prog) \in Nat
  BY MappingsAre
<1>2. K \in SUBSET Nat /\ K # {}
  BY <1>1 DEF Labels, Range
<1>3. PICK k \in K : \A j \in K : k <= j
  BY <1>2, LeastPlace
<1>4. \A j \in 1 .. k - 1 : prog[j].type # t
  <2> SUFFICES ASSUME NEW j \in 1 .. k - 1, prog[j].type = t PROVE FALSE
    OBVIOUS
  <2>1. j \in K /\ j < k /\ j \in Nat /\ k \in Nat
    BY <1>1, <1>2
  <2> QED
    BY <1>3, <2>1
<1> QED
  BY <1>4 DEF FirstOf

\* Types are opened in the order of their first mappings: no two together.
LEMMA OpenedOrders ==
    ASSUME NEW prog, IsProgram(prog)
    PROVE  /\ \A t : ~Opened(prog, t, t)
           /\ \A t, u, v : Opened(prog, t, u) /\ Opened(prog, u, v) => Opened(prog, t, v)
           /\ \A t, u \in Labels(prog) : t # u => Opened(prog, t, u) \/ Opened(prog, u, t)
<1>1. DOMAIN prog = 1 .. Len(prog) /\ Len(prog) \in Nat
  BY MappingsAre
<1>2. ASSUME NEW t PROVE ~Opened(prog, t, t)
  BY <1>1 DEF Opened
<1>3. ASSUME NEW t, NEW u, NEW v, Opened(prog, t, u), Opened(prog, u, v) PROVE Opened(prog, t, v)
  <2>1. PICK k \in DOMAIN prog : prog[k].type = t /\ \A j \in 1 .. k : prog[j].type # u
    BY <1>3 DEF Opened
  <2>2. PICK l \in DOMAIN prog : prog[l].type = u /\ \A j \in 1 .. l : prog[j].type # v
    BY <1>3 DEF Opened
  <2>3. k < l
    BY <1>1, <2>1, <2>2
  <2>4. \A j \in 1 .. k : prog[j].type # v
    BY <1>1, <2>2, <2>3
  <2> QED
    BY <2>1, <2>4 DEF Opened
<1>4. ASSUME NEW t \in Labels(prog), NEW u \in Labels(prog), t # u
      PROVE  Opened(prog, t, u) \/ Opened(prog, u, t)
  <2>1. PICK k \in DOMAIN prog : FirstOf(prog, t, k)
    BY FirstPlace
  <2>2. PICK l \in DOMAIN prog : FirstOf(prog, u, l)
    BY FirstPlace
  <2>3. k \in Nat /\ l \in Nat /\ k # l
    BY <1>1, <1>4, <2>1, <2>2 DEF FirstOf
  <2>4. CASE k < l
    <3>1. \A j \in 1 .. k : prog[j].type # u
      BY <2>2, <2>3, <2>4 DEF FirstOf
    <3> QED
      BY <2>1, <3>1 DEF Opened, FirstOf
  <2>5. CASE l < k
    <3>1. \A j \in 1 .. l : prog[j].type # t
      BY <2>1, <2>3, <2>5 DEF FirstOf
    <3> QED
      BY <2>2, <3>1 DEF Opened, FirstOf
  <2> QED
    BY <2>3, <2>4, <2>5
<1> QED
  BY <1>2, <1>3, <1>4

\* One type opens after every other.
LEMMA LastOpened ==
    ASSUME NEW prog, IsProgram(prog), Labels(prog) # {}
    PROVE  \E t \in Labels(prog) : \A u \in Labels(prog) : u # t => Opened(prog, u, t)
<1> DEFINE n == Len(prog)
           K == {n - k : k \in {j \in DOMAIN prog : FirstOf(prog, prog[j].type, j)}}
<1>1. DOMAIN prog = 1 .. n /\ n \in Nat
  BY MappingsAre
<1>2. PICK w \in Labels(prog) : TRUE
  OBVIOUS
<1>3. PICK i \in DOMAIN prog : FirstOf(prog, w, i)
  BY FirstPlace
<1>4. K \in SUBSET Nat
  BY <1>1
<1>5. n - i \in K
  BY <1>3 DEF FirstOf
<1>6. PICK x \in K : \A y \in K : x <= y
  BY <1>4, <1>5, LeastPlace
<1>7. PICK k \in DOMAIN prog : x = n - k /\ FirstOf(prog, prog[k].type, k)
  OBVIOUS
<1> DEFINE t == prog[k].type
<1>8. t \in Labels(prog)
  BY DEF Labels, Range
<1>9. ASSUME NEW u \in Labels(prog), u # t PROVE Opened(prog, u, t)
  <2>1. PICK l \in DOMAIN prog : FirstOf(prog, u, l)
    BY FirstPlace
  <2>2. n - l \in K
    BY <2>1 DEF FirstOf
  <2>3. n - k <= n - l
    BY <1>6, <1>7, <2>2
  <2>4. l < k /\ l \in Nat /\ k \in Nat
    BY <1>1, <1>7, <1>9, <2>1, <2>3 DEF FirstOf
  <2>5. \A j \in 1 .. l : prog[j].type # t
    BY <1>7, <2>4 DEF FirstOf
  <2> QED
    BY <2>1, <2>5 DEF Opened, FirstOf
<1> QED
  BY <1>8, <1>9

\* The vertices of one type.
Block(prog, t) == {<<t, s>> : s \in Subjected(Group(prog, t))}

\* The numbered subjects are those of the types opened so far.
LEMMA NumberedAre ==
    ASSUME NEW prog, IsProgram(prog)
    PROVE  /\ IsFiniteSet(Subjects(prog))
           /\ \A p : p \in Subjects(prog) <=> \E t, s : p = <<t, s>> /\ Minted(prog, t, s)
           /\ \A t, s : Minted(prog, t, s) => t \in Labels(prog)
           /\ \A t : Block(prog, t) \subseteq Subjects(prog)
           /\ \A t : Earlier(prog, t) \subseteq Subjects(prog)
           /\ \A t, u, s : <<u, s>> \in Earlier(prog, t) <=> Minted(prog, u, s) /\ Opened(prog, u, t)
<1> DEFINE V(m) == {<<m.type, r.subject>> : r \in Range(m.rows)}
           all == [m \in Range(prog) |-> V(m)]
<1>1. ASSUME NEW m \in Range(prog) PROVE IsFiniteSet(V(m))
  <2> DEFINE f == [r \in Range(m.rows) |-> <<m.type, r.subject>>]
  <2>1. IsFiniteSet(Range(f))
    BY MappingsAre, RowsAre, RangeFinite
  <2>2. Range(f) = V(m)
    BY DEF Range
  <2> QED
    BY <2>1, <2>2
<1>2. Subjects(prog) = UNION {V(m) : m \in Range(prog)}
  BY DEF Subjects
<1>3. \A p : p \in Subjects(prog) <=> \E t, s : p = <<t, s>> /\ Minted(prog, t, s)
  BY <1>2 DEF Minted
<1> HIDE DEF V
<1>4. IsFiniteSet(Range(all))
  BY MappingsAre, RangeFinite
<1>5. Range(all) = {V(m) : m \in Range(prog)}
  BY DEF Range
<1>6. IsFiniteSet(Subjects(prog))
  BY <1>1, <1>2, <1>4, <1>5, FS_UNION
<1>7. \A t, s : Minted(prog, t, s) => t \in Labels(prog)
  BY DEF Minted, Labels
<1>8. \A t : Block(prog, t) \subseteq Subjects(prog)
  BY <1>3, SubjectedAre DEF Block
<1>9. ASSUME NEW t PROVE \A p : p \in Earlier(prog, t) <=>
                             \E u, s : p = <<u, s>> /\ Minted(prog, u, s) /\ Opened(prog, u, t)
  <2>1. \A p : p \in Earlier(prog, t) <=>
            \E u \in Labels(prog) : Opened(prog, u, t) /\ \E s \in Subjected(Group(prog, u)) : p = <<u, s>>
    BY DEF Earlier
  <2> QED
    BY <1>7, <2>1, SubjectedAre
<1> QED
  BY <1>3, <1>6, <1>7, <1>8, <1>9

\* A type takes as many ids as it has subjects.
LEMMA BlockSize ==
    ASSUME NEW prog, IsProgram(prog), NEW t
    PROVE  /\ IsFiniteSet(Block(prog, t))
           /\ Cardinality(Block(prog, t)) = Cardinality(Subjected(Group(prog, t)))
           /\ Cardinality(Block(prog, t)) \in Nat
<1> DEFINE S == Subjected(Group(prog, t))
           f == [s \in S |-> <<t, s>>]
<1>1. f \in Bijection(S, Block(prog, t))
  BY DEF Block, Bijection, Injection, Surjection, IsInjective
<1>2. IsFiniteSet(S)
  BY SubjectedAre DEF Places
<1> QED
  BY <1>1, <1>2, FS_Bijection, FS_CardinalityType DEF ExistsBijection

\* The ids of a type end before those of a type opened later begin.
LEMMA RangesApart ==
    ASSUME NEW prog, IsProgram(prog)
    PROVE  /\ \A t : Cardinality(Earlier(prog, t)) \in Nat
           /\ \A t, u : Opened(prog, t, u) =>
                 Cardinality(Earlier(prog, t)) + Cardinality(Block(prog, t)) <= Cardinality(Earlier(prog, u))
           /\ \A t : Cardinality(Earlier(prog, t)) + Cardinality(Block(prog, t)) <= Cardinality(Subjects(prog))
<1>1. \A t : IsFiniteSet(Earlier(prog, t)) /\ IsFiniteSet(Block(prog, t))
  BY NumberedAre, BlockSize, FS_Subset
<1>2. \A t : Cardinality(Earlier(prog, t)) \in Nat /\ Cardinality(Block(prog, t)) \in Nat
  BY <1>1, FS_CardinalityType
<1>3. ASSUME NEW t
      PROVE  /\ IsFiniteSet(Earlier(prog, t) \cup Block(prog, t))
             /\ Cardinality(Earlier(prog, t) \cup Block(prog, t)) =
                    Cardinality(Earlier(prog, t)) + Cardinality(Block(prog, t))
  <2>1. Earlier(prog, t) \cap Block(prog, t) = {}
    BY NumberedAre, OpenedOrders DEF Block
  <2>2. Cardinality({}) = 0
    BY FS_EmptySet
  <2> DEFINE A == Earlier(prog, t)
             B == Block(prog, t)
  <2>3. IsFiniteSet(A) /\ IsFiniteSet(B) /\ Cardinality(A) \in Nat /\ Cardinality(B) \in Nat /\ A \cap B = {}
    BY <1>1, <1>2, <2>1
  <2> HIDE DEF A, B
  <2>4. IsFiniteSet(A \cup B) /\ Cardinality(A \cup B) = Cardinality(A) + Cardinality(B) - Cardinality(A \cap B)
    BY <2>3, FS_Union
  <2>6. Cardinality(A \cap B) = 0
    BY <2>2, <2>3
  <2>5. IsFiniteSet(A \cup B) /\ Cardinality(A \cup B) = Cardinality(A) + Cardinality(B)
    BY <2>3, <2>4, <2>6
  <2> QED
    BY <2>5 DEF A, B
<1>4. ASSUME NEW t, NEW u, Opened(prog, t, u)
      PROVE  Earlier(prog, t) \cup Block(prog, t) \in SUBSET Earlier(prog, u)
  <2>1. ASSUME NEW p \in Earlier(prog, t) PROVE p \in Earlier(prog, u)
    <3>1. PICK v, s : p = <<v, s>> /\ Minted(prog, v, s)
      BY NumberedAre
    <3> QED
      BY <1>4, <3>1, NumberedAre, OpenedOrders
  <2>2. ASSUME NEW p \in Block(prog, t) PROVE p \in Earlier(prog, u)
    <3>1. PICK s \in Subjected(Group(prog, t)) : p = <<t, s>>
      BY DEF Block
    <3> QED
      BY <1>4, <3>1, NumberedAre, SubjectedAre
  <2> QED
    BY <2>1, <2>2
<1>5. ASSUME NEW t, NEW u, Opened(prog, t, u)
      PROVE  Cardinality(Earlier(prog, t)) + Cardinality(Block(prog, t)) <= Cardinality(Earlier(prog, u))
  <2>1. Cardinality(Earlier(prog, t) \cup Block(prog, t)) <= Cardinality(Earlier(prog, u))
    BY <1>1, <1>4, <1>5, FS_Subset, Zenon
  <2> QED
    BY <1>3, <2>1
<1>6. ASSUME NEW t
      PROVE  Cardinality(Earlier(prog, t)) + Cardinality(Block(prog, t)) <= Cardinality(Subjects(prog))
  <2>1. Earlier(prog, t) \cup Block(prog, t) \in SUBSET Subjects(prog) /\ IsFiniteSet(Subjects(prog))
    BY NumberedAre
  <2>2. Cardinality(Earlier(prog, t) \cup Block(prog, t)) <= Cardinality(Subjects(prog))
    BY <2>1, FS_Subset, Zenon
  <2> QED
    BY <1>3, <2>2
<1> QED
  BY <1>2, <1>5, <1>6

(***************************************************************************)
(* Tables: the vertex tables.                                              *)
(***************************************************************************)

\* The subjects of a type.
Of(prog, t) == Subjected(Group(prog, t))

\* The first id of a type is how many were numbered before it.
LEMMA FirstIs ==
    ASSUME NEW prog, NEW t
    PROVE  Vertex(prog, t).first = Cardinality(Earlier(prog, t))
  BY DEF Vertex, TableFrom

\* The columns of a table are those some mapping of its type writes.
LEMMA ColumnsAre ==
    ASSUME NEW prog, NEW t
    PROVE  /\ DOMAIN Vertex(prog, t).row = Written(Group(prog, t)) \cap Single
           /\ DOMAIN Vertex(prog, t).values = Written(Group(prog, t)) \ Single
  BY DEF Vertex, TableFrom

\* The ids of a type run on from its first: each subject has one, each id a subject.
LEMMA IdsAre ==
    ASSUME NEW prog, IsProgram(prog), NEW t
    PROVE  /\ Vertex(prog, t).first \in Nat /\ End(Vertex(prog, t)) \in Nat
           /\ DOMAIN Vertex(prog, t).id = Of(prog, t)
           /\ \A s : s \in DOMAIN Vertex(prog, t).id <=> Minted(prog, t, s)
           /\ Cardinality(DOMAIN Vertex(prog, t).id) \in Nat
           /\ End(Vertex(prog, t)) = Vertex(prog, t).first + Cardinality(DOMAIN Vertex(prog, t).id)
           /\ End(Vertex(prog, t)) = Cardinality(Earlier(prog, t)) + Cardinality(Block(prog, t))
           /\ \A s \in DOMAIN Vertex(prog, t).id :
                 /\ Vertex(prog, t).id[s] \in Nat
                 /\ Vertex(prog, t).first <= Vertex(prog, t).id[s]
                 /\ Vertex(prog, t).id[s] < End(Vertex(prog, t))
                 /\ SubjectOf(Vertex(prog, t), Vertex(prog, t).id[s]) = s
           /\ \A s, x \in DOMAIN Vertex(prog, t).id : Vertex(prog, t).id[s] = Vertex(prog, t).id[x] => s = x
           /\ \A k \in 0 .. Cardinality(DOMAIN Vertex(prog, t).id) - 1 :
                 \E s \in DOMAIN Vertex(prog, t).id : Vertex(prog, t).id[s] = Vertex(prog, t).first + k
<1> DEFINE v == Vertex(prog, t)
           S == Of(prog, t)
           n == Cardinality(S)
<1>1. v.first = Cardinality(Earlier(prog, t)) /\ v.first \in Nat
  <2>1. Cardinality(Earlier(prog, t)) \in Nat
    BY RangesApart
  <2> QED
    BY <2>1, FirstIs
<1>2. DOMAIN v.id = S /\ \A s \in S : v.id[s] = v.first + Place(S, s)
  <2>1. v.id = [s \in S |-> Cardinality(Earlier(prog, t)) + Place(S, s)]
    BY DEF Vertex, TableFrom, Of, Place
  <2> QED
    BY <1>1, <2>1
<1>3. Places(S) /\ \A s : s \in S <=> Minted(prog, t, s)
  BY SubjectedAre DEF Of
<1>4. Cardinality(Block(prog, t)) = n /\ n \in Nat
  BY BlockSize DEF Of
<1>5. End(v) = v.first + n
  BY <1>2 DEF End
<1>6. ASSUME NEW s \in S PROVE Place(S, s) \in 0 .. n - 1
  BY <1>3, PlaceWithin
<1>7. ASSUME NEW s \in S PROVE v.id[s] \in Nat /\ v.first <= v.id[s] /\ v.id[s] < End(v)
  BY <1>1, <1>2, <1>4, <1>5, <1>6
<1>8. ASSUME NEW s \in S, NEW x \in S, v.id[s] = v.id[x] PROVE s = x
  <2>1. Place(S, s) = Place(S, x)
    BY <1>1, <1>2, <1>4, <1>6, <1>8
  <2> QED
    BY <1>3, <2>1, PlacesAreIndices
<1>9. ASSUME NEW k \in 0 .. n - 1 PROVE \E s \in S : v.id[s] = v.first + k
  <2>1. PICK s \in S : Place(S, s) = k
    BY <1>3, PlacesAreIndices
  <2> QED
    BY <1>2, <2>1
<1>10. ASSUME NEW s \in S PROVE SubjectOf(v, v.id[s]) = s
  BY <1>2, <1>8 DEF SubjectOf
<1> QED
  BY <1>1, <1>2, <1>3, <1>4, <1>5, <1>7, <1>8, <1>9, <1>10

\* The graph of a program that is not refused.
GraphOf(prog) ==
    [refused |-> "no", vertices |-> [t \in Labels(prog) |-> Vertex(prog, t)], edges |-> EdgeTables(prog)]

\* What Execute answers for a program it accepts.
LEMMA ExecuteGives ==
    ASSUME NEW prog
    PROVE  Execute(prog).refused = "no" <=> Execute(prog) = GraphOf(prog)
  BY DEF Execute, GraphOf

\* An id is of one vertex of the graph.
LEMMA OwnerIs ==
    ASSUME NEW prog, IsProgram(prog), NEW t \in Labels(prog), NEW s \in DOMAIN Vertex(prog, t).id
    PROVE  SubjectAt(GraphOf(prog), Vertex(prog, t).id[s]) = s
<1> DEFINE g == GraphOf(prog)
           i == Vertex(prog, t).id[s]
           Mine(u) == Vertex(prog, u).first <= i /\ i < End(Vertex(prog, u))
<1>1. DOMAIN g.vertices = Labels(prog) /\ \A u \in Labels(prog) : g.vertices[u] = Vertex(prog, u)
  BY DEF GraphOf
<1>2. Mine(t) /\ i \in Nat
  BY IdsAre
<1>3. ASSUME NEW u \in Labels(prog), Mine(u), u # t PROVE FALSE
  <2>1. CASE Opened(prog, t, u)
    <3>0. Cardinality(Earlier(prog, t)) + Cardinality(Block(prog, t)) <= Cardinality(Earlier(prog, u))
      BY <2>1, RangesApart
    <3>1. End(Vertex(prog, t)) <= Vertex(prog, u).first
      BY <3>0, IdsAre, FirstIs
    <3> QED
      BY <1>2, <1>3, <3>1, IdsAre
  <2>2. CASE Opened(prog, u, t)
    <3>0. Cardinality(Earlier(prog, u)) + Cardinality(Block(prog, u)) <= Cardinality(Earlier(prog, t))
      BY <2>2, RangesApart
    <3>1. End(Vertex(prog, u)) <= Vertex(prog, t).first
      BY <3>0, IdsAre, FirstIs
    <3> QED
      BY <1>2, <1>3, <3>1, IdsAre
  <2> QED
    BY <1>3, <2>1, <2>2, OpenedOrders
<1>4. Owner(g, i) = CHOOSE u \in Labels(prog) : Mine(u)
  BY <1>1 DEF Owner
<1>5. Owner(g, i) = t
  BY <1>2, <1>3, <1>4
<1> QED
  BY <1>1, <1>5, IdsAre DEF SubjectAt

(***************************************************************************)
(* Tables: what the tables hold, by the rows.                              *)
(***************************************************************************)

\* The columns a group writes, by its mappings.
LEMMA WrittenAre ==
    ASSUME NEW prog, NEW t, NEW c
    PROVE  c \in Written(Group(prog, t)) <=>
               \E m \in Range(prog) : m.type = t /\ c \in m.writes /\ ~IsEdge(c)
  BY DEF Written, Group, Properties

\* What a vertex is given for a column is finite, and what the rows give it.
LEMMA GivenAre ==
    ASSUME NEW prog, IsProgram(prog), NEW t, NEW s, NEW c, NEW x, Gives(prog, t, s, c, x)
    PROVE  /\ x \in Int /\ x # Null /\ Minted(prog, t, s) /\ t \in Labels(prog)
           /\ ~IsEdge(c) => c \in Written(Group(prog, t))
           /\ c \in Columns
<1>1. x \in Int
  BY OfferedAre
<1>2. Minted(prog, t, s) /\ t \in Labels(prog) /\ x # Null
  BY DEF Gives, Minted, Labels
<1>3. ~IsEdge(c) => c \in Written(Group(prog, t))
  BY WrittenAre DEF Gives
<1>4. c \in Columns
  BY MappingsAre DEF Gives, MappingIs
<1> QED
  BY <1>1, <1>2, <1>3, <1>4

\* Two values of one column of one subject.
Twice(prog, t, s, c) == \E x, y : Gives(prog, t, s, c, x) /\ Gives(prog, t, s, c, y) /\ x # y

\* A single column of several values is one that two rows give different ones.
LEMMA SeveralAre ==
    ASSUME NEW prog, IsProgram(prog), NEW t
    PROVE  Several(Group(prog, t)) <=>
               \E c \in Written(Group(prog, t)) \cap Single : \E s : Twice(prog, t, s, c)
<1> DEFINE V(s, c) == Offered(Group(prog, t), s, c)
<1>1. ASSUME NEW s, NEW c
      PROVE  (V(s, c) # {} /\ Min(V(s, c)) # Max(V(s, c))) <=> Twice(prog, t, s, c)
  <2>1. V(s, c) \in SUBSET Int /\ IsFiniteSet(V(s, c)) /\ \A x : x \in V(s, c) <=> Gives(prog, t, s, c, x)
    BY OfferedAre
  <2> HIDE DEF V
  <2>2. CASE V(s, c) = {}
    BY <2>1, <2>2 DEF Twice
  <2>3. CASE V(s, c) # {}
    <3>1. /\ Min(V(s, c)) \in V(s, c) /\ \A v \in V(s, c) : Min(V(s, c)) <= v
          /\ Max(V(s, c)) \in V(s, c) /\ \A v \in V(s, c) : v <= Max(V(s, c))
      BY <2>1, <2>3, LeastAndGreatest
    <3>2. (Min(V(s, c)) # Max(V(s, c))) <=> \E x, y \in V(s, c) : x # y
      BY <2>1, <3>1
    <3> QED
      BY <2>1, <2>3, <3>2 DEF Twice
  <2> QED
    BY <2>2, <2>3
<1>2. \A s, c : Twice(prog, t, s, c) => s \in Subjected(Group(prog, t))
  BY GivenAre, SubjectedAre DEF Twice
<1>3. Several(Group(prog, t)) <=>
         \E c \in Written(Group(prog, t)) \cap Single : \E s \in Subjected(Group(prog, t)) :
             V(s, c) # {} /\ Min(V(s, c)) # Max(V(s, c))
  BY DEF Several
<1> QED
  BY <1>1, <1>2, <1>3

\* A row holds the value its subject is given, where it is given one.
LEMMA RowIs ==
    ASSUME NEW prog, IsProgram(prog), NEW t, ~Several(Group(prog, t)),
           NEW c \in Written(Group(prog, t)) \cap Single, NEW s \in Of(prog, t)
    PROVE  \A x : (Vertex(prog, t).row[c][s] # Null /\ x = Vertex(prog, t).row[c][s])
                      <=> Gives(prog, t, s, c, x)
<1> DEFINE V == Offered(Group(prog, t), s, c)
<1>1. Vertex(prog, t).row[c][s] = Merged(V)
  BY DEF Vertex, TableFrom, Of
<1>2. V \in SUBSET Int /\ IsFiniteSet(V) /\ \A x : x \in V <=> Gives(prog, t, s, c, x)
  BY OfferedAre
<1>3. ~Twice(prog, t, s, c) /\ Null \notin Int
  BY SeveralAre, TablesAssumption
<1> HIDE DEF V
<1>4. CASE V = {}
  BY <1>1, <1>2, <1>4 DEF Merged
<1>5. CASE V # {}
  <2>1. Min(V) \in V
    BY <1>2, <1>5, LeastAndGreatest
  <2>2. \A x \in V : x = Min(V)
    BY <1>2, <1>3, <2>1 DEF Twice
  <2>3. Merged(V) = Min(V) /\ Min(V) # Null
    BY <1>2, <1>3, <1>5, <2>1 DEF Merged
  <2> QED
    BY <1>1, <1>2, <2>1, <2>2, <2>3
<1> QED
  BY <1>4, <1>5

\* A set's table has the values each vertex is given, by its id.
LEMMA ValuesAre ==
    ASSUME NEW prog, IsProgram(prog), NEW t, NEW c \in Written(Group(prog, t)) \ Single
    PROVE  \A p : p \in Vertex(prog, t).values[c] <=>
               \E s \in Of(prog, t) \ {Null} : \E x :
                   Gives(prog, t, s, c, x) /\ p = <<Vertex(prog, t).id[s], x>>
<1> DEFINE id == Vertex(prog, t).id
           V(s) == Offered(Group(prog, t), s, c)
<1>1. Vertex(prog, t).values[c] = UNION {{<<id[s], v>> : v \in V(s)} : s \in Of(prog, t) \ {Null}}
  BY DEF Vertex, TableFrom, Of
<1>2. \A s, x : x \in V(s) <=> Gives(prog, t, s, c, x)
  BY OfferedAre
<1> HIDE DEF id, V
<1>3. \A p : p \in Vertex(prog, t).values[c] <=>
          \E s \in Of(prog, t) \ {Null} : \E x \in V(s) : p = <<id[s], x>>
  BY <1>1
<1> QED
  BY <1>2, <1>3 DEF id

\* The relations of a program are the columns with a destination that some mapping writes.
LEMMA RelatedAre ==
    ASSUME NEW prog, IsProgram(prog), NEW e
    PROVE  /\ e \in Related(prog) <=>
                 \E m \in Range(prog) : \E c \in m.writes : \E d \in Ranges[c] :
                    e = [source |-> m.type, label |-> c, destination |-> d]
           /\ e \in Related(prog) =>
                 e.source \in Labels(prog) /\ IsEdge(e.label) /\ e.destination \in Ranges[e.label]
           /\ \A m \in Range(prog) : e \in Edges(m) =>
                 e.source = m.type /\ e.label \in m.writes /\ e.destination \in Ranges[e.label]
           /\ e \in Related(prog) =>
                \A m \in Range(prog) : e \in Edges(m) <=> m.type = e.source /\ e.label \in m.writes
<1>1. ASSUME NEW m \in Range(prog)
      PROVE  e \in Edges(m) <=>
                \E c \in m.writes : \E d \in Ranges[c] : e = [source |-> m.type, label |-> c, destination |-> d]
  <2>1. m.writes \subseteq Columns
    BY MappingsAre DEF MappingIs
  <2>2. \A c \in m.writes : Ranges[c] \subseteq Types
    BY <2>1, TablesAssumption
  <2> QED
    BY <2>2 DEF Edges
<1>2. e \in Related(prog) <=>
         \E m \in Range(prog) : \E c \in m.writes : \E d \in Ranges[c] :
             e = [source |-> m.type, label |-> c, destination |-> d]
  BY <1>1 DEF Related
<1>3. e \in Related(prog) => e.source \in Labels(prog) /\ IsEdge(e.label) /\ e.destination \in Ranges[e.label]
  BY <1>2 DEF Labels, IsEdge
<1>4. ASSUME NEW m \in Range(prog), e \in Edges(m)
      PROVE  e.source = m.type /\ e.label \in m.writes /\ e.destination \in Ranges[e.label]
  BY <1>1, <1>4
<1>5. ASSUME e \in Related(prog), NEW m \in Range(prog), m.type = e.source, e.label \in m.writes
      PROVE  e \in Edges(m)
  <2>0. PICK n \in Range(prog) : \E c \in n.writes : \E d \in Ranges[c] :
                e = [source |-> n.type, label |-> c, destination |-> d]
    BY <1>2, <1>5
  <2>1. PICK c, d : d \in Ranges[c] /\ e = [source |-> n.type, label |-> c, destination |-> d]
    BY <2>0
  <2>2. c \in m.writes /\ e = [source |-> m.type, label |-> c, destination |-> d]
    BY <1>5, <2>1
  <2> QED
    BY <1>1, <2>1, <2>2
<1> QED
  BY <1>2, <1>3, <1>4, <1>5

\* What is offered a relation is what the rows of its source give its column.
LEMMA CandidatesAre ==
    ASSUME NEW prog, IsProgram(prog), NEW e \in Related(prog)
    PROVE  /\ IsFiniteSet(Candidates(prog, e))
           /\ \A p \in Candidates(prog, e) :
                 /\ Minted(prog, e.source, Start(prog, p))
                 /\ Finish(prog, e, p) # Null =>
                        Gives(prog, e.source, Start(prog, p), e.label, Finish(prog, e, p))
           /\ \A s, x : Gives(prog, e.source, s, e.label, x) =>
                 \E p \in Candidates(prog, e) : Start(prog, p) = s /\ Finish(prog, e, p) = x
<1> DEFINE K == {k \in DOMAIN prog : e \in Edges(prog[k])}
           C(k, i) == {<<k, i, j>> : j \in DOMAIN prog[k].rows[i].cells[e.label]}
           R(k) == UNION {C(k, i) : i \in DOMAIN prog[k].rows}
<1>1. Candidates(prog, e) = UNION {R(k) : k \in K}
  BY DEF Candidates
<1>2. ASSUME NEW k \in K
      PROVE  /\ prog[k] \in Range(prog) /\ MappingIs(prog[k])
             /\ prog[k].type = e.source /\ e.label \in prog[k].writes
  BY MappingsAre, RelatedAre
<1>3. ASSUME NEW k \in K, NEW i \in DOMAIN prog[k].rows
      PROVE  prog[k].rows[i] \in Range(prog[k].rows) /\ IsFiniteSet(DOMAIN prog[k].rows[i].cells[e.label])
  BY <1>2, RowsAre, CellsAre
<1>4. ASSUME NEW k \in K, NEW i \in DOMAIN prog[k].rows PROVE IsFiniteSet(C(k, i))
  <2> DEFINE f == [j \in DOMAIN prog[k].rows[i].cells[e.label] |-> <<k, i, j>>]
  <2>1. IsFiniteSet(Range(f))
    BY <1>3, RangeFinite
  <2>2. Range(f) = C(k, i)
    BY DEF Range
  <2> QED
    BY <2>1, <2>2
<1>5. ASSUME NEW p \in Candidates(prog, e)
      PROVE  \E k \in K : \E i \in DOMAIN prog[k].rows : \E j \in DOMAIN prog[k].rows[i].cells[e.label] : p = <<k, i, j>>
  BY <1>1
<1>6. ASSUME NEW k \in K, NEW i \in DOMAIN prog[k].rows, NEW j \in DOMAIN prog[k].rows[i].cells[e.label]
      PROVE  <<k, i, j>> \in Candidates(prog, e)
  BY <1>1
<1> HIDE DEF C
<1>7. ASSUME NEW k \in K PROVE IsFiniteSet(R(k))
  <2> DEFINE f == [i \in DOMAIN prog[k].rows |-> C(k, i)]
  <2>1. IsFiniteSet(Range(f))
    BY <1>2, RowsAre, RangeFinite
  <2>2. Range(f) = {C(k, i) : i \in DOMAIN prog[k].rows}
    BY DEF Range
  <2> QED
    BY <1>4, <2>1, <2>2, FS_UNION
<1> HIDE DEF R
<1>8. IsFiniteSet(Candidates(prog, e))
  <2> DEFINE f == [k \in K |-> R(k)]
  <2>1. IsFiniteSet(K)
    BY MappingsAre, FS_Subset
  <2>2. IsFiniteSet(Range(f))
    BY <2>1, RangeFinite
  <2>3. Range(f) = {R(k) : k \in K}
    BY DEF Range
  <2> QED
    BY <1>1, <1>7, <2>2, <2>3, FS_UNION
<1>9. ASSUME NEW p \in Candidates(prog, e)
      PROVE  /\ Minted(prog, e.source, Start(prog, p))
             /\ Finish(prog, e, p) # Null =>
                    Gives(prog, e.source, Start(prog, p), e.label, Finish(prog, e, p))
  <2>a. PICK k \in K : \E i \in DOMAIN prog[k].rows : \E j \in DOMAIN prog[k].rows[i].cells[e.label] : p = <<k, i, j>>
    BY <1>5
  <2>b. PICK i \in DOMAIN prog[k].rows : \E j \in DOMAIN prog[k].rows[i].cells[e.label] : p = <<k, i, j>>
    BY <2>a
  <2>1. PICK j \in DOMAIN prog[k].rows[i].cells[e.label] : p = <<k, i, j>>
    BY <2>b
  <2>2. Start(prog, p) = prog[k].rows[i].subject /\ Finish(prog, e, p) = prog[k].rows[i].cells[e.label][j]
    BY <2>1 DEF Start, Finish
  <2>3. Finish(prog, e, p) \in Range(prog[k].rows[i].cells[e.label])
    BY <2>2 DEF Range
  <2> QED
    BY <1>2, <1>3, <2>2, <2>3 DEF Minted, Gives
<1>10. ASSUME NEW s, NEW x, Gives(prog, e.source, s, e.label, x)
       PROVE  \E p \in Candidates(prog, e) : Start(prog, p) = s /\ Finish(prog, e, p) = x
  <2>1. PICK m \in Range(prog) : m.type = e.source /\ e.label \in m.writes
                /\ \E r \in Range(m.rows) : r.subject = s /\ x \in Range(r.cells[e.label])
    BY <1>10 DEF Gives
  <2>2. PICK r \in Range(m.rows) : r.subject = s /\ x \in Range(r.cells[e.label])
    BY <2>1
  <2>3. e \in Edges(m)
    BY <2>1, RelatedAre
  <2>4. PICK k \in DOMAIN prog : prog[k] = m
    BY DEF Range
  <2>5. PICK i \in DOMAIN m.rows : m.rows[i] = r
    BY DEF Range
  <2>6. PICK j \in DOMAIN r.cells[e.label] : r.cells[e.label][j] = x
    BY <2>2 DEF Range
  <2>7. <<k, i, j>> \in Candidates(prog, e)
    BY <1>6, <2>3, <2>4, <2>5, <2>6
  <2> QED
    BY <2>2, <2>4, <2>5, <2>6, <2>7 DEF Start, Finish
<1> QED
  BY <1>8, <1>9, <1>10

\* The edge table of a relation.
TableOf(prog, e) == EdgeTable(prog, e, Vertex(prog, e.source), Vertex(prog, e.destination))

\* One edge table for each relation, with the edges its rows resolve to.
LEMMA EdgeTablesAre ==
    ASSUME NEW prog
    PROVE  \A t : t \in EdgeTables(prog) <=> \E e \in Related(prog) : t = TableOf(prog, e)
  BY DEF EdgeTables, TableOf

\* An edge of a relation: the subject is given the other end, which some row mints.
Joins(prog, e, a, b) ==
    Gives(prog, e.source, a, e.label, b) /\ a # Null /\ Minted(prog, e.destination, b)

\* An edge of a table is one the rows of its source say, ends numbered.
LEMMA PairsAre ==
    ASSUME NEW prog, IsProgram(prog), NEW e \in Related(prog)
    PROVE  /\ TableOf(prog, e).edge = e
           /\ TableOf(prog, e).dropped = Cardinality(Dangling(prog, e))
           /\ \A p : p \in TableOf(prog, e).pairs <=>
                 \E a, b : Joins(prog, e, a, b)
                           /\ p = <<Vertex(prog, e.source).id[a], Vertex(prog, e.destination).id[b]>>
<1> DEFINE source == Vertex(prog, e.source)
           destination == Vertex(prog, e.destination)
           from == source.id
           to == destination.id
           C == Candidates(prog, e)
           S(p) == Start(prog, p)
           F(p) == Finish(prog, e, p)
           M == {p \in C : Resolves(S(p), F(p), source, destination)}
<1>1. /\ TableOf(prog, e).edge = e
      /\ TableOf(prog, e).pairs = {<<from[S(p)], to[F(p)]>> : p \in M}
      /\ TableOf(prog, e).dropped = Cardinality(C) - Cardinality(M)
  BY DEF TableOf, EdgeTable
<1>2. ASSUME NEW p \in C
      PROVE  p \in M <=> S(p) # Null /\ F(p) # Null /\ Minted(prog, e.destination, F(p))
  <2>1. Resolves(S(p), F(p), source, destination) <=>
            S(p) # Null /\ Minted(prog, e.source, S(p)) /\ F(p) # Null /\ Minted(prog, e.destination, F(p))
    BY IdsAre DEF Resolves
  <2> QED
    BY <2>1, CandidatesAre
<1>3. C \ M = Dangling(prog, e)
  BY <1>2 DEF Dangling
<1>4. Cardinality(C) - Cardinality(M) = Cardinality(Dangling(prog, e))
  <2>1. IsFiniteSet(C) /\ C \cap M = M
    BY CandidatesAre
  <2>2. IsFiniteSet(M) /\ IsFiniteSet(C \ M)
    BY <2>1, FS_Subset
  <2>3. Cardinality(C) \in Nat /\ Cardinality(M) \in Nat /\ Cardinality(C \ M) \in Nat
    BY <2>1, <2>2, FS_CardinalityType
  <2>4. Cardinality(C \ M) = Cardinality(C) - Cardinality(C \cap M)
    BY <2>1, FS_Difference, Zenon
  <2>5. Cardinality(C \ M) = Cardinality(C) - Cardinality(M)
    BY <2>1, <2>4
  <2> QED
    BY <1>3, <2>5
<1>5. ASSUME NEW a, NEW b
      PROVE  Joins(prog, e, a, b) <=> \E p \in M : S(p) = a /\ F(p) = b
  <2>1. ASSUME Joins(prog, e, a, b) PROVE \E p \in M : S(p) = a /\ F(p) = b
    <3>1. PICK p \in C : S(p) = a /\ F(p) = b
      BY <2>1, CandidatesAre DEF Joins
    <3>2. b # Null
      BY <2>1, GivenAre DEF Joins
    <3> QED
      BY <1>2, <2>1, <3>1, <3>2 DEF Joins
  <2>2. ASSUME NEW p \in M, S(p) = a, F(p) = b PROVE Joins(prog, e, a, b)
    BY <1>2, <2>2, CandidatesAre DEF Joins
  <2> QED
    BY <2>1, <2>2
<1> HIDE DEF from, to, M, S, F
<1>6. \A q : q \in {<<from[S(p)], to[F(p)]>> : p \in M} <=>
               \E a, b : (\E p \in M : S(p) = a /\ F(p) = b) /\ q = <<from[a], to[b]>>
  OBVIOUS
<1>7. \A q : q \in {<<from[S(p)], to[F(p)]>> : p \in M} <=>
               \E a, b : Joins(prog, e, a, b) /\ q = <<from[a], to[b]>>
  BY <1>5, <1>6
<1> QED
  BY <1>1, <1>4, <1>7 DEF from, to

(***************************************************************************)
(* Tables: what the rows say, what the triples are and what a reader gets. *)
(***************************************************************************)

SaysClass(prog, u) == \E t, s : Minted(prog, t, s) /\ u = <<s, "type", t>>
SaysValue(prog, u) == \E t, s, c, x : ~IsEdge(c) /\ Gives(prog, t, s, c, x) /\ u = <<s, c, Term(x)>>
SaysLink(prog, u) ==
    \E t, s, c, x : /\ IsEdge(c) /\ Gives(prog, t, s, c, x) /\ u = <<s, c, x>>
                    /\ \E d \in Ranges[c] : Minted(prog, d, x)

\* What the rows say of a program, case by case.
LEMMA SaidIs ==
    ASSUME NEW prog, NEW u
    PROVE  u \in Said(prog) <=> SaysClass(prog, u) \/ SaysValue(prog, u) \/ SaysLink(prog, u)
<1> DEFINE Kept(r, c) == {y \in Range(r.cells[c]) \ {Null} : IsEdge(c) => \E t \in Ranges[c] : Minted(prog, t, y)}
           Row(m, r) == {<<r.subject, "type", m.type>>}
               \cup UNION {{<<r.subject, c, IF IsEdge(c) THEN x ELSE Term(x)>> : x \in Kept(r, c)} : c \in m.writes}
<1>1. Said(prog) = UNION {UNION {Row(m, r) : r \in Range(m.rows)} : m \in Range(prog)}
  BY DEF Said
<1>2. ASSUME NEW m, NEW r
      PROVE  u \in Row(m, r) <=>
                \/ u = <<r.subject, "type", m.type>>
                \/ \E c \in m.writes : \E x \in Range(r.cells[c]) :
                      x # Null /\ ~IsEdge(c) /\ u = <<r.subject, c, Term(x)>>
                \/ \E c \in m.writes : \E x \in Range(r.cells[c]) :
                      x # Null /\ IsEdge(c) /\ (\E d \in Ranges[c] : Minted(prog, d, x)) /\ u = <<r.subject, c, x>>
  OBVIOUS
<1> HIDE DEF Row
<1>3. u \in Said(prog) <=> \E m \in Range(prog) : \E r \in Range(m.rows) : u \in Row(m, r)
  BY <1>1
<1>4. SaysClass(prog, u) <=>
         \E m \in Range(prog) : \E r \in Range(m.rows) : u = <<r.subject, "type", m.type>>
  BY DEF SaysClass, Minted
<1>5. SaysValue(prog, u) <=>
         \E m \in Range(prog) : \E r \in Range(m.rows) : \E c \in m.writes : \E x \in Range(r.cells[c]) :
             x # Null /\ ~IsEdge(c) /\ u = <<r.subject, c, Term(x)>>
  BY DEF SaysValue, Gives
<1>6. SaysLink(prog, u) <=>
         \E m \in Range(prog) : \E r \in Range(m.rows) : \E c \in m.writes : \E x \in Range(r.cells[c]) :
             x # Null /\ IsEdge(c) /\ (\E d \in Ranges[c] : Minted(prog, d, x)) /\ u = <<r.subject, c, x>>
  BY DEF SaysLink, Gives
<1> QED
  BY <1>2, <1>3, <1>4, <1>5, <1>6

\* What a program that is not refused is known to be.
Sound(prog) ==
    /\ \A t \in Labels(prog) : ~Several(Group(prog, t))
    /\ Unregistered(prog) = {}
    /\ \A t, s : Minted(prog, t, s) => s # Null

\* What the tables hold, as the rows say it.
LEMMA HeldValues ==
    ASSUME NEW prog, IsProgram(prog), Sound(prog), NEW t \in Labels(prog)
    PROVE  /\ \A c \in DOMAIN Vertex(prog, t).row : \A s \in Of(prog, t) : \A x :
                 (Vertex(prog, t).row[c][s] # Null /\ x = Vertex(prog, t).row[c][s])
                     <=> Gives(prog, t, s, c, x)
           /\ \A c \in DOMAIN Vertex(prog, t).values : \A p :
                 p \in Vertex(prog, t).values[c] <=>
                     \E s \in Of(prog, t) : \E x : Gives(prog, t, s, c, x) /\ p = <<Vertex(prog, t).id[s], x>>
           /\ \A c, s, x : ~IsEdge(c) /\ Gives(prog, t, s, c, x) =>
                 s \in Of(prog, t) /\ c \in DOMAIN Vertex(prog, t).row \cup DOMAIN Vertex(prog, t).values
           /\ \A c \in DOMAIN Vertex(prog, t).row \cup DOMAIN Vertex(prog, t).values : ~IsEdge(c)
<1> DEFINE v == Vertex(prog, t)
           W == Written(Group(prog, t))
<1>1. DOMAIN v.row = W \cap Single /\ DOMAIN v.values = W \ Single
  BY ColumnsAre
<1>2. \A s : s \in Of(prog, t) <=> Minted(prog, t, s)
  BY SubjectedAre DEF Of
<1>3. Null \notin Of(prog, t)
  BY <1>2 DEF Sound
<1>4. ASSUME NEW c \in DOMAIN v.row, NEW s \in Of(prog, t), NEW x
      PROVE  (v.row[c][s] # Null /\ x = v.row[c][s]) <=> Gives(prog, t, s, c, x)
  BY <1>1, RowIs DEF Sound
<1>5. ASSUME NEW c \in DOMAIN v.values, NEW p
      PROVE  p \in v.values[c] <=> \E s \in Of(prog, t) : \E x : Gives(prog, t, s, c, x) /\ p = <<v.id[s], x>>
  <2>1. p \in v.values[c] <=>
           \E s \in Of(prog, t) \ {Null} : \E x : Gives(prog, t, s, c, x) /\ p = <<v.id[s], x>>
    BY <1>1, ValuesAre
  <2> QED
    BY <1>3, <2>1
<1>6. ASSUME NEW c, NEW s, NEW x, ~IsEdge(c), Gives(prog, t, s, c, x)
      PROVE  s \in Of(prog, t) /\ c \in DOMAIN v.row \cup DOMAIN v.values
  BY <1>1, <1>2, <1>6, GivenAre
<1>7. ASSUME NEW c \in DOMAIN v.row \cup DOMAIN v.values PROVE ~IsEdge(c)
  BY <1>1, WrittenAre
<1> QED
  BY <1>4, <1>5, <1>6, <1>7

\* The edges the tables hold, as the rows say them.
LEMMA HeldLinks ==
    ASSUME NEW prog, IsProgram(prog), Sound(prog), NEW u
    PROVE  /\ SaysLink(prog, u) <=>
                 \E e \in Related(prog) : \E a, b : Joins(prog, e, a, b) /\ u = <<a, e.label, b>>
           /\ \A e \in Related(prog) : e.source \in Labels(prog) /\ e.destination \in Labels(prog)
           /\ \A e \in Related(prog) : \A a, b : Joins(prog, e, a, b) =>
                 a \in DOMAIN Vertex(prog, e.source).id /\ b \in DOMAIN Vertex(prog, e.destination).id
<1>1. ASSUME NEW e \in Related(prog) PROVE e.source \in Labels(prog) /\ e.destination \in Labels(prog)
  BY RelatedAre DEF Sound, Unregistered
<1>2. ASSUME NEW e \in Related(prog), NEW a, NEW b, Joins(prog, e, a, b)
      PROVE  a \in DOMAIN Vertex(prog, e.source).id /\ b \in DOMAIN Vertex(prog, e.destination).id
  BY <1>2, GivenAre, IdsAre DEF Joins
<1>3. ASSUME NEW e \in Related(prog), NEW a, NEW b, Joins(prog, e, a, b), u = <<a, e.label, b>>
      PROVE  SaysLink(prog, u)
  BY <1>3, RelatedAre DEF Joins, SaysLink
<1>4. ASSUME SaysLink(prog, u)
      PROVE  \E e \in Related(prog) : \E a, b : Joins(prog, e, a, b) /\ u = <<a, e.label, b>>
  <2>1. PICK t, s, c, x : /\ IsEdge(c) /\ Gives(prog, t, s, c, x) /\ u = <<s, c, x>>
                          /\ \E d \in Ranges[c] : Minted(prog, d, x)
    BY <1>4 DEF SaysLink
  <2>2. PICK d \in Ranges[c] : Minted(prog, d, x)
    BY <2>1
  <2> DEFINE e == [source |-> t, label |-> c, destination |-> d]
  <2>3. e \in Related(prog)
    BY <2>1, RelatedAre DEF Gives
  <2>4. s # Null
    BY <2>1, GivenAre DEF Sound
  <2>5. Joins(prog, e, s, x) /\ u = <<s, e.label, x>>
    BY <2>1, <2>2, <2>4 DEF Joins
  <2> QED
    BY <2>3, <2>5
<1> QED
  BY <1>1, <1>2, <1>3, <1>4

\* The N-Triples say what the rows say.
LEMMA TriplesAreSaid ==
    ASSUME NEW prog, IsProgram(prog), Sound(prog)
    PROVE  Triples(GraphOf(prog)) = Said(prog)
<1> DEFINE g == GraphOf(prog)
           L == Labels(prog)
           at(i) == SubjectAt(g, i)
           A(t) == {<<s, "type", t>> : s \in DOMAIN g.vertices[t].id}
           B(t) == UNION {{<<s, c, Term(g.vertices[t].row[c][s])>> :
                             s \in {x \in DOMAIN g.vertices[t].id : g.vertices[t].row[c][x] # Null}} :
                            c \in DOMAIN g.vertices[t].row}
           C(t) == UNION {{<<at(p[1]), c, Term(p[2])>> : p \in g.vertices[t].values[c]} :
                            c \in DOMAIN g.vertices[t].values}
           D(t) == {<<at(p[1]), t.edge.label, at(p[2])>> : p \in t.pairs}
<1>1. DOMAIN g.vertices = L /\ g.edges = EdgeTables(prog) /\ \A t \in L : g.vertices[t] = Vertex(prog, t)
  BY DEF GraphOf
<1>2. (\A t : VertexTriples(g, t) = A(t) \cup (B(t) \cup C(t))) /\ \A t : EdgeTriples(g, t) = D(t)
  BY DEF VertexTriples, EdgeTriples
<1>3. ASSUME NEW t \in L, NEW s \in DOMAIN Vertex(prog, t).id PROVE at(Vertex(prog, t).id[s]) = s
  BY OwnerIs
<1>4. ASSUME NEW t \in L, NEW u
      PROVE  u \in A(t) <=> \E s : Minted(prog, t, s) /\ u = <<s, "type", t>>
  BY <1>1, IdsAre
<1>5. ASSUME NEW t \in L, NEW u
      PROVE  u \in B(t) \cup C(t) <=>
                \E s, c, x : ~IsEdge(c) /\ Gives(prog, t, s, c, x) /\ u = <<s, c, Term(x)>>
  <2> DEFINE v == Vertex(prog, t)
  <2>1. u \in B(t) <=> \E c \in DOMAIN v.row : \E s \in Of(prog, t) :
                          v.row[c][s] # Null /\ u = <<s, c, Term(v.row[c][s])>>
    BY <1>1, IdsAre
  <2>2. u \in C(t) <=> \E c \in DOMAIN v.values : \E p \in v.values[c] : u = <<at(p[1]), c, Term(p[2])>>
    BY <1>1
  <2>3. u \in B(t) <=> \E c \in DOMAIN v.row : \E s \in Of(prog, t) : \E x :
                          Gives(prog, t, s, c, x) /\ u = <<s, c, Term(x)>>
    <3>1. ASSUME NEW c \in DOMAIN v.row, NEW s \in Of(prog, t)
          PROVE  (v.row[c][s] # Null /\ u = <<s, c, Term(v.row[c][s])>>)
                     <=> \E x : Gives(prog, t, s, c, x) /\ u = <<s, c, Term(x)>>
      BY HeldValues
    <3> QED
      BY <2>1, <3>1
  <2>4. u \in C(t) <=> \E c \in DOMAIN v.values : \E s \in Of(prog, t) : \E x :
                          Gives(prog, t, s, c, x) /\ u = <<s, c, Term(x)>>
    <3>1. \A s \in Of(prog, t) : at(v.id[s]) = s
      BY <1>3, IdsAre
    <3>2. ASSUME NEW c \in DOMAIN v.values
          PROVE  (\E p \in v.values[c] : u = <<at(p[1]), c, Term(p[2])>>) <=>
                    \E s \in Of(prog, t) : \E x : Gives(prog, t, s, c, x) /\ u = <<s, c, Term(x)>>
      <4>1. \A p : p \in v.values[c] <=>
                \E s \in Of(prog, t) : \E x : Gives(prog, t, s, c, x) /\ p = <<v.id[s], x>>
        BY HeldValues
      <4> HIDE DEF v, at
      <4>2. ASSUME NEW s \in Of(prog, t), NEW x, Gives(prog, t, s, c, x), u = <<s, c, Term(x)>>
            PROVE  \E p \in v.values[c] : u = <<at(p[1]), c, Term(p[2])>>
        <5>1. <<v.id[s], x>> \in v.values[c]
          BY <4>1, <4>2
        <5>2. u = <<at(<<v.id[s], x>>[1]), c, Term(<<v.id[s], x>>[2])>>
          BY <3>1, <4>2
        <5> QED
          BY <5>1, <5>2
      <4>3. ASSUME NEW p \in v.values[c], u = <<at(p[1]), c, Term(p[2])>>
            PROVE  \E s \in Of(prog, t) : \E x : Gives(prog, t, s, c, x) /\ u = <<s, c, Term(x)>>
        BY <3>1, <4>1, <4>3
      <4> QED
        BY <4>2, <4>3
    <3> HIDE DEF v, at
    <3> QED
      BY <2>2, <3>2
  <2>5. \A c, s, x : ~IsEdge(c) /\ Gives(prog, t, s, c, x) =>
             s \in Of(prog, t) /\ c \in DOMAIN v.row \cup DOMAIN v.values
    BY HeldValues
  <2>6. \A c \in DOMAIN v.row \cup DOMAIN v.values : ~IsEdge(c)
    BY HeldValues
  <2> HIDE DEF v, B, C
  <2> QED
    BY <2>3, <2>4, <2>5, <2>6
<1>6. ASSUME NEW u PROVE (\E t \in EdgeTables(prog) : u \in D(t)) <=> SaysLink(prog, u)
  <2>1. ASSUME NEW e \in Related(prog)
        PROVE  u \in D(TableOf(prog, e)) <=> \E a, b : Joins(prog, e, a, b) /\ u = <<a, e.label, b>>
    <3> DEFINE from == Vertex(prog, e.source).id
               to == Vertex(prog, e.destination).id
    <3>1. u \in D(TableOf(prog, e)) <=> \E p \in TableOf(prog, e).pairs : u = <<at(p[1]), e.label, at(p[2])>>
      BY PairsAre
    <3>2. \A p : p \in TableOf(prog, e).pairs <=> \E a, b : Joins(prog, e, a, b) /\ p = <<from[a], to[b]>>
      BY PairsAre
    <3>3. \A a, b : Joins(prog, e, a, b) => at(from[a]) = a /\ at(to[b]) = b
      BY <1>3, HeldLinks
    <3> HIDE DEF from, to, at
    <3>4. ASSUME NEW a, NEW b, Joins(prog, e, a, b), u = <<a, e.label, b>>
          PROVE  \E p \in TableOf(prog, e).pairs : u = <<at(p[1]), e.label, at(p[2])>>
      <4>1. <<from[a], to[b]>> \in TableOf(prog, e).pairs
        BY <3>2, <3>4
      <4>2. u = <<at(<<from[a], to[b]>>[1]), e.label, at(<<from[a], to[b]>>[2])>>
        BY <3>3, <3>4
      <4> QED
        BY <4>1, <4>2
    <3>5. ASSUME NEW p \in TableOf(prog, e).pairs, u = <<at(p[1]), e.label, at(p[2])>>
          PROVE  \E a, b : Joins(prog, e, a, b) /\ u = <<a, e.label, b>>
      BY <3>2, <3>3, <3>5
    <3> QED
      BY <3>1, <3>4, <3>5
  <2> HIDE DEF D
  <2> QED
    BY <2>1, EdgeTablesAre, HeldLinks
<1> HIDE DEF A, B, C, D
<1>7. ASSUME NEW u PROVE u \in Triples(g) <=> SaysClass(prog, u) \/ SaysValue(prog, u) \/ SaysLink(prog, u)
  <2>1. u \in Triples(g) <=> \/ \E t \in L : u \in A(t)
                             \/ \E t \in L : u \in B(t) \cup C(t)
                             \/ \E t \in EdgeTables(prog) : u \in D(t)
    BY <1>1, <1>2 DEF Triples
  <2>2. (\E t \in L : u \in A(t)) <=> SaysClass(prog, u)
    BY <1>4, NumberedAre DEF SaysClass
  <2>3. (\E t \in L : u \in B(t) \cup C(t)) <=> SaysValue(prog, u)
    BY <1>5, GivenAre DEF SaysValue
  <2> QED
    BY <1>6, <2>1, <2>2, <2>3
<1> QED
  BY <1>7, SaidIs

\* The row of a subject in the tables of its type.
RowOfSubject(v, s) ==
    [subject |-> s,
     row |-> [c \in DOMAIN v.row |-> v.row[c][s]],
     sets |-> [c \in DOMAIN v.values |-> ListOf(v, c, v.id[s])]]

\* A row is where the id of its subject says.
LEMMA LaidIs ==
    ASSUME NEW prog, IsProgram(prog), NEW t
    PROVE  /\ \A s \in Of(prog, t) :
                 /\ Vertex(prog, t).id[s] - Vertex(prog, t).first \in DOMAIN Laid(Vertex(prog, t))
                 /\ Laid(Vertex(prog, t))[Vertex(prog, t).id[s] - Vertex(prog, t).first] = RowOfSubject(Vertex(prog, t), s)
           /\ Range(Laid(Vertex(prog, t))) = {RowOfSubject(Vertex(prog, t), s) : s \in Of(prog, t)}
<1> DEFINE v == Vertex(prog, t)
           n == Cardinality(DOMAIN v.id)
           lay(k) == LET s == SubjectOf(v, v.first + k)
                     IN  [subject |-> s, row |-> [c \in DOMAIN v.row |-> v.row[c][s]],
                          sets |-> [c \in DOMAIN v.values |-> ListOf(v, c, v.first + k)]]
<1>1. Laid(v) = [k \in 0 .. n - 1 |-> lay(k)]
  BY DEF Laid
<1>2. ASSUME NEW s \in Of(prog, t), NEW k, v.first + k = v.id[s] PROVE lay(k) = RowOfSubject(v, s)
  <2>1. SubjectOf(v, v.first + k) = s
    BY <1>2, IdsAre
  <2> QED
    BY <1>2, <2>1 DEF RowOfSubject
<1> HIDE DEF lay
<1>3. ASSUME NEW s \in Of(prog, t)
      PROVE  v.id[s] - v.first \in 0 .. n - 1 /\ v.first + (v.id[s] - v.first) = v.id[s]
  <2>1. v.id[s] \in Nat /\ v.first \in Nat /\ n \in Nat /\ v.first <= v.id[s] /\ v.id[s] < v.first + n
    BY IdsAre
  <2> QED
    BY <2>1
<1>4. ASSUME NEW k \in 0 .. n - 1 PROVE \E s \in Of(prog, t) : v.first + k = v.id[s]
  BY IdsAre
<1>5. ASSUME NEW s \in Of(prog, t)
      PROVE  v.id[s] - v.first \in DOMAIN Laid(v) /\ Laid(v)[v.id[s] - v.first] = RowOfSubject(v, s)
  BY <1>1, <1>2, <1>3
<1>6. ASSUME NEW x \in Range(Laid(v)) PROVE \E s \in Of(prog, t) : x = RowOfSubject(v, s)
  <2>1. PICK k \in 0 .. n - 1 : x = lay(k)
    BY <1>1 DEF Range
  <2> QED
    BY <1>2, <1>4, <2>1
<1>7. ASSUME NEW s \in Of(prog, t) PROVE RowOfSubject(v, s) \in Range(Laid(v))
  BY <1>5 DEF Range
<1> HIDE DEF v
<1>8. Range(Laid(v)) = {RowOfSubject(v, s) : s \in Of(prog, t)}
  BY <1>6, <1>7
<1> QED
  BY <1>5, <1>8 DEF v

\* What is read back of a row is what its subject was given.
LEMMA RowReadIs ==
    ASSUME NEW prog, IsProgram(prog), Sound(prog), NEW t \in Labels(prog), NEW s \in Of(prog, t), NEW u
    PROVE  u \in RowRead(t, RowOfSubject(Vertex(prog, t), s)) <=>
               \/ u = <<s, "type", t>>
               \/ \E c, x : ~IsEdge(c) /\ Gives(prog, t, s, c, x) /\ u = <<s, c, Term(x)>>
<1> DEFINE v == Vertex(prog, t)
           A == {<<s, "type", t>>}
           B == {<<s, c, Term(v.row[c][s])>> : c \in {x \in DOMAIN v.row : v.row[x][s] # Null}}
           C == UNION {{<<s, c, x>> : x \in ListOf(v, c, v.id[s])} : c \in DOMAIN v.values}
<1>1. RowRead(t, RowOfSubject(v, s)) = A \cup B \cup C
  <2> DEFINE w == RowOfSubject(v, s)
  <2>1. /\ w.subject = s
        /\ w.row = [c \in DOMAIN v.row |-> v.row[c][s]]
        /\ w.sets = [c \in DOMAIN v.values |-> ListOf(v, c, v.id[s])]
    BY DEF RowOfSubject
  <2> HIDE DEF w
  <2>2. RowRead(t, w) = {<<w.subject, "type", t>>}
            \cup {<<w.subject, c, Term(w.row[c])>> : c \in {x \in DOMAIN w.row : w.row[x] # Null}}
            \cup (UNION {{<<w.subject, c, x>> : x \in w.sets[c]} : c \in DOMAIN w.sets})
    BY DEF RowRead
  <2>3. {<<w.subject, c, Term(w.row[c])>> : c \in {x \in DOMAIN w.row : w.row[x] # Null}} = B
    BY <2>1
  <2>4. (UNION {{<<w.subject, c, x>> : x \in w.sets[c]} : c \in DOMAIN w.sets}) = C
    BY <2>1
  <2> HIDE DEF B, C
  <2>5. RowRead(t, w) = A \cup B \cup C
    BY <2>1, <2>2, <2>3, <2>4
  <2> QED
    BY <2>5 DEF w
<1>2. u \in B <=> \E c \in DOMAIN v.row : \E x : Gives(prog, t, s, c, x) /\ u = <<s, c, Term(x)>>
  <2>1. ASSUME NEW c \in DOMAIN v.row
        PROVE  (v.row[c][s] # Null /\ u = <<s, c, Term(v.row[c][s])>>)
                   <=> \E x : Gives(prog, t, s, c, x) /\ u = <<s, c, Term(x)>>
    BY HeldValues
  <2> QED
    BY <2>1
<1>3. ASSUME NEW c \in DOMAIN v.values, NEW y
      PROVE  y \in ListOf(v, c, v.id[s]) <=> \E x : Gives(prog, t, s, c, x) /\ y = Term(x)
  <2>1. \A p : p \in v.values[c] <=> \E a \in Of(prog, t) : \E x : Gives(prog, t, a, c, x) /\ p = <<v.id[a], x>>
    BY HeldValues
  <2>2. \A a \in Of(prog, t) : v.id[a] = v.id[s] => a = s
    BY IdsAre
  <2>3. y \in ListOf(v, c, v.id[s]) <=> \E p \in v.values[c] : p[1] = v.id[s] /\ y = Term(p[2])
    BY DEF ListOf
  <2> HIDE DEF v
  <2>4. ASSUME NEW x, Gives(prog, t, s, c, x), y = Term(x)
        PROVE  \E p \in v.values[c] : p[1] = v.id[s] /\ y = Term(p[2])
    <3>1. <<v.id[s], x>> \in v.values[c]
      BY <2>1, <2>4
    <3>2. <<v.id[s], x>>[1] = v.id[s] /\ y = Term(<<v.id[s], x>>[2])
      BY <2>4
    <3> QED
      BY <3>1, <3>2
  <2>5. ASSUME NEW p \in v.values[c], p[1] = v.id[s], y = Term(p[2])
        PROVE  \E x : Gives(prog, t, s, c, x) /\ y = Term(x)
    BY <2>1, <2>2, <2>5
  <2> QED
    BY <2>3, <2>4, <2>5
<1>4. u \in C <=> \E c \in DOMAIN v.values : \E x : Gives(prog, t, s, c, x) /\ u = <<s, c, Term(x)>>
  BY <1>3
<1>5. \A c, x : ~IsEdge(c) /\ Gives(prog, t, s, c, x) => c \in DOMAIN v.row \cup DOMAIN v.values
  BY HeldValues
<1>6. \A c \in DOMAIN v.row \cup DOMAIN v.values : ~IsEdge(c)
  BY HeldValues
<1> HIDE DEF v, B, C
<1> QED
  BY <1>1, <1>2, <1>4, <1>5, <1>6 DEF v

\* The GraphAr tables of a program that is not refused.
LaidOf(prog) ==
    [refused |-> "no",
     vertices |-> [t \in Labels(prog) |-> Laid(Vertex(prog, t))],
     edges |-> {[edge |-> t.edge, dropped |-> t.dropped,
                 pairs |-> Indices(t, Vertex(prog, t.edge.source), Vertex(prog, t.edge.destination))] :
                   t \in EdgeTables(prog)}]

\* What is read back of an edge table is what the rows related.
LEMMA PairsReadIs ==
    ASSUME NEW prog, IsProgram(prog), Sound(prog), NEW u
    PROVE  (\E t \in LaidOf(prog).edges : u \in PairsRead(LaidOf(prog), t)) <=> SaysLink(prog, u)
<1> DEFINE laid == LaidOf(prog)
           Index(e) == [edge |-> e, dropped |-> TableOf(prog, e).dropped,
                        pairs |-> Indices(TableOf(prog, e), Vertex(prog, e.source), Vertex(prog, e.destination))]
<1>1. /\ laid.vertices = [t \in Labels(prog) |-> Laid(Vertex(prog, t))]
      /\ laid.edges = {[edge |-> t.edge, dropped |-> t.dropped,
                        pairs |-> Indices(t, Vertex(prog, t.edge.source), Vertex(prog, t.edge.destination))] :
                          t \in EdgeTables(prog)}
  BY DEF LaidOf
<1>2. ASSUME NEW t PROVE t \in laid.edges <=> \E e \in Related(prog) : t = Index(e)
  BY <1>1, EdgeTablesAre, PairsAre
<1>3. ASSUME NEW e \in Related(prog)
      PROVE  u \in PairsRead(laid, Index(e)) <=> \E a, b : Joins(prog, e, a, b) /\ u = <<a, e.label, b>>
  <2> DEFINE from == Vertex(prog, e.source)
             to == Vertex(prog, e.destination)
             one(i) == laid.vertices[e.source][i].subject
             two(i) == laid.vertices[e.destination][i].subject
             P == TableOf(prog, e).pairs
  <2>1. u \in PairsRead(laid, Index(e)) <=>
            \E p \in P : u = <<one(p[1] - from.first), e.label, two(p[2] - to.first)>>
    <3>1. PairsRead(laid, Index(e)) = {<<one(p[1]), e.label, two(p[2])>> : p \in Indices(TableOf(prog, e), from, to)}
      BY DEF PairsRead
    <3> HIDE DEF one, two, from, to
    <3>2. Indices(TableOf(prog, e), from, to) = {<<p[1] - from.first, p[2] - to.first>> : p \in P}
      BY DEF Indices
    <3> HIDE DEF P
    <3>3. ASSUME NEW p \in P, u = <<one(p[1] - from.first), e.label, two(p[2] - to.first)>>
          PROVE  \E q \in Indices(TableOf(prog, e), from, to) : u = <<one(q[1]), e.label, two(q[2])>>
      <4> DEFINE q == <<p[1] - from.first, p[2] - to.first>>
      <4>1. q \in Indices(TableOf(prog, e), from, to) /\ u = <<one(q[1]), e.label, two(q[2])>>
        BY <3>2, <3>3
      <4> QED
        BY <4>1
    <3>4. ASSUME NEW q \in Indices(TableOf(prog, e), from, to), u = <<one(q[1]), e.label, two(q[2])>>
          PROVE  \E p \in P : u = <<one(p[1] - from.first), e.label, two(p[2] - to.first)>>
      BY <3>2, <3>4
    <3> QED
      BY <3>1, <3>3, <3>4
  <2>2. \A p : p \in P <=> \E a, b : Joins(prog, e, a, b) /\ p = <<from.id[a], to.id[b]>>
    BY PairsAre
  <2>3. ASSUME NEW a, NEW b, Joins(prog, e, a, b)
        PROVE  one(from.id[a] - from.first) = a /\ two(to.id[b] - to.first) = b
    <3>1. e.source \in Labels(prog) /\ e.destination \in Labels(prog)
      BY HeldLinks
    <3>2. a \in Of(prog, e.source) /\ b \in Of(prog, e.destination)
      BY <2>3, HeldLinks, IdsAre
    <3>3. laid.vertices[e.source] = Laid(from) /\ laid.vertices[e.destination] = Laid(to)
      BY <1>1, <3>1
    <3>4. Laid(from)[from.id[a] - from.first] = RowOfSubject(from, a) /\ Laid(to)[to.id[b] - to.first] = RowOfSubject(to, b)
      BY <3>2, LaidIs
    <3> QED
      BY <3>3, <3>4 DEF RowOfSubject
  <2> HIDE DEF from, to, one, two, P
  <2>4. ASSUME NEW a, NEW b, Joins(prog, e, a, b), u = <<a, e.label, b>>
        PROVE  \E p \in P : u = <<one(p[1] - from.first), e.label, two(p[2] - to.first)>>
    <3> DEFINE p == <<from.id[a], to.id[b]>>
    <3>1. p \in P
      BY <2>2, <2>4
    <3>2. u = <<one(p[1] - from.first), e.label, two(p[2] - to.first)>>
      BY <2>3, <2>4
    <3> QED
      BY <3>1, <3>2
  <2>5. ASSUME NEW p \in P, u = <<one(p[1] - from.first), e.label, two(p[2] - to.first)>>
        PROVE  \E a, b : Joins(prog, e, a, b) /\ u = <<a, e.label, b>>
    BY <2>2, <2>3, <2>5
  <2> QED
    BY <2>1, <2>4, <2>5
<1> HIDE DEF laid, Index
<1> QED
  BY <1>2, <1>3, HeldLinks DEF laid

\* A reader of the GraphAr tables gets back what the rows say.
LEMMA ImageIsSaid ==
    ASSUME NEW prog, IsProgram(prog), Sound(prog)
    PROVE  Image(LaidOf(prog)) = Said(prog)
<1> DEFINE laid == LaidOf(prog)
           L == Labels(prog)
<1>1. laid.vertices = [t \in L |-> Laid(Vertex(prog, t))]
  BY DEF LaidOf
<1>2. ASSUME NEW u, NEW t \in L
      PROVE  (\E v \in Range(laid.vertices[t]) : u \in RowRead(t, v)) <=>
                 \/ \E s : Minted(prog, t, s) /\ u = <<s, "type", t>>
                 \/ \E s, c, x : ~IsEdge(c) /\ Gives(prog, t, s, c, x) /\ u = <<s, c, Term(x)>>
  <2>1. Range(laid.vertices[t]) = {RowOfSubject(Vertex(prog, t), s) : s \in Of(prog, t)}
    BY <1>1, LaidIs
  <2>2. (\E v \in Range(laid.vertices[t]) : u \in RowRead(t, v)) <=>
            \E s \in Of(prog, t) : u \in RowRead(t, RowOfSubject(Vertex(prog, t), s))
    BY <2>1
  <2>3. \A s : s \in Of(prog, t) <=> Minted(prog, t, s)
    BY SubjectedAre DEF Of
  <2>4. \A s, c, x : Gives(prog, t, s, c, x) => Minted(prog, t, s)
    BY GivenAre
  <2> QED
    BY <2>2, <2>3, <2>4, RowReadIs
<1>3. ASSUME NEW u PROVE u \in Image(laid) <=> SaysClass(prog, u) \/ SaysValue(prog, u) \/ SaysLink(prog, u)
  <2>1. u \in Image(laid) <=>
            \/ \E t \in L : \E v \in Range(laid.vertices[t]) : u \in RowRead(t, v)
            \/ \E t \in laid.edges : u \in PairsRead(laid, t)
    BY <1>1 DEF Image
  <2>2. (\E t \in L : \E s : Minted(prog, t, s) /\ u = <<s, "type", t>>) <=> SaysClass(prog, u)
    BY NumberedAre DEF SaysClass
  <2>3. (\E t \in L : \E s, c, x : ~IsEdge(c) /\ Gives(prog, t, s, c, x) /\ u = <<s, c, Term(x)>>)
            <=> SaysValue(prog, u)
    BY GivenAre DEF SaysValue
  <2>4. (\E t \in laid.edges : u \in PairsRead(laid, t)) <=> SaysLink(prog, u)
    BY PairsReadIs
  <2> HIDE DEF laid
  <2> QED
    BY <1>2, <2>1, <2>2, <2>3, <2>4
<1> QED
  BY <1>3, SaidIs

(***************************************************************************)
(* Tables: why a program has no graph.                                     *)
(***************************************************************************)

SeveralSomewhere(prog) == \E t \in Labels(prog) : Several(Group(prog, t))
EndsSomewhere(prog) == \E t \in EdgeTables(prog) : SeveralEnds(t)

\* Which refusal Execute answers, by the first cause it meets.
LEMMA RefusalIs ==
    ASSUME NEW prog
    PROVE  /\ Execute(prog).refused = "no" <=>
                 ~SeveralSomewhere(prog) /\ ~Outgrown(prog) /\ Unregistered(prog) = {} /\ ~EndsSomewhere(prog)
           /\ Refusal(prog) =
                 IF SeveralSomewhere(prog) THEN "too-many-values"
                 ELSE IF Outgrown(prog) THEN "too-large"
                 ELSE IF Unregistered(prog) # {} THEN "no-table"
                 ELSE IF EndsSomewhere(prog) THEN "too-many-values"
                 ELSE IF NotSubjects(GraphOf(prog)) THEN "invalid-subject"
                 ELSE IF SharedSubject(GraphOf(prog)) \/ TwiceInSet(GraphOf(prog)) THEN "duplicate-value"
                 ELSE "no"
<1>1. Execute(prog) =
         IF SeveralSomewhere(prog) THEN [refused |-> "too-many-values"]
         ELSE IF Outgrown(prog) THEN [refused |-> "too-large"]
         ELSE IF Unregistered(prog) # {} THEN [refused |-> "no-table"]
         ELSE IF EndsSomewhere(prog) THEN [refused |-> "too-many-values"]
         ELSE GraphOf(prog)
  BY DEF Execute, GraphOf, SeveralSomewhere, EndsSomewhere
<1>2. GraphOf(prog).refused = "no"
  BY DEF GraphOf
<1>3. Layout(GraphOf(prog)).refused =
         IF NotSubjects(GraphOf(prog)) THEN "invalid-subject"
         ELSE IF SharedSubject(GraphOf(prog)) \/ TwiceInSet(GraphOf(prog)) THEN "duplicate-value"
         ELSE "no"
  BY DEF Layout
<1>4. Execute(prog).refused =
         IF SeveralSomewhere(prog) THEN "too-many-values"
         ELSE IF Outgrown(prog) THEN "too-large"
         ELSE IF Unregistered(prog) # {} THEN "no-table"
         ELSE IF EndsSomewhere(prog) THEN "too-many-values"
         ELSE "no"
  BY <1>1, <1>2
<1>5. Refusal(prog) = IF Execute(prog).refused # "no" THEN Execute(prog).refused ELSE Layout(Execute(prog)).refused
  BY DEF Refusal
<1>6. Execute(prog).refused = "no" => Execute(prog) = GraphOf(prog)
  BY ExecuteGives
<1> QED
  BY <1>3, <1>4, <1>5, <1>6

\* Two values of a single column, by the rows.
LEMMA TwoValuesIs ==
    ASSUME NEW prog, IsProgram(prog)
    PROVE  SeveralSomewhere(prog) <=> TwoValues(prog)
<1>1. ASSUME SeveralSomewhere(prog) PROVE TwoValues(prog)
  <2>1. PICK t \in Labels(prog) : Several(Group(prog, t))
    BY <1>1 DEF SeveralSomewhere
  <2>2. PICK c \in Written(Group(prog, t)) \cap Single : \E s : Twice(prog, t, s, c)
    BY <2>1, SeveralAre
  <2>3. PICK s, x, y : Gives(prog, t, s, c, x) /\ Gives(prog, t, s, c, y) /\ x # y
    BY <2>2 DEF Twice
  <2>4. ~IsEdge(c)
    BY WrittenAre
  <2>5. PICK m \in Range(prog) : m.type = t /\ c \in m.writes
            /\ \E r \in Range(m.rows) : r.subject = s /\ x \in Range(r.cells[c]) /\ x # Null
    BY <2>3 DEF Gives
  <2>6. PICK n \in Range(prog) : n.type = t /\ c \in n.writes
            /\ \E r \in Range(n.rows) : r.subject = s /\ y \in Range(r.cells[c]) /\ y # Null
    BY <2>3 DEF Gives
  <2> QED
    BY <2>3, <2>4, <2>5, <2>6 DEF TwoValues
<1>2. ASSUME TwoValues(prog) PROVE SeveralSomewhere(prog)
  <2>1. PICK m \in Range(prog), n \in Range(prog) : m.type = n.type
            /\ \E q \in Range(m.rows), r \in Range(n.rows) :
                  /\ q.subject = r.subject
                  /\ \E c \in m.writes \cap n.writes \cap Single : ~IsEdge(c) /\
                        \E v \in Range(q.cells[c]), w \in Range(r.cells[c]) : v # Null /\ w # Null /\ v # w
    BY <1>2 DEF TwoValues
  <2>2. PICK q \in Range(m.rows), r \in Range(n.rows) :
                  /\ q.subject = r.subject
                  /\ \E c \in m.writes \cap n.writes \cap Single : ~IsEdge(c) /\
                        \E v \in Range(q.cells[c]), w \in Range(r.cells[c]) : v # Null /\ w # Null /\ v # w
    BY <2>1
  <2>3. PICK c \in m.writes \cap n.writes \cap Single : ~IsEdge(c) /\
                \E v \in Range(q.cells[c]), w \in Range(r.cells[c]) : v # Null /\ w # Null /\ v # w
    BY <2>2
  <2>4. PICK v \in Range(q.cells[c]), w \in Range(r.cells[c]) : v # Null /\ w # Null /\ v # w
    BY <2>3
  <2>5. Gives(prog, m.type, q.subject, c, v) /\ Gives(prog, m.type, q.subject, c, w)
    BY <2>1, <2>2, <2>3, <2>4 DEF Gives
  <2>6. Twice(prog, m.type, q.subject, c)
    BY <2>4, <2>5 DEF Twice
  <2>7. c \in Written(Group(prog, m.type)) \cap Single /\ m.type \in Labels(prog)
    BY <2>3, WrittenAre DEF Labels
  <2> QED
    BY <2>6, <2>7, SeveralAre DEF SeveralSomewhere
<1> QED
  BY <1>1, <1>2

\* The last table ends where the vertices do.
LEMMA OutgrownIs ==
    ASSUME NEW prog, IsProgram(prog)
    PROVE  Outgrown(prog) <=> Cardinality(Subjects(prog)) > MostVertices
<1> DEFINE n == Cardinality(Subjects(prog))
<1>1. n \in Nat /\ MostVertices \in Nat
  BY NumberedAre, FS_CardinalityType, TablesAssumption
<1>2. ASSUME NEW t PROVE End(Vertex(prog, t)) \in Nat /\ End(Vertex(prog, t)) <= n
  BY IdsAre, RangesApart
<1>3. ASSUME Outgrown(prog) PROVE n > MostVertices
  <2>1. PICK t \in Labels(prog) : End(Vertex(prog, t)) > MostVertices
    BY <1>3 DEF Outgrown
  <2> HIDE DEF n
  <2> QED
    BY <1>1, <1>2, <2>1
<1>4. ASSUME n > MostVertices PROVE Outgrown(prog)
  <2>1. Subjects(prog) # {}
    BY <1>1, <1>4, FS_EmptySet
  <2>2. PICK p \in Subjects(prog) : TRUE
    BY <2>1
  <2>3. Labels(prog) # {}
    BY <2>2, NumberedAre
  <2>4. PICK t \in Labels(prog) : \A u \in Labels(prog) : u # t => Opened(prog, u, t)
    BY <2>3, LastOpened
  <2>5. ASSUME NEW q \in Subjects(prog) PROVE q \in Earlier(prog, t) \cup Block(prog, t)
    <3>1. PICK u, s : q = <<u, s>> /\ Minted(prog, u, s)
      BY NumberedAre
    <3>2. u \in Labels(prog)
      BY <3>1, NumberedAre
    <3>3. CASE u = t
      BY <3>1, <3>3, SubjectedAre DEF Block
    <3>4. CASE u # t
      BY <2>4, <3>1, <3>2, <3>4, NumberedAre
    <3> QED
      BY <3>3, <3>4
  <2> DEFINE A == Earlier(prog, t)
             B == Block(prog, t)
  <2>6. IsFiniteSet(A) /\ IsFiniteSet(B) /\ Subjects(prog) = A \cup B
    BY <2>5, NumberedAre, BlockSize, FS_Subset
  <2>7. End(Vertex(prog, t)) = Cardinality(A) + Cardinality(B)
    BY IdsAre
  <2> HIDE DEF A, B
  <2>8. Cardinality(A \cup B) = Cardinality(A) + Cardinality(B) - Cardinality(A \cap B)
    BY <2>6, FS_Union
  <2>9. Cardinality(A) \in Nat /\ Cardinality(B) \in Nat /\ Cardinality(A \cap B) \in Nat
    BY <2>6, FS_CardinalityType, FS_Intersection
  <2>10. n <= End(Vertex(prog, t))
    BY <2>6, <2>7, <2>8, <2>9
  <2> HIDE DEF n
  <2> QED
    BY <1>1, <1>2, <1>4, <2>10 DEF Outgrown
<1> QED
  BY <1>3, <1>4

\* A relation to a type no mapping writes.
LEMMA UnwrittenIs ==
    ASSUME NEW prog, IsProgram(prog)
    PROVE  Unregistered(prog) # {} <=> Unwritten(prog)
<1>1. ASSUME NEW e \in Unregistered(prog) PROVE Unwritten(prog)
  <2>1. e \in Related(prog) /\ e.destination \notin Labels(prog)
    BY DEF Unregistered
  <2>2. PICK m \in Range(prog) : \E c \in m.writes : \E d \in Ranges[c] :
             e = [source |-> m.type, label |-> c, destination |-> d]
    BY <2>1, RelatedAre
  <2>3. PICK c \in m.writes : \E d \in Ranges[c] : e = [source |-> m.type, label |-> c, destination |-> d]
    BY <2>2
  <2>4. e.destination \in Ranges[c]
    BY <2>3
  <2> QED
    BY <2>1, <2>4 DEF Unwritten, Labels
<1>2. ASSUME Unwritten(prog) PROVE Unregistered(prog) # {}
  <2>1. PICK m \in Range(prog) : \E c \in m.writes : ~(Ranges[c] \subseteq Labels(prog))
    BY <1>2 DEF Unwritten, Labels
  <2>2. PICK c \in m.writes : ~(Ranges[c] \subseteq Labels(prog))
    BY <2>1
  <2>3. PICK d \in Ranges[c] : d \notin Labels(prog)
    BY <2>2
  <2> DEFINE e == [source |-> m.type, label |-> c, destination |-> d]
  <2>4. e \in Related(prog)
    BY RelatedAre
  <2>5. e \in Unregistered(prog)
    BY <2>3, <2>4 DEF Unregistered
  <2> QED
    BY <2>5
<1> QED
  BY <1>1, <1>2

\* Two ends of a single relation, by the rows.
LEMMA TwoEndsIs ==
    ASSUME NEW prog, IsProgram(prog), Unregistered(prog) = {}
    PROVE  EndsSomewhere(prog) <=> TwoEnds(prog)
<1>1. ASSUME NEW e \in Related(prog), NEW a, NEW b, Joins(prog, e, a, b)
      PROVE  /\ a \in DOMAIN Vertex(prog, e.source).id /\ b \in DOMAIN Vertex(prog, e.destination).id
  BY <1>1, GivenAre, IdsAre DEF Joins
<1>2. ASSUME EndsSomewhere(prog) PROVE TwoEnds(prog)
  <2>1. PICK e \in Related(prog) : SeveralEnds(TableOf(prog, e))
    BY <1>2, EdgeTablesAre DEF EndsSomewhere
  <2> DEFINE from == Vertex(prog, e.source).id
             to == Vertex(prog, e.destination).id
  <2>2. e.label \in Single
    BY <2>1, PairsAre DEF SeveralEnds
  <2>3. PICK p \in TableOf(prog, e).pairs, q \in TableOf(prog, e).pairs : p[1] = q[1] /\ p[2] # q[2]
    BY <2>1 DEF SeveralEnds
  <2>4. PICK a, b : Joins(prog, e, a, b) /\ p = <<from[a], to[b]>>
    BY <2>3, PairsAre
  <2>5. PICK x, y : Joins(prog, e, x, y) /\ q = <<from[x], to[y]>>
    BY <2>3, PairsAre
  <2>6. from[a] = from[x] /\ to[b] # to[y]
    BY <2>3, <2>4, <2>5
  <2>7. a = x /\ b # y
    BY <2>4, <2>5, <2>6, <1>1, IdsAre
  <2>8. PICK m \in Range(prog) : m.type = e.source /\ e.label \in m.writes
            /\ \E r \in Range(m.rows) : r.subject = a /\ b \in Range(r.cells[e.label]) /\ b # Null
    BY <2>4 DEF Joins, Gives
  <2>9. PICK n \in Range(prog) : n.type = e.source /\ e.label \in n.writes
            /\ \E r \in Range(n.rows) : r.subject = x /\ y \in Range(r.cells[e.label]) /\ y # Null
    BY <2>5 DEF Joins, Gives
  <2>10. PICK r \in Range(m.rows) : r.subject = a /\ b \in Range(r.cells[e.label]) /\ b # Null
    BY <2>8
  <2>11. PICK t \in Range(n.rows) : t.subject = x /\ y \in Range(t.cells[e.label]) /\ y # Null
    BY <2>9
  <2>12. /\ e.destination \in Ranges[e.label] /\ a # Null
         /\ Minted(prog, e.destination, b) /\ Minted(prog, e.destination, y)
    BY <2>4, <2>5, RelatedAre DEF Joins
  <2>13. /\ m.type = n.type /\ r.subject = t.subject /\ r.subject # Null
         /\ e.label \in m.writes \cap n.writes \cap Single
         /\ b \in Range(r.cells[e.label]) /\ y \in Range(t.cells[e.label]) /\ b # Null /\ y # Null /\ b # y
    BY <2>2, <2>7, <2>8, <2>9, <2>10, <2>11, <2>12
  <2> QED
    BY <2>12, <2>13 DEF TwoEnds
<1>3. ASSUME TwoEnds(prog) PROVE EndsSomewhere(prog)
  <2>1. PICK m \in Range(prog), n \in Range(prog) : m.type = n.type
            /\ \E q \in Range(m.rows), r \in Range(n.rows) :
                 /\ q.subject = r.subject /\ q.subject # Null
                 /\ \E c \in m.writes \cap n.writes \cap Single : \E t \in Ranges[c] :
                       \E v \in Range(q.cells[c]), w \in Range(r.cells[c]) :
                          v # Null /\ w # Null /\ v # w /\ Minted(prog, t, v) /\ Minted(prog, t, w)
    BY <1>3 DEF TwoEnds
  <2>2. PICK q \in Range(m.rows), r \in Range(n.rows) :
                 /\ q.subject = r.subject /\ q.subject # Null
                 /\ \E c \in m.writes \cap n.writes \cap Single : \E t \in Ranges[c] :
                       \E v \in Range(q.cells[c]), w \in Range(r.cells[c]) :
                          v # Null /\ w # Null /\ v # w /\ Minted(prog, t, v) /\ Minted(prog, t, w)
    BY <2>1
  <2>3. PICK c \in m.writes \cap n.writes \cap Single : \E t \in Ranges[c] :
                \E v \in Range(q.cells[c]), w \in Range(r.cells[c]) :
                    v # Null /\ w # Null /\ v # w /\ Minted(prog, t, v) /\ Minted(prog, t, w)
    BY <2>2
  <2>4. PICK t \in Ranges[c] :
                \E v \in Range(q.cells[c]), w \in Range(r.cells[c]) :
                    v # Null /\ w # Null /\ v # w /\ Minted(prog, t, v) /\ Minted(prog, t, w)
    BY <2>3
  <2>5. PICK v \in Range(q.cells[c]), w \in Range(r.cells[c]) :
                v # Null /\ w # Null /\ v # w /\ Minted(prog, t, v) /\ Minted(prog, t, w)
    BY <2>4
  <2> DEFINE e == [source |-> m.type, label |-> c, destination |-> t]
             from == Vertex(prog, e.source).id
             to == Vertex(prog, e.destination).id
             s == q.subject
  <2>6. e \in Related(prog)
    BY <2>4, RelatedAre
  <2>7. Gives(prog, m.type, s, c, v) /\ Gives(prog, m.type, s, c, w)
    BY <2>1, <2>2, <2>3, <2>5 DEF Gives
  <2>8. Joins(prog, e, s, v) /\ Joins(prog, e, s, w)
    BY <2>2, <2>5, <2>7 DEF Joins
  <2>9. /\ <<from[s], to[v]>> \in TableOf(prog, e).pairs
        /\ <<from[s], to[w]>> \in TableOf(prog, e).pairs
    BY <2>6, <2>8, PairsAre
  <2>10. to[v] # to[w]
    BY <1>1, <2>5, <2>6, <2>8, IdsAre
  <2>11. TableOf(prog, e).edge.label \in Single
    BY <2>3, <2>6, PairsAre
  <2>12. SeveralEnds(TableOf(prog, e))
    <3> DEFINE p1 == <<from[s], to[v]>>
               p2 == <<from[s], to[w]>>
    <3>1. p1 \in TableOf(prog, e).pairs /\ p2 \in TableOf(prog, e).pairs /\ p1[1] = p2[1] /\ p1[2] # p2[2]
      BY <2>9, <2>10
    <3> HIDE DEF e, p1, p2
    <3> QED
      BY <2>11, <3>1 DEF SeveralEnds
  <2> QED
    BY <2>6, <2>12, EdgeTablesAre DEF EndsSomewhere
<1> QED
  BY <1>2, <1>3

\* What the layout asks of subjects and of the elements of a set, by the rows.
LEMMA LayoutAsks ==
    ASSUME NEW prog, IsProgram(prog)
    PROVE  /\ NotSubjects(GraphOf(prog)) <=> \E s \in Subjects(prog) : s[2] \notin Iris
           /\ SharedSubject(GraphOf(prog)) <=> \E s, t \in Subjects(prog) : s[1] # t[1] /\ s[2] = t[2]
           /\ TwiceInSet(GraphOf(prog)) => OneTerm(prog)
           /\ OneTerm(prog) => TwiceInSet(GraphOf(prog)) \/ NotSubjects(GraphOf(prog))
<1> DEFINE g == GraphOf(prog)
           L == Labels(prog)
<1>1. DOMAIN g.vertices = L /\ \A t \in L : g.vertices[t] = Vertex(prog, t)
  BY DEF GraphOf
<1>2. ASSUME NEW t, NEW s PROVE <<t, s>> \in Subjects(prog) <=> t \in L /\ s \in DOMAIN Vertex(prog, t).id
  BY NumberedAre, IdsAre
<1>3. ASSUME NEW p \in Subjects(prog) PROVE \E t, s : p = <<t, s>>
  BY NumberedAre
<1>4. NotSubjects(g) <=> \E t \in L : \E s \in DOMAIN Vertex(prog, t).id : s \notin Iris
  BY <1>1 DEF NotSubjects
<1>5. NotSubjects(g) <=> \E s \in Subjects(prog) : s[2] \notin Iris
  <2>1. ASSUME NotSubjects(g) PROVE \E s \in Subjects(prog) : s[2] \notin Iris
    <3>1. PICK t \in L : \E s \in DOMAIN Vertex(prog, t).id : s \notin Iris
      BY <1>4, <2>1
    <3>2. PICK s \in DOMAIN Vertex(prog, t).id : s \notin Iris
      BY <3>1
    <3>3. <<t, s>> \in Subjects(prog) /\ <<t, s>>[2] = s
      BY <1>2
    <3> QED
      BY <3>2, <3>3
  <2>2. ASSUME NEW p \in Subjects(prog), p[2] \notin Iris PROVE NotSubjects(g)
    BY <1>2, <1>3, <1>4, <2>2
  <2> QED
    BY <2>1, <2>2
<1>6. SharedSubject(g) <=>
         \E t, u \in L : t # u /\ \E s : s \in DOMAIN Vertex(prog, t).id /\ s \in DOMAIN Vertex(prog, u).id
  BY <1>1 DEF SharedSubject
<1>7. SharedSubject(g) <=> \E s, t \in Subjects(prog) : s[1] # t[1] /\ s[2] = t[2]
  <2>1. ASSUME SharedSubject(g) PROVE \E s, t \in Subjects(prog) : s[1] # t[1] /\ s[2] = t[2]
    <3>1. PICK t \in L, u \in L :
                t # u /\ \E s : s \in DOMAIN Vertex(prog, t).id /\ s \in DOMAIN Vertex(prog, u).id
      BY <1>6, <2>1
    <3>2. PICK s : s \in DOMAIN Vertex(prog, t).id /\ s \in DOMAIN Vertex(prog, u).id
      BY <3>1
    <3> DEFINE p == <<t, s>>
               q == <<u, s>>
    <3>3. p \in Subjects(prog) /\ q \in Subjects(prog) /\ p[1] # q[1] /\ p[2] = q[2]
      BY <1>2, <3>1, <3>2
    <3> QED
      BY <3>3
  <2>2. ASSUME NEW p \in Subjects(prog), NEW q \in Subjects(prog), p[1] # q[1], p[2] = q[2]
        PROVE  SharedSubject(g)
    <3>1. PICK t, s : p = <<t, s>>
      BY <1>3
    <3>2. PICK u, x : q = <<u, x>>
      BY <1>3
    <3> QED
      BY <1>2, <1>6, <2>2, <3>1, <3>2
  <2> QED
    BY <2>1, <2>2
<1>8. ASSUME NEW t \in L
      PROVE  /\ DOMAIN Vertex(prog, t).values = Written(Group(prog, t)) \ Single
             /\ \A c \in DOMAIN Vertex(prog, t).values : \A p :
                   p \in Vertex(prog, t).values[c] <=>
                      \E s \in Of(prog, t) \ {Null} : \E x :
                          Gives(prog, t, s, c, x) /\ p = <<Vertex(prog, t).id[s], x>>
  BY ColumnsAre, ValuesAre
<1>9. ASSUME TwiceInSet(g) PROVE OneTerm(prog)
  <2>1. PICK t \in L : \E c \in DOMAIN Vertex(prog, t).values :
            \E p, q \in Vertex(prog, t).values[c] : p[1] = q[1] /\ p[2] # q[2] /\ Term(p[2]) = Term(q[2])
    BY <1>1, <1>9 DEF TwiceInSet
  <2>2. PICK c \in DOMAIN Vertex(prog, t).values :
            \E p, q \in Vertex(prog, t).values[c] : p[1] = q[1] /\ p[2] # q[2] /\ Term(p[2]) = Term(q[2])
    BY <2>1
  <2>3. PICK p \in Vertex(prog, t).values[c], q \in Vertex(prog, t).values[c] :
            p[1] = q[1] /\ p[2] # q[2] /\ Term(p[2]) = Term(q[2])
    BY <2>2
  <2> DEFINE id == Vertex(prog, t).id
  <2>S. PICK s \in Of(prog, t) : \E x : Gives(prog, t, s, c, x) /\ p = <<id[s], x>>
    BY <1>8
  <2>4. PICK x : Gives(prog, t, s, c, x) /\ p = <<id[s], x>>
    BY <2>S
  <2>A. PICK a \in Of(prog, t) : \E y : Gives(prog, t, a, c, y) /\ q = <<id[a], y>>
    BY <1>8
  <2>5. PICK y : Gives(prog, t, a, c, y) /\ q = <<id[a], y>>
    BY <2>A
  <2>6. id[s] = id[a] /\ x # y /\ Term(x) = Term(y)
    BY <2>3, <2>4, <2>5
  <2>7. s = a
    BY <2>6, IdsAre
  <2>8. c \notin Single /\ ~IsEdge(c)
    BY <1>8, WrittenAre
  <2>9. PICK m \in Range(prog) : m.type = t /\ c \in m.writes
            /\ \E r \in Range(m.rows) : r.subject = s /\ x \in Range(r.cells[c]) /\ x # Null
    BY <2>4 DEF Gives
  <2>10. PICK n \in Range(prog) : n.type = t /\ c \in n.writes
            /\ \E r \in Range(n.rows) : r.subject = s /\ y \in Range(r.cells[c]) /\ y # Null
    BY <2>5, <2>7 DEF Gives
  <2>11. PICK r \in Range(m.rows) : r.subject = s /\ x \in Range(r.cells[c]) /\ x # Null
    BY <2>9
  <2>12. PICK w \in Range(n.rows) : w.subject = s /\ y \in Range(w.cells[c]) /\ y # Null
    BY <2>10
  <2>13. /\ m.type = n.type /\ r.subject = w.subject /\ c \in (m.writes \cap n.writes) \ Single /\ ~IsEdge(c)
         /\ x \in Range(r.cells[c]) /\ y \in Range(w.cells[c])
         /\ x # Null /\ y # Null /\ x # y /\ Term(x) = Term(y)
    BY <2>6, <2>8, <2>9, <2>10, <2>11, <2>12
  <2> HIDE DEF id
  <2> QED
    BY <2>13 DEF OneTerm
<1>10. ASSUME OneTerm(prog), ~NotSubjects(g) PROVE TwiceInSet(g)
  <2>1. PICK m \in Range(prog), n \in Range(prog) : m.type = n.type
            /\ \E q \in Range(m.rows), r \in Range(n.rows) :
                  /\ q.subject = r.subject
                  /\ \E c \in (m.writes \cap n.writes) \ Single : ~IsEdge(c) /\
                        \E v \in Range(q.cells[c]), w \in Range(r.cells[c]) :
                           v # Null /\ w # Null /\ v # w /\ Term(v) = Term(w)
    BY <1>10 DEF OneTerm
  <2>2. PICK q \in Range(m.rows), r \in Range(n.rows) :
                  /\ q.subject = r.subject
                  /\ \E c \in (m.writes \cap n.writes) \ Single : ~IsEdge(c) /\
                        \E v \in Range(q.cells[c]), w \in Range(r.cells[c]) :
                           v # Null /\ w # Null /\ v # w /\ Term(v) = Term(w)
    BY <2>1
  <2>3. PICK c \in (m.writes \cap n.writes) \ Single : ~IsEdge(c) /\
                        \E v \in Range(q.cells[c]), w \in Range(r.cells[c]) :
                           v # Null /\ w # Null /\ v # w /\ Term(v) = Term(w)
    BY <2>2
  <2>4. PICK v \in Range(q.cells[c]), w \in Range(r.cells[c]) : v # Null /\ w # Null /\ v # w /\ Term(v) = Term(w)
    BY <2>3
  <2> DEFINE t == m.type
             s == q.subject
             p1 == <<Vertex(prog, t).id[s], v>>
             p2 == <<Vertex(prog, t).id[s], w>>
  <2>5. Gives(prog, t, s, c, v) /\ Gives(prog, t, s, c, w)
    BY <2>1, <2>2, <2>3, <2>4 DEF Gives
  <2>6. t \in L /\ s \in DOMAIN Vertex(prog, t).id /\ s \in Of(prog, t) /\ c \in DOMAIN Vertex(prog, t).values
    BY <2>3, <2>5, <1>8, GivenAre, IdsAre
  <2>7. s # Null
    BY <1>4, <1>10, <2>6, TablesAssumption
  <2>8. p1 \in Vertex(prog, t).values[c] /\ p2 \in Vertex(prog, t).values[c]
    BY <1>8, <2>5, <2>6, <2>7
  <2>9. p1[1] = p2[1] /\ p1[2] # p2[2] /\ Term(p1[2]) = Term(p2[2])
    BY <2>4
  <2> HIDE DEF p1, p2, t
  <2> QED
    BY <1>1, <2>6, <2>8, <2>9 DEF TwiceInSet
<1> QED
  BY <1>5, <1>7, <1>9, <1>10

\* The causes of a program, by its rows alone.
LEMMA CausesAre ==
    ASSUME NEW prog
    PROVE  \A r : r \in Causes(prog) <=>
               \/ r = "too-many-values" /\ (TwoValues(prog) \/ TwoEnds(prog))
               \/ r = "too-large" /\ Cardinality(Subjects(prog)) > MostVertices
               \/ r = "no-table" /\ Unwritten(prog)
               \/ r = "invalid-subject" /\ \E s \in Subjects(prog) : s[2] \notin Iris
               \/ r = "duplicate-value" /\
                     (OneTerm(prog) \/ \E s, t \in Subjects(prog) : s[1] # t[1] /\ s[2] = t[2])
  BY DEF Causes

\* A program is refused for a cause it has, and one that has a cause is refused.
THEOREM EveryRefusalHasCause ==
    ASSUME NEW prog, IsProgram(prog)
    PROVE  RefusedFor(prog)
<1> DEFINE large == Cardinality(Subjects(prog)) > MostVertices
           invalid == \E s \in Subjects(prog) : s[2] \notin Iris
           shared == \E s, t \in Subjects(prog) : s[1] # t[1] /\ s[2] = t[2]
           g == GraphOf(prog)
<1>1. SeveralSomewhere(prog) <=> TwoValues(prog)
  BY TwoValuesIs
<1>2. Outgrown(prog) <=> large
  BY OutgrownIs
<1>3. Unregistered(prog) # {} <=> Unwritten(prog)
  BY UnwrittenIs
<1>4. Unregistered(prog) = {} => (EndsSomewhere(prog) <=> TwoEnds(prog))
  BY TwoEndsIs
<1>5. /\ NotSubjects(g) <=> invalid
      /\ SharedSubject(g) <=> shared
      /\ TwiceInSet(g) => OneTerm(prog)
      /\ OneTerm(prog) => TwiceInSet(g) \/ NotSubjects(g)
  BY LayoutAsks
<1>6. /\ "too-many-values" \in Causes(prog) <=> TwoValues(prog) \/ TwoEnds(prog)
      /\ "too-large" \in Causes(prog) <=> large
      /\ "no-table" \in Causes(prog) <=> Unwritten(prog)
      /\ "invalid-subject" \in Causes(prog) <=> invalid
      /\ "duplicate-value" \in Causes(prog) <=> OneTerm(prog) \/ shared
  BY CausesAre
<1>7. Causes(prog) = {} <=>
         ~(TwoValues(prog) \/ TwoEnds(prog) \/ large \/ Unwritten(prog) \/ invalid \/ OneTerm(prog) \/ shared)
  BY CausesAre
<1>8. Refusal(prog) =
         IF SeveralSomewhere(prog) THEN "too-many-values"
         ELSE IF Outgrown(prog) THEN "too-large"
         ELSE IF Unregistered(prog) # {} THEN "no-table"
         ELSE IF EndsSomewhere(prog) THEN "too-many-values"
         ELSE IF NotSubjects(g) THEN "invalid-subject"
         ELSE IF SharedSubject(g) \/ TwiceInSet(g) THEN "duplicate-value"
         ELSE "no"
  BY RefusalIs
<1> HIDE DEF large, invalid, shared, g
<1> QED
  BY <1>1, <1>2, <1>3, <1>4, <1>5, <1>6, <1>7, <1>8 DEF RefusedFor

\* A program without a cause is executed.
LEMMA NotRefused ==
    ASSUME NEW prog, IsProgram(prog), Refusal(prog) = "no"
    PROVE  Sound(prog) /\ Execute(prog) = GraphOf(prog) /\ Layout(GraphOf(prog)) = LaidOf(prog)
<1>1. /\ ~SeveralSomewhere(prog) /\ ~Outgrown(prog) /\ Unregistered(prog) = {} /\ ~EndsSomewhere(prog)
      /\ ~NotSubjects(GraphOf(prog)) /\ ~SharedSubject(GraphOf(prog)) /\ ~TwiceInSet(GraphOf(prog))
  BY RefusalIs
<1>2. Execute(prog) = GraphOf(prog)
  BY <1>1, RefusalIs, ExecuteGives
<1>3. ASSUME NEW t, NEW s, Minted(prog, t, s) PROVE s # Null
  <2>1. <<t, s>> \in Subjects(prog)
    BY <1>3, NumberedAre
  <2>2. <<t, s>>[2] \in Iris
    BY <1>1, <2>1, LayoutAsks
  <2> QED
    BY <2>2, TablesAssumption
<1>4. Sound(prog)
  BY <1>1, <1>3 DEF Sound, SeveralSomewhere
<1>5. Layout(GraphOf(prog)) = LaidOf(prog)
  <2> DEFINE g == GraphOf(prog)
             V == [t \in DOMAIN g.vertices |-> Laid(g.vertices[t])]
             E == {[edge |-> t.edge, dropped |-> t.dropped,
                    pairs |-> Indices(t, g.vertices[t.edge.source], g.vertices[t.edge.destination])] : t \in g.edges}
             W == [t \in Labels(prog) |-> Laid(Vertex(prog, t))]
             F == {[edge |-> t.edge, dropped |-> t.dropped,
                    pairs |-> Indices(t, Vertex(prog, t.edge.source), Vertex(prog, t.edge.destination))] :
                      t \in EdgeTables(prog)}
  <2>1. /\ DOMAIN g.vertices = Labels(prog) /\ g.edges = EdgeTables(prog)
        /\ \A t \in Labels(prog) : g.vertices[t] = Vertex(prog, t)
    BY DEF GraphOf
  <2>2. \A t \in EdgeTables(prog) : t.edge.source \in Labels(prog) /\ t.edge.destination \in Labels(prog)
    BY <1>4, EdgeTablesAre, PairsAre, HeldLinks
  <2>3. V = W
    BY <2>1
  <2>4. E = F
    BY <2>1, <2>2
  <2>5. Layout(g) = [refused |-> "no", vertices |-> V, edges |-> E]
    BY <1>1 DEF Layout
  <2> HIDE DEF V, E
  <2>6. Layout(g) = [refused |-> "no", vertices |-> W, edges |-> F]
    BY <2>3, <2>4, <2>5
  <2> QED
    BY <2>6 DEF LaidOf
<1> QED
  BY <1>2, <1>4, <1>5

\* A program that is executed has its rows in both its sinks: the triples of its tables, and
\* what a reader of the tables gets back, are what the rows say and nothing else.
THEOREM EverySinkSaysTheRows ==
    ASSUME NEW prog, IsProgram(prog)
    PROVE  SameGraph(prog)
<1> SUFFICES ASSUME Refusal(prog) = "no"
             PROVE  Triples(Execute(prog)) = Said(prog) /\ Image(Layout(Execute(prog))) = Said(prog)
  BY DEF SameGraph
<1>1. Sound(prog) /\ Execute(prog) = GraphOf(prog) /\ Layout(GraphOf(prog)) = LaidOf(prog)
  BY NotRefused
<1> QED
  BY <1>1, TriplesAreSaid, ImageIsSaid

\* The count of dropped edges is that of the rows naming no vertex.
LEMMA EveryDropIsDangling ==
    ASSUME NEW prog, IsProgram(prog)
    PROVE  DroppedCounted(prog)
<1> SUFFICES ASSUME Refusal(prog) = "no", NEW t \in Execute(prog).edges
             PROVE  t.dropped = Cardinality(Dangling(prog, t.edge))
  BY DEF DroppedCounted
<1>1. Execute(prog) = GraphOf(prog)
  BY NotRefused
<1>2. t \in EdgeTables(prog)
  BY <1>1 DEF GraphOf
<1> QED
  BY <1>2, EdgeTablesAre, PairsAre

(***************************************************************************)
(* Tables: every program, a mapping and a row at a time.                   *)
(***************************************************************************)

\* What is built a mapping and a row at a time is a program.
LEMMA ProgramsGrow == TablesSpec => []IsProgram(mappings)
<1> DEFINE M == [type : Types, writes : SUBSET Columns, rows : UNION {Seq(RowOver(w)) : w \in SUBSET Columns}]
<1>1. TablesInit => IsProgram(mappings)
  BY DEF TablesInit, IsProgram
<1>2. IsProgram(mappings) /\ [TablesNext]_mappings => IsProgram(mappings)'
  <2> SUFFICES ASSUME IsProgram(mappings), [TablesNext]_mappings PROVE IsProgram(mappings')
    BY DEF IsProgram
  <2>0. mappings \in Seq(M) /\ \A k \in DOMAIN mappings : mappings[k].rows \in Seq(RowOver(mappings[k].writes))
    BY DEF IsProgram
  <2>1. CASE UNCHANGED mappings
    BY <2>1
  <2>2. CASE AddMapping
    <3>1. PICK t \in Types : \E w \in MayWrite(t) :
                 mappings' = Append(mappings, [type |-> t, writes |-> w, rows |-> <<>>])
      BY <2>2 DEF AddMapping
    <3>2. PICK w \in MayWrite(t) : mappings' = Append(mappings, [type |-> t, writes |-> w, rows |-> <<>>])
      BY <3>1
    <3> DEFINE m == [type |-> t, writes |-> w, rows |-> <<>>]
    <3>3. w \in SUBSET Columns
      BY TablesAssumption
    <3>4. m.rows \in Seq(RowOver(m.writes))
      OBVIOUS
    <3>5. m \in M
      BY <3>3, <3>4
    <3> HIDE DEF M, m
    <3>6. mappings' \in Seq(M)
      BY <2>0, <3>2, <3>5 DEF m
    <3>7. \A k \in DOMAIN mappings' : mappings'[k] = m \/ (k \in DOMAIN mappings /\ mappings'[k] = mappings[k])
      BY <2>0, <3>2 DEF m
    <3>8. \A k \in DOMAIN mappings' : mappings'[k].rows \in Seq(RowOver(mappings'[k].writes))
      BY <2>0, <3>4, <3>7
    <3> QED
      BY <3>6, <3>8 DEF IsProgram, M
  <2>3. CASE AddRow
    <3> DEFINE k == Len(mappings)
    <3>1. mappings # <<>> /\ \E s \in Iris \cup Relative \cup {Null}, f \in MayHold(mappings[k].writes) :
              mappings' = [mappings EXCEPT ![k].rows = Append(@, [subject |-> s, cells |-> f])]
      BY <2>3 DEF AddRow
    <3>2. PICK s \in Iris \cup Relative \cup {Null}, f \in MayHold(mappings[k].writes) :
              mappings' = [mappings EXCEPT ![k].rows = Append(@, [subject |-> s, cells |-> f])]
      BY <3>1
    <3> DEFINE m == mappings[k]
               r == [subject |-> s, cells |-> f]
               n == [m EXCEPT !.rows = Append(m.rows, r)]
    <3>3. k \in DOMAIN mappings
      BY <2>0, <3>1
    <3>4. MappingIs(m)
      BY <3>3, MappingsAre
    <3>5. r \in RowOver(m.writes)
      BY <3>4, TablesAssumption DEF RowOver, MappingIs
    <3>6. Append(m.rows, r) \in Seq(RowOver(m.writes))
      BY <3>4, <3>5 DEF MappingIs
    <3>7. m \in M
      <4> HIDE DEF M
      <4> QED
        BY <2>0, <3>3, SequenceFinite
    <3>8. n \in M /\ n.writes = m.writes /\ n.rows = Append(m.rows, r)
      <4>1. m.writes \in SUBSET Columns
        BY <3>7
      <4>2. Append(m.rows, r) \in UNION {Seq(RowOver(w)) : w \in SUBSET Columns}
        BY <3>6, <4>1
      <4> DEFINE a == Append(m.rows, r)
      <4> HIDE DEF a
      <4>3. [m EXCEPT !.rows = a] \in M /\ [m EXCEPT !.rows = a].writes = m.writes /\ [m EXCEPT !.rows = a].rows = a
        BY <3>7, <4>2 DEF a
      <4> QED
        BY <4>3 DEF a
    <3>9. mappings' = [mappings EXCEPT ![k] = n]
      BY <3>2
    <3> HIDE DEF M, m, n, k
    <3>10. mappings' \in Seq(M)
      BY <2>0, <3>3, <3>8, <3>9
    <3>11. \A i \in DOMAIN mappings' : i \in DOMAIN mappings /\ mappings'[i] = IF i = k THEN n ELSE mappings[i]
      BY <2>0, <3>3, <3>9
    <3>12. \A i \in DOMAIN mappings' : mappings'[i].rows \in Seq(RowOver(mappings'[i].writes))
      BY <2>0, <3>6, <3>8, <3>11
    <3> QED
      BY <3>10, <3>12 DEF IsProgram, M
  <2> QED
    BY <2>1, <2>2, <2>3 DEF TablesNext
<1> QED
  BY <1>1, <1>2, PTL DEF TablesSpec

\* Whatever mappings a program has and in whatever order, the triples of its graph and
\* what a reader of its tables gets back are what its rows say.
THEOREM SinksSayTheRows == TablesSpec => []SameImage
<1>1. IsProgram(mappings) => SameImage
  BY EverySinkSaysTheRows DEF SameImage
<1> QED
  BY <1>1, ProgramsGrow, PTL

\* Whatever its rows are, a program is refused for what they say and only for that, and
\* the rows counted as dropped are those that name no vertex.
THEOREM RunTellsTrue == TablesSpec => []RowsToldTrue
<1>1. IsProgram(mappings) => RowsToldTrue
  BY EveryRefusalHasCause, EveryDropIsDangling DEF RowsToldTrue
<1> QED
  BY <1>1, ProgramsGrow, PTL

=============================================================================
