--------------------------- MODULE GraphWriteProofs ---------------------------
(***************************************************************************)
(* Proofs about GraphWrite, for any runs, prefixes, programs and formats.  *)
(*                                                                         *)
(* StepInv says where a run may stand with what it has put; StoreInv says  *)
(* what that leaves in the stores.  What a reader, a caller and a stopped  *)
(* run are promised follows from the second, and the first makes it        *)
(* inductive.                                                              *)
(***************************************************************************)
EXTENDS GraphWrite, SequenceTheorems, TLAPS

Early == {"idle", "granting", "routing", "executing", "laying"}

\* A run whose writer has started.
HasWritten(r) ==
    \/ step[r] \in {"writing", "holding", "done", "stopped"}
    \/ step[r] = "failed" /\ failure[r] = "write"

\* Where a run stands.
Standing(r) ==
    /\ step[r] \in Early => sent[r] = 0
    /\ step[r] \in {"idle", "granting"} => dest[r] = None
    /\ step[r] \in {"routing", "executing", "laying", "writing", "holding", "done"} =>
         dest[r] \in Prefixes \cup {r}
    /\ sent[r] > 0 => dest[r] \in Prefixes \cup {r}
    /\ sent[r] <= Len(Order(r))
    /\ step[r] = "writing" => sent[r] < Len(Order(r))
    /\ step[r] \in {"holding", "done"} => sent[r] = Len(Order(r))
    /\ step[r] = "holding" => dest[r] = r
    /\ request[r] = "put" => step[r] = "writing"
    /\ request[r] \in {"head", "body"} => step[r] = "executing"

StepInv == \A r \in Runs : Standing(r)

\* What a run put is there.
PutInv ==
    \A r \in Runs : \A i \in 1 .. sent[r] : stored[dest[r]][Order(r)[i]] # None

\* A put nobody waits for is the next of a run that ended.
LateInv ==
    \A r \in Runs, p \in Prefixes, f \in Files : <<r, p, f>> \in late =>
        /\ p = dest[r]
        /\ sent[r] < Len(Order(r))
        /\ f = Turn(r)
        /\ step[r] \in Ended
        /\ HasWritten(r)

\* What is there of a run, it put, or left to land.
ThereInv ==
    \A r \in Runs, p \in Places, f \in Files : stored[p][f] = r =>
        /\ p = dest[r]
        /\ HasWritten(r)
        /\ \E i \in 1 .. Len(Order(r)) : i <= sent[r] + 1 /\ f = Order(r)[i]

\* A memory holds what its run put, and nothing else.
MemoryInv ==
    \A r \in Runs :
        /\ \A f \in Files : stored[r][f] # None =>
             dest[r] = r /\ \E i \in 1 .. sent[r] : f = Order(r)[i]
        /\ step[r] = "done" /\ dest[r] = r => answer[r] = Listed(r)

StoreInv == PutInv /\ LateInv /\ ThereInv /\ MemoryInv

IInv == TypeOK /\ StepInv /\ StoreInv

(***************************************************************************)
(* The order of the objects.                                               *)
(***************************************************************************)

\* The tables of a run are its vertex tables, then its edge tables.
LEMMA TablesType == ASSUME NEW r \in Runs PROVE Tables(r) \in Seq(Types)
  BY WriteAssumption, ConcatProperties DEF Tables

\* The chunks and the infos of a list of tables are as many objects, none the graph document.
LEMMA PartsType ==
  ASSUME NEW t \in Seq(Types)
  PROVE  /\ Chunks(t) \in Seq(Files) /\ Len(Chunks(t)) = Len(t)
         /\ Infos(t) \in Seq(Files) /\ Len(Infos(t)) = Len(t)
         /\ \A i \in 1 .. Len(t) : Chunks(t)[i] # Document /\ Infos(t)[i] # Document
  <1>1. Len(t) \in Nat /\ DOMAIN t = 1 .. Len(t) /\ \A i \in 1 .. Len(t) : t[i] \in Types
    BY LenProperties, ElementOfSeq
  <1>2. /\ Chunks(t) \in [1 .. Len(t) -> Files]
        /\ Infos(t) \in [1 .. Len(t) -> Files]
    BY <1>1 DEF Chunks, Infos, Files
  <1>3. /\ Chunks(t) \in Seq(Files) /\ Len(Chunks(t)) = Len(t)
        /\ Infos(t) \in Seq(Files) /\ Len(Infos(t)) = Len(t)
    BY <1>1, <1>2, IsASeq, LenProperties
  <1>4. \A i \in 1 .. Len(t) : Chunks(t)[i] # Document /\ Infos(t)[i] # Document
    BY <1>1 DEF Chunks, Infos, Document
  <1> QED BY <1>3, <1>4

\* What two sequences avoid, their concatenation avoids.
LEMMA ConcatAvoids ==
  ASSUME NEW S, NEW a \in Seq(S), NEW b \in Seq(S), NEW x,
         \A i \in 1 .. Len(a) : a[i] # x,
         \A i \in 1 .. Len(b) : b[i] # x
  PROVE  /\ a \o b \in Seq(S)
         /\ Len(a \o b) = Len(a) + Len(b)
         /\ \A i \in 1 .. Len(a \o b) : (a \o b)[i] # x
  <1>1. /\ a \o b \in Seq(S)
        /\ Len(a \o b) = Len(a) + Len(b)
        /\ \A i \in 1 .. Len(a) + Len(b) : (a \o b)[i] = IF i <= Len(a) THEN a[i] ELSE b[i - Len(a)]
    BY ConcatProperties
  <1>2. Len(a) \in Nat /\ Len(b) \in Nat BY LenProperties
  <1> QED BY <1>1, <1>2

\* A run puts at least one object, and the graph document can only be the last.
LEMMA OrderFacts ==
  ASSUME NEW r \in Runs
  PROVE  /\ Order(r) \in Seq(Files)
         /\ Len(Order(r)) \in Nat \ {0}
         /\ \A i \in 1 .. Len(Order(r)) : Order(r)[i] \in Files
         /\ \A i \in 1 .. Len(Order(r)) : Order(r)[i] = Document => i = Len(Order(r))
  <1>1. CASE sink[r] = "ntriples"
    <2>1. Order(r) = <<Triples>> BY <1>1 DEF Order
    <2>2. Triples \in Files BY DEF Files
    <2> QED BY <2>1, <2>2
  <1>2. CASE sink[r] # "ntriples"
    <2> DEFINE t == Tables(r)
               h == Chunks(t) \o <<Mapping>> \o Infos(t)
    <2>1. Order(r) = h \o <<Document>> BY <1>2 DEF Order
    <2>2. /\ Chunks(t) \in Seq(Files) /\ Infos(t) \in Seq(Files)
          /\ \A i \in 1 .. Len(Chunks(t)) : Chunks(t)[i] # Document
          /\ \A i \in 1 .. Len(Infos(t)) : Infos(t)[i] # Document
      BY TablesType, PartsType
    <2>3. <<Mapping>> \in Seq(Files) /\ \A i \in 1 .. Len(<<Mapping>>) : <<Mapping>>[i] # Document
      BY DEF Files, Mapping, Document
    <2>4. /\ Chunks(t) \o <<Mapping>> \in Seq(Files)
          /\ \A i \in 1 .. Len(Chunks(t) \o <<Mapping>>) : (Chunks(t) \o <<Mapping>>)[i] # Document
      BY <2>2, <2>3, ConcatAvoids
    <2>5. h \in Seq(Files) /\ \A i \in 1 .. Len(h) : h[i] # Document
      BY <2>2, <2>4, ConcatAvoids
    <2> HIDE DEF h
    <2>6. <<Document>> \in Seq(Files) /\ Len(<<Document>>) = 1
      BY DEF Files
    <2>7. /\ h \o <<Document>> \in Seq(Files)
          /\ Len(h \o <<Document>>) = Len(h) + 1
          /\ \A i \in 1 .. Len(h) + 1 :
               (h \o <<Document>>)[i] = IF i <= Len(h) THEN h[i] ELSE <<Document>>[i - Len(h)]
      BY <2>5, <2>6, ConcatProperties
    <2>8. Len(h) \in Nat BY <2>5, LenProperties
    <2>9. \A i \in 1 .. Len(Order(r)) : Order(r)[i] \in Files
      BY <2>1, <2>7, ElementOfSeq
    <2>10. Len(Order(r)) = Len(h) + 1 BY <2>1, <2>7
    <2>11. \A i \in 1 .. Len(Order(r)) : Order(r)[i] = Document => i = Len(Order(r))
      <3> SUFFICES ASSUME NEW i \in 1 .. Len(Order(r)), i # Len(Order(r)) PROVE Order(r)[i] # Document
        OBVIOUS
      <3>1. i \in 1 .. Len(h) /\ i \in 1 .. Len(h) + 1 BY <2>8, <2>10
      <3> QED BY <3>1, <2>1, <2>5, <2>7
    <2>12. Order(r) \in Seq(Files) BY <2>1, <2>7
    <2> QED BY <2>8, <2>9, <2>10, <2>11, <2>12
  <1> QED BY <1>1, <1>2

(***************************************************************************)
(* Types, and where a run stands.                                          *)
(***************************************************************************)

\* The steps a run takes, and the one the store takes.
LEMMA StepCases ==
  ASSUME Next
  PROVE  \/ \E r \in Runs :
              \/ Begin(r) \/ (\E ps \in SUBSET Prefixes : Vended(r, ps)) \/ NotVended(r) \/ Route(r)
              \/ Read(r) \/ HeadArrives(r) \/ BodyArrives(r) \/ OverBudget(r) \/ EngineFails(r)
              \/ Breaks(r) \/ Execute(r) \/ LayOut(r) \/ Put(r) \/ Acknowledge(r) \/ Refuse(r)
              \/ Silent(r) \/ Hold(r) \/ Stop(r)
         \/ \E r \in Runs, p \in Prefixes, f \in Files : Land(r, p, f)
  BY DEF Next, Work, Answered

\* set_sink was called before the run: no step changes the order of a run's puts.
LEMMA OrderStays ==
  ASSUME [Next]_vars
  PROVE  sink' = sink /\ \A r \in Runs : Order(r)' = Order(r) /\ Listed(r)' = Listed(r)
  <1>1. sink' = sink
    BY StepCases DEF Begin, Vended, NotVended, Route, Read, HeadArrives, BodyArrives, OverBudget,
       EngineFails, Breaks, Execute, LayOut, Put, Acknowledge, Refuse, Silent, Hold, Stop, Land,
       run, vars
  <1> QED BY <1>1 DEF Order, Listed

\* At the start the types hold and every run stands at its beginning.
LEMMA TypesInit == Init => TypeOK /\ StepInv
  <1> SUFFICES ASSUME Init PROVE TypeOK /\ StepInv OBVIOUS
  <1>1. TypeOK
    BY WriteAssumption DEF Init, TypeOK, Steps, Ended, Places
  <1>2. StepInv
    BY OrderFacts DEF Init, StepInv, Standing, Early
  <1> QED BY <1>1, <1>2

\* Every step of a run, and a late put, keeps the types.
LEMMA TypesStep == TypeOK /\ StepInv /\ [Next]_vars => TypeOK'
  <1> SUFFICES ASSUME TypeOK, StepInv, [Next]_vars PROVE TypeOK'
    OBVIOUS
  <1> USE DEF TypeOK, To, Await, Fail
  <1>1. ASSUME NEW r \in Runs, Begin(r) PROVE TypeOK'
    <2>1. dest' \in [Runs -> Places \cup {None}]
      BY <1>1 DEF Begin, Places
    <2>2. step' \in [Runs -> Steps]
      BY <1>1 DEF Begin, Steps, Ended
    <2>3. failure' \in [Runs -> {"none", "document", "host", "ambiguous", "source",
                                 "over-budget", "engine", "data", "write"}]
      BY <1>1 DEF Begin
    <2>4. request' \in [Runs -> {"none", "host", "head", "body", "put"}]
      BY <1>1 DEF Begin
    <2> QED BY <1>1, <2>1, <2>2, <2>3, <2>4 DEF Begin
  <1>2. ASSUME NEW r \in Runs, NEW ps \in SUBSET Prefixes, Vended(r, ps) PROVE TypeOK'
    <2>1. dest' \in [Runs -> Places \cup {None}]
      BY <1>2 DEF Vended, Places
    <2>2. step' \in [Runs -> Steps]
      BY <1>2 DEF Vended, Steps, Ended
    <2>3. failure' \in [Runs -> {"none", "document", "host", "ambiguous", "source",
                                 "over-budget", "engine", "data", "write"}]
      BY <1>2 DEF Vended
    <2>4. request' \in [Runs -> {"none", "host", "head", "body", "put"}]
      BY <1>2 DEF Vended
    <2> QED BY <1>2, <2>1, <2>2, <2>3, <2>4 DEF Vended
  <1>3. ASSUME NEW r \in Runs, NotVended(r) PROVE TypeOK'
    BY <1>3 DEF NotVended, Steps, Ended
  <1>4. ASSUME NEW r \in Runs, Route(r) PROVE TypeOK'
    BY <1>4 DEF Route, Steps, Ended
  <1>5. ASSUME NEW r \in Runs, Read(r) PROVE TypeOK'
    BY <1>5, WriteAssumption DEF Read
  <1>6. ASSUME NEW r \in Runs, HeadArrives(r) PROVE TypeOK'
    BY <1>6 DEF HeadArrives, Steps, Ended
  <1>7. ASSUME NEW r \in Runs, BodyArrives(r) PROVE TypeOK'
    BY <1>7 DEF BodyArrives, Steps, Ended
  <1>8. ASSUME NEW r \in Runs, OverBudget(r) PROVE TypeOK'
    BY <1>8 DEF OverBudget, Steps, Ended
  <1>9. ASSUME NEW r \in Runs, EngineFails(r) PROVE TypeOK'
    BY <1>9 DEF EngineFails, EngineFailure, Steps, Ended
  <1>10. ASSUME NEW r \in Runs, Breaks(r) PROVE TypeOK'
    BY <1>10 DEF Breaks, EngineFailure, Steps, Ended
  <1>11. ASSUME NEW r \in Runs, Execute(r) PROVE TypeOK'
    BY <1>11 DEF Execute, Steps, Ended
  <1>12. ASSUME NEW r \in Runs, LayOut(r) PROVE TypeOK'
    BY <1>12 DEF LayOut, Steps, Ended
  <1>13. ASSUME NEW r \in Runs, Put(r) PROVE TypeOK'
    BY <1>13 DEF Put, Steps, Ended
  <1>14. ASSUME NEW r \in Runs, Refuse(r) PROVE TypeOK'
    BY <1>14 DEF Refuse, Steps, Ended
  <1>15. ASSUME NEW r \in Runs, Acknowledge(r) PROVE TypeOK'
    <2>1. stored' \in [Places -> [Files -> Runs \cup {None}]]
      BY <1>15 DEF Acknowledge, Store
    <2>2. sent' \in [Runs -> Nat]
      BY <1>15 DEF Acknowledge
    <2> QED BY <1>15, <2>1, <2>2 DEF Acknowledge, Steps, Ended
  <1>16. ASSUME NEW r \in Runs, Silent(r) PROVE TypeOK'
    <2>1. late' \subseteq Runs \X Prefixes \X Files
      BY <1>16, OrderFacts DEF Silent, Abandoned, Turn, StepInv, Standing
    <2> QED BY <1>16, <2>1 DEF Silent, EngineFailure, Steps, Ended
  <1>17. ASSUME NEW r \in Runs, Stop(r) PROVE TypeOK'
    <2>1. late' \subseteq Runs \X Prefixes \X Files
      BY <1>17, OrderFacts DEF Stop, Abandoned, Turn, StepInv, Standing
    <2> QED BY <1>17, <2>1 DEF Stop, Steps, Ended
  <1>18. ASSUME NEW r \in Runs, Hold(r) PROVE TypeOK'
    BY <1>18 DEF Hold, Steps, Ended
  <1>19. ASSUME NEW r \in Runs, NEW p \in Prefixes, NEW f \in Files, Land(r, p, f) PROVE TypeOK'
    BY <1>19 DEF Land, Store, run, Places
  <1>20. ASSUME UNCHANGED vars PROVE TypeOK'
    BY <1>20 DEF vars, run
  <1> QED BY <1>1, <1>2, <1>3, <1>4, <1>5, <1>6, <1>7, <1>8, <1>9, <1>10, <1>11, <1>12, <1>13, <1>14, <1>15, <1>16, <1>17, <1>18, <1>19, <1>20, StepCases

\* A run's standing depends on its own step, prefix, request and count alone.
LEMMA StandingStays ==
  ASSUME NEW q \in Runs, Standing(q), Order(q)' = Order(q),
         step'[q] = step[q], dest'[q] = dest[q], request'[q] = request[q], sent'[q] = sent[q]
  PROVE  Standing(q)'
  BY DEF Standing

\* Every step leaves each run standing somewhere: one case an action.
LEMMA StepInvStep == TypeOK /\ StepInv /\ [Next]_vars => StepInv'
  <1> SUFFICES ASSUME TypeOK, StepInv, [Next]_vars PROVE StepInv'
    OBVIOUS
  <1>o. \A r \in Runs : Order(r)' = Order(r) /\ Len(Order(r)) \in Nat \ {0}
    BY OrderStays, OrderFacts
  <1>s. \A r \in Runs : Standing(r)
    BY DEF StepInv
  <1>t. \A r \in Runs : sent[r] \in Nat
    BY DEF TypeOK
  <1> USE DEF To, Await, Fail
  <1>1. ASSUME NEW r \in Runs, Begin(r) PROVE StepInv'
    <2>1. \A q \in Runs : q # r =>
            step'[q] = step[q] /\ dest'[q] = dest[q] /\ request'[q] = request[q] /\ sent'[q] = sent[q]
      BY <1>1 DEF Begin, TypeOK
    <2>2. \A q \in Runs : q # r => Standing(q)'
      BY <2>1, <1>o, <1>s, StandingStays
    <2>3. Standing(r)'
      BY <1>1, <1>o, <1>s, <1>t DEF Begin, TypeOK, Standing, Early, Ended, Steps
    <2> QED BY <2>2, <2>3 DEF StepInv
  <1>2. ASSUME NEW r \in Runs, NEW ps \in SUBSET Prefixes, Vended(r, ps) PROVE StepInv'
    <2>1. \A q \in Runs : q # r =>
            step'[q] = step[q] /\ dest'[q] = dest[q] /\ request'[q] = request[q] /\ sent'[q] = sent[q]
      BY <1>2 DEF Vended, TypeOK
    <2>2. \A q \in Runs : q # r => Standing(q)'
      BY <2>1, <1>o, <1>s, StandingStays
    <2>3. Standing(r)'
      BY <1>2, <1>o, <1>s, <1>t DEF Vended, TypeOK, Standing, Early, Ended, Steps
    <2> QED BY <2>2, <2>3 DEF StepInv
  <1>3. ASSUME NEW r \in Runs, NotVended(r) PROVE StepInv'
    <2>1. \A q \in Runs : q # r =>
            step'[q] = step[q] /\ dest'[q] = dest[q] /\ request'[q] = request[q] /\ sent'[q] = sent[q]
      BY <1>3 DEF NotVended, TypeOK
    <2>2. \A q \in Runs : q # r => Standing(q)'
      BY <2>1, <1>o, <1>s, StandingStays
    <2>3. Standing(r)'
      BY <1>3, <1>o, <1>s, <1>t DEF NotVended, TypeOK, Standing, Early, Ended, Steps
    <2> QED BY <2>2, <2>3 DEF StepInv
  <1>4. ASSUME NEW r \in Runs, Route(r) PROVE StepInv'
    <2>1. \A q \in Runs : q # r =>
            step'[q] = step[q] /\ dest'[q] = dest[q] /\ request'[q] = request[q] /\ sent'[q] = sent[q]
      BY <1>4 DEF Route, TypeOK
    <2>2. \A q \in Runs : q # r => Standing(q)'
      BY <2>1, <1>o, <1>s, StandingStays
    <2>3. Standing(r)'
      BY <1>4, <1>o, <1>s, <1>t DEF Route, TypeOK, Standing, Early, Ended, Steps
    <2> QED BY <2>2, <2>3 DEF StepInv
  <1>5. ASSUME NEW r \in Runs, Read(r) PROVE StepInv'
    <2>1. \A q \in Runs : q # r =>
            step'[q] = step[q] /\ dest'[q] = dest[q] /\ request'[q] = request[q] /\ sent'[q] = sent[q]
      BY <1>5 DEF Read, TypeOK
    <2>2. \A q \in Runs : q # r => Standing(q)'
      BY <2>1, <1>o, <1>s, StandingStays
    <2>3. Standing(r)'
      BY <1>5, <1>o, <1>s, <1>t DEF Read, TypeOK, Standing, Early, Ended, Steps
    <2> QED BY <2>2, <2>3 DEF StepInv
  <1>6. ASSUME NEW r \in Runs, HeadArrives(r) PROVE StepInv'
    <2>1. \A q \in Runs : q # r =>
            step'[q] = step[q] /\ dest'[q] = dest[q] /\ request'[q] = request[q] /\ sent'[q] = sent[q]
      BY <1>6 DEF HeadArrives, TypeOK
    <2>2. \A q \in Runs : q # r => Standing(q)'
      BY <2>1, <1>o, <1>s, StandingStays
    <2>3. Standing(r)'
      BY <1>6, <1>o, <1>s, <1>t DEF HeadArrives, TypeOK, Standing, Early, Ended, Steps
    <2> QED BY <2>2, <2>3 DEF StepInv
  <1>7. ASSUME NEW r \in Runs, BodyArrives(r) PROVE StepInv'
    <2>1. \A q \in Runs : q # r =>
            step'[q] = step[q] /\ dest'[q] = dest[q] /\ request'[q] = request[q] /\ sent'[q] = sent[q]
      BY <1>7 DEF BodyArrives, TypeOK
    <2>2. \A q \in Runs : q # r => Standing(q)'
      BY <2>1, <1>o, <1>s, StandingStays
    <2>3. Standing(r)'
      BY <1>7, <1>o, <1>s, <1>t DEF BodyArrives, TypeOK, Standing, Early, Ended, Steps
    <2> QED BY <2>2, <2>3 DEF StepInv
  <1>8. ASSUME NEW r \in Runs, OverBudget(r) PROVE StepInv'
    <2>1. \A q \in Runs : q # r =>
            step'[q] = step[q] /\ dest'[q] = dest[q] /\ request'[q] = request[q] /\ sent'[q] = sent[q]
      BY <1>8 DEF OverBudget, TypeOK
    <2>2. \A q \in Runs : q # r => Standing(q)'
      BY <2>1, <1>o, <1>s, StandingStays
    <2>3. Standing(r)'
      BY <1>8, <1>o, <1>s, <1>t DEF OverBudget, TypeOK, Standing, Early, Ended, Steps
    <2> QED BY <2>2, <2>3 DEF StepInv
  <1>9. ASSUME NEW r \in Runs, EngineFails(r) PROVE StepInv'
    <2>1. \A q \in Runs : q # r =>
            step'[q] = step[q] /\ dest'[q] = dest[q] /\ request'[q] = request[q] /\ sent'[q] = sent[q]
      BY <1>9 DEF EngineFails, EngineFailure, TypeOK
    <2>2. \A q \in Runs : q # r => Standing(q)'
      BY <2>1, <1>o, <1>s, StandingStays
    <2>3. Standing(r)'
      BY <1>9, <1>o, <1>s, <1>t DEF EngineFails, EngineFailure, TypeOK, Standing, Early, Ended, Steps
    <2> QED BY <2>2, <2>3 DEF StepInv
  <1>10. ASSUME NEW r \in Runs, Breaks(r) PROVE StepInv'
    <2>1. \A q \in Runs : q # r =>
            step'[q] = step[q] /\ dest'[q] = dest[q] /\ request'[q] = request[q] /\ sent'[q] = sent[q]
      BY <1>10 DEF Breaks, EngineFailure, TypeOK
    <2>2. \A q \in Runs : q # r => Standing(q)'
      BY <2>1, <1>o, <1>s, StandingStays
    <2>3. Standing(r)'
      BY <1>10, <1>o, <1>s, <1>t DEF Breaks, EngineFailure, TypeOK, Standing, Early, Ended, Steps
    <2> QED BY <2>2, <2>3 DEF StepInv
  <1>11. ASSUME NEW r \in Runs, Execute(r) PROVE StepInv'
    <2>1. \A q \in Runs : q # r =>
            step'[q] = step[q] /\ dest'[q] = dest[q] /\ request'[q] = request[q] /\ sent'[q] = sent[q]
      BY <1>11 DEF Execute, TypeOK
    <2>2. \A q \in Runs : q # r => Standing(q)'
      BY <2>1, <1>o, <1>s, StandingStays
    <2>3. Standing(r)'
      BY <1>11, <1>o, <1>s, <1>t DEF Execute, TypeOK, Standing, Early, Ended, Steps
    <2> QED BY <2>2, <2>3 DEF StepInv
  <1>12. ASSUME NEW r \in Runs, LayOut(r) PROVE StepInv'
    <2>1. \A q \in Runs : q # r =>
            step'[q] = step[q] /\ dest'[q] = dest[q] /\ request'[q] = request[q] /\ sent'[q] = sent[q]
      BY <1>12 DEF LayOut, TypeOK
    <2>2. \A q \in Runs : q # r => Standing(q)'
      BY <2>1, <1>o, <1>s, StandingStays
    <2>3. Standing(r)'
      BY <1>12, <1>o, <1>s, <1>t DEF LayOut, TypeOK, Standing, Early, Ended, Steps
    <2> QED BY <2>2, <2>3 DEF StepInv
  <1>13. ASSUME NEW r \in Runs, Put(r) PROVE StepInv'
    <2>1. \A q \in Runs : q # r =>
            step'[q] = step[q] /\ dest'[q] = dest[q] /\ request'[q] = request[q] /\ sent'[q] = sent[q]
      BY <1>13 DEF Put, TypeOK
    <2>2. \A q \in Runs : q # r => Standing(q)'
      BY <2>1, <1>o, <1>s, StandingStays
    <2>3. Standing(r)'
      BY <1>13, <1>o, <1>s, <1>t DEF Put, TypeOK, Standing, Early, Ended, Steps
    <2> QED BY <2>2, <2>3 DEF StepInv
  <1>14. ASSUME NEW r \in Runs, Acknowledge(r) PROVE StepInv'
    <2>1. \A q \in Runs : q # r =>
            step'[q] = step[q] /\ dest'[q] = dest[q] /\ request'[q] = request[q] /\ sent'[q] = sent[q]
      BY <1>14 DEF Acknowledge, TypeOK
    <2>2. \A q \in Runs : q # r => Standing(q)'
      BY <2>1, <1>o, <1>s, StandingStays
    <2>3. Standing(r)'
      BY <1>14, <1>o, <1>s, <1>t DEF Acknowledge, TypeOK, Standing, Early, Ended, Steps
    <2> QED BY <2>2, <2>3 DEF StepInv
  <1>15. ASSUME NEW r \in Runs, Refuse(r) PROVE StepInv'
    <2>1. \A q \in Runs : q # r =>
            step'[q] = step[q] /\ dest'[q] = dest[q] /\ request'[q] = request[q] /\ sent'[q] = sent[q]
      BY <1>15 DEF Refuse, TypeOK
    <2>2. \A q \in Runs : q # r => Standing(q)'
      BY <2>1, <1>o, <1>s, StandingStays
    <2>3. Standing(r)'
      BY <1>15, <1>o, <1>s, <1>t DEF Refuse, TypeOK, Standing, Early, Ended, Steps
    <2> QED BY <2>2, <2>3 DEF StepInv
  <1>16. ASSUME NEW r \in Runs, Silent(r) PROVE StepInv'
    <2>1. \A q \in Runs : q # r =>
            step'[q] = step[q] /\ dest'[q] = dest[q] /\ request'[q] = request[q] /\ sent'[q] = sent[q]
      BY <1>16 DEF Silent, EngineFailure, TypeOK
    <2>2. \A q \in Runs : q # r => Standing(q)'
      BY <2>1, <1>o, <1>s, StandingStays
    <2>3. Standing(r)'
      BY <1>16, <1>o, <1>s, <1>t DEF Silent, EngineFailure, TypeOK, Standing, Early, Ended, Steps
    <2> QED BY <2>2, <2>3 DEF StepInv
  <1>17. ASSUME NEW r \in Runs, Hold(r) PROVE StepInv'
    <2>1. \A q \in Runs : q # r =>
            step'[q] = step[q] /\ dest'[q] = dest[q] /\ request'[q] = request[q] /\ sent'[q] = sent[q]
      BY <1>17 DEF Hold, TypeOK
    <2>2. \A q \in Runs : q # r => Standing(q)'
      BY <2>1, <1>o, <1>s, StandingStays
    <2>3. Standing(r)'
      BY <1>17, <1>o, <1>s, <1>t DEF Hold, TypeOK, Standing, Early, Ended, Steps
    <2> QED BY <2>2, <2>3 DEF StepInv
  <1>18. ASSUME NEW r \in Runs, Stop(r) PROVE StepInv'
    <2>1. \A q \in Runs : q # r =>
            step'[q] = step[q] /\ dest'[q] = dest[q] /\ request'[q] = request[q] /\ sent'[q] = sent[q]
      BY <1>18 DEF Stop, TypeOK
    <2>2. \A q \in Runs : q # r => Standing(q)'
      BY <2>1, <1>o, <1>s, StandingStays
    <2>3. Standing(r)'
      BY <1>18, <1>o, <1>s, <1>t DEF Stop, TypeOK, Standing, Early, Ended, Steps
    <2> QED BY <2>2, <2>3 DEF StepInv
  <1>19. ASSUME NEW r \in Runs, NEW p \in Prefixes, NEW f \in Files, Land(r, p, f) PROVE StepInv'
    BY <1>19, <1>o, <1>s, StandingStays DEF Land, run, StepInv
  <1>20. ASSUME UNCHANGED vars PROVE StepInv'
    BY <1>20, <1>o, <1>s, StandingStays DEF vars, run, StepInv
  <1> QED BY <1>1, <1>2, <1>3, <1>4, <1>5, <1>6, <1>7, <1>8, <1>9, <1>10, <1>11, <1>12, <1>13, <1>14, <1>15, <1>16, <1>17, <1>18, <1>19, <1>20, StepCases

(***************************************************************************)
(* What the stores hold.                                                   *)
(***************************************************************************)

\* A step that puts nothing, ends no run well and forgets nothing changes nothing of it.
LEMMA StoreStays ==
  ASSUME StoreInv, [Next]_vars,
         UNCHANGED <<dest, sent, answer, stored, late>>,
         \A q \in Runs : step[q] \in Ended => step'[q] = step[q],
         \A q \in Runs : HasWritten(q) => HasWritten(q)',
         \A q \in Runs : step'[q] = "done" => step[q] = "done"
  PROVE  StoreInv'
  <1>o. \A r \in Runs : Order(r)' = Order(r) /\ Listed(r)' = Listed(r)
    BY OrderStays
  <1>1. PutInv'
    BY <1>o DEF StoreInv, PutInv
  <1>2. LateInv'
    BY <1>o DEF StoreInv, LateInv, Turn
  <1>3. ThereInv'
    BY <1>o DEF StoreInv, ThereInv
  <1>4. MemoryInv'
    BY <1>o DEF StoreInv, MemoryInv
  <1> QED BY <1>1, <1>2, <1>3, <1>4 DEF StoreInv

\* At the start nothing is stored and nothing is out.
LEMMA StoreInit == Init => StoreInv
  <1> SUFFICES ASSUME Init PROVE StoreInv OBVIOUS
  <1>1. \A p \in Places, f \in Files : stored[p][f] = None
    BY DEF Init
  <1>2. Runs \subseteq Places BY DEF Places
  <1> QED BY <1>1, <1>2, WriteAssumption DEF Init, StoreInv, PutInv, LateInv, ThereInv, MemoryInv

\* A run that has put nothing and awaits no put has nothing in a store.
LEMMA NothingThere ==
  ASSUME StoreInv, NEW r \in Runs, ~HasWritten(r)
  PROVE  /\ \A p \in Places, f \in Files : stored[p][f] # r
         /\ \A p \in Prefixes, f \in Files : <<r, p, f>> \notin late
  BY DEF StoreInv, ThereInv, LateInv

\* A run takes the place it writes to before it has put anything.
LEMMA DestinationStep ==
  ASSUME TypeOK, StepInv, StoreInv, [Next]_vars, NEW r \in Runs,
         step[r] \in {"idle", "granting"}, step'[r] \notin {"done", "writing", "holding", "stopped"},
         \A q \in Runs : q # r => step'[q] = step[q] /\ dest'[q] = dest[q] /\ failure'[q] = failure[q],
         UNCHANGED <<sent, answer, stored, late>>
  PROVE  StoreInv'
  <1>o. \A q \in Runs : Order(q)' = Order(q) /\ Listed(q)' = Listed(q)
    BY OrderStays
  <1>1. ~HasWritten(r) /\ sent[r] = 0 /\ dest[r] = None
    BY DEF HasWritten, StepInv, Standing, Early
  <1>2. /\ \A p \in Places, f \in Files : stored[p][f] # r
        /\ \A p \in Prefixes, f \in Files : <<r, p, f>> \notin late
    BY <1>1, NothingThere
  <1>3. \A q \in Runs : q # r => (HasWritten(q)' <=> HasWritten(q))
    BY DEF HasWritten
  <1>4. \A f \in Files : stored[r][f] = None
    BY <1>1, WriteAssumption DEF StoreInv, MemoryInv
  <1>5. PutInv'
    BY <1>o, <1>1 DEF StoreInv, PutInv
  <1>6. LateInv'
    BY <1>o, <1>2, <1>3 DEF StoreInv, LateInv, Turn
  <1>7. ThereInv'
    BY <1>o, <1>2, <1>3 DEF StoreInv, ThereInv
  <1>8. MemoryInv'
    BY <1>o, <1>4 DEF StoreInv, MemoryInv
  <1> QED BY <1>5, <1>6, <1>7, <1>8 DEF StoreInv

\* A run that ends with a put out leaves that put, and no other, to land.
LEMMA AbandonStep ==
  ASSUME TypeOK, StepInv, StoreInv, [Next]_vars, NEW r \in Runs,
         step[r] \notin Ended, step'[r] \in {"failed", "stopped"},
         request[r] = "put" => HasWritten(r)',
         \A q \in Runs : q # r => step'[q] = step[q],
         \A q \in Runs : HasWritten(q) => HasWritten(q)',
         late' = late \cup Abandoned(r),
         UNCHANGED <<dest, sent, answer, stored>>
  PROVE  StoreInv'
  <1>o. \A q \in Runs : Order(q)' = Order(q) /\ Listed(q)' = Listed(q)
    BY OrderStays
  <1>1. Standing(r)
    BY DEF StepInv
  <1>2. PutInv'
    BY <1>o DEF StoreInv, PutInv
  <1>3. LateInv'
    <2> SUFFICES ASSUME NEW q \in Runs, NEW p \in Prefixes, NEW f \in Files, <<q, p, f>> \in late'
                 PROVE  (/\ p = dest[q] /\ sent[q] < Len(Order(q)) /\ f = Turn(q)
                         /\ step[q] \in Ended /\ HasWritten(q))'
      BY DEF LateInv
    <2>1. CASE <<q, p, f>> \in late
      <3>1. q # r
        BY <2>1 DEF StoreInv, LateInv
      <3> QED BY <2>1, <3>1, <1>o DEF StoreInv, LateInv, Turn
    <2>2. CASE <<q, p, f>> \in Abandoned(r)
      <3>1. q = r /\ p = dest[r] /\ f = Turn(r) /\ request[r] = "put"
        BY <2>2 DEF Abandoned
      <3> QED BY <3>1, <1>1, <1>o DEF Standing, Turn, Ended
    <2> QED BY <2>1, <2>2
  <1>4. ThereInv'
    BY <1>o DEF StoreInv, ThereInv
  <1>5. MemoryInv'
    BY <1>o DEF StoreInv, MemoryInv
  <1> QED BY <1>2, <1>3, <1>4, <1>5 DEF StoreInv

\* The store has the object whose turn it was.
LEMMA AcknowledgeStep ==
  ASSUME TypeOK, StepInv, StoreInv, [Next]_vars, NEW r \in Runs, Acknowledge(r)
  PROVE  StoreInv'
  <1>o. \A q \in Runs : Order(q)' = Order(q) /\ Listed(q)' = Listed(q)
    BY OrderStays
  <1>1. \A q \in Runs : Standing(q) /\ sent[q] \in Nat /\ Len(Order(q)) \in Nat
    BY OrderFacts DEF StepInv, TypeOK
  <1>2. /\ step[r] = "writing"
        /\ dest[r] \in Prefixes \cup {r} /\ dest[r] \in Places
        /\ sent[r] + 1 \in 1 .. Len(Order(r))
    BY <1>1 DEF Acknowledge, Standing, Places
  <1>3. Turn(r) \in Files
    BY <1>2, OrderFacts DEF Turn
  <1>4. \A p \in Places, f \in Files :
          stored'[p][f] = IF p = dest[r] /\ f = Turn(r) THEN r ELSE stored[p][f]
    BY <1>2, <1>3 DEF Acknowledge, Store, TypeOK
  <1>5. /\ sent'[r] = sent[r] + 1
        /\ \A q \in Runs : q # r => sent'[q] = sent[q] /\ step'[q] = step[q]
        /\ step'[r] \in {"writing", "holding", "done"}
        /\ step'[r] = "done" => dest[r] # r
        /\ UNCHANGED <<dest, failure, answer, late>>
    BY <1>2 DEF Acknowledge, To, TypeOK
  <1>6. \A q \in Runs : HasWritten(q) => HasWritten(q)'
    BY <1>5 DEF HasWritten
  <1>n. r # None
    BY WriteAssumption
  <1>7. PutInv'
    <2> SUFFICES ASSUME NEW q \in Runs, NEW i \in 1 .. sent'[q]
                 PROVE  stored'[dest[q]][Order(q)[i]] # None
      BY <1>o, <1>5 DEF PutInv
    <2>1. i \in 1 .. Len(Order(q)) /\ dest[q] \in Places
      BY <1>1, <1>2, <1>5 DEF Standing, Places
    <2>2. Order(q)[i] \in Files
      BY <2>1, OrderFacts
    <2>3. CASE q = r /\ i = sent[r] + 1
      BY <2>1, <2>2, <2>3, <1>4, <1>n DEF Turn
    <2>4. CASE ~(q = r /\ i = sent[r] + 1)
      <3>1. i \in 1 .. sent[q]
        BY <2>4, <1>1, <1>5
      <3>2. stored[dest[q]][Order(q)[i]] # None
        BY <3>1 DEF StoreInv, PutInv
      <3> QED BY <3>2, <2>1, <2>2, <1>4, <1>n
    <2> QED BY <2>3, <2>4
  <1>8. LateInv'
    <2>1. \A p \in Prefixes, f \in Files : <<r, p, f>> \notin late
      BY <1>2 DEF StoreInv, LateInv, Ended
    <2> QED BY <2>1, <1>5, <1>6, <1>o DEF StoreInv, LateInv, Turn
  <1>9. ThereInv'
    <2> SUFFICES ASSUME NEW q \in Runs, NEW p \in Places, NEW f \in Files, stored'[p][f] = q
                 PROVE  /\ p = dest[q]
                        /\ HasWritten(q)'
                        /\ \E i \in 1 .. Len(Order(q)) : i <= sent'[q] + 1 /\ f = Order(q)[i]
      BY <1>o, <1>5 DEF ThereInv
    <2>1. CASE q = r /\ p = dest[r] /\ f = Turn(r)
      <3>1. HasWritten(r)'
        BY <1>5 DEF HasWritten
      <3>2. sent[r] + 1 <= sent'[r] + 1 /\ f = Order(r)[sent[r] + 1]
        BY <2>1, <1>1, <1>5 DEF Turn
      <3> QED BY <2>1, <3>1, <3>2, <1>2
    <2>2. CASE ~(q = r /\ p = dest[r] /\ f = Turn(r))
      <3>1. stored[p][f] = q
        BY <2>2, <1>4
      <3>2. p = dest[q] /\ HasWritten(q)
            /\ \E i \in 1 .. Len(Order(q)) : i <= sent[q] + 1 /\ f = Order(q)[i]
        BY <3>1 DEF StoreInv, ThereInv
      <3>3. sent[q] <= sent'[q] /\ sent'[q] \in Nat
        BY <1>1, <1>5
      <3>4. \A i \in 1 .. Len(Order(q)) : i <= sent[q] + 1 => i <= sent'[q] + 1
        BY <3>3, <1>1
      <3> QED BY <3>2, <3>4, <1>6
    <2> QED BY <2>1, <2>2
  <1>10. MemoryInv'
    <2>1. ASSUME NEW q \in Runs, NEW f \in Files, stored'[q][f] # None
          PROVE  dest[q] = q /\ \E i \in 1 .. sent'[q] : f = Order(q)[i]
      <3>0. q \in Places BY DEF Places
      <3>1. CASE q = dest[r] /\ f = Turn(r)
        <4>1. q = r BY <3>1, <1>2, WriteAssumption
        <4>2. sent[r] + 1 \in 1 .. sent'[r] BY <1>1, <1>5
        <4> QED BY <3>1, <4>1, <4>2 DEF Turn
      <3>2. CASE ~(q = dest[r] /\ f = Turn(r))
        <4>1. stored[q][f] # None BY <3>0, <3>2, <2>1, <1>4
        <4>2. dest[q] = q /\ \E i \in 1 .. sent[q] : f = Order(q)[i]
          BY <4>1 DEF StoreInv, MemoryInv
        <4>3. \A i \in 1 .. sent[q] : i \in 1 .. sent'[q] BY <1>1, <1>5
        <4> QED BY <4>2, <4>3
      <3> QED BY <3>1, <3>2
    <2>2. \A q \in Runs : step'[q] = "done" /\ dest[q] = q => answer[q] = Listed(q)
      BY <1>5 DEF StoreInv, MemoryInv
    <2> QED BY <2>1, <2>2, <1>5, <1>o DEF MemoryInv
  <1> QED BY <1>7, <1>8, <1>9, <1>10 DEF StoreInv

\* What an in-memory run answers with is every file of its graph.
LEMMA HoldStep ==
  ASSUME TypeOK, StepInv, StoreInv, [Next]_vars, NEW r \in Runs, Hold(r)
  PROVE  StoreInv'
  <1>o. \A q \in Runs : Order(q)' = Order(q) /\ Listed(q)' = Listed(q)
    BY OrderStays
  <1>1. /\ answer'[r] = {f \in Files : stored[r][f] # None}
        /\ \A q \in Runs : q # r => answer'[q] = answer[q] /\ step'[q] = step[q]
        /\ step[r] = "holding" /\ step'[r] = "done"
        /\ UNCHANGED <<failure, dest, sent, stored, late>>
    BY DEF Hold, To, TypeOK
  <1>2. \A q \in Runs : HasWritten(q) => HasWritten(q)'
    BY <1>1 DEF HasWritten
  <1>3. dest[r] = r /\ sent[r] = Len(Order(r))
    BY <1>1 DEF StepInv, Standing
  <1>4. /\ Order(r) \in Seq(Files)
        /\ \A i \in 1 .. Len(Order(r)) : Order(r)[i] \in Files
    BY OrderFacts
  <1>5. Listed(r) = {Order(r)[i] : i \in 1 .. Len(Order(r))}
    BY <1>4, LenProperties DEF Listed, Range
  <1>6. answer'[r] = Listed(r)
    <2>1. \A f \in Files : stored[r][f] # None => f \in Listed(r)
      BY <1>3, <1>5 DEF StoreInv, MemoryInv
    <2>2. \A i \in 1 .. Len(Order(r)) : stored[r][Order(r)[i]] # None
      BY <1>3 DEF StoreInv, PutInv
    <2> QED BY <2>1, <2>2, <1>1, <1>4, <1>5
  <1>7. PutInv' BY <1>o, <1>1 DEF StoreInv, PutInv
  <1>8. LateInv' BY <1>o, <1>1, <1>2 DEF StoreInv, LateInv, Turn, Ended
  <1>9. ThereInv' BY <1>o, <1>1, <1>2 DEF StoreInv, ThereInv
  <1>10. MemoryInv' BY <1>o, <1>1, <1>6 DEF StoreInv, MemoryInv
  <1> QED BY <1>7, <1>8, <1>9, <1>10 DEF StoreInv

\* A put that lands late is one its run had come to.
LEMMA LandStep ==
  ASSUME TypeOK, StepInv, StoreInv, [Next]_vars,
         NEW r \in Runs, NEW p \in Prefixes, NEW f \in Files, Land(r, p, f)
  PROVE  StoreInv'
  <1>o. \A q \in Runs : Order(q)' = Order(q) /\ Listed(q)' = Listed(q)
    BY OrderStays
  <1>1. UNCHANGED run /\ late' \subseteq late /\ <<r, p, f>> \in late
    BY DEF Land
  <1>2. \A t \in Places, g \in Files : stored'[t][g] = IF t = p /\ g = f THEN r ELSE stored[t][g]
    BY DEF Land, Store, TypeOK, Places
  <1>3. /\ p = dest[r] /\ sent[r] < Len(Order(r)) /\ f = Turn(r) /\ HasWritten(r)
    BY <1>1 DEF StoreInv, LateInv
  <1>4. \A q \in Runs : Standing(q) /\ sent[q] \in Nat /\ Len(Order(q)) \in Nat
    BY OrderFacts DEF StepInv, TypeOK
  <1>5. \A q \in Runs : HasWritten(q)' <=> HasWritten(q)
    BY <1>1 DEF run, HasWritten
  <1>6. PutInv'
    <2> SUFFICES ASSUME NEW q \in Runs, NEW i \in 1 .. sent[q]
                 PROVE  stored'[dest[q]][Order(q)[i]] # None
      BY <1>o, <1>1 DEF PutInv, run
    <2>1. dest[q] \in Places /\ i \in 1 .. Len(Order(q))
      BY <1>4 DEF Standing, Places
    <2>2. Order(q)[i] \in Files
      BY <2>1, OrderFacts
    <2>3. stored[dest[q]][Order(q)[i]] # None
      BY DEF StoreInv, PutInv
    <2> QED BY <2>1, <2>2, <2>3, <1>2, WriteAssumption
  <1>7. LateInv'
    BY <1>o, <1>1, <1>5 DEF StoreInv, LateInv, Turn, run
  <1>8. ThereInv'
    <2> SUFFICES ASSUME NEW q \in Runs, NEW t \in Places, NEW g \in Files, stored'[t][g] = q
                 PROVE  /\ t = dest[q]
                        /\ HasWritten(q)
                        /\ \E i \in 1 .. Len(Order(q)) : i <= sent[q] + 1 /\ g = Order(q)[i]
      BY <1>o, <1>1, <1>5 DEF ThereInv, run
    <2>1. CASE q = r /\ t = p /\ g = f
      <3>1. sent[r] + 1 \in 1 .. Len(Order(r)) /\ sent[r] + 1 <= sent[r] + 1
        BY <1>3, <1>4
      <3> QED BY <2>1, <3>1, <1>3 DEF Turn
    <2>2. CASE ~(q = r /\ t = p /\ g = f)
      <3>1. stored[t][g] = q
        BY <2>2, <1>2
      <3> QED BY <3>1 DEF StoreInv, ThereInv
    <2> QED BY <2>1, <2>2
  <1>9. MemoryInv'
    <2>1. \A q \in Runs, g \in Files : stored'[q][g] = stored[q][g]
      BY <1>2, WriteAssumption DEF Places
    <2> QED BY <2>1, <1>o, <1>1 DEF StoreInv, MemoryInv, run
  <1> QED BY <1>6, <1>7, <1>8, <1>9 DEF StoreInv

\* Every step keeps what is said of the store: one case an action.
LEMMA StoreStep == IInv /\ [Next]_vars => StoreInv'
  <1> SUFFICES ASSUME IInv, [Next]_vars PROVE StoreInv'
    OBVIOUS
  <1>i. TypeOK /\ StepInv /\ StoreInv
    BY DEF IInv
  <1>s. \A q \in Runs : Standing(q)
    BY <1>i DEF StepInv
  <1> USE DEF To, Await, Fail
  <1>1. ASSUME NEW r \in Runs, Begin(r) PROVE StoreInv'
    <2>1. /\ step[r] \in {"idle", "granting"}
          /\ step'[r] \notin {"done", "writing", "holding", "stopped"}
          /\ \A q \in Runs : q # r =>
               step'[q] = step[q] /\ dest'[q] = dest[q] /\ failure'[q] = failure[q]
          /\ UNCHANGED <<sent, answer, stored, late>>
      BY <1>1, <1>i DEF Begin, TypeOK
    <2> QED BY <2>1, <1>i, DestinationStep
  <1>2. ASSUME NEW r \in Runs, NEW ps \in SUBSET Prefixes, Vended(r, ps) PROVE StoreInv'
    <2>1. /\ step[r] \in {"idle", "granting"}
          /\ step'[r] \notin {"done", "writing", "holding", "stopped"}
          /\ \A q \in Runs : q # r =>
               step'[q] = step[q] /\ dest'[q] = dest[q] /\ failure'[q] = failure[q]
          /\ UNCHANGED <<sent, answer, stored, late>>
      BY <1>2, <1>i DEF Vended, TypeOK
    <2> QED BY <2>1, <1>i, DestinationStep
  <1>3. ASSUME NEW r \in Runs, NotVended(r) PROVE StoreInv'
    <2>1. /\ UNCHANGED <<dest, sent, answer, stored, late>>
          /\ \A q \in Runs : step[q] \in Ended => step'[q] = step[q]
          /\ \A q \in Runs : HasWritten(q) => HasWritten(q)'
          /\ \A q \in Runs : step'[q] = "done" => step[q] = "done"
      BY <1>3, <1>i, <1>s DEF NotVended, TypeOK, Standing, HasWritten, Ended
    <2> QED BY <2>1, <1>i, StoreStays
  <1>4. ASSUME NEW r \in Runs, Route(r) PROVE StoreInv'
    <2>1. /\ UNCHANGED <<dest, sent, answer, stored, late>>
          /\ \A q \in Runs : step[q] \in Ended => step'[q] = step[q]
          /\ \A q \in Runs : HasWritten(q) => HasWritten(q)'
          /\ \A q \in Runs : step'[q] = "done" => step[q] = "done"
      BY <1>4, <1>i, <1>s DEF Route, TypeOK, Standing, HasWritten, Ended
    <2> QED BY <2>1, <1>i, StoreStays
  <1>5. ASSUME NEW r \in Runs, Read(r) PROVE StoreInv'
    <2>1. /\ UNCHANGED <<dest, sent, answer, stored, late>>
          /\ \A q \in Runs : step[q] \in Ended => step'[q] = step[q]
          /\ \A q \in Runs : HasWritten(q) => HasWritten(q)'
          /\ \A q \in Runs : step'[q] = "done" => step[q] = "done"
      BY <1>5, <1>i, <1>s DEF Read, TypeOK, Standing, HasWritten, Ended
    <2> QED BY <2>1, <1>i, StoreStays
  <1>6. ASSUME NEW r \in Runs, HeadArrives(r) PROVE StoreInv'
    <2>1. /\ UNCHANGED <<dest, sent, answer, stored, late>>
          /\ \A q \in Runs : step[q] \in Ended => step'[q] = step[q]
          /\ \A q \in Runs : HasWritten(q) => HasWritten(q)'
          /\ \A q \in Runs : step'[q] = "done" => step[q] = "done"
      BY <1>6, <1>i, <1>s DEF HeadArrives, TypeOK, Standing, HasWritten, Ended
    <2> QED BY <2>1, <1>i, StoreStays
  <1>7. ASSUME NEW r \in Runs, BodyArrives(r) PROVE StoreInv'
    <2>1. /\ UNCHANGED <<dest, sent, answer, stored, late>>
          /\ \A q \in Runs : step[q] \in Ended => step'[q] = step[q]
          /\ \A q \in Runs : HasWritten(q) => HasWritten(q)'
          /\ \A q \in Runs : step'[q] = "done" => step[q] = "done"
      BY <1>7, <1>i, <1>s DEF BodyArrives, TypeOK, Standing, HasWritten, Ended
    <2> QED BY <2>1, <1>i, StoreStays
  <1>8. ASSUME NEW r \in Runs, OverBudget(r) PROVE StoreInv'
    <2>1. /\ UNCHANGED <<dest, sent, answer, stored, late>>
          /\ \A q \in Runs : step[q] \in Ended => step'[q] = step[q]
          /\ \A q \in Runs : HasWritten(q) => HasWritten(q)'
          /\ \A q \in Runs : step'[q] = "done" => step[q] = "done"
      BY <1>8, <1>i, <1>s DEF OverBudget, TypeOK, Standing, HasWritten, Ended
    <2> QED BY <2>1, <1>i, StoreStays
  <1>9. ASSUME NEW r \in Runs, EngineFails(r) PROVE StoreInv'
    <2>1. /\ UNCHANGED <<dest, sent, answer, stored, late>>
          /\ \A q \in Runs : step[q] \in Ended => step'[q] = step[q]
          /\ \A q \in Runs : HasWritten(q) => HasWritten(q)'
          /\ \A q \in Runs : step'[q] = "done" => step[q] = "done"
      BY <1>9, <1>i, <1>s DEF EngineFails, EngineFailure, TypeOK, Standing, HasWritten, Ended
    <2> QED BY <2>1, <1>i, StoreStays
  <1>10. ASSUME NEW r \in Runs, Breaks(r) PROVE StoreInv'
    <2>1. /\ UNCHANGED <<dest, sent, answer, stored, late>>
          /\ \A q \in Runs : step[q] \in Ended => step'[q] = step[q]
          /\ \A q \in Runs : HasWritten(q) => HasWritten(q)'
          /\ \A q \in Runs : step'[q] = "done" => step[q] = "done"
      BY <1>10, <1>i, <1>s DEF Breaks, EngineFailure, TypeOK, Standing, HasWritten, Ended
    <2> QED BY <2>1, <1>i, StoreStays
  <1>11. ASSUME NEW r \in Runs, Execute(r) PROVE StoreInv'
    <2>1. /\ UNCHANGED <<dest, sent, answer, stored, late>>
          /\ \A q \in Runs : step[q] \in Ended => step'[q] = step[q]
          /\ \A q \in Runs : HasWritten(q) => HasWritten(q)'
          /\ \A q \in Runs : step'[q] = "done" => step[q] = "done"
      BY <1>11, <1>i, <1>s DEF Execute, TypeOK, Standing, HasWritten, Ended
    <2> QED BY <2>1, <1>i, StoreStays
  <1>12. ASSUME NEW r \in Runs, LayOut(r) PROVE StoreInv'
    <2>1. /\ UNCHANGED <<dest, sent, answer, stored, late>>
          /\ \A q \in Runs : step[q] \in Ended => step'[q] = step[q]
          /\ \A q \in Runs : HasWritten(q) => HasWritten(q)'
          /\ \A q \in Runs : step'[q] = "done" => step[q] = "done"
      BY <1>12, <1>i, <1>s DEF LayOut, TypeOK, Standing, HasWritten, Ended
    <2> QED BY <2>1, <1>i, StoreStays
  <1>13. ASSUME NEW r \in Runs, Put(r) PROVE StoreInv'
    <2>1. /\ UNCHANGED <<dest, sent, answer, stored, late>>
          /\ \A q \in Runs : step[q] \in Ended => step'[q] = step[q]
          /\ \A q \in Runs : HasWritten(q) => HasWritten(q)'
          /\ \A q \in Runs : step'[q] = "done" => step[q] = "done"
      BY <1>13, <1>i, <1>s DEF Put, TypeOK, Standing, HasWritten, Ended
    <2> QED BY <2>1, <1>i, StoreStays
  <1>14. ASSUME NEW r \in Runs, Refuse(r) PROVE StoreInv'
    <2>1. /\ UNCHANGED <<dest, sent, answer, stored, late>>
          /\ \A q \in Runs : step[q] \in Ended => step'[q] = step[q]
          /\ \A q \in Runs : HasWritten(q) => HasWritten(q)'
          /\ \A q \in Runs : step'[q] = "done" => step[q] = "done"
      BY <1>14, <1>i, <1>s DEF Refuse, TypeOK, Standing, HasWritten, Ended
    <2> QED BY <2>1, <1>i, StoreStays
  <1>15. ASSUME NEW r \in Runs, Silent(r) PROVE StoreInv'
    <2>1. /\ step[r] \notin Ended /\ step'[r] \in {"failed", "stopped"}
          /\ request[r] = "put" => HasWritten(r)'
          /\ \A q \in Runs : q # r => step'[q] = step[q]
          /\ \A q \in Runs : HasWritten(q) => HasWritten(q)'
          /\ late' = late \cup Abandoned(r)
          /\ UNCHANGED <<dest, sent, answer, stored>>
      BY <1>15, <1>i, <1>s DEF Silent, EngineFailure, TypeOK, Standing, HasWritten, Ended
    <2> QED BY <2>1, <1>i, AbandonStep
  <1>16. ASSUME NEW r \in Runs, Stop(r) PROVE StoreInv'
    <2>1. /\ step[r] \notin Ended /\ step'[r] \in {"failed", "stopped"}
          /\ request[r] = "put" => HasWritten(r)'
          /\ \A q \in Runs : q # r => step'[q] = step[q]
          /\ \A q \in Runs : HasWritten(q) => HasWritten(q)'
          /\ late' = late \cup Abandoned(r)
          /\ UNCHANGED <<dest, sent, answer, stored>>
      BY <1>16, <1>i, <1>s DEF Stop, TypeOK, Standing, HasWritten, Ended
    <2> QED BY <2>1, <1>i, AbandonStep
  <1>17. ASSUME NEW r \in Runs, Acknowledge(r) PROVE StoreInv'
    BY <1>17, <1>i, AcknowledgeStep
  <1>18. ASSUME NEW r \in Runs, Hold(r) PROVE StoreInv'
    BY <1>18, <1>i, HoldStep
  <1>19. ASSUME NEW r \in Runs, NEW p \in Prefixes, NEW f \in Files, Land(r, p, f) PROVE StoreInv'
    BY <1>19, <1>i, LandStep
  <1>20. ASSUME UNCHANGED vars PROVE StoreInv'
    BY <1>20, <1>i, StoreStays DEF vars, run, HasWritten
  <1> QED BY <1>1, <1>2, <1>3, <1>4, <1>5, <1>6, <1>7, <1>8, <1>9, <1>10, <1>11, <1>12, <1>13, <1>14, <1>15, <1>16, <1>17, <1>18, <1>19, <1>20, StepCases

(***************************************************************************)
(* The theorems.                                                           *)
(***************************************************************************)

\* The inductive invariant: where each run stands with what it put, and what that leaves
\* in the stores and on its way to them, for any runs over any prefixes.
THEOREM WriteInvariance == Spec => []IInv
  <1>1. Init => IInv
    BY TypesInit, StoreInit DEF IInv
  <1>2. IInv /\ [Next]_vars => IInv'
    BY TypesStep, StepInvStep, StoreStep DEF IInv
  <1> QED BY <1>1, <1>2, PTL DEF Spec

\* The variables stay of their types, the puts left to land among them.
THEOREM WriteTypesHold == Spec => []TypeOK
  <1>1. IInv => TypeOK BY DEF IInv
  <1> QED BY <1>1, WriteInvariance, PTL

\* A document in the store, or on its way to it, is the last object of its run.
LEMMA DocumentIsLast ==
  ASSUME IInv, NEW r \in Runs
  PROVE  /\ sent[r] \in Nat /\ Len(Order(r)) \in Nat \ {0}
         /\ \A p \in Places : stored[p][Document] = r =>
              /\ p = dest[r] /\ sent[r] + 1 >= Len(Order(r))
              /\ Order(r)[Len(Order(r))] = Document
         /\ \A p \in Prefixes : <<r, p, Document>> \in late => sent[r] + 1 = Len(Order(r))
  <1>1. sent[r] \in Nat /\ Len(Order(r)) \in Nat \ {0}
    BY OrderFacts DEF IInv, TypeOK
  <1>d. Document \in Files BY DEF Files
  <1>2. ASSUME NEW p \in Places, stored[p][Document] = r
        PROVE  /\ p = dest[r] /\ sent[r] + 1 >= Len(Order(r))
               /\ Order(r)[Len(Order(r))] = Document
    <2>1. p = dest[r] /\ \E i \in 1 .. Len(Order(r)) : i <= sent[r] + 1 /\ Document = Order(r)[i]
      BY <1>2, <1>d DEF IInv, StoreInv, ThereInv
    <2>2. PICK i \in 1 .. Len(Order(r)) : i <= sent[r] + 1 /\ Document = Order(r)[i]
      BY <2>1
    <2>3. i = Len(Order(r))
      BY <2>2, OrderFacts
    <2> QED BY <2>1, <2>2, <2>3, <1>1
  <1>3. ASSUME NEW p \in Prefixes, <<r, p, Document>> \in late
        PROVE  sent[r] + 1 = Len(Order(r))
    <2>1. sent[r] < Len(Order(r)) /\ Document = Order(r)[sent[r] + 1]
      BY <1>3, <1>d DEF IInv, StoreInv, LateInv, Turn
    <2>2. sent[r] + 1 \in 1 .. Len(Order(r))
      BY <2>1, <1>1
    <2> QED BY <2>1, <2>2, OrderFacts
  <1> QED BY <1>1, <1>2, <1>3

\* The commit holds for a reader at any moment: write.rs puts the graph document after
\* everything it lists, and no put of any run, late or not, takes an object away.
THEOREM DocumentCommits == Spec => []ListedPresent
  <1>1. IInv => ListedPresent
    <2> SUFFICES ASSUME IInv, NEW p \in Places, stored[p][Document] # None,
                        NEW f \in Listed(stored[p][Document])
                 PROVE  stored[p][f] # None
      BY DEF ListedPresent
    <2> DEFINE r == stored[p][Document]
    <2>1. r \in Runs
      BY DEF IInv, TypeOK, Files
    <2>2. /\ p = dest[r] /\ sent[r] + 1 >= Len(Order(r))
          /\ Order(r)[Len(Order(r))] = Document
          /\ sent[r] \in Nat /\ Len(Order(r)) \in Nat \ {0}
      BY <2>1, DocumentIsLast
    <2>3. PICK i \in 1 .. Len(Order(r)) : f = Order(r)[i]
      BY <2>1, OrderFacts, LenProperties DEF Listed, Range
    <2>4. CASE i = Len(Order(r))
      BY <2>2, <2>3, <2>4
    <2>5. CASE i # Len(Order(r))
      <3>1. i \in 1 .. sent[r]
        BY <2>2, <2>5
      <3> QED BY <2>1, <2>2, <2>3, <3>1 DEF IInv, StoreInv, PutInv
    <2> QED BY <2>4, <2>5
  <1> QED BY <1>1, WriteInvariance, PTL

\* A run refused before its writer starts leaves nothing in any store, now or later: the
\* program, the grant, the sources, the budget and the layout are all settled by then.
THEOREM RefusalsWriteNothing == Spec => []RefusedWritesNothing
  <1>1. IInv => RefusedWritesNothing
    BY NothingThere DEF IInv, RefusedWritesNothing, HasWritten
  <1> QED BY <1>1, WriteInvariance, PTL

\* A run that ends before its document's turn never leaves one, not by a put that lands
\* after the run is gone.
THEOREM EarlyEndsLeaveNoGraph == Spec => []EarlyEndNoGraph
  <1>1. IInv => EarlyEndNoGraph
    <2> SUFFICES ASSUME IInv, NEW r \in Runs, sent[r] + 1 < Len(Order(r)), NEW p \in Places
                 PROVE  /\ stored[p][Document] # r
                        /\ p \in Prefixes => <<r, p, Document>> \notin late
      BY DEF EarlyEndNoGraph
    <2> QED BY DocumentIsLast
  <1> QED BY <1>1, WriteInvariance, PTL

\* A run that answers has put its last object where it wrote, and an in-memory one hands
\* back every file of its graph.
THEOREM AnswersAreCommitted == Spec => []DoneIsCommitted
  <1>1. IInv => DoneIsCommitted
    <2> SUFFICES ASSUME IInv, NEW r \in Runs, step[r] = "done"
                 PROVE  /\ stored[dest[r]][Order(r)[Len(Order(r))]] # None
                        /\ dest[r] = r => answer[r] = Listed(r)
      BY DEF DoneIsCommitted
    <2>1. sent[r] = Len(Order(r)) /\ Len(Order(r)) \in 1 .. sent[r]
      BY OrderFacts DEF IInv, StepInv, Standing
    <2>2. stored[dest[r]][Order(r)[Len(Order(r))]] # None
      BY <2>1 DEF IInv, StoreInv, PutInv
    <2> QED BY <2>2 DEF IInv, StoreInv, MemoryInv
  <1> QED BY <1>1, WriteInvariance, PTL

\* How a run ended tells what it left, now and whatever the store still carries out.
THEOREM RunsEndAsTold == Spec => []EndsAsTold
  BY RefusalsWriteNothing, EarlyEndsLeaveNoGraph, AnswersAreCommitted, PTL DEF EndsAsTold

=============================================================================
