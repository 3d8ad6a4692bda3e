------------------------------ MODULE Program ------------------------------
(***************************************************************************)
(* FossilProgram (program.ts), resolveDocuments (documents.ts), read       *)
(* (objects.ts) and loader (deadline.ts): one text, one workspace, and the *)
(* calls over it.  Every call but the synchronous ones settles first:      *)
(* reads, through the host, the documents the text names and the workspace *)
(* lacks.  Calls overlap at every await; the text may change at any event. *)
(*                                                                         *)
(* Every wait is bounded: connections by HOST_MS, the module by MODULE_MS, *)
(* and a read by the storage's own deadlines.                              *)
(***************************************************************************)
EXTENDS Naturals, FiniteSets

CONSTANTS
    Texts,
    Documents,      \* by key
    Names,          \* text -> the documents it names (documents_named)
    Calls,
    Edits           \* a bound on the updates

ASSUME ProgramAssumption ==
    Names \in [Texts -> SUBSET Documents] /\ Edits \in Nat

Kinds == {"none", "open", "diagnostics", "query", "describe", "scan"}

VARIABLES
    boot,           \* the loader's memo: none, pending, kept
    workspace,      \* none until open, then open, then freed
    opened,         \* open returned its program
    text,
    edits,          \* updates made
    registered,     \* the documents the workspace holds
    unread,         \* what the last settle to end could not read
    descriptors,    \* the call whose answer about the sources the workspace holds
    kind, stage, attempted, batch, tried,   \* of each call
    odd             \* of each call, the parity of its turns: a turn that finds what the one
                    \* before it found is a step all the same

call == <<kind, stage, attempted, batch, tried, odd>>
shared == <<boot, workspace, opened, text, edits, registered, unread, descriptors>>
programVars == <<shared, call>>

Stages == {"idle", "booting", "connecting", "reading", "returned", "settled", "profiling",
           "answered", "rejected"}

Init ==
    /\ boot = "none" /\ workspace = "none" /\ opened = FALSE
    /\ text \in Texts /\ edits = 0
    /\ registered = {} /\ unread = {} /\ descriptors = {}
    /\ kind = [c \in Calls |-> "none"]
    /\ stage = [c \in Calls |-> "idle"]
    /\ attempted = [c \in Calls |-> {}]
    /\ batch = [c \in Calls |-> {}]
    /\ tried = [c \in Calls |-> {}]
    /\ odd = [c \in Calls |-> FALSE]

\* missing_documents
Missing == Names[text] \ registered

To(c, s) == stage' = [stage EXCEPT ![c] = s]

\* A call begins: open and the stateless scans boot the module, sharing a boot that is
\* under way or kept; a program's own calls ask for the connections at once.
Begin(c, k) ==
    /\ stage[c] = "idle"
    /\ kind' = [kind EXCEPT ![c] = k]
    /\ \/ /\ k \in {"scan", "open"} /\ (k = "open" => \A d \in Calls : kind[d] # "open")
          /\ To(c, IF boot = "kept" THEN "connecting" ELSE "booting")
          /\ boot' = IF boot = "none" THEN "pending" ELSE boot
          /\ workspace' = IF boot = "kept" /\ k = "open" THEN "open" ELSE workspace
       \/ /\ k \in {"diagnostics", "query", "describe"} /\ opened
          /\ To(c, "connecting")
          /\ UNCHANGED <<boot, workspace>>
    /\ UNCHANGED <<opened, text, edits, registered, unread, descriptors, attempted, batch, tried, odd>>

\* The boot answers: kept, or forgotten before its callers hear of it.
Booted(ok) ==
    /\ boot = "pending"
    /\ boot' = IF ok THEN "kept" ELSE "none"
    /\ stage' = [c \in Calls |->
                   IF stage[c] # "booting" THEN stage[c]
                   ELSE IF ok THEN "connecting" ELSE "rejected"]
    /\ workspace' = IF ok /\ \E c \in Calls : stage[c] = "booting" /\ kind[c] = "open"
                    THEN "open" ELSE workspace
    /\ UNCHANGED <<opened, text, edits, registered, unread, descriptors, kind, attempted, batch,
                   tried, odd>>

\* A settle that throws: open's frees the workspace.
Reject(c) ==
    /\ To(c, "rejected")
    /\ workspace' = IF kind[c] = "open" THEN "freed" ELSE workspace

\* Mutant: each turn forgets what the turns before it could not read.
TurnLast(c, held, failed) ==
    LET pending == (Names[text] \ held) \ attempted[c] IN
    /\ odd' = [odd EXCEPT ![c] = ~@]
    /\ tried' = [tried EXCEPT ![c] = failed \ tried[c]]
    /\ batch' = [batch EXCEPT ![c] = pending]
    /\ attempted' = [attempted EXCEPT ![c] = @ \cup pending]
    /\ To(c, IF pending = {} THEN "returned" ELSE "reading")

\* A turn of resolveDocuments' loop over the documents now held: what is missing of the
\* text as it stands, each document once.
Turn(c, held, failed) ==
    LET pending == (Names[text] \ held) \ attempted[c] IN
    /\ odd' = [odd EXCEPT ![c] = ~@]
    /\ tried' = [tried EXCEPT ![c] = failed]
    /\ batch' = [batch EXCEPT ![c] = pending]
    /\ attempted' = [attempted EXCEPT ![c] = @ \cup pending]
    /\ To(c, IF pending = {} THEN "returned" ELSE "reading")

\* The host's connections: answered, or refused, or silent, or the call aborted.
Connected(c) ==
    /\ stage[c] = "connecting"
    /\ \/ Reject(c) /\ UNCHANGED <<attempted, batch, tried, odd>>
       \/ /\ kind[c] = "scan" /\ To(c, "answered")
          /\ UNCHANGED <<workspace, attempted, batch, tried, odd>>
       \/ /\ kind[c] # "scan" /\ workspace = "open"
          /\ Turn(c, registered, {})
          /\ UNCHANGED workspace
    /\ UNCHANGED <<boot, opened, text, edits, registered, unread, descriptors, kind>>

\* A batch read: some answered and registered, the others unread.  The workspace may
\* have been freed, and then the first use of it throws; the whole read may be aborted.
ReadBatch(c) ==
    /\ stage[c] = "reading"
    /\ \/ Reject(c) /\ UNCHANGED <<registered, attempted, batch, tried, odd>>
       \/ /\ workspace = "open"
          /\ \E got \in SUBSET batch[c] :
               /\ registered' = registered \cup got
               /\ Turn(c, registered', tried[c] \cup (batch[c] \ got))
          /\ UNCHANGED workspace
    /\ UNCHANGED <<boot, opened, text, edits, unread, descriptors, kind>>

\* settle's continuation.
Settle(c) ==
    /\ stage[c] = "returned"
    /\ unread' = tried[c]
    /\ To(c, "settled")
    /\ UNCHANGED <<boot, workspace, opened, text, edits, registered, descriptors, kind,
                   attempted, batch, tried, odd>>

\* The call's own continuation, in a later microtask: diagnostics reads the unread and the
\* rows, a query answers, open hands over the program, describe profiles what is read.
Answer(c) ==
    /\ stage[c] = "settled"
    /\ IF workspace = "freed" THEN To(c, "rejected")
       ELSE To(c, IF kind[c] = "describe" THEN "profiling" ELSE "answered")
    /\ opened' = (opened \/ kind[c] = "open")
    /\ UNCHANGED <<boot, workspace, text, edits, registered, unread, descriptors, kind,
                   attempted, batch, tried, odd>>

\* profileInputs answers (Describe), and its answer replaces the one held.
Describes(c) ==
    /\ stage[c] = "profiling"
    /\ \/ To(c, "rejected") /\ UNCHANGED descriptors
       \/ workspace = "open" /\ descriptors' = {c} /\ To(c, "answered")
    /\ UNCHANGED <<boot, workspace, opened, text, edits, registered, unread, kind, attempted,
                   batch, tried, odd>>

\* Between events the microtasks are drained.
Quiet == \A c \in Calls : stage[c] \notin {"returned", "settled"}

\* update: the buffer's text, when it is another.
Update(t) ==
    /\ opened /\ workspace = "open" /\ Quiet
    /\ t # text /\ edits < Edits
    /\ text' = t /\ edits' = edits + 1
    /\ UNCHANGED <<boot, workspace, opened, registered, unread, descriptors, call>>

Close ==
    /\ opened /\ workspace = "open" /\ Quiet
    /\ workspace' = "freed"
    /\ UNCHANGED <<boot, opened, text, edits, registered, unread, descriptors, call>>

Next ==
    \/ \E c \in Calls : \/ \E k \in Kinds \ {"none"} : Begin(c, k)
                        \/ Connected(c) \/ ReadBatch(c) \/ Settle(c) \/ Answer(c) \/ Describes(c)
    \/ \E ok \in BOOLEAN : Booted(ok)
    \/ \E t \in Texts : Update(t)
    \/ Close

Moves(c) == Connected(c) \/ ReadBatch(c) \/ Settle(c) \/ Answer(c) \/ Describes(c)

\* Every wait ends (deadline.ts), and continuations run.
Fairness ==
    /\ WF_programVars(\E ok \in BOOLEAN : Booted(ok))
    /\ \A c \in Calls : WF_programVars(Moves(c))

Spec == Init /\ [][Next]_programVars /\ Fairness

------------------------------------------------------------------------------
(* Properties                                                              *)

ProgramTypeOK ==
    /\ boot \in {"none", "pending", "kept"}
    /\ workspace \in {"none", "open", "freed"} /\ opened \in BOOLEAN
    /\ text \in Texts /\ edits \in 0 .. Edits
    /\ registered \subseteq Documents /\ unread \subseteq Documents /\ descriptors \subseteq Calls
    /\ \A c \in Calls :
          /\ kind[c] \in Kinds /\ stage[c] \in Stages
          /\ batch[c] \subseteq attempted[c] /\ tried[c] \subseteq attempted[c]
          /\ attempted[c] \subseteq Documents

\* Whoever's settle was the last to end, a document that is missing of the text when
\* diagnostics answers is reported unread with its problem (program.ts:64-67).
MissingIsSaid ==
    \A c \in Calls : stage[c] = "settled" /\ workspace = "open" => Missing \subseteq unread

\* And only such a document: diagnostics answers about the text of the last update
\* (program.ts:5-9), and a document it reports is one the checker sees as missing (66).
UnreadIsMissing ==
    \A c \in Calls :
        stage[c] = "settled" /\ kind[c] = "diagnostics" /\ workspace = "open" =>
            unread \subseteq Missing

\* A document that cannot be read ends the loop instead of repeating it
\* (documents.ts:12-13): every call ends.
CallsEnd ==
    \A c \in Calls : stage[c] # "idle" ~> stage[c] \in {"answered", "rejected"}

=============================================================================
