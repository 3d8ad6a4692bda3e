------------------------------- MODULE MCPage -------------------------------
(* What a page does before and beside a run, side by side: the compiler it  *)
(* is given its programs by (MCCompiler), and the mounts of its SQL engine  *)
(* (MCMount).  A behaviour is of one part; the other has not begun.         *)
EXTENDS MCCompiler, MCMount

compilerVars == <<body, syntaxVars, text, lowerVars, document, rule>>

\* Nobody mounts.
NotMounted ==
    /\ host = CHOOSE h \in Hosts : TRUE
    /\ pc = [m \in Mounts |-> "idle"]
    /\ got = [m \in Mounts |-> 0] /\ rel = [m \in Mounts |-> 0]
    /\ leaving = [m \in Mounts |-> None]
    /\ opened = {} /\ aborted = {} /\ orphans = {}
    /\ table = [k \in Keys |-> None]
    /\ held = [e \in Entries |-> NoHeld]
    /\ queue = <<>> /\ httpfs = FALSE
    /\ granted = [n \in Names |-> None]

\* No program is written.
NoProgram == MCInit

PageInit == NoProgram /\ Init

PageNext ==
    \/ NotMounted /\ MCNext /\ UNCHANGED vars
    \/ NoProgram /\ Next /\ UNCHANGED compilerVars

PageSpec == PageInit /\ [][PageNext]_<<compilerVars, vars>>
=============================================================================
