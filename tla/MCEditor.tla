----------------------------- MODULE MCEditor -----------------------------
(* The editor's parts side by side, each on its own small instance: a       *)
(* program whose calls overlap (Program), one profile of its sources        *)
(* (Describe), and the database both are asked of (Workspace).  A behaviour *)
(* is of one part; the others stand still.                                  *)
EXTENDS Program, Describe, Workspace

CONSTANTS t1, t2, d1, d2, c1, c2, c3, s1, s2, k1, k2, here, a1, program, shapes

MCNames == [t \in {t1, t2} |-> IF t = t1 THEN {d1} ELSE {d1, d2}]

VARIABLE part

\* Two files of two and one columns: a key, a column that repeats, one that does not hold.
Table(types, rows) == [types |-> types, rows |-> rows]
People == Table(<<"int", "int">>, <<<<1, 2>>, <<2, 2>>, <<3, Null>>>>)
Cities == Table(<<"int">>, <<<<1>>, <<2>>>>)
Scores == Table(<<"float">>, <<<<1>>, <<2>>>>)

MCDatas ==
    {[s \in {s1, s2} |-> IF s = s1 THEN People ELSE Cities],
     [s \in {s1, s2} |-> IF s = s1 THEN Scores ELSE Cities]}
MCOptions ==
    {[sample |-> 2, shown |-> 1, depth |-> "whole"], [sample |-> 0, shown |-> 0, depth |-> "whole"],
     [sample |-> 0, shown |-> 0, depth |-> "types"]}
MCVia == [s \in {s1, s2} |-> IF s = s1 THEN k1 ELSE k2]

\* Two buffers of one directory, a program and the document it names; texts that read one
\* source twice, through a connection, and name a document beside them or through it.
Beside(n) == <<"in", here, <<"beside", n>>>>

MCPaths   == {Beside(program), Beside(shapes)}
MCClaimed == {Beside(shapes)}

File(types, sources) == [types |-> types, sources |-> sources]
Source(uri, schema) == [uri |-> uri, schema |-> schema]
Through == <<"at", a1, shapes>>

MCFileTexts ==
    {File(<<<<"beside", shapes>>>>, <<Source(Through, None)>>),
     File(<<Through>>, <<Source(Through, <<"beside", shapes>>), Source(Through, None)>>)}

vars == <<part, programVars, describeVars, workspaceVars>>

\* What the part that stands still looks like.
Idle == [s \in {s1, s2} |-> IF s = s1 THEN Scores ELSE Cities]

NoProfile == DescribeInitWith(Idle, [sample |-> 0, shown |-> 0, depth |-> "types"], {})
NoProgram == Init /\ text = t1
NoHost == WorkspaceInit /\ host = "editor"

MCInit ==
    \/ part = "program" /\ Init /\ NoProfile /\ NoHost
    \/ part = "describe" /\ DescribeInit /\ NoProgram /\ NoHost
    \/ part = "workspace" /\ WorkspaceInit /\ NoProgram /\ NoProfile

MCNext ==
    \/ part = "program" /\ Next /\ UNCHANGED <<part, describeVars, workspaceVars>>
    \/ part = "describe" /\ DescribeNext /\ UNCHANGED <<part, programVars, workspaceVars>>
    \/ part = "workspace" /\ WorkspaceNext /\ UNCHANGED <<part, programVars, describeVars>>

MCFairness ==
    LET own(A) == part = "program" /\ A /\ UNCHANGED <<part, describeVars, workspaceVars>>
    IN  /\ WF_vars(own(\E ok \in BOOLEAN : Booted(ok)))
        /\ \A c \in Calls : WF_vars(own(Moves(c)))
        /\ WF_vars(part = "describe" /\ Owed /\ UNCHANGED <<part, programVars, workspaceVars>>)

MCSpec == MCInit /\ [][MCNext]_vars /\ MCFairness

\* Every call of a program ends, and so does every profile.
EditorSettles == CallsEnd /\ DescribeEnds

EditorTypeOK == ProgramTypeOK /\ DescribeTypeOK /\ WorkspaceTypeOK
=============================================================================
