----------------------------- MODULE Templates ------------------------------
(***************************************************************************)
(* What a row of the catalogue is rendered as: TemplateReader, which reads  *)
(* the SQL shape a row is written in, its holes the arguments of the call   *)
(* (fossil-exec's render_expr_template).                                   *)
(*                                                                         *)
(* A text is its atoms: a word, a digit, a mark or a space.  Words and      *)
(* digits that touch are one word.                                         *)
(***************************************************************************)
EXTENDS Integers, Sequences, FiniteSets

LOCAL INSTANCE SequencesExt

CONSTANTS
    Upper,      \* the words of the dialect, each with what it is without case
    Functions,  \* the functions the engine has
    CastTypes,  \* cast_target
    Arity       \* how many arguments the call was given

Digits == {"0", "1"}
Wordlike(a) == a \in DOMAIN Upper \cup Digits

Node(op, says, of) == [op |-> op, says |-> says, of |-> of]
Nothing == Node("nothing", <<>>, <<>>)

-----------------------------------------------------------------------------
(* The reader: where it stands in a text, and what it has read.             *)

Refused == [ok |-> FALSE, tree |-> Nothing, pos |-> 0]
Done(tree, pos) == [ok |-> TRUE, tree |-> tree, pos |-> pos]

At(t, i) == IF i <= Len(t) THEN t[i] ELSE "end"
Skip(t, i) == Min({j \in i .. Len(t) + 1 : At(t, j) # " "})
From(t, i, keep(_)) == Min({j \in i .. Len(t) + 1 : ~keep(At(t, j))})

\* peek_kw: the word, in any case, and not as the beginning of a longer one.
KeywordAt(t, i, kw) ==
    LET j == Skip(t, i) IN
    /\ At(t, j) \in DOMAIN Upper /\ Upper[At(t, j)] = kw
    /\ ~Wordlike(At(t, j + 1))

CharAt(t, i, c) == At(t, Skip(t, i)) = c
Past(t, i) == Skip(t, i) + 1

Number(digits) == FoldLeft(LAMBDA n, d : 10 * n + (IF d = "1" THEN 1 ELSE 0), 0, digits)

\* '…', where two quotes are one.
RECURSIVE Quote(_, _, _)
Quote(t, i, read) ==
    CASE At(t, i) = "end" -> Refused
      [] At(t, i) = "'" /\ At(t, i + 1) = "'" -> Quote(t, i + 2, Append(read, "'"))
      [] At(t, i) = "'" -> Done(Node("text", read, <<>>), i + 1)
      [] OTHER -> Quote(t, i + 1, Append(read, t[i]))

\* %N, of an argument there is.
Hole(t, i) ==
    LET end == From(t, i, LAMBDA a : a \in Digits)
        digits == SubSeq(t, i, end - 1)
    IN  IF digits = <<>> \/ Number(digits) >= Arity THEN Refused ELSE Done(Node("hole", digits, <<>>), end)

\* The type of a CAST: up to the parenthesis that closes it.
CastEnd(t, i) ==
    LET Depth(j) == Cardinality({k \in i .. j : t[k] = "("}) - Cardinality({k \in i .. j : t[k] = ")"})
        ends == {j \in i .. Len(t) : Depth(j) < 0}
    IN  IF ends = {} THEN Len(t) + 1 ELSE Min(ends)

Trimmed(s) ==
    LET said == {i \in DOMAIN s : s[i] # " "} IN IF said = {} THEN <<>> ELSE SubSeq(s, Min(said), Max(said))
Casts(type) == type # <<>> /\ (type[1] = "DECIMAL" \/ type \in CastTypes)

RECURSIVE Read(_, _, _, _)

\* A rule of the grammar at a place of a text, `so` what is read of it so far.
Read(rule, t, i, so) ==
    LET Then(r, next(_)) == IF r.ok THEN next(r) ELSE Refused
        Expect(kw, at, next(_)) == IF KeywordAt(t, at, kw) THEN next(Past(t, at)) ELSE Refused
        j == Skip(t, i)
        ch == At(t, j)
    IN
    CASE rule = "expr" -> Then(Read("concat", t, i, Nothing), LAMBDA r : Read("or", t, r.pos, r.tree))
      [] rule = "or" ->
            IF KeywordAt(t, i, "OR")
            THEN Then(Read("concat", t, Past(t, i), Nothing),
                      LAMBDA r : Read("or", t, r.pos, Node("or", <<>>, <<so, r.tree>>)))
            ELSE Done(so, i)
      [] rule = "concat" -> Then(Read("primary", t, i, Nothing), LAMBDA r : Read("more", t, r.pos, r.tree))
      [] rule = "more" ->
            CASE ch = "|" /\ At(t, j + 1) = "|" ->
                    Then(Read("primary", t, j + 2, Nothing),
                         LAMBDA r : Read("more", t, r.pos, Node("concat", <<>>, <<so, r.tree>>)))
              [] KeywordAt(t, i, "IS") ->
                    IF KeywordAt(t, Past(t, i), "NOT")
                    THEN Expect("NULL", Past(t, Past(t, i)), LAMBDA p : Read("more", t, p, Node("is not null", <<>>, <<so>>)))
                    ELSE Expect("NULL", Past(t, i), LAMBDA p : Read("more", t, p, Node("is null", <<>>, <<so>>)))
              [] OTHER -> Done(so, i)
      [] rule = "primary" ->
            CASE ch = "%" -> Hole(t, j + 1)
              [] ch = "'" -> Quote(t, j + 1, <<>>)
              [] ch \in Digits ->
                    LET end == From(t, j, LAMBDA a : a \in Digits) IN Done(Node("int", SubSeq(t, j, end - 1), <<>>), end)
              [] ch = "(" ->
                    Then(Read("expr", t, j + 1, Nothing),
                         LAMBDA r : IF CharAt(t, r.pos, ")") THEN Done(r.tree, Past(t, r.pos)) ELSE Refused)
              [] KeywordAt(t, i, "CAST") ->
                    IF ~CharAt(t, j + 1, "(") THEN Refused
                    ELSE Then(Read("expr", t, Past(t, j + 1), Nothing), LAMBDA r : Expect("AS", r.pos, LAMBDA p :
                            LET end == CastEnd(t, Skip(t, p))
                                type == Trimmed(SubSeq(t, Skip(t, p), end - 1))
                            IN  IF At(t, end) = ")" /\ Casts(type) THEN Done(Node("cast", SelectSeq(type, LAMBDA a : a # " "), <<r.tree>>), end + 1) ELSE Refused))
              [] KeywordAt(t, i, "CASE") ->
                    Expect("WHEN", j + 1, LAMBDA w : Then(Read("expr", t, w, Nothing), LAMBDA when :
                    Expect("THEN", when.pos, LAMBDA h : Then(Read("expr", t, h, Nothing), LAMBDA then :
                    Expect("ELSE", then.pos, LAMBDA e : Then(Read("expr", t, e, Nothing), LAMBDA else :
                    Expect("END", else.pos, LAMBDA p : Done(Node("case", <<>>, <<when.tree, then.tree, else.tree>>), p))))))))
              [] ch \in DOMAIN Upper ->
                    LET end == From(t, j, Wordlike)
                        name == SubSeq(t, j, end - 1)
                        first == Past(t, end)
                    IN  IF ~CharAt(t, end, "(") \/ (CharAt(t, first, ")") /\ name \notin Functions) THEN Refused
                        ELSE IF CharAt(t, first, ")") THEN Done(Node("call", name, <<>>), Past(t, first))
                        ELSE IF name \in Functions THEN Read("args", t, first, Node("call", name, <<>>)) ELSE Refused
              [] OTHER -> Refused
      [] rule = "args" ->
            Then(Read("expr", t, i, Nothing), LAMBDA r :
                LET call == [so EXCEPT !.of = Append(@, r.tree)] IN
                CASE CharAt(t, r.pos, ",") -> Read("args", t, Past(t, r.pos), call)
                  [] CharAt(t, r.pos, ")") -> Done(call, Past(t, r.pos))
                  [] OTHER -> Refused)

\* render_expr_template: the whole of the text, or an error.
Rendered(t) ==
    LET r == Read("expr", t, 1, Nothing) IN IF r.ok /\ Skip(t, r.pos) > Len(t) THEN r ELSE Refused

-----------------------------------------------------------------------------
(* Properties.                                                             *)

Binds(e) == CASE e.op = "or" -> 0 [] e.op \in {"concat", "is null", "is not null"} -> 1 [] OTHER -> 2

RECURSIVE Written(_, _)

\* How the catalogue writes an expression where what binds less needs parentheses.
Written(e, least) ==
    LET All(a, b, between) == Written(a, IF between = <<"OR">> THEN 0 ELSE 1) \o <<" ">> \o between \o <<" ">>
                                  \o Written(b, IF between = <<"OR">> THEN 1 ELSE 2)
        Words(w, a) == w \o <<" ">> \o Written(a, 0) \o <<" ">>
        args == [i \in DOMAIN e.of |-> (IF i = 1 THEN <<>> ELSE <<",">>) \o Written(e.of[i], 0)]
        bare ==
            CASE e.op = "hole" -> <<"%">> \o e.says
              [] e.op = "int" -> e.says
              [] e.op = "text" -> <<"'">> \o FlattenSeq([i \in DOMAIN e.says |-> IF e.says[i] = "'" THEN <<"'", "'">> ELSE <<e.says[i]>>]) \o <<"'">>
              [] e.op = "or" -> All(e.of[1], e.of[2], <<"OR">>)
              [] e.op = "concat" -> All(e.of[1], e.of[2], <<"|", "|">>)
              [] e.op = "is null" -> Written(e.of[1], 1) \o <<" ", "IS", " ", "NULL">>
              [] e.op = "is not null" -> Written(e.of[1], 1) \o <<" ", "IS", " ", "NOT", " ", "NULL">>
              [] e.op = "cast" -> <<"CAST", "(">> \o Written(e.of[1], 0) \o <<" ", "AS", " ">> \o e.says \o <<")">>
              [] e.op = "case" -> <<"CASE", " ">> \o Words(<<"WHEN">>, e.of[1]) \o Words(<<"THEN">>, e.of[2]) \o Words(<<"ELSE">>, e.of[3]) \o <<"END">>
              [] e.op = "call" -> e.says \o <<"(">> \o FlattenSeq(args) \o <<")">>
    IN  IF Binds(e) < least THEN <<"(">> \o bare \o <<")">> ELSE bare

\* What is written reads back as itself, with no more space than its words need or with more.
Tight(t) ==
    LET Needed(i) == t[i] # " " \/ (Wordlike(At(t, i - 1)) /\ Wordlike(At(t, i + 1))) IN
    FlattenSeq([i \in DOMAIN t |-> IF i > 1 /\ ~Needed(i) THEN <<>> ELSE <<t[i]>>])
Loose(t) ==
    LET Inside(i) == \/ Wordlike(t[i]) /\ Wordlike(At(t, i + 1))
                     \/ Cardinality({j \in 1 .. i : t[j] = "'"}) % 2 = 1 \/ At(t, i + 1) = "'" \/ t[i] \in {"%", "|"}
    IN  FlattenSeq([i \in DOMAIN t |-> IF Inside(i) THEN <<t[i]>> ELSE <<t[i], " ">>])

RendersBack(e) ==
    \A t \in {Written(e, 0), <<" ">> \o Loose(Written(e, 0)), Tight(Written(e, 0))} : Rendered(t).ok /\ Rendered(t).tree = e

\* What is rendered says every word and mark of its text in its order, and nothing else: spaces
\* and parentheses aside.
Said(t) ==
    FlattenSeq([i \in DOMAIN t |->
        CASE t[i] \in {" ", "(", ")"} -> <<>> [] t[i] \in DOMAIN Upper -> <<Upper[t[i]]>> [] OTHER -> <<t[i]>>])

NothingUnsaid(t) == Rendered(t).ok => Said(Written(Rendered(t).tree, 0)) = Said(t)
=============================================================================
