------------------------------- MODULE Trees -------------------------------
(* The tree of a program.  A token is its spelling; its kind is the         *)
(* spelling too, but for names, attributes and literals.  A node has a kind *)
(* and what is in it, in order; a token in a tree is a node with nothing in *)
(* it.  Trivia is never in a tree here.                                     *)
EXTENDS Naturals, Sequences

LOCAL INSTANCE SequencesExt
LOCAL INSTANCE FiniteSetsExt

Identifiers ==
    {"type", "as", "severity", "a", "b", "c", "A", "B", "C", "T", "U", "V", "k", "n", "on", "schema", "delimiter",
     "seq", "str", "math", "io", "csv", "json", "rdf", "shex", "trim", "replace", "sum", "text", "needle", "replacement",
     "where", "select", "join", "group_by", "union", "distinct", "rows", "none"}

Strings == {"lit", "needless", "p.csv", "p.json", "t.shex", "u.shex", "bad.shex", "none.shex", "byte", "wide", "T1", "T2"}

Kind(t) ==
    CASE t \in Identifiers -> "IDENT"
      [] t \in Strings -> "STRING"
      [] t \in {"@iri", "@annotation", "@assert", "@severity", "@subject"} -> "AT_ATTR"
      [] t \in {"ws2", "ws3", "ws4"} -> "WHITESPACE"
      [] t \in {"#", "skew"} -> "ERROR"
      [] OTHER -> t

Node(kind, of) == [node |-> kind, of |-> of]
Leaf(t) == Node(t, <<>>)

IsToken(t) == t.of = <<>> /\ t.node \notin {"ERROR", "MAPPING_BODY", "PROGRAM"}
Children(t) == SelectSeq(t.of, LAMBDA x : ~IsToken(x))
Tokens(t) == SelectSeq(t.of, IsToken)

\* What is first of its kind in a sequence; nothing, when nothing is.
Missing == Leaf("")
FirstOf(s, Is(_)) == LET at == {i \in DOMAIN s : Is(s[i])} IN IF at = {} THEN Missing ELSE s[Min(at)]
First(t) == FirstOf(t.of, LAMBDA x : ~IsToken(x))
ChildOf(t, kind) == FirstOf(t.of, LAMBDA x : ~IsToken(x) /\ x.node = kind)

NoName == ""
Ident(t) == FirstOf(t.of, LAMBDA x : IsToken(x) /\ Kind(x.node) = "IDENT").node

RECURSIVE Yield(_)
Yield(t) == IF IsToken(t) THEN <<t.node>> ELSE FlattenSeq([i \in DOMAIN t.of |-> Yield(t.of[i])])

-----------------------------------------------------------------------------
(* Trees of expressions.                                                    *)

Lit(x) == Node("LITERAL_EXPR", <<Leaf(x)>>)
Bin(x, op, y) == Node("BINARY_EXPR", <<x, Leaf(op), y>>)
If(c, x, y) == Node("TERNARY_EXPR", <<c, Leaf("?"), x, Leaf(":"), y>>)
After(e, s) == Node("POSTFIX_EXPR", <<e>> \o s)
Dot(e, n) == After(e, <<Leaf("."), Leaf(n)>>)
Call(e, args) == After(e, <<Leaf("("), Node("ARG_LIST", args), Leaf(")")>>)
Paren(e) == Node("PAREN_EXPR", <<Leaf("("), e, Leaf(")")>>)
Argument(e) == Node("ARG", <<e>>)
Named(n, e) == Node("NAMED_ARG", <<Leaf(n), Leaf("="), e>>)
Alias(n, m) == Node("ALIAS_ARG", <<Leaf(n), Leaf("as"), Leaf(m)>>)
=============================================================================
