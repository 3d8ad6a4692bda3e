------------------------------ MODULE Literals ------------------------------
(* Names and strings, a character at a time: where the lexer ends a literal,*)
(* how it is carved at its holes, how a name is spelled and read back, and  *)
(* what value a literal of an expression has.                               *)
(*                                                                          *)
(* A text is a sequence of characters.  A letter stands for what a name may *)
(* hold anywhere, a digit for what it may not begin with, a blank for what  *)
(* it may not hold at all; a word that is reserved is one of Keywords.      *)
EXTENDS Naturals, Sequences

LOCAL INSTANCE SequencesExt

CONSTANTS Letters, Digits, Keywords

Quote == "quote"
Backslash == "backslash"
Break == "break"                \* the end of a line

At(s, i) == IF i \in DOMAIN s THEN s[i] ELSE "end"

From(s, i) == SubSeq(s, i, Len(s))

-----------------------------------------------------------------------------
(* The end of a literal whose opening quote has been read: the place after  *)
(* its closing quote, or 0.                                                 *)

RECURSIVE CloseWithHoles(_, _, _)
CloseWithHoles(s, i, depth) ==
    LET inner == CloseWithHoles(s, i + 1, 0)
    IN  CASE i > Len(s) -> 0
          [] s[i] = Backslash /\ depth = 0 -> CloseWithHoles(s, i + 2, 0)
          [] s[i] = Quote /\ depth = 0 -> i + 1
          [] s[i] = "{" /\ depth = 0 /\ At(s, i + 1) = "{" -> CloseWithHoles(s, i + 2, 0)
          [] s[i] = "{" -> CloseWithHoles(s, i + 1, depth + 1)
          [] s[i] = "}" /\ depth > 0 -> CloseWithHoles(s, i + 1, depth - 1)
          [] s[i] = Quote -> IF inner = 0 THEN 0 ELSE CloseWithHoles(s, inner, depth)
          [] s[i] = Break /\ depth > 0 -> 0
          [] OTHER -> CloseWithHoles(s, i + 1, depth)

RECURSIVE FirstQuote(_, _)
FirstQuote(s, i) ==
    CASE i > Len(s) -> 0
      [] s[i] = Backslash -> FirstQuote(s, i + 2)
      [] s[i] = Quote -> i + 1
      [] OTHER -> FirstQuote(s, i + 1)

\* A hole that never closes breaks no later line.
StringEnd(s) == IF CloseWithHoles(s, 1, 0) # 0 THEN CloseWithHoles(s, 1, 0) ELSE FirstQuote(s, 1)

-----------------------------------------------------------------------------
(* Carving what stands between the quotes.                                  *)

\* Mutant: a doubled brace opens a hole.
FindHoleDoubled(s, i) == LET b == {j \in i..Len(s) : s[j] = "{"} IN IF b = {} THEN Len(s) + 1 ELSE Min(b)

\* The next brace that opens a hole, from i; the end when there is none.
RECURSIVE FindHole(_, _)
FindHole(s, i) ==
    CASE i > Len(s) -> i
      [] s[i] = "{" /\ At(s, i + 1) = "{" -> FindHole(s, i + 2)
      [] s[i] = "{" -> i
      [] OTHER -> FindHole(s, i + 1)

\* Past a string within a hole, to its closing quote.
RECURSIVE PastString(_, _)
PastString(s, i) ==
    IF i > Len(s) \/ s[i] = Quote THEN i ELSE PastString(s, IF s[i] = Backslash THEN i + 2 ELSE i + 1)

\* The brace that closes the hole whose body begins at i; the end when there is none.
RECURSIVE MatchClosingBrace(_, _, _)
MatchClosingBrace(s, i, depth) ==
    CASE i > Len(s) -> Len(s) + 1
      [] s[i] = Quote -> MatchClosingBrace(s, PastString(s, i + 1) + 1, depth)
      [] s[i] = "{" -> MatchClosingBrace(s, i + 1, depth + 1)
      [] s[i] = "}" /\ depth = 0 -> i
      [] s[i] = "}" -> MatchClosingBrace(s, i + 1, depth - 1)
      [] OTHER -> MatchClosingBrace(s, i + 1, depth)

Piece(kind, s) == [kind |-> kind, s |-> s]

\* Text and holes in turn; a hole that does not close ends the run.
RECURSIVE CarveFrom(_, _)
CarveFrom(s, i) ==
    LET hole == FindHole(s, i)
        end  == MatchClosingBrace(s, hole + 1, 0)
        text == IF hole > i THEN <<Piece("text", SubSeq(s, i, hole - 1))>> ELSE <<>>
    IN  IF i > Len(s) THEN <<>>
        ELSE IF hole > Len(s) THEN text
        ELSE text \o <<Piece(IF end <= Len(s) THEN "hole" ELSE "open hole", SubSeq(s, hole + 1, end - 1))>>
                  \o CarveFrom(s, end + 1)

Carve(s) == CarveFrom(s, 1)

-----------------------------------------------------------------------------
(* Names.                                                                   *)

IsBare(name) ==
    /\ name # <<>> /\ name \notin Keywords
    /\ name[1] \in Letters
    /\ \A i \in DOMAIN name : name[i] \in Letters \cup Digits

\* What the data calls a thing, where the grammar holds no string.
Identifier(word) ==
    LET held == [i \in DOMAIN word |-> IF word[i] \in Letters \cup Digits THEN word[i] ELSE "_"]
    IN  IF IsBare(held) THEN held ELSE <<"_">> \o held

Escape(value) ==
    FlattenSeq([i \in DOMAIN value |->
        CASE value[i] \in {Quote, Backslash} -> <<Backslash, value[i]>>
          [] value[i] = "{" -> <<"{", "{">>
          [] value[i] = Break -> <<Backslash, "n">>
          [] OTHER -> <<value[i]>>])

Quoted(s) == <<Quote>> \o s \o <<Quote>>

Spell(name) == IF IsBare(name) THEN name ELSE Quoted(Escape(name))

\* Each escape resolved once, from the left.
RECURSIVE Resolved(_)
Resolved(s) ==
    CASE s = <<>> -> <<>>
      [] s[1] = Backslash /\ Len(s) = 1 -> s
      [] s[1] = Backslash -> <<IF s[2] = "n" THEN Break ELSE s[2]>> \o Resolved(From(s, 3))
      [] s[1] = "{" /\ At(s, 2) = "{" -> <<"{">> \o Resolved(From(s, 3))
      [] OTHER -> <<s[1]>> \o Resolved(Tail(s))

StringValue(raw) ==
    Resolved(IF Len(raw) > 1 /\ raw[1] = Quote /\ Last(raw) = Quote THEN SubSeq(raw, 2, Len(raw) - 1) ELSE raw)

-----------------------------------------------------------------------------
(* What a literal of an expression means.                                   *)

RECURSIVE UnescapeBraces(_)
UnescapeBraces(s) ==
    CASE s = <<>> -> <<>>
      [] s[1] = "{" /\ At(s, 2) = "{" -> <<"{">> \o UnescapeBraces(From(s, 3))
      [] OTHER -> <<s[1]>> \o UnescapeBraces(Tail(s))

\* Every quote at either end is trimmed.
TrimQuotes(raw) ==
    LET inside == {i \in DOMAIN raw : raw[i] # Quote}
    IN  IF inside = {} THEN <<>> ELSE SubSeq(raw, Min(inside), Max(inside))

StringLit(raw) == UnescapeBraces(TrimQuotes(raw))

\* A text with holes: the braces of its texts resolved, its holes left to be read as expressions.
Interpolation(inner) ==
    [i \in DOMAIN Carve(inner) |->
        LET p == Carve(inner)[i] IN IF p.kind = "text" THEN [p EXCEPT !.s = UnescapeBraces(@)] ELSE p]
=============================================================================
