---------------------------- MODULE LikePattern ----------------------------
(***************************************************************************)
(* The search of GET /products: a term is escaped, wrapped in wildcards    *)
(* and matched with ILIKE ... ESCAPE '\'.  A text is a sequence of         *)
(* characters; "a" and "A" stand for the letters, "%", "_" and "\" for     *)
(* themselves.                                                             *)
(***************************************************************************)
EXTENDS Integers, Sequences, SequencesExt

Backslash  == "\\"
Percent    == "%"
Underscore == "_"

\* str.replace of every c by a backslash and c.
Escaped(s, c) ==
  FlattenSeq([i \in 1 .. Len(s) |-> IF s[i] = c THEN <<Backslash, c>> ELSE <<s[i]>>])

\* The escape character itself goes first, or it would escape the escapes.
EscapeLike(s) == Escaped(Escaped(Escaped(s, Backslash), Percent), Underscore)

Pattern(term) == <<Percent>> \o EscapeLike(term) \o <<Percent>>

Lower(c) == IF c = "A" THEN "a" ELSE c

\* ILIKE: m[i] are the positions from which on the text matches the pattern from
\* i on.
ILike(text, p) ==
  LET m[i \in 1 .. Len(p) + 1] ==
        IF i > Len(p) THEN {Len(text) + 1}
        ELSE IF p[i] = Percent THEN {j \in 1 .. Len(text) + 1 : \E k \in m[i + 1] : j <= k}
        ELSE LET literal == p[i] = Backslash /\ i < Len(p)
                 next    == IF literal THEN i + 2 ELSE i + 1
             IN {j \in 1 .. Len(text) :
                   /\ \/ ~literal /\ p[i] = Underscore
                      \/ Lower(text[j]) = Lower(p[next - 1])
                   /\ j + 1 \in m[next]}
  IN 1 \in m[1]

-----------------------------------------------------------------------------
(* What a search is for, stated without patterns *)

ContainsTerm(text, term) ==
  \E k \in 0 .. Len(text) - Len(term) :
    \A i \in 1 .. Len(term) : Lower(text[k + i]) = Lower(term[i])

=============================================================================
