------------------------------- MODULE Texts --------------------------------
(***************************************************************************)
(* Texts as sequences of character codes, and what the program takes from  *)
(* Go's package strings.                                                   *)
(***************************************************************************)
EXTENDS Integers, Sequences, SequencesExt

SPACE == 32
DQUOTE == 34
HASH == 35
SQUOTE == 39
COMMA == 44
EQUALS == 61

\* IndexByte, counted from one: 0 if c does not occur in s.
Find(c, s) == SelectInSeq(s, LAMBDA d : d = c)

\* Cut at the first c, which occurs.
Before(c, s) == SubSeq(s, 1, Find(c, s) - 1)
After(c, s) == SubSeq(s, Find(c, s) + 1, Len(s))

Split(c, s) ==
  FoldLeft(LAMBDA acc, d : IF d = c THEN Append(acc, <<>>)
                           ELSE [acc EXCEPT ![Len(acc)] = Append(@, d)], << <<>> >>, s)

TrimSpace(s) ==
  LET first == SelectInSeq(s, LAMBDA d : d # SPACE)
      last  == SelectLastInSeq(s, LAMBDA d : d # SPACE)
  IN IF first = 0 THEN <<>> ELSE SubSeq(s, first, last)
=============================================================================
