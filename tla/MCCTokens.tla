------------------------------ MODULE MCCTokens ------------------------------
(***************************************************************************)
(* A small instance of CTokens: every short text over the characters of    *)
(* numbers, of quotes, of comments and of names.                           *)
(***************************************************************************)
EXTENDS CTokens

UpTo(n, S) == UNION {[1 .. k -> S] : k \in 0 .. n}

NumberChars == {"0", "1", "8", "x", "e", "p", ".", "+", "f", "l", "u"}
QuoteChars  == {"\"", "'", "\\", "n", "x", "1", "L", "\n"}
BlankChars  == {"/", "*", "\\", "\n", "\r", " ", "a"}
NameChars   == {"i", "f", "d", "o", "_", "1", "^", "=", "+"}

MCChar == NumberChars \cup QuoteChars \cup BlankChars \cup NameChars
MCKeyword == {<<"i", "f">>, <<"d", "o">>}
MCOperator == {<<".">>, <<".", ".", ".">>, <<"+">>, <<"+", "+">>, <<"+", "=">>,
               <<"=">>, <<"=", "=">>, <<"/">>, <<"/", "=">>, <<"*">>, <<"*", "=">>}

(* Longer ones over fewer characters: 0x1p+1, 1.e+1f, // behind a splice.  *)
MCTexts == UpTo(3, NumberChars) \cup UpTo(4, {"0", "8", "x", "u", "l"})
           \cup UpTo(6, {"0", "x", "1", "p", "."}) \cup UpTo(5, {"1", "e", "+", ".", "f", "l"})
           \cup UpTo(4, QuoteChars) \cup UpTo(5, BlankChars)
           \cup UpTo(4, NameChars)
=============================================================================
