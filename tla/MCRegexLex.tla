----------------------------- MODULE MCRegexLex -----------------------------
(***************************************************************************)
(* A small instance of RegexLex: two patterns that match whatever they     *)
(* like, on texts of up to three characters.                               *)
(***************************************************************************)
EXTENDS RegexLex

MCTexts == {<<>>, <<"x">>, <<"n", "x">>, <<"x", "n", "x">>}
=============================================================================
