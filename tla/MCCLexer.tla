------------------------------ MODULE MCCLexer ------------------------------
(***************************************************************************)
(* A small instance of CLexer: files of up to two characters.              *)
(***************************************************************************)
EXTENDS CLexer

MCTexts == {<<"x">>, <<"n", "x">>, <<"n", "n">>}
=============================================================================
