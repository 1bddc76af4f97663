--------------------------- MODULE MCRegexCompile ---------------------------
(***************************************************************************)
(* Small instances of RegexCompile: the fragments of the patterns and the  *)
(* macros that the runs give to the compiler.                              *)
(***************************************************************************)
EXTENDS RegexCompile

MCChar == {"a", "b", "{", "}", "|", ")"}
MCMacroName == {"D", "N"}

Lit(c)  == [k |-> "char", c |-> c]
Atom(t) == [k |-> "atom", t |-> t]
Bar     == [k |-> "bar"]
Close   == [k |-> "close"]
Open    == [k |-> "open", look |-> FALSE, inv |-> FALSE]
Lazy    == [k |-> "question"]
Plus    == [k |-> "quant", min |-> 1, max |-> SIZE_MAX]
Times   == [k |-> "brace", min |-> 2, max |-> 3]
Use(m)  == [k |-> "macro", name |-> m]
Bad(t)  == [k |-> "bad", t |-> t]

(* The value of N uses D.                                                  *)
MCMacroDefs == {[name |-> "D", value |-> <<Atom("T_CHARCLASS"), Lazy>>],
                [name |-> "N", value |-> <<Open, Use("D"), Bar>>]}
NoMacroDefs == {}

(* The fragments of patterns that use macros and often fail, and those of  *)
(* the run about counted repetition.                                       *)
Reused == {Lit("a"), Open, Close, Bar, Plus, Use("D"), Use("N"), Bad("T_CHARCLASS")}
Braces == {Lit("a"), Atom("T_DOT_ALL"), Open, Times}
=============================================================================
