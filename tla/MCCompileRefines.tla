-------------------------- MODULE MCCompileRefines --------------------------
(***************************************************************************)
(* A small instance of CompileRefines, with every kind of fragment.        *)
(***************************************************************************)
EXTENDS CompileRefines

MCChar == {"a", "{", "}", "|", ")"}
MCMacroName == {"D"}

Zero == [k |-> "char", c |-> "a"]
Every ==
  {Zero,
   [k |-> "open", look |-> FALSE, inv |-> FALSE],
   [k |-> "close"], [k |-> "bar"], [k |-> "question"],
   [k |-> "quant", min |-> 0, max |-> SIZE_MAX],
   [k |-> "brace", min |-> 2, max |-> 3],
   [k |-> "macro", name |-> "D"], [k |-> "bad", t |-> "T_GROUP_START"]}

MCMacroDefs ==
  {[name |-> "D", value |-> <<[k |-> "open", look |-> TRUE, inv |-> TRUE], Zero>>]}

MCRepeats == [min: {0, 2}, max: {1, 3, SIZE_MAX}]
=============================================================================
